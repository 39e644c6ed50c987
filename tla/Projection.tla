----------------------------- MODULE Projection -----------------------------
(***************************************************************************)
(* The Minibook projection: a sync run reads the Gateway's ledger-ordered  *)
(* feed page by page, claims each event in the local cursor store, upserts *)
(* it into Minibook, commits it, acknowledges it, and moves the feed       *)
(* cursor.  Runs may overlap, stop at any point, and lose the answer to a  *)
(* request that Minibook still executes later.                             *)
(*                                                                         *)
(* An event is its position in the feed; positions are ledger indices.     *)
(* Its fingerprint is the rendering of the event (a Rendering): the Gateway    *)
(* renders on every read and a later release may render differently.       *)
(* Times are abstracted: a claim is live until Expire says it is not.      *)
(***************************************************************************)
EXTENDS Integers, FiniteSets, Sequences

CONSTANTS Job,         (* subjects named after a factory job                *)
          Build,       (* subjects of Codex build results                   *)
          Syncer,      (* invocations of the sync script that may overlap   *)
          Rebuilder,   (* those of them that may ask for --full-rebuild     *)
          PageSize,    (* the feed's page limit                             *)
          MaxFeed,     (* bound: events ever in the feed                    *)
          MaxVersion,  (* bound: highest version of a build subject         *)
          MaxRerender, (* bound: events a new release renders differently   *)
          MaxFaults,   (* bound: crashes and requests given up on           *)
          FirstFeed    (* length of the feed before the first run           *)

ASSUME ProjectionAssumption ==
  /\ Job \cap Build = {}
  /\ Rebuilder \subseteq Syncer
  /\ PageSize \in Nat \ {0}
  /\ MaxFeed \in Nat /\ MaxVersion \in Nat \ {0}
  /\ MaxRerender \in Nat /\ MaxFaults \in Nat
  /\ FirstFeed \in 0..MaxFeed

VARIABLES
  feed,        (* the ledger's projectable records, in ledger order         *)
  print,       (* how the Gateway renders each of them today                *)
  processed,   (* processed_projection_events: event -> fingerprint         *)
  heads,       (* projection_subject_heads: subject -> version, 0 for none  *)
  eventClaims, (* projection_event_claims: event -> claim                   *)
  subjectClaims, (* projection_subject_claims: subject -> event, 0 for none *)
  quarantined, (* projection_quarantine                                     *)
  cursor,      (* projection_state 'feed_cursor'                            *)
  versioned,   (* projection_state 'contract_version' is "v2"               *)
  rebuilding,  (* projection_state 'rebuild_in_progress' is set             *)
  rows,        (* Minibook: projection_event_posts, event -> fingerprint    *)
  open,        (* Minibook: posts whose status is "open"                    *)
  remoteHeads, (* Minibook: projection_subject_heads_v2                     *)
  requests,    (* upserts sent to Minibook and not executed yet             *)
  acks,        (* events acknowledged to the Gateway                        *)
  runs,        (* the local state of each invocation                        *)
  faults       (* crashes and given-up requests so far                      *)

store  == <<processed, heads, eventClaims, subjectClaims, quarantined,
            cursor, versioned, rebuilding>>
ledger == <<feed, print>>
mirror == <<rows, open, remoteHeads>>
vars   == <<ledger, store, mirror, requests, acks, runs, faults>>

Subject == Job \cup Build
Id      == 1..MaxFeed
Rendering   == {1, 2}
NoPrint == 0
Event   == [kind : {"setup", "promoted", "result"}, subject : Subject,
            version : Nat \ {0}]
Gone    == "gone"                     (* an owner id no live run has *)
NoClaim == [owner |-> "none"]
Claim   == [owner : Syncer \cup {Gone}, print : Rendering, live : BOOLEAN]

Absent  == -2                         (* no feed_cursor row        *)
Nowhere == -1                         (* the cursor text "-1"      *)

Least(x, y)  == IF x < y THEN x ELSE y
Highest(x, y) == IF x < y THEN y ELSE x
Listed  == 1..Len(feed)
Setups(s) == {i \in Listed : feed[i].kind = "setup" /\ feed[i].subject = s}

Idle == [pc |-> "idle", mode |-> "none", at |-> 1, upto |-> 0, more |-> FALSE,
         flaw |-> FALSE, seen |-> [i \in Id |-> NoPrint], after |-> Absent,
         mend |-> {}, retire |-> {}]

Pc  == {"idle", "fetch", "begin", "event", "waiting", "written", "stale", "conflict",
        "drop", "ack", "survey", "repair", "sign", "checkpoint"}
Run == [pc : Pc, mode : {"none", "incremental", "rebuild"}, at : 1..(MaxFeed + 1),
        upto : Nowhere..MaxFeed, more : BOOLEAN, flaw : BOOLEAN,
        seen : [Id -> Rendering \cup {NoPrint}], after : Absent..MaxFeed,
        mend : SUBSET Id, retire : SUBSET Id]
Request == [run : Syncer, event : Id, print : Rendering]

TypeOK ==
  /\ feed \in Seq(Event) /\ Len(feed) <= MaxFeed /\ print \in [Id -> Rendering]
  /\ processed \in [Id -> Rendering \cup {NoPrint}]
  /\ heads \in [Subject -> Nat]
  /\ eventClaims \in [Id -> Claim \cup {NoClaim}]
  /\ subjectClaims \in [Subject -> 0..MaxFeed]
  /\ quarantined \subseteq Id
  /\ cursor \in Absent..MaxFeed
  /\ versioned \in BOOLEAN /\ rebuilding \in BOOLEAN
  /\ rows \in [Id -> Rendering \cup {NoPrint}] /\ open \subseteq Id
  /\ remoteHeads \in [Subject -> Nat]
  /\ requests \subseteq Request /\ acks \subseteq Id
  /\ faults \in 0..MaxFaults
  /\ runs \in [Syncer -> Run]

FirstEvent(s) == [kind |-> IF s \in Job THEN "setup" ELSE "result",
                  subject |-> s, version |-> 1]

Init ==
  /\ \E s \in Subject :
       feed = [i \in 1..FirstFeed |-> [FirstEvent(s) EXCEPT !.version = i]]
  /\ print = [i \in Id |-> 1]
  /\ processed = [i \in Id |-> NoPrint] /\ heads = [s \in Subject |-> 0]
  /\ eventClaims = [i \in Id |-> NoClaim]
  /\ subjectClaims = [s \in Subject |-> 0]
  /\ quarantined = {} /\ cursor = Absent
  /\ versioned = FALSE /\ rebuilding = FALSE
  /\ rows = [i \in Id |-> NoPrint] /\ open = {}
  /\ remoteHeads = [s \in Subject |-> 0]
  /\ requests = {} /\ acks = {} /\ faults = 0
  /\ runs = [p \in Syncer |-> Idle]

(* ----------------------------- the Gateway ----------------------------- *)

(* A record joins the ledger.  The setup revisions of a job count up from  *)
(* 1; a promotion carries the version of the job, here 1, once; a build    *)
(* result carries the version of the command it answers.                   *)
Record(s) ==
  /\ Len(feed) < MaxFeed
  /\ \E e \in
       IF s \in Job
       THEN {[kind |-> "setup", subject |-> s, version |-> Cardinality(Setups(s)) + 1]}
            \cup {[kind |-> "promoted", subject |-> s, version |-> 1]}
       ELSE [kind : {"result"}, subject : {s}, version : 1..MaxVersion] :
       /\ e.kind = "promoted" => \A i \in Listed : feed[i] # e
       /\ feed' = Append(feed, e)
  /\ UNCHANGED <<print, store, mirror, requests, acks, runs, faults>>

(* A new release of the Gateway renders an old record differently.         *)
Rerender(i) ==
  /\ i \in Listed /\ print[i] = 1
  /\ Cardinality({j \in Id : print[j] # 1}) < MaxRerender
  /\ print' = [print EXCEPT ![i] = 2]
  /\ UNCHANGED <<feed, store, mirror, requests, acks, runs, faults>>

(* ---------------------------- the cursor store ------------------------- *)

SubjectOf(i) == feed[i].subject
VersionOf(i) == feed[i].version

(* Deleting by event id removes both claim rows of the event.              *)
WithoutEvents(S) == [i \in Id |-> IF i \in S THEN NoClaim ELSE eventClaims[i]]
(* Faulty: only the rows keyed by event are deleted.                       *)
WithoutSubjectsLeft(S) == subjectClaims
WithoutSubjects(S) == [s \in Subject |-> IF subjectClaims[s] \in S THEN 0
                                         ELSE subjectClaims[s]]
DeleteClaims(S) == /\ eventClaims' = WithoutEvents(S)
                   /\ subjectClaims' = WithoutSubjects(S)

(* Faulty: only a living owner's claim can be taken over.                  *)
LapsedOfLiving(i) == /\ eventClaims[i] # NoClaim /\ ~eventClaims[i].live
                     /\ eventClaims[i].owner # Gone
Lapsed(i) == eventClaims[i] # NoClaim /\ ~eventClaims[i].live

(* What claim_event answers for the rendering q of event i.  A run never   *)
(* asks for an event it already holds.                                     *)
ClaimOutcome(i, q) ==
  LET rival == WithoutSubjects({j \in Id : Lapsed(j)})[SubjectOf(i)] IN
  CASE processed[i] = q -> "duplicate"
    [] processed[i] \notin {NoPrint, q} -> "conflict"
    [] processed[i] = NoPrint /\ eventClaims[i] # NoClaim
         /\ eventClaims[i].print # q -> "conflict"
    [] OTHER ->
         IF eventClaims[i] # NoClaim /\ eventClaims[i].live THEN "busy"
         ELSE IF VersionOf(i) <= heads[SubjectOf(i)] THEN "stale"
         ELSE IF rival # 0
              THEN IF VersionOf(rival) > VersionOf(i) THEN "stale" ELSE "busy"
         ELSE "acquired"

(* Expired rows met on the way are deleted: the event's own rows, and when *)
(* the head admits the event, the rows of an expired claim on its subject. *)
Swept(i, outcome) ==
  {j \in Id : /\ Lapsed(j)
              /\ \/ j = i /\ outcome \notin {"duplicate", "conflict"}
                 \/ j = subjectClaims[SubjectOf(i)] /\ outcome = "acquired"}

(* A run that ends leaves its claims to an owner id nobody has any more.   *)
Abandon(claims, p) ==
  [i \in Id |-> IF claims[i] # NoClaim /\ claims[i].owner = p
                THEN [claims[i] EXCEPT !.owner = Gone] ELSE claims[i]]

(* The run raises: the script exits.                                       *)
Raise(p) == runs' = [runs EXCEPT ![p] = Idle]

(* Faulty: a busy event does not stop the page.                            *)
AdvancedAnyway(r, flaw) ==
  IF r.at < r.upto THEN [r EXCEPT !.pc = "event", !.at = r.at + 1]
  ELSE [r EXCEPT !.pc = IF r.mode = "rebuild" THEN "survey" ELSE "checkpoint"]

(* Faulty: a rebuild ends like an incremental page.                        *)
AdvancedAlike(r, flaw) ==
  LET bad == r.flaw \/ (flaw /\ r.mode = "incremental") IN
  CASE r.at < r.upto -> [r EXCEPT !.pc = "event", !.at = r.at + 1, !.flaw = bad]
    [] r.at >= r.upto /\ bad -> Idle
    [] OTHER -> [r EXCEPT !.pc = "checkpoint"]

(* After an event: the next one of the page, or what follows the page.  A  *)
(* page with a busy event, and a rebuild with any event that was not       *)
(* projected, is given up.                                                 *)
Advanced(r, flaw) ==
  LET bad == r.flaw \/ flaw IN
  CASE r.at < r.upto -> [r EXCEPT !.pc = "event", !.at = r.at + 1, !.flaw = bad]
    [] r.at >= r.upto /\ bad -> Idle
    [] OTHER -> [r EXCEPT !.pc = IF r.mode = "rebuild" THEN "survey" ELSE "checkpoint"]

Go(p, pc) == runs' = [runs EXCEPT ![p].pc = pc]

(* ---------------------------- the sync script -------------------------- *)

(* --apply: refuse an interrupted rebuild and unversioned state, then read *)
(* the cursor the feed will be asked to continue from.                     *)
StartIncremental(p) ==
  /\ runs[p].pc = "idle"
  /\ ~rebuilding
  /\ ~versioned => /\ cursor = Absent
                   /\ \A i \in Id : processed[i] = NoPrint
                   /\ \A s \in Subject : heads[s] = 0
  /\ runs' = [runs EXCEPT ![p] = [Idle EXCEPT !.pc = "fetch", !.mode = "incremental",
                                              !.after = cursor]]
  /\ UNCHANGED <<ledger, store, mirror, requests, acks, faults>>

(* The page after a cursor: at most PageSize records, the index of the     *)
(* last one, or the cursor itself when there is none.  "-1" is refused by  *)
(* the route's pattern, so a run with that cursor cannot take this step.   *)
Page(r, after, size) ==
  LET from == Highest(after, 0)
      last == IF from < Len(feed) THEN Least(from + size, Len(feed)) ELSE after
      shown == (from + 1)..last
      s == [r EXCEPT !.at = from + 1, !.upto = last, !.more = last < Len(feed),
                     !.seen = [i \in Id |-> IF i \in shown THEN print[i] ELSE NoPrint]]
  IN  [s EXCEPT !.pc = IF shown # {} THEN "event" ELSE "checkpoint"]

FetchPage(p) ==
  /\ runs[p].pc = "fetch" /\ runs[p].after # Nowhere
  /\ runs' = [runs EXCEPT ![p] =
                Page(@, IF @.after = Absent THEN Nowhere ELSE @.after, PageSize)]
  /\ UNCHANGED <<ledger, store, mirror, requests, acks, faults>>

(* --full-rebuild: read the whole feed first.                              *)
StartRebuild(p) ==
  /\ p \in Rebuilder /\ runs[p].pc = "idle"
  /\ runs' = [runs EXCEPT ![p] =
       [Page([Idle EXCEPT !.mode = "rebuild"], Nowhere, MaxFeed) EXCEPT !.pc = "begin"]]
  /\ UNCHANGED <<ledger, store, mirror, requests, acks, faults>>

(* begin_v2_full_rebuild resets the local state and leaves the marker.     *)
BeginRebuild(p) ==
  /\ runs[p].pc = "begin"
  /\ processed' = [i \in Id |-> NoPrint] /\ heads' = [s \in Subject |-> 0]
  /\ eventClaims' = [i \in Id |-> NoClaim]
  /\ subjectClaims' = [s \in Subject |-> 0]
  /\ quarantined' = {} /\ rebuilding' = TRUE
  /\ Go(p, IF runs[p].upto >= 1 THEN "event" ELSE "survey")
  /\ UNCHANGED <<ledger, cursor, versioned, mirror, requests, acks, faults>>

(* project(): claim the event; an acquired claim sends the upsert.         *)
ClaimEvent(p) ==
  LET r == runs[p]
      i == r.at
      outcome == ClaimOutcome(i, r.seen[i])
      swept == Swept(i, outcome)
  IN
  /\ r.pc = "event"
  /\ \/ /\ outcome = "acquired"
        /\ eventClaims' = [WithoutEvents(swept) EXCEPT
                             ![i] = [owner |-> p, print |-> r.seen[i], live |-> TRUE]]
        /\ subjectClaims' = [WithoutSubjects(swept) EXCEPT ![SubjectOf(i)] = i]
        /\ requests' = requests \cup {[run |-> p, event |-> i, print |-> r.seen[i]]}
        /\ Go(p, "waiting")
     \/ /\ outcome \in {"stale", "conflict"}
        /\ DeleteClaims(swept)
        /\ Go(p, "drop")
        /\ UNCHANGED requests
     \/ /\ outcome = "busy"
        /\ DeleteClaims(swept)
        /\ runs' = [runs EXCEPT ![p] = Advanced(r, TRUE)]
        /\ UNCHANGED requests
     \/ /\ outcome = "duplicate"
        /\ IF r.mode = "incremental" /\ feed[i].kind # "result"
           THEN Go(p, "ack")
           ELSE runs' = [runs EXCEPT ![p] = Advanced(r, FALSE)]
        /\ UNCHANGED <<eventClaims, subjectClaims, requests>>
  /\ UNCHANGED <<ledger, processed, heads, quarantined, cursor, versioned, rebuilding,
                 mirror, acks, faults>>

(* ------------------------------- Minibook ------------------------------ *)

(* Faulty: a known event is written whatever its fingerprint.              *)
UpsertOverwriting(i, q) ==
  IF rows[i] # NoPrint \/ VersionOf(i) > remoteHeads[SubjectOf(i)]
  THEN "written" ELSE "stale"

(* Faulty: the head of the subject is not asked.                           *)
UpsertAnyVersion(i, q) ==
  IF rows[i] \in {NoPrint, q} THEN "written" ELSE "conflict"

UpsertOutcome(i, q) ==
  CASE rows[i] = q -> "written"
    [] rows[i] \notin {NoPrint, q} -> "conflict"
    [] rows[i] = NoPrint /\ VersionOf(i) < remoteHeads[SubjectOf(i)] -> "stale"
    [] rows[i] = NoPrint /\ VersionOf(i) = remoteHeads[SubjectOf(i)] -> "conflict"
    [] OTHER -> "written"

(* upsert_projection_post in one transaction: the same event opens its     *)
(* post again; a new one must be above the head of its subject.            *)
Upsert(i, q) ==
  IF UpsertOutcome(i, q) = "written"
  THEN /\ open' = open \cup {i}
       /\ rows' = [rows EXCEPT ![i] = q]
       /\ remoteHeads' = IF rows[i] = NoPrint
                         THEN [remoteHeads EXCEPT ![SubjectOf(i)] = VersionOf(i)]
                         ELSE remoteHeads
  ELSE UNCHANGED mirror

(* Minibook executes a request, whether or not its sender still waits.     *)
Serve(m) ==
  LET r == runs[m.run] IN
  /\ Upsert(m.event, m.print)
  /\ requests' = requests \ {m}
  /\ IF r.pc = "waiting" /\ r.at = m.event /\ r.seen[r.at] = m.print
     THEN Go(m.run, UpsertOutcome(m.event, m.print))
     ELSE UNCHANGED runs
  /\ UNCHANGED <<ledger, store, acks, faults>>

(* ------------------------- after the remote answer --------------------- *)

Mine(p) == LET c == eventClaims[runs[p].at] IN c # NoClaim /\ c.owner = p

(* complete_claim: a lost claim or a head that moved on raises.            *)
CompleteClaim(p) ==
  LET r == runs[p]
      i == r.at
      s == SubjectOf(i)
  IN
  /\ r.pc = "written"
  /\ IF Mine(p) /\ eventClaims[i].live /\ VersionOf(i) > heads[s]
     THEN /\ processed' = [processed EXCEPT ![i] = r.seen[i]]
          /\ heads' = [heads EXCEPT ![s] = VersionOf(i)]
          /\ versioned' = (versioned \/ ~rebuilding)
          /\ DeleteClaims({i})
          /\ IF r.mode = "incremental" /\ feed[i].kind # "result"
             THEN Go(p, "ack")
             ELSE runs' = [runs EXCEPT ![p] = Advanced(r, FALSE)]
     ELSE /\ Raise(p)
          /\ eventClaims' = Abandon(eventClaims, p)
          /\ UNCHANGED <<processed, heads, versioned, subjectClaims>>
  /\ UNCHANGED <<ledger, quarantined, cursor, rebuilding, mirror, requests, acks, faults>>

(* release_claim deletes the rows only while the claim is the caller's.    *)
Released(p) == IF Mine(p) THEN {runs[p].at} ELSE {}

(* Minibook refused the event: release the claim, then quarantine.         *)
ReleaseRefused(p) ==
  /\ runs[p].pc \in {"stale", "conflict"}
  /\ DeleteClaims(Released(p))
  /\ Go(p, "drop")
  /\ UNCHANGED <<ledger, processed, heads, quarantined, cursor, versioned, rebuilding,
                 mirror, requests, acks, faults>>

Quarantine(p) ==
  /\ runs[p].pc = "drop"
  /\ quarantined' = quarantined \cup {runs[p].at}
  /\ runs' = [runs EXCEPT ![p] = Advanced(@, @.mode = "rebuild")]
  /\ UNCHANGED <<ledger, processed, heads, eventClaims, subjectClaims, cursor,
                 versioned, rebuilding, mirror, requests, acks, faults>>

(* The request fails or its answer does not come in time: release, raise.  *)
GiveUp(p) ==
  /\ runs[p].pc = "waiting" /\ faults < MaxFaults
  /\ DeleteClaims(Released(p))
  /\ Raise(p)
  /\ faults' = faults + 1
  /\ UNCHANGED <<ledger, processed, heads, quarantined, cursor, versioned, rebuilding,
                 mirror, requests, acks>>

(* acknowledgement() wants the one open post with the content of the event *)
(* the run has read; without it the run raises.                            *)
Confirmed(i, q) == i \in open /\ rows[i] = q

(* The Gateway renders the event again and refuses an acknowledgement of   *)
(* anything else; then too the run raises.                                 *)
Matches(i, q) == print[i] = q

(* The Gateway files the acknowledgement once.                             *)
Acknowledge(p) ==
  LET r == runs[p] IN
  /\ r.pc = "ack"
  /\ IF Confirmed(r.at, r.seen[r.at]) /\ Matches(r.at, r.seen[r.at])
     THEN /\ acks' = acks \cup {r.at}
          /\ runs' = [runs EXCEPT ![p] = Advanced(r, FALSE)]
     ELSE Raise(p) /\ UNCHANGED acks
  /\ UNCHANGED <<ledger, store, mirror, requests, faults>>

(* Faulty: the cursor is the next index and not the last one.              *)
CheckpointNext(p) ==
  LET r == runs[p] IN
  /\ r.pc = "checkpoint"
  /\ cursor' = r.upto + 1 /\ versioned' = TRUE /\ rebuilding' = FALSE
  /\ runs' = [runs EXCEPT ![p] = IF r.mode = "incremental" /\ r.more
                                 THEN [r EXCEPT !.pc = "fetch", !.after = r.upto + 1]
                                 ELSE Idle]
  /\ UNCHANGED <<ledger, processed, heads, eventClaims, subjectClaims, quarantined,
                 mirror, requests, acks, faults>>

(* checkpoint_v2_feed: cursor, version and marker in one transaction.      *)
Checkpoint(p) ==
  LET r == runs[p] IN
  /\ r.pc = "checkpoint"
  /\ cursor' = r.upto /\ versioned' = TRUE /\ rebuilding' = FALSE
  /\ runs' = [runs EXCEPT ![p] = IF r.mode = "incremental" /\ r.more
                                 THEN [r EXCEPT !.pc = "fetch", !.after = r.upto]
                                 ELSE Idle]
  /\ UNCHANGED <<ledger, processed, heads, eventClaims, subjectClaims, quarantined,
                 mirror, requests, acks, faults>>

(* ------------------------ the end of a full rebuild -------------------- *)

Expected(r) == 1..r.upto

(* reconcile(apply=True) lists the open posts once and decides from that   *)
(* list: what to upsert again, and what to retire.                         *)
Survey(p) ==
  LET r == runs[p] IN
  /\ r.pc = "survey"
  /\ runs' = [runs EXCEPT ![p] =
       [r EXCEPT !.pc = "repair", !.retire = open \ Expected(r),
                 !.mend = {i \in Expected(r) : i \notin open \/ rows[i] # r.seen[i]}]]
  /\ UNCHANGED <<ledger, store, mirror, requests, acks, faults>>

(* One upsert, missing posts before changed ones and so in no fixed order  *)
(* here; a refusal raises.                                                 *)
Mend(p) ==
  LET r == runs[p] IN
  /\ r.pc = "repair"
  /\ \E i \in r.mend :
       /\ Upsert(i, r.seen[i])
       /\ IF UpsertOutcome(i, r.seen[i]) = "written"
          THEN runs' = [runs EXCEPT ![p].mend = @ \ {i}]
          ELSE Raise(p)
  /\ UNCHANGED <<ledger, store, requests, acks, faults>>

(* retire_projection_post closes the post and leaves its identity.         *)
Retire(p) ==
  LET r == runs[p] IN
  /\ r.pc = "repair" /\ r.mend = {}
  /\ \E i \in r.retire : /\ open' = open \ {i}
                         /\ runs' = [runs EXCEPT ![p].retire = @ \ {i}]
  /\ UNCHANGED <<ledger, store, rows, remoteHeads, requests, acks, faults>>

(* reconcile(apply=False) must find nothing left to change.                *)
Converge(p) ==
  LET r == runs[p] IN
  /\ r.pc = "repair" /\ r.mend = {} /\ r.retire = {}
  /\ IF open = Expected(r) /\ \A i \in open : rows[i] = r.seen[i]
     THEN runs' = [runs EXCEPT ![p] =
            [r EXCEPT !.pc = "sign",
                      !.mend = {i \in Expected(r) : feed[i].kind # "result"}]]
     ELSE Raise(p)
  /\ UNCHANGED <<ledger, store, mirror, requests, acks, faults>>

IsFirst(i, S) == i \in S /\ \A j \in S : i <= j

(* Acknowledge every promotion and setup of the list, then checkpoint.     *)
Sign(p) ==
  LET r == runs[p] IN
  /\ r.pc = "sign"
  /\ IF r.mend = {} THEN Go(p, "checkpoint") /\ UNCHANGED acks
     ELSE \E i \in r.mend :
            /\ IsFirst(i, r.mend)
            /\ IF Confirmed(i, r.seen[i]) /\ Matches(i, r.seen[i])
               THEN /\ acks' = acks \cup {i}
                    /\ runs' = [runs EXCEPT ![p].mend = @ \ {i}]
               ELSE Raise(p) /\ UNCHANGED acks
  /\ UNCHANGED <<ledger, store, mirror, requests, faults>>

(* ------------------------------- the rest ------------------------------ *)

(* The claim of a run that is gone reaches its expiry.                     *)
ExpireClaim(i) ==
  /\ eventClaims[i] # NoClaim /\ eventClaims[i].live
  /\ eventClaims[i].owner = Gone
  /\ eventClaims' = [eventClaims EXCEPT ![i].live = FALSE]
  /\ UNCHANGED <<ledger, processed, heads, subjectClaims, quarantined, cursor,
                 versioned, rebuilding, mirror, requests, acks, runs, faults>>

(* The claim of a run that still waits expires: the request may take       *)
(* longer than the claim lasts.                                            *)
Overrun(i) ==
  /\ eventClaims[i] # NoClaim /\ eventClaims[i].live
  /\ eventClaims[i].owner # Gone /\ faults < MaxFaults
  /\ eventClaims' = [eventClaims EXCEPT ![i].live = FALSE]
  /\ faults' = faults + 1
  /\ UNCHANGED <<ledger, processed, heads, subjectClaims, quarantined, cursor,
                 versioned, rebuilding, mirror, requests, acks, runs>>

Crash(p) ==
  /\ runs[p].pc # "idle" /\ faults < MaxFaults
  /\ Raise(p)
  /\ eventClaims' = Abandon(eventClaims, p)
  /\ faults' = faults + 1
  /\ UNCHANGED <<ledger, processed, heads, subjectClaims, quarantined, cursor,
                 versioned, rebuilding, mirror, requests, acks>>

(* What an invocation does once it is started.                             *)
Work(p) ==
  \/ FetchPage(p) \/ BeginRebuild(p) \/ ClaimEvent(p) \/ CompleteClaim(p)
  \/ ReleaseRefused(p) \/ Quarantine(p) \/ Acknowledge(p) \/ Checkpoint(p)
  \/ Survey(p) \/ Mend(p) \/ Retire(p) \/ Converge(p) \/ Sign(p)

Next ==
  \/ \E s \in Subject : Record(s)
  \/ \E i \in Id : Rerender(i) \/ ExpireClaim(i) \/ Overrun(i)
  \/ \E m \in requests : Serve(m)
  \/ \E p \in Syncer : StartIncremental(p) \/ StartRebuild(p) \/ Work(p)
                       \/ GiveUp(p) \/ Crash(p)

Spec == Init /\ [][Next]_vars

(* The sync is run again and again, a started run goes on, Minibook        *)
(* executes what it receives, and time passes over abandoned claims.       *)
Fairness ==
  /\ \A p \in Syncer : WF_vars(StartIncremental(p)) /\ WF_vars(Work(p))
  /\ \A i \in Id : WF_vars(ExpireClaim(i))
  /\ \A m \in Request :
       WF_vars(m \in requests /\ Serve(m))

FairSpec == Spec /\ Fairness

-----------------------------------------------------------------------------

(* The two claim tables say the same: a claimed event is the one claim of  *)
(* its subject, whatever deletes, expiries and takeovers came between.     *)
(* (projection_cursor.py inserts and deletes the rows in separate          *)
(* statements, keyed differently.)                                         *)
ClaimsPaired ==
  /\ \A i \in Id : eventClaims[i] # NoClaim =>
       i \in Listed /\ subjectClaims[SubjectOf(i)] = i
  /\ \A s \in Subject : subjectClaims[s] # 0 =>
       SubjectOf(subjectClaims[s]) = s /\ eventClaims[subjectClaims[s]] # NoClaim

(* What the store calls processed is in Minibook with the same content,    *)
(* even when the answer came late, the claim was taken over or a rebuild   *)
(* reset the store in between; and an acknowledged event is there too.     *)
CommittedIsMirrored ==
  /\ \A i \in Id : processed[i] # NoPrint => rows[i] = processed[i]
  /\ \A i \in acks : rows[i] # NoPrint /\ feed[i].kind # "result"

(* The local head of a subject is never ahead of Minibook's.               *)
HeadsBehind == \A s \in Subject : heads[s] <= remoteHeads[s]

(* The feed cursor never passes a version that is lost to Minibook: the    *)
(* event, or one of its subject with the same or a newer version, is there *)
(* or still ahead of the cursor.  (claim_event calls an event stale on the *)
(* strength of a claim that may yet fail.)  An event the Gateway has come  *)
(* to render differently is exempt: it may end as a conflict.              *)
NothingSkipped ==
  \A i \in Id : i <= cursor =>
    \E j \in Listed : /\ SubjectOf(j) = SubjectOf(i)
                      /\ VersionOf(j) >= VersionOf(i)
                      /\ rows[j] # NoPrint \/ j > cursor \/ print[j] # 1

(* Minibook admits the events of a subject in rising versions, each once,  *)
(* and an admitted identity never changes its content: a late request of a *)
(* run that is gone cannot bring an old version back.                      *)
MirrorAdvances ==
  [][\A i \in Id : rows'[i] # rows[i] =>
       /\ rows[i] = NoPrint
       /\ \A j \in Id : rows[j] # NoPrint /\ SubjectOf(j) = SubjectOf(i)
                        => VersionOf(j) < VersionOf(i)]_rows

(* A full rebuild that reaches its checkpoint leaves every event of its    *)
(* list with an open post.  (One rebuild at a time.)                       *)
RebuildConverges ==
  [][\A p \in Syncer :
       /\ runs[p].mode = "rebuild" /\ runs[p].pc = "checkpoint"
       /\ runs'[p].pc = "idle" /\ faults' = faults
       => Expected(runs[p]) \subseteq open]_vars

(* A reset that did not finish is detected: without the marker and without *)
(* a rebuild under way, whatever the cursor has passed is recorded.        *)
(* (begin_v2_full_rebuild deletes the records and keeps the cursor.)       *)
ResetIsDetected ==
  ~rebuilding /\ (\A p \in Syncer : runs[p].mode # "rebuild")
    => \A i \in Id : i <= cursor => processed[i] # NoPrint \/ i \in quarantined

(* Every promotion the cursor has passed is in Minibook.                   *)
PromotionShown ==
  \A i \in Id : i <= cursor /\ feed[i].kind = "promoted" => rows[i] # NoPrint

(* Every record of the ledger is passed by the cursor sooner or later, or  *)
(* an interrupted rebuild waits for another one.  (Only what fairness      *)
(* covers can help: nobody need start a rebuild.)                          *)
CaughtUp == \A i \in Id : i \in Listed ~> (cursor >= i \/ rebuilding)
=============================================================================
