------------------------- MODULE Projection_proofs -------------------------
(***************************************************************************)
(* What holds of the Minibook projection for any subjects, any number of   *)
(* overlapping sync runs and rebuilds, any page size, any bounds.          *)
(***************************************************************************)
EXTENDS Projection, FiniteSetTheorems, SequenceTheorems, TLAPS

EventStages == {"event", "waiting", "written", "stale", "conflict", "drop", "ack"}
EndStages   == {"survey", "repair", "sign", "checkpoint"}

(* What a run holds of its page: n is the length of the feed.              *)
Shown(r, n) ==
  /\ r.pc \notin {"idle", "fetch"} =>
       \A i \in r.at..r.upto : i \in 1..n /\ r.seen[i] \in Rendering
  /\ r.pc \in EventStages => r.at <= r.upto
  /\ r.mode = "rebuild" => \A i \in 1..r.upto : i \in 1..n /\ r.seen[i] \in Rendering
  /\ r.pc \in {"begin", "survey", "repair", "sign"} => r.mode = "rebuild"
  /\ r.pc \in {"repair", "sign"} => r.mend \subseteq 1..r.upto
  /\ r.pc = "begin" => r.at = 1
  /\ r.pc = "fetch" => r.mode = "incremental"

RunsShown == \A p \in Syncer : Shown(runs[p], Len(feed))
AskedListed == \A m \in requests : m.event \in 1..Len(feed)

Typed == TypeOK /\ RunsShown /\ AskedListed

LEMMA Constants == /\ MaxFeed \in Nat /\ PageSize \in Nat \ {0}
                   /\ MaxVersion \in Nat \ {0} /\ MaxRerender \in Nat
                   /\ MaxFaults \in Nat /\ FirstFeed \in 0..MaxFeed
                   /\ Rebuilder \subseteq Syncer /\ Job \cap Build = {}
  BY ProjectionAssumption DEF ProjectionAssumption

LEMMA IdleFits ==
  ASSUME NEW n \in Nat
  PROVE  Idle \in Run /\ Shown(Idle, n)
  <1>1. Idle \in Run
    BY Constants DEF Idle, Run, Pc, Nowhere, Absent, Rendering, NoPrint, Id
  <1>2. Shown(Idle, n)
    BY DEF Idle, Shown, EventStages
  <1> QED BY <1>1, <1>2

LEMMA GoFits ==
  ASSUME NEW n \in Nat, NEW r \in Run, Shown(r, n), r.pc \in EventStages,
         NEW pc \in EventStages
  PROVE  [r EXCEPT !.pc = pc] \in Run /\ Shown([r EXCEPT !.pc = pc], n)
  <1>1. pc \in Pc
    BY DEF EventStages, Pc
  <1>2. [r EXCEPT !.pc = pc] \in Run
    BY <1>1 DEF Run
  <1>3. Shown([r EXCEPT !.pc = pc], n)
    BY <1>1 DEF Run, Shown, EventStages
  <1> QED BY <1>2, <1>3

LEMMA AdvancedFits ==
  ASSUME NEW n \in Nat, NEW r \in Run, Shown(r, n), r.pc \in EventStages,
         NEW flaw \in BOOLEAN
  PROVE  Advanced(r, flaw) \in Run /\ Shown(Advanced(r, flaw), n)
  <1> DEFINE bad == r.flaw \/ flaw
             next == [r EXCEPT !.pc = "event", !.at = r.at + 1, !.flaw = bad]
             end == [r EXCEPT !.pc = IF r.mode = "rebuild" THEN "survey"
                                     ELSE "checkpoint"]
  <1>0. /\ r.at \in 1..(MaxFeed + 1) /\ r.upto \in Nowhere..MaxFeed
        /\ r.flaw \in BOOLEAN /\ bad \in BOOLEAN
    BY DEF Run
  <1>1. CASE r.at < r.upto
    <2>0. r.at + 1 \in 1..(MaxFeed + 1) /\ "event" \in Pc
      BY <1>0, <1>1, Constants DEF Pc, Nowhere
    <2>1. next \in Run
      BY <1>0, <2>0 DEF Run
    <2>2. Shown(next, n)
      BY <1>0, <1>1, Constants DEF Run, Shown, EventStages, Nowhere
    <2>3. Advanced(r, flaw) = next
      BY <1>1, <1>0 DEF Advanced
    <2> QED BY <2>1, <2>2, <2>3
  <1>2. CASE ~(r.at < r.upto) /\ bad
    <2>1. Advanced(r, flaw) = Idle
      BY <1>2, <1>0, Constants DEF Advanced, Nowhere
    <2> QED BY <2>1, IdleFits
  <1>3. CASE ~(r.at < r.upto) /\ ~bad
    <2>1. Advanced(r, flaw) = end
      BY <1>3, <1>0 DEF Advanced
    <2>2. end \in Run
      BY DEF Run, Pc
    <2>3. Shown(end, n)
      BY <1>0, <1>3, Constants DEF Run, Shown, EventStages, Nowhere
    <2> QED BY <2>1, <2>2, <2>3
  <1> QED BY <1>1, <1>2, <1>3

LEMMA PageFits ==
  ASSUME TypeOK, NEW r \in Run, NEW after \in Nowhere..MaxFeed, NEW size \in Nat,
         r.mode # "rebuild" \/ after = Nowhere
  PROVE  LET x == Page(r, after, size) IN
         /\ x \in Run /\ Shown(x, Len(feed))
         /\ x.mode = r.mode /\ (after = Nowhere => x.at = 1)
         /\ x.flaw = r.flaw /\ x.after = r.after
         /\ x.pc \in {"event", "checkpoint"}
         /\ x.pc = "event" => x.at = Highest(after, 0) + 1
         /\ x.pc = "checkpoint" => x.upto <= Highest(after, 0)
         /\ \A i \in x.at..x.upto : x.seen[i] = print[i]
  <1> DEFINE from == Highest(after, 0)
             last == IF from < Len(feed) THEN Least(from + size, Len(feed)) ELSE after
             shown == (from + 1)..last
             seen == [i \in Id |-> IF i \in shown THEN print[i] ELSE NoPrint]
             pc == IF shown # {} THEN "event" ELSE "checkpoint"
             x == [r EXCEPT !.at = from + 1, !.upto = last, !.more = last < Len(feed),
                            !.seen = seen, !.pc = pc]
  <1>1. Page(r, after, size) = x
    BY DEF Page, Run
  <1>2. /\ Len(feed) \in Nat /\ Len(feed) <= MaxFeed /\ MaxFeed \in Nat
        /\ print \in [Id -> Rendering] /\ after \in Int /\ -1 <= after /\ after <= MaxFeed
    BY Constants DEF TypeOK, Nowhere
  <1>3. from \in 0..MaxFeed /\ (after = Nowhere => from = 0)
        /\ (after <= from)
    BY <1>2 DEF Highest, Nowhere
  <1>4. last \in Nowhere..MaxFeed /\ (from < last => last <= Len(feed))
    BY <1>2, <1>3 DEF Least, Nowhere
  <1>5. \A i \in Id : i \in shown => i \in 1..Len(feed) /\ seen[i] \in Rendering
                                   /\ seen[i] = print[i]
    BY <1>2, <1>3, <1>4 DEF Id, Nowhere
  <1>6. shown \subseteq Id
    BY <1>2, <1>3, <1>4 DEF Id, Nowhere
  <1>7. seen \in [Id -> Rendering \cup {NoPrint}]
    BY <1>2
  <1>8. pc \in Pc /\ from + 1 \in 1..(MaxFeed + 1) /\ (last < Len(feed)) \in BOOLEAN
    BY <1>2, <1>3 DEF Pc
  <1>9. x \in Run
    BY <1>4, <1>7, <1>8 DEF Run
  <1>10. /\ x.pc = pc /\ x.mode = r.mode /\ x.at = from + 1 /\ x.upto = last
         /\ x.seen = seen /\ x.flaw = r.flaw /\ x.after = r.after
    BY DEF Run
  <1>11. pc = "event" => from + 1 <= last
    BY <1>3, <1>4 DEF Nowhere
  <1>12. pc = "checkpoint" => last <= from
    BY <1>3, <1>4 DEF Nowhere
  <1>13. \A i \in (from + 1)..last : /\ i \in 1..Len(feed)
                                     /\ seen[i] \in Rendering /\ seen[i] = print[i]
    BY <1>5, <1>6
  <1>14. pc \in {"event", "checkpoint"}
    OBVIOUS
  <1>15. after = Nowhere => from + 1 = 1
    BY <1>3
  <1> HIDE DEF x, from, last, seen, shown, pc
  <1>16. Shown(x, Len(feed))
    <2>1. \A i \in x.at..x.upto : i \in 1..Len(feed) /\ x.seen[i] \in Rendering
      BY <1>13, <1>10
    <2>2. x.mode = "rebuild" => x.at = 1
      BY <1>15, <1>10
    <2> QED BY <1>10, <1>11, <1>14, <2>1, <2>2 DEF Shown, EventStages
  <1>17. \A i \in x.at..x.upto : x.seen[i] = print[i]
    BY <1>13, <1>10
  <1>18. from = Highest(after, 0)
    BY DEF from
  <1> QED BY <1>1, <1>9, <1>10, <1>11, <1>12, <1>14, <1>15, <1>16, <1>17, <1>18

(* ------------------------------- typing -------------------------------- *)

LEMMA EventTyped ==
  ASSUME TypeOK, NEW i \in 1..Len(feed)
  PROVE  /\ feed[i] \in Event /\ SubjectOf(i) \in Subject
         /\ VersionOf(i) \in Nat \ {0} /\ i \in Id
  <1>1. feed \in Seq(Event) /\ Len(feed) <= MaxFeed /\ Len(feed) \in Nat
    BY DEF TypeOK
  <1>2. feed[i] \in Event /\ i \in Id
    BY <1>1, Constants DEF Id
  <1> QED BY <1>2 DEF Event, SubjectOf, VersionOf

LEMMA OutcomeOfUpsert ==
  ASSUME NEW i, NEW q
  PROVE  UpsertOutcome(i, q) \in {"written", "stale", "conflict"}
  BY DEF UpsertOutcome

LEMMA UpsertTyped ==
  ASSUME TypeOK, NEW i \in 1..Len(feed), NEW q \in Rendering, Upsert(i, q)
  PROVE  /\ rows' \in [Id -> Rendering \cup {NoPrint}] /\ open' \subseteq Id
         /\ remoteHeads' \in [Subject -> Nat]
  <1>1. /\ rows \in [Id -> Rendering \cup {NoPrint}] /\ open \subseteq Id
        /\ remoteHeads \in [Subject -> Nat]
    BY DEF TypeOK
  <1>2. i \in Id /\ SubjectOf(i) \in Subject /\ VersionOf(i) \in Nat
    BY EventTyped
  <1>3. CASE UpsertOutcome(i, q) = "written"
    BY <1>1, <1>2, <1>3 DEF Upsert
  <1>4. CASE UpsertOutcome(i, q) # "written"
    BY <1>1, <1>4 DEF Upsert, mirror
  <1> QED BY <1>3, <1>4

LEMMA RunsStep ==
  ASSUME TypeOK, RunsShown, NEW p \in Syncer, NEW x \in Run,
         Shown(x, Len(feed)), runs' = [runs EXCEPT ![p] = x], feed' = feed
  PROVE  runs' \in [Syncer -> Run] /\ RunsShown'
  <1>1. runs \in [Syncer -> Run]
    BY DEF TypeOK
  <1>2. runs' \in [Syncer -> Run]
    BY <1>1
  <1>3. \A k \in Syncer : Shown(runs'[k], Len(feed'))
    <2> TAKE k \in Syncer
    <2>1. CASE k = p
      BY <1>1, <2>1
    <2>2. CASE k # p
      <3>1. runs'[k] = runs[k] BY <1>1, <2>2
      <3> QED BY <3>1 DEF RunsShown
    <2> QED BY <2>1, <2>2
  <1> QED BY <1>2, <1>3 DEF RunsShown

LEMMA ClaimsTyped ==
  ASSUME TypeOK, NEW S
  PROVE  /\ WithoutEvents(S) \in [Id -> Claim \cup {NoClaim}]
         /\ WithoutSubjects(S) \in [Subject -> 0..MaxFeed]
  BY Constants DEF TypeOK, WithoutEvents, WithoutSubjects

LEMMA AbandonTyped ==
  ASSUME TypeOK, NEW p
  PROVE  Abandon(eventClaims, p) \in [Id -> Claim \cup {NoClaim}]
  <1>1. \A c \in Claim : [c EXCEPT !.owner = Gone] \in Claim
    BY DEF Claim
  <1>2. eventClaims \in [Id -> Claim \cup {NoClaim}]
    BY DEF TypeOK
  <1>3. \A i \in Id : eventClaims[i] # NoClaim => eventClaims[i] \in Claim
    BY <1>2
  <1> QED BY <1>1, <1>2, <1>3 DEF Abandon

(* Every step keeps the types, what the runs hold of their pages, and the  *)
(* requests to events of the feed.                                         *)
LEMMA RecordTyped == Typed /\ (\E s \in Subject : Record(s)) => Typed'
  <1> SUFFICES ASSUME Typed, NEW s \in Subject, Record(s) PROVE Typed'
    OBVIOUS
  <1>1. feed \in Seq(Event) /\ Len(feed) \in Nat /\ Len(feed) < MaxFeed
    BY DEF Typed, TypeOK, Record
  <1>2. Cardinality(Setups(s)) \in Nat
    <2>1. IsFiniteSet(1..Len(feed))
      BY <1>1, FS_Interval
    <2>2. Setups(s) \subseteq 1..Len(feed)
      BY DEF Setups, Listed
    <2> QED BY <2>1, <2>2, FS_Subset, FS_CardinalityType
  <1>3. PICK e \in Event : feed' = Append(feed, e)
    <2>1. [kind |-> "setup", subject |-> s, version |-> Cardinality(Setups(s)) + 1] \in Event
      BY <1>2 DEF Event
    <2>2. [kind |-> "promoted", subject |-> s, version |-> 1] \in Event
      BY DEF Event
    <2>3. [kind : {"result"}, subject : {s}, version : 1..MaxVersion] \subseteq Event
      BY Constants DEF Event
    <2> QED BY <2>1, <2>2, <2>3 DEF Record
  <1>4. feed' \in Seq(Event) /\ Len(feed') = Len(feed) + 1
    BY <1>1, <1>3
  <1>5. TypeOK'
    BY <1>1, <1>4, Constants DEF Typed, TypeOK, Record, store, mirror
  <1>6. RunsShown'
    <2>1. runs' = runs
      BY DEF Record
    <2>2. \A k \in Syncer : runs[k] \in Run /\ Shown(runs[k], Len(feed))
      BY DEF Typed, TypeOK, RunsShown
    <2>3. \A r \in Run : Shown(r, Len(feed)) => Shown(r, Len(feed) + 1)
      BY <1>1 DEF Shown
    <2> QED BY <1>4, <2>1, <2>2, <2>3 DEF RunsShown
  <1>7. AskedListed'
    BY <1>1, <1>4 DEF Typed, AskedListed, Record
  <1> QED BY <1>5, <1>6, <1>7 DEF Typed

LEMMA TimeTyped ==
  Typed /\ (\E i \in Id : Rerender(i) \/ ExpireClaim(i) \/ Overrun(i)) => Typed'
  <1> SUFFICES ASSUME Typed, NEW i \in Id, Rerender(i) \/ ExpireClaim(i) \/ Overrun(i)
               PROVE  Typed'
    OBVIOUS
  <1>1. \A c \in Claim : [c EXCEPT !.live = FALSE] \in Claim
    BY DEF Claim
  <1>2. CASE Rerender(i)
    <2>1. print' \in [Id -> Rendering]
      BY <1>2 DEF Typed, TypeOK, Rerender, Rendering
    <2>2. TypeOK'
      BY <1>2, <2>1 DEF Typed, TypeOK, Rerender, store, mirror
    <2> QED BY <1>2, <2>2 DEF Typed, RunsShown, AskedListed, Rerender
  <1>3. CASE ExpireClaim(i)
    <2>1. eventClaims' \in [Id -> Claim \cup {NoClaim}]
      BY <1>1, <1>3 DEF Typed, TypeOK, ExpireClaim
    <2>2. TypeOK'
      BY <1>3, <2>1 DEF Typed, TypeOK, ExpireClaim, ledger, mirror
    <2> QED BY <1>3, <2>2 DEF Typed, RunsShown, AskedListed, ExpireClaim, ledger
  <1>4. CASE Overrun(i)
    <2>1. eventClaims' \in [Id -> Claim \cup {NoClaim}]
      BY <1>1, <1>4 DEF Typed, TypeOK, Overrun
    <2>2. faults' \in 0..MaxFaults
      BY <1>4, Constants DEF Typed, TypeOK, Overrun
    <2>3. TypeOK'
      BY <1>4, <2>1, <2>2 DEF Typed, TypeOK, Overrun, ledger, mirror
    <2> QED BY <1>4, <2>3 DEF Typed, RunsShown, AskedListed, Overrun, ledger
  <1> QED BY <1>2, <1>3, <1>4

LEMMA ServeTyped == Typed /\ (\E m \in requests : Serve(m)) => Typed'
  <1> SUFFICES ASSUME Typed, NEW m \in requests, Serve(m) PROVE Typed'
    OBVIOUS
  <1>1. m \in Request /\ m.event \in 1..Len(feed) /\ m.print \in Rendering /\ m.run \in Syncer
    BY DEF Typed, TypeOK, AskedListed, Request
  <1>2. TypeOK /\ RunsShown
    BY DEF Typed
  <1>3. /\ rows' \in [Id -> Rendering \cup {NoPrint}] /\ open' \subseteq Id
        /\ remoteHeads' \in [Subject -> Nat]
    BY <1>1, <1>2, UpsertTyped DEF Serve
  <1>4. runs' \in [Syncer -> Run] /\ RunsShown'
    <2>1. feed' = feed
      BY DEF Serve, ledger
    <2>2. CASE runs' = runs
      BY <1>2, <2>1, <2>2 DEF TypeOK, RunsShown
    <2>3. CASE runs' # runs
      <3> DEFINE pc == UpsertOutcome(m.event, m.print)
                 x == [runs[m.run] EXCEPT !.pc = pc]
      <3>1. runs[m.run] \in Run /\ Shown(runs[m.run], Len(feed)) /\ Len(feed) \in Nat
        BY <1>1, <1>2 DEF TypeOK, RunsShown
      <3>2. runs[m.run].pc = "waiting" /\ runs' = [runs EXCEPT ![m.run].pc = pc]
        BY <2>3 DEF Serve, Go
      <3>3. runs' = [runs EXCEPT ![m.run] = x]
        BY <3>2
      <3>4. pc \in EventStages /\ runs[m.run].pc \in EventStages
        BY <3>2, OutcomeOfUpsert DEF EventStages
      <3> HIDE DEF pc
      <3>5. x \in Run /\ Shown(x, Len(feed))
        BY <3>1, <3>4, GoFits
      <3> HIDE DEF x
      <3> QED BY <1>1, <1>2, <2>1, <3>3, <3>5, RunsStep
    <2> QED BY <2>2, <2>3
  <1>5. TypeOK'
    BY <1>2, <1>3, <1>4 DEF TypeOK, Serve, ledger, store
  <1>6. AskedListed'
    BY DEF Typed, AskedListed, Serve, ledger
  <1> QED BY <1>4, <1>5, <1>6 DEF Typed

(* The steps of one invocation: what each makes of its local state.        *)
LEMMA StartTyped ==
  ASSUME Typed, NEW p \in Syncer, StartIncremental(p) \/ StartRebuild(p)
  PROVE  Typed'
  <1> DEFINE n == Len(feed)
  <1>0. TypeOK /\ RunsShown /\ AskedListed /\ n \in Nat /\ feed' = feed
    BY DEF Typed, TypeOK, StartIncremental, StartRebuild, ledger
  <1>1. CASE StartIncremental(p)
    <2> DEFINE x == [Idle EXCEPT !.pc = "fetch", !.mode = "incremental", !.after = cursor]
    <2>1. x \in Run
      BY <1>0, IdleFits DEF TypeOK, Run, Pc
    <2>2. Shown(x, n)
      BY DEF Shown, Idle, EventStages
    <2>3. runs' = [runs EXCEPT ![p] = x]
      BY <1>1 DEF StartIncremental
    <2> HIDE DEF x
    <2>4. runs' \in [Syncer -> Run] /\ RunsShown'
      BY <1>0, <2>1, <2>2, <2>3, RunsStep
    <2>5. TypeOK' /\ AskedListed'
      BY <1>0, <1>1, <2>4 DEF TypeOK, AskedListed, StartIncremental, ledger, store, mirror
    <2> QED BY <2>4, <2>5 DEF Typed
  <1>2. CASE StartRebuild(p)
    <2> DEFINE r == [Idle EXCEPT !.mode = "rebuild"]
               y == Page(r, Nowhere, MaxFeed)
               x == [y EXCEPT !.pc = "begin"]
    <2>1. r \in Run /\ r.mode = "rebuild"
      BY <1>0, IdleFits DEF Run, Idle
    <2>2. y \in Run /\ Shown(y, n) /\ y.mode = r.mode /\ y.at = 1
      <3> HIDE DEF r
      <3>1. Nowhere \in Nowhere..MaxFeed /\ MaxFeed \in Nat
        BY Constants DEF Nowhere
      <3> QED BY <1>0, <2>1, <3>1, PageFits
    <2>3. runs' = [runs EXCEPT ![p] = x]
      BY <1>2 DEF StartRebuild
    <2> HIDE DEF r, y
    <2>4. x \in Run
      BY <2>2 DEF Run, Pc
    <2>5. x.pc = "begin" /\ x.mode = "rebuild" /\ x.at = 1 /\ x.upto = y.upto
          /\ x.seen = y.seen
      BY <2>1, <2>2 DEF Run
    <2>6. Shown(x, n)
      BY <2>1, <2>2, <2>5 DEF Shown, EventStages
    <2> HIDE DEF x
    <2>7. runs' \in [Syncer -> Run] /\ RunsShown'
      BY <1>0, <2>3, <2>4, <2>6, RunsStep
    <2>8. TypeOK' /\ AskedListed'
      BY <1>0, <1>2, <2>7 DEF TypeOK, AskedListed, StartRebuild, ledger, store, mirror
    <2> QED BY <2>7, <2>8 DEF Typed
  <1> QED BY <1>1, <1>2

(* The next local state of the invocation that works.                      *)
Moves(p, x) == x \in Run /\ Shown(x, Len(feed)) /\ runs' = [runs EXCEPT ![p] = x]

LEMMA GoStep ==
  ASSUME Typed, NEW p \in Syncer, NEW pc \in EventStages,
         runs[p].pc \in EventStages, runs' = [runs EXCEPT ![p].pc = pc]
  PROVE  \E x : Moves(p, x)
  <1> DEFINE x == [runs[p] EXCEPT !.pc = pc]
  <1>1. runs[p] \in Run /\ Shown(runs[p], Len(feed)) /\ Len(feed) \in Nat
    BY DEF Typed, TypeOK, RunsShown
  <1>2. x \in Run /\ Shown(x, Len(feed))
    BY <1>1, GoFits
  <1>3. runs' = [runs EXCEPT ![p] = x]
    OBVIOUS
  <1> QED BY <1>2, <1>3 DEF Moves

LEMMA AdvanceStep ==
  ASSUME Typed, NEW p \in Syncer, NEW flaw \in BOOLEAN,
         runs[p].pc \in EventStages,
         runs' = [runs EXCEPT ![p] = Advanced(runs[p], flaw)]
  PROVE  \E x : Moves(p, x)
  <1>1. runs[p] \in Run /\ Shown(runs[p], Len(feed)) /\ Len(feed) \in Nat
    BY DEF Typed, TypeOK, RunsShown
  <1> QED BY <1>1, AdvancedFits DEF Moves

LEMMA RaiseStep ==
  ASSUME Typed, NEW p \in Syncer, Raise(p)
  PROVE  \E x : Moves(p, x)
  <1>1. Len(feed) \in Nat
    BY DEF Typed, TypeOK
  <1> QED BY <1>1, IdleFits DEF Moves, Raise

LEMMA MoveTyped ==
  ASSUME Typed, NEW p \in Syncer, \E x : Moves(p, x), feed' = feed
  PROVE  runs' \in [Syncer -> Run] /\ RunsShown'
  <1>1. PICK x : Moves(p, x)
    OBVIOUS
  <1> QED BY <1>1, RunsStep DEF Moves, Typed

LEMMA PageWorkTyped ==
  ASSUME Typed, NEW p \in Syncer, FetchPage(p) \/ BeginRebuild(p)
  PROVE  Typed'
  <1> DEFINE n == Len(feed)
  <1>0. TypeOK /\ RunsShown /\ AskedListed /\ n \in Nat /\ feed' = feed
        /\ runs[p] \in Run /\ Shown(runs[p], n)
    BY DEF Typed, TypeOK, RunsShown, FetchPage, BeginRebuild, ledger
  <1>1. CASE FetchPage(p)
    <2> DEFINE after == IF runs[p].after = Absent THEN Nowhere ELSE runs[p].after
               x == Page(runs[p], after, PageSize)
    <2>1. after \in Nowhere..MaxFeed
      BY <1>0, <1>1, Constants DEF Run, Absent, Nowhere, FetchPage
    <2>2. runs[p].mode # "rebuild" \/ after = Nowhere
      BY <1>0, <1>1 DEF Shown, FetchPage
    <2>3. x \in Run /\ Shown(x, n)
      <3> HIDE DEF after
      <3> QED BY <1>0, <2>1, <2>2, Constants, PageFits
    <2>4. runs' = [runs EXCEPT ![p] = x]
      BY <1>1 DEF FetchPage
    <2> HIDE DEF x
    <2>5. runs' \in [Syncer -> Run] /\ RunsShown'
      BY <1>0, <2>3, <2>4, RunsStep
    <2>6. TypeOK' /\ AskedListed'
      BY <1>0, <1>1, <2>5 DEF TypeOK, AskedListed, FetchPage, ledger, store, mirror
    <2> QED BY <2>5, <2>6 DEF Typed
  <1>2. CASE BeginRebuild(p)
    <2> DEFINE pc == IF runs[p].upto >= 1 THEN "event" ELSE "survey"
               x == [runs[p] EXCEPT !.pc = pc]
    <2>1. runs[p].pc = "begin" /\ runs' = [runs EXCEPT ![p] = x]
      BY <1>2 DEF BeginRebuild, Go
    <2>2. runs[p].at = 1 /\ runs[p].mode = "rebuild"
          /\ \A i \in 1..runs[p].upto : i \in 1..n /\ runs[p].seen[i] \in Rendering
      BY <1>0, <2>1 DEF Shown
    <2>3. x \in Run
      BY <1>0 DEF Run, Pc
    <2>4. x.pc = pc /\ x.at = 1 /\ x.mode = "rebuild" /\ x.upto = runs[p].upto
          /\ x.seen = runs[p].seen
      BY <1>0, <2>2 DEF Run
    <2> HIDE DEF x
    <2>5. Shown(x, n)
      BY <2>2, <2>4 DEF Shown, EventStages
    <2>6. runs' \in [Syncer -> Run] /\ RunsShown'
      BY <1>0, <2>1, <2>3, <2>5, RunsStep
    <2>7. TypeOK' /\ AskedListed'
      BY <1>0, <1>2, <2>6, Constants
      DEF TypeOK, AskedListed, BeginRebuild, ledger, mirror
    <2> QED BY <2>6, <2>7 DEF Typed
  <1> QED BY <1>1, <1>2

LEMMA AtEvent ==
  ASSUME Typed, NEW p \in Syncer, runs[p].pc \in EventStages
  PROVE  LET r == runs[p] IN
         /\ r \in Run /\ Shown(r, Len(feed)) /\ r.at \in 1..Len(feed)
         /\ r.at \in Id /\ r.at <= r.upto /\ r.seen[r.at] \in Rendering
         /\ SubjectOf(r.at) \in Subject /\ VersionOf(r.at) \in Nat \ {0}
  <1> DEFINE r == runs[p]
  <1>1. r \in Run /\ Shown(r, Len(feed))
    BY DEF Typed, TypeOK, RunsShown
  <1>2. r.at \in Int /\ r.upto \in Int /\ r.at <= r.upto
    BY <1>1, Constants DEF Run, Shown, Nowhere
  <1>3. r.at \in 1..Len(feed) /\ r.seen[r.at] \in Rendering
    BY <1>1, <1>2 DEF Shown, EventStages
  <1> HIDE DEF r
  <1>4. TypeOK
    BY DEF Typed
  <1>5. r.at \in Id /\ SubjectOf(r.at) \in Subject /\ VersionOf(r.at) \in Nat \ {0}
    BY <1>3, <1>4, EventTyped
  <1> QED BY <1>1, <1>2, <1>3, <1>5 DEF r

LEMMA ClaimTyped ==
  ASSUME Typed, NEW p \in Syncer, ClaimEvent(p)
  PROVE  Typed'
  <1> DEFINE r == runs[p]
             i == r.at
             outcome == ClaimOutcome(i, r.seen[i])
             swept == Swept(i, outcome)
             claim == [owner |-> p, print |-> r.seen[i], live |-> TRUE]
             m == [run |-> p, event |-> i, print |-> r.seen[i]]
  <1>0. TypeOK /\ RunsShown /\ AskedListed /\ feed' = feed
    BY DEF Typed, ClaimEvent, ledger
  <1>1. r.pc = "event" /\ runs[p].pc \in EventStages
    BY DEF ClaimEvent, EventStages
  <1>2. i \in Id /\ i \in 1..Len(feed) /\ r.seen[i] \in Rendering /\ SubjectOf(i) \in Subject
    BY <1>1, AtEvent
  <1>3. /\ WithoutEvents(swept) \in [Id -> Claim \cup {NoClaim}]
        /\ WithoutSubjects(swept) \in [Subject -> 0..MaxFeed]
    BY <1>0, ClaimsTyped
  <1>4. claim \in Claim /\ m \in Request /\ i \in 0..MaxFeed
    BY <1>2, Constants DEF Claim, Request, Id
  <1>5. /\ \E x : Moves(p, x)
        /\ eventClaims' \in [Id -> Claim \cup {NoClaim}]
        /\ subjectClaims' \in [Subject -> 0..MaxFeed]
        /\ requests' = requests \/ requests' = requests \cup {m}
    <2> HIDE DEF outcome, swept
    <2>1. CASE /\ eventClaims' = [WithoutEvents(swept) EXCEPT ![i] = claim]
               /\ subjectClaims' = [WithoutSubjects(swept) EXCEPT ![SubjectOf(i)] = i]
               /\ requests' = requests \cup {m}
               /\ Go(p, "waiting")
      <3>1. \E x : Moves(p, x)
        BY <1>1, <2>1, GoStep DEF Go, EventStages
      <3>2. /\ eventClaims' \in [Id -> Claim \cup {NoClaim}]
            /\ subjectClaims' \in [Subject -> 0..MaxFeed]
        BY <1>2, <1>3, <1>4, <2>1
      <3> QED BY <2>1, <3>1, <3>2
    <2>2. CASE DeleteClaims(swept) /\ Go(p, "drop") /\ requests' = requests
      <3>1. \E x : Moves(p, x)
        BY <1>1, <2>2, GoStep DEF Go, EventStages
      <3> QED BY <1>3, <2>2, <3>1 DEF DeleteClaims
    <2>3. CASE /\ DeleteClaims(swept) /\ requests' = requests
               /\ runs' = [runs EXCEPT ![p] = Advanced(r, TRUE)]
      <3>1. \E x : Moves(p, x)
        BY <1>1, <2>3, AdvanceStep
      <3> QED BY <1>3, <2>3, <3>1 DEF DeleteClaims
    <2>4. CASE /\ UNCHANGED <<eventClaims, subjectClaims, requests>>
               /\ \/ Go(p, "ack")
                  \/ runs' = [runs EXCEPT ![p] = Advanced(r, FALSE)]
      <3>1. \E x : Moves(p, x)
        BY <1>1, <2>4, GoStep, AdvanceStep DEF Go, EventStages
      <3> QED BY <1>0, <2>4, <3>1 DEF TypeOK
    <2> QED BY <2>1, <2>2, <2>3, <2>4 DEF ClaimEvent, outcome, swept
  <1> HIDE DEF claim, m, outcome, swept
  <1>6. runs' \in [Syncer -> Run] /\ RunsShown'
    BY <1>0, <1>5, MoveTyped
  <1>7. requests' \subseteq Request /\ AskedListed'
    <2>1. m.event = i
      BY DEF m
    <2> QED BY <1>0, <1>2, <1>4, <1>5, <2>1 DEF TypeOK, AskedListed
  <1>8. TypeOK'
    BY <1>0, <1>5, <1>6, <1>7 DEF TypeOK, ClaimEvent, ledger, mirror
  <1> QED BY <1>6, <1>7, <1>8 DEF Typed

LEMMA CompleteTyped ==
  ASSUME Typed, NEW p \in Syncer, CompleteClaim(p)
  PROVE  Typed'
  <1> DEFINE r == runs[p]
             i == r.at
  <1>0. TypeOK /\ RunsShown /\ AskedListed /\ feed' = feed
    BY DEF Typed, CompleteClaim, ledger
  <1>1. runs[p].pc \in EventStages
    BY DEF CompleteClaim, EventStages
  <1>2. i \in Id /\ r.seen[i] \in Rendering /\ SubjectOf(i) \in Subject /\ VersionOf(i) \in Nat
    BY <1>1, AtEvent
  <1>3. \E x : Moves(p, x)
    <2>1. \/ Go(p, "ack") \/ runs' = [runs EXCEPT ![p] = Advanced(runs[p], FALSE)] \/ Raise(p)
      BY DEF CompleteClaim
    <2> QED BY <1>1, <2>1, GoStep, AdvanceStep, RaiseStep DEF Go, EventStages
  <1>4. /\ eventClaims' \in [Id -> Claim \cup {NoClaim}]
        /\ subjectClaims' \in [Subject -> 0..MaxFeed]
    <2>1. subjectClaims \in [Subject -> 0..MaxFeed]
      BY <1>0 DEF TypeOK
    <2> QED BY <1>0, <2>1, ClaimsTyped, AbandonTyped DEF CompleteClaim, DeleteClaims
  <1>5. /\ processed' \in [Id -> Rendering \cup {NoPrint}] /\ heads' \in [Subject -> Nat]
        /\ versioned' \in BOOLEAN
    <2>1. /\ processed \in [Id -> Rendering \cup {NoPrint}] /\ heads \in [Subject -> Nat]
          /\ versioned \in BOOLEAN /\ rebuilding \in BOOLEAN
      BY <1>0 DEF TypeOK
    <2> QED BY <1>2, <2>1 DEF CompleteClaim
  <1>6. runs' \in [Syncer -> Run] /\ RunsShown'
    BY <1>0, <1>3, MoveTyped
  <1>7. TypeOK' /\ AskedListed'
    BY <1>0, <1>4, <1>5, <1>6 DEF TypeOK, AskedListed, CompleteClaim, ledger, mirror
  <1> QED BY <1>6, <1>7 DEF Typed

LEMMA EndOfEventTyped ==
  ASSUME Typed, NEW p \in Syncer,
         ReleaseRefused(p) \/ Quarantine(p) \/ GiveUp(p) \/ Acknowledge(p) \/ Crash(p)
  PROVE  Typed'
  <1>0. TypeOK /\ RunsShown /\ AskedListed
    BY DEF Typed
  <1>1. CASE ReleaseRefused(p)
    <2>1. \E x : Moves(p, x)
      BY <1>1, GoStep DEF ReleaseRefused, Go, EventStages
    <2>2. runs' \in [Syncer -> Run] /\ RunsShown'
      BY <1>1, <2>1, MoveTyped DEF ReleaseRefused, ledger
    <2>3. TypeOK' /\ AskedListed'
      BY <1>0, <1>1, <2>2, ClaimsTyped
      DEF TypeOK, AskedListed, ReleaseRefused, DeleteClaims, ledger, mirror
    <2> QED BY <2>2, <2>3 DEF Typed
  <1>2. CASE Quarantine(p)
    <2>0. runs[p].pc \in EventStages
      BY <1>2 DEF Quarantine, EventStages
    <2>1. \E x : Moves(p, x)
      <3>1. runs' = [runs EXCEPT ![p] = Advanced(runs[p], runs[p].mode = "rebuild")]
        BY <1>2 DEF Quarantine
      <3> QED BY <2>0, <3>1, AdvanceStep
    <2>2. runs' \in [Syncer -> Run] /\ RunsShown'
      BY <1>2, <2>1, MoveTyped DEF Quarantine, ledger
    <2>3. runs[p].at \in Id
      BY <2>0, AtEvent
    <2>4. TypeOK' /\ AskedListed'
      BY <1>0, <1>2, <2>2, <2>3 DEF TypeOK, AskedListed, Quarantine, ledger, mirror
    <2> QED BY <2>2, <2>4 DEF Typed
  <1>3. CASE GiveUp(p)
    <2>1. \E x : Moves(p, x)
      BY <1>3, RaiseStep DEF GiveUp
    <2>2. runs' \in [Syncer -> Run] /\ RunsShown'
      BY <1>3, <2>1, MoveTyped DEF GiveUp, ledger
    <2>3. faults' \in 0..MaxFaults
      BY <1>0, <1>3, Constants DEF TypeOK, GiveUp
    <2>4. TypeOK' /\ AskedListed'
      BY <1>0, <1>3, <2>2, <2>3, ClaimsTyped
      DEF TypeOK, AskedListed, GiveUp, DeleteClaims, ledger, mirror
    <2> QED BY <2>2, <2>4 DEF Typed
  <1>4. CASE Acknowledge(p)
    <2>0. runs[p].pc \in EventStages
      BY <1>4 DEF Acknowledge, EventStages
    <2>1. \E x : Moves(p, x)
      <3>1. runs' = [runs EXCEPT ![p] = Advanced(runs[p], FALSE)] \/ Raise(p)
        BY <1>4 DEF Acknowledge
      <3> QED BY <2>0, <3>1, AdvanceStep, RaiseStep
    <2>2. runs' \in [Syncer -> Run] /\ RunsShown'
      BY <1>4, <2>1, MoveTyped DEF Acknowledge, ledger
    <2>3. runs[p].at \in Id
      BY <2>0, AtEvent
    <2>4. TypeOK' /\ AskedListed'
      BY <1>0, <1>4, <2>2, <2>3 DEF TypeOK, AskedListed, Acknowledge, ledger, store, mirror
    <2> QED BY <2>2, <2>4 DEF Typed
  <1>5. CASE Crash(p)
    <2>1. \E x : Moves(p, x)
      BY <1>5, RaiseStep DEF Crash
    <2>2. runs' \in [Syncer -> Run] /\ RunsShown'
      BY <1>5, <2>1, MoveTyped DEF Crash, ledger
    <2>3. faults' \in 0..MaxFaults
      BY <1>0, <1>5, Constants DEF TypeOK, Crash
    <2>4. TypeOK' /\ AskedListed'
      BY <1>0, <1>5, <2>2, <2>3, AbandonTyped
      DEF TypeOK, AskedListed, Crash, ledger, mirror
    <2> QED BY <2>2, <2>4 DEF Typed
  <1> QED BY <1>1, <1>2, <1>3, <1>4, <1>5

(* A move inside the end of a rebuild: only pc, mend and retire change.    *)
LEMMA EndStep ==
  ASSUME Typed, NEW p \in Syncer, runs[p].mode = "rebuild", runs[p].pc \in EndStages,
         NEW x \in Run, x.pc \in EndStages, x.mend \subseteq 1..runs[p].upto,
         x.mode = runs[p].mode, x.at = runs[p].at, x.upto = runs[p].upto,
         x.seen = runs[p].seen, runs' = [runs EXCEPT ![p] = x]
  PROVE  \E y : Moves(p, y)
  <1> DEFINE r == runs[p]
  <1>1. r \in Run /\ Shown(r, Len(feed))
    BY DEF Typed, TypeOK, RunsShown
  <1>2. x.pc \notin EventStages \cup {"idle", "fetch", "begin"}
    BY DEF EndStages, EventStages
  <1>3. \A i \in r.at..r.upto : i \in 1..Len(feed) /\ r.seen[i] \in Rendering
    BY <1>1 DEF Shown, EndStages
  <1>4. Shown(x, Len(feed))
    BY <1>1, <1>2, <1>3 DEF Shown
  <1> QED BY <1>4 DEF Moves

LEMMA EndTyped ==
  ASSUME Typed, NEW p \in Syncer, Survey(p) \/ Converge(p) \/ Retire(p) \/ Mend(p) \/ Sign(p)
  PROVE  Typed'
  <1> DEFINE r == runs[p]
  <1>0. TypeOK /\ RunsShown /\ AskedListed
    BY DEF Typed
  <1>1. r \in Run /\ Shown(r, Len(feed)) /\ r.mend \in SUBSET Id /\ r.retire \in SUBSET Id
        /\ r.pc \in EndStages /\ r.mode = "rebuild"
    <2>1. r \in Run /\ Shown(r, Len(feed))
      BY DEF Typed, TypeOK, RunsShown
    <2>2. r.pc \in {"survey", "repair", "sign"}
      BY DEF Survey, Converge, Retire, Mend, Sign
    <2> QED BY <2>1, <2>2 DEF Run, Shown, EndStages
  <1>2. Expected(r) = 1..r.upto /\ \A i \in 1..r.upto : i \in Id /\ r.seen[i] \in Rendering
                               /\ i \in 1..Len(feed)
    BY <1>0, <1>1, EventTyped DEF Expected, Shown
  <1>3. r.pc \in {"repair", "sign"} => r.mend \subseteq 1..r.upto
    BY <1>1 DEF Shown
  <1>4. {"survey", "repair", "sign", "checkpoint"} \subseteq EndStages
    BY DEF EndStages
  <1>5. CASE Survey(p)
    <2> DEFINE mend == {i \in Expected(r) : i \notin open \/ rows[i] # r.seen[i]}
    <2>1. mend \subseteq 1..r.upto /\ mend \in SUBSET Id
      BY <1>2
    <2>2. (open \ Expected(r)) \in SUBSET Id
      BY <1>0 DEF TypeOK
    <2> DEFINE x == [r EXCEPT !.pc = "repair", !.retire = open \ Expected(r), !.mend = mend]
    <2>3. runs' = [runs EXCEPT ![p] = x]
      BY <1>5 DEF Survey
    <2>a. /\ x \in Run /\ x.pc = "repair" /\ x.mend = mend /\ x.mode = r.mode
          /\ x.at = r.at /\ x.upto = r.upto /\ x.seen = r.seen
      BY <1>1, <2>1, <2>2 DEF Run, Pc
    <2> HIDE DEF mend, x
    <2>4. \E y : Moves(p, y)
      BY <1>1, <1>4, <2>1, <2>3, <2>a, EndStep
    <2>5. runs' \in [Syncer -> Run] /\ RunsShown'
      BY <1>5, <2>4, MoveTyped DEF Survey, ledger
    <2>6. TypeOK' /\ AskedListed'
      BY <1>0, <1>5, <2>5 DEF TypeOK, AskedListed, Survey, ledger, store, mirror
    <2> QED BY <2>5, <2>6 DEF Typed
  <1>6. CASE Converge(p)
    <2> DEFINE mend == {i \in Expected(r) : feed[i].kind # "result"}
    <2>1. mend \subseteq 1..r.upto /\ mend \in SUBSET Id
      BY <1>2
    <2>2. \/ Raise(p)
          \/ runs' = [runs EXCEPT ![p] = [r EXCEPT !.pc = "sign", !.mend = mend]]
      BY <1>6 DEF Converge
    <2> DEFINE x == [r EXCEPT !.pc = "sign", !.mend = mend]
    <2>3. /\ x \in Run /\ x.pc = "sign" /\ x.mend = mend /\ x.mode = r.mode
          /\ x.at = r.at /\ x.upto = r.upto /\ x.seen = r.seen
      BY <1>1, <2>1 DEF Run, Pc
    <2> HIDE DEF mend, x
    <2>4. \E y : Moves(p, y)
      <3>1. CASE Raise(p)
        BY <3>1, RaiseStep
      <3>2. CASE runs' = [runs EXCEPT ![p] = x]
        BY <1>1, <1>4, <2>1, <2>3, <3>2, EndStep
      <3> QED BY <2>2, <3>1, <3>2 DEF x
    <2>5. runs' \in [Syncer -> Run] /\ RunsShown'
      BY <1>6, <2>4, MoveTyped DEF Converge, ledger
    <2>6. TypeOK' /\ AskedListed'
      BY <1>0, <1>6, <2>5 DEF TypeOK, AskedListed, Converge, ledger, store, mirror
    <2> QED BY <2>5, <2>6 DEF Typed
  <1>7. CASE Retire(p)
    <2>1. PICK i \in r.retire : runs' = [runs EXCEPT ![p].retire = @ \ {i}]
                               /\ open' = open \ {i}
      BY <1>7 DEF Retire
    <2>2. r.pc = "repair"
      BY <1>7 DEF Retire
    <2> DEFINE x == [r EXCEPT !.retire = r.retire \ {i}]
    <2>3. runs' = [runs EXCEPT ![p] = x]
      BY <2>1
    <2>a. /\ x \in Run /\ x.pc = r.pc /\ x.mend = r.mend /\ x.mode = r.mode
          /\ x.at = r.at /\ x.upto = r.upto /\ x.seen = r.seen
      BY <1>1 DEF Run
    <2> HIDE DEF x
    <2>4. \E y : Moves(p, y)
      BY <1>1, <1>3, <2>2, <2>3, <2>a, EndStep
    <2>5. runs' \in [Syncer -> Run] /\ RunsShown'
      BY <1>7, <2>4, MoveTyped DEF Retire, ledger
    <2>6. TypeOK' /\ AskedListed'
      BY <1>0, <1>7, <2>1, <2>5 DEF TypeOK, AskedListed, Retire, ledger, store
    <2> QED BY <2>5, <2>6 DEF Typed
  <1>8. CASE Mend(p)
    <2>1. PICK i \in r.mend : /\ Upsert(i, r.seen[i])
                             /\ \/ runs' = [runs EXCEPT ![p].mend = @ \ {i}]
                                \/ Raise(p)
      BY <1>8 DEF Mend
    <2>2. r.pc = "repair"
      BY <1>8 DEF Mend
    <2> DEFINE x == [r EXCEPT !.mend = r.mend \ {i}]
    <2>3. Raise(p) \/ runs' = [runs EXCEPT ![p] = x]
      BY <2>1
    <2>a. /\ x \in Run /\ x.pc = r.pc /\ x.mend = r.mend \ {i} /\ x.mode = r.mode
          /\ x.at = r.at /\ x.upto = r.upto /\ x.seen = r.seen
      BY <1>1 DEF Run
    <2> HIDE DEF x
    <2>4. \E y : Moves(p, y)
      <3>1. CASE Raise(p)
        BY <3>1, RaiseStep
      <3>2. CASE runs' = [runs EXCEPT ![p] = x]
        BY <1>1, <1>3, <2>2, <2>a, <3>2, EndStep
      <3> QED BY <2>3, <3>1, <3>2
    <2>5. runs' \in [Syncer -> Run] /\ RunsShown'
      BY <1>8, <2>4, MoveTyped DEF Mend, ledger
    <2>6. i \in 1..Len(feed) /\ r.seen[i] \in Rendering
      BY <1>2, <1>3, <2>1, <2>2
    <2>7. TypeOK' /\ AskedListed'
      BY <1>0, <1>8, <2>1, <2>5, <2>6, UpsertTyped DEF TypeOK, AskedListed, Mend, ledger, store
    <2> QED BY <2>5, <2>7 DEF Typed
  <1>9. CASE Sign(p)
    <2>1. r.pc = "sign"
      BY <1>9 DEF Sign
    <2>2. \/ Raise(p) /\ acks' = acks
          \/ /\ acks' = acks /\ r.mend = {}
             /\ runs' = [runs EXCEPT ![p].pc = "checkpoint"]
          \/ \E i \in r.mend : /\ acks' = acks \cup {i}
                               /\ runs' = [runs EXCEPT ![p].mend = @ \ {i}]
      BY <1>9 DEF Sign, Go
    <2>3. (\E x : Moves(p, x)) /\ acks' \subseteq Id
      <3>0. acks \subseteq Id
        BY <1>0 DEF TypeOK
      <3>1. CASE Raise(p) /\ acks' = acks
        BY <3>0, <3>1, RaiseStep
      <3>2. CASE acks' = acks /\ r.mend = {} /\ runs' = [runs EXCEPT ![p].pc = "checkpoint"]
        <4> DEFINE x == [r EXCEPT !.pc = "checkpoint"]
        <4>1. /\ x \in Run /\ x.pc = "checkpoint" /\ x.mend = r.mend /\ x.mode = r.mode
              /\ x.at = r.at /\ x.upto = r.upto /\ x.seen = r.seen
          BY <1>1 DEF Run, Pc
        <4>2. runs' = [runs EXCEPT ![p] = x]
          BY <3>2
        <4> HIDE DEF x
        <4>3. \E y : Moves(p, y)
          BY <1>1, <1>3, <1>4, <2>1, <4>1, <4>2, EndStep
        <4> QED BY <3>0, <3>2, <4>3
      <3>3. CASE \E i \in r.mend : /\ acks' = acks \cup {i}
                                  /\ runs' = [runs EXCEPT ![p].mend = @ \ {i}]
        <4>1. PICK i \in r.mend : /\ acks' = acks \cup {i}
                                 /\ runs' = [runs EXCEPT ![p].mend = @ \ {i}]
          BY <3>3
        <4> DEFINE x == [r EXCEPT !.mend = r.mend \ {i}]
        <4>2. /\ x \in Run /\ x.pc = r.pc /\ x.mend = r.mend \ {i} /\ x.mode = r.mode
              /\ x.at = r.at /\ x.upto = r.upto /\ x.seen = r.seen
          BY <1>1 DEF Run
        <4>3. runs' = [runs EXCEPT ![p] = x]
          BY <4>1
        <4>4. i \in Id
          BY <1>1, <4>1
        <4> HIDE DEF x
        <4>5. \E y : Moves(p, y)
          BY <1>1, <1>3, <2>1, <4>2, <4>3, EndStep
        <4> QED BY <3>0, <4>1, <4>4, <4>5
      <3> QED BY <2>2, <3>1, <3>2, <3>3
    <2>4. runs' \in [Syncer -> Run] /\ RunsShown'
      BY <1>9, <2>3, MoveTyped DEF Sign, ledger
    <2>5. TypeOK' /\ AskedListed'
      BY <1>0, <1>9, <2>3, <2>4 DEF TypeOK, AskedListed, Sign, ledger, store, mirror
    <2> QED BY <2>4, <2>5 DEF Typed
  <1> QED BY <1>5, <1>6, <1>7, <1>8, <1>9

LEMMA CheckpointTyped ==
  ASSUME Typed, NEW p \in Syncer, Checkpoint(p)
  PROVE  Typed'
  <1> DEFINE r == runs[p]
             x == [r EXCEPT !.pc = "fetch", !.after = r.upto]
  <1>0. TypeOK /\ RunsShown /\ AskedListed /\ feed' = feed /\ Len(feed) \in Nat
    BY DEF Typed, TypeOK, Checkpoint, ledger
  <1>1. r \in Run /\ Shown(r, Len(feed))
    BY <1>0 DEF TypeOK, RunsShown
  <1>2. r.upto \in Absent..MaxFeed
    BY <1>1, Constants DEF Run, Nowhere, Absent
  <1>3. CASE r.mode = "incremental" /\ r.more
    <2>1. runs' = [runs EXCEPT ![p] = x]
      BY <1>3 DEF Checkpoint
    <2>2. x \in Run /\ x.pc = "fetch" /\ x.mode = "incremental"
      BY <1>1, <1>2, <1>3 DEF Run, Pc
    <2> HIDE DEF x
    <2>3. Shown(x, Len(feed))
      BY <2>2 DEF Shown, EventStages
    <2>4. runs' \in [Syncer -> Run] /\ RunsShown'
      BY <1>0, <2>1, <2>2, <2>3, RunsStep
    <2>5. TypeOK' /\ AskedListed'
      BY <1>0, <1>2, <2>4 DEF TypeOK, AskedListed, Checkpoint, ledger, mirror
    <2> QED BY <2>4, <2>5 DEF Typed
  <1>4. CASE ~(r.mode = "incremental" /\ r.more)
    <2>1. \E y : Moves(p, y)
      <3>1. Raise(p)
        BY <1>4 DEF Checkpoint, Raise
      <3> QED BY <3>1, RaiseStep
    <2>4. runs' \in [Syncer -> Run] /\ RunsShown'
      BY <1>0, <2>1, MoveTyped
    <2>5. TypeOK' /\ AskedListed'
      BY <1>0, <1>2, <2>4 DEF TypeOK, AskedListed, Checkpoint, ledger, mirror
    <2> QED BY <2>4, <2>5 DEF Typed
  <1> QED BY <1>3, <1>4

LEMMA TypedInit == Init => Typed
  <1> SUFFICES ASSUME Init PROVE Typed
    OBVIOUS
  <1>0. FirstFeed \in Nat /\ FirstFeed <= MaxFeed
    BY Constants
  <1>1. feed \in Seq(Event) /\ Len(feed) = FirstFeed
    <2>1. PICK s \in Subject :
            feed = [i \in 1..FirstFeed |-> [FirstEvent(s) EXCEPT !.version = i]]
      BY DEF Init
    <2> DEFINE e(i) == [FirstEvent(s) EXCEPT !.version = i]
    <2>2. \A i \in 1..FirstFeed : e(i) \in Event
      BY <1>0 DEF FirstEvent, Event
    <2> HIDE DEF e
    <2>3. feed = [i \in 1..FirstFeed |-> e(i)]
      BY <2>1 DEF e
    <2> QED BY <1>0, <2>2, <2>3, IsASeq
  <1>2. runs \in [Syncer -> Run] /\ RunsShown
    BY <1>0, <1>1, IdleFits DEF Init, RunsShown
  <1>3. /\ heads \in [Subject -> Nat] /\ remoteHeads \in [Subject -> Nat]
        /\ subjectClaims \in [Subject -> 0..MaxFeed]
        /\ processed \in [Id -> Rendering \cup {NoPrint}]
        /\ rows \in [Id -> Rendering \cup {NoPrint}] /\ print \in [Id -> Rendering]
        /\ eventClaims \in [Id -> Claim \cup {NoClaim}]
        /\ cursor \in Absent..MaxFeed /\ faults \in 0..MaxFaults
    BY Constants DEF Init, Rendering, Absent
  <1>4. /\ quarantined \subseteq Id /\ open \subseteq Id /\ acks \subseteq Id
        /\ requests \subseteq Request /\ versioned \in BOOLEAN /\ rebuilding \in BOOLEAN
    BY DEF Init
  <1>5. TypeOK
    BY <1>0, <1>1, <1>2, <1>3, <1>4 DEF TypeOK
  <1> QED BY <1>2, <1>5 DEF Init, Typed, AskedListed

LEMMA TypedStep == Typed /\ [Next]_vars => Typed'
  <1> SUFFICES ASSUME Typed, [Next]_vars PROVE Typed'
    OBVIOUS
  <1>1. CASE UNCHANGED vars
    BY <1>1 DEF Typed, TypeOK, RunsShown, AskedListed, vars, ledger, store, mirror
  <1>2. CASE \E s \in Subject : Record(s)
    BY <1>2, RecordTyped
  <1>3. CASE \E i \in Id : Rerender(i) \/ ExpireClaim(i) \/ Overrun(i)
    BY <1>3, TimeTyped
  <1>4. CASE \E m \in requests : Serve(m)
    BY <1>4, ServeTyped
  <1>5. ASSUME NEW p \in Syncer,
               StartIncremental(p) \/ StartRebuild(p) \/ Work(p) \/ GiveUp(p) \/ Crash(p)
        PROVE  Typed'
    BY <1>5, StartTyped, PageWorkTyped, ClaimTyped, CompleteTyped, EndOfEventTyped,
       EndTyped, CheckpointTyped DEF Work
  <1> QED BY <1>1, <1>2, <1>3, <1>4, <1>5 DEF Next

(* Every variable keeps its type, whatever the runs do to each other.      *)
THEOREM TypeCorrect == Spec => []TypeOK
  <1>1. Spec => []Typed
    BY TypedInit, TypedStep, PTL DEF Spec
  <1> QED BY <1>1, PTL DEF Typed

(* ------------------------------ the mirror ----------------------------- *)

(* What Minibook has is in the feed and not above the head of its subject, *)
(* and a head is the version of an event Minibook has.                     *)
MirrorOK ==
  /\ \A i \in Id : rows[i] # NoPrint =>
       i \in 1..Len(feed) /\ VersionOf(i) <= remoteHeads[SubjectOf(i)]
  /\ \A s \in Subject : remoteHeads[s] # 0 =>
       \E i \in 1..Len(feed) : /\ SubjectOf(i) = s /\ rows[i] # NoPrint
                               /\ VersionOf(i) = remoteHeads[s]

LEMMA FeedGrows ==
  ASSUME Typed, [Next]_vars
  PROVE  /\ Len(feed) \in Nat /\ Len(feed') \in Nat /\ Len(feed) <= Len(feed')
         /\ \A i \in 1..Len(feed) : feed'[i] = feed[i]
         /\ \A i \in Id : print[i] # 1 => print'[i] # 1
  <1>0. feed \in Seq(Event) /\ Len(feed) \in Nat /\ print \in [Id -> Rendering]
    BY DEF Typed, TypeOK
  <1>1. CASE feed' = feed /\ print' = print
    BY <1>0, <1>1
  <1>2. ASSUME NEW s \in Subject, Record(s)
        PROVE  /\ Len(feed') = Len(feed) + 1 /\ print' = print
               /\ \A i \in 1..Len(feed) : feed'[i] = feed[i]
    <2>1. PICK e : feed' = Append(feed, e)
      BY <1>2 DEF Record
    <2>2. print' = print
      BY <1>2 DEF Record
    <2> QED BY <1>0, <2>1, <2>2
  <1>3. ASSUME NEW i \in Id, Rerender(i)
        PROVE  feed' = feed /\ \A j \in Id : print[j] # 1 => print'[j] # 1
    BY <1>0, <1>3 DEF Rerender
  <1>4. \/ feed' = feed /\ print' = print
        \/ \E s \in Subject : Record(s)
        \/ \E i \in Id : Rerender(i)
    <2>1. CASE UNCHANGED vars
      BY <2>1 DEF vars, ledger
    <2>2. CASE \E i \in Id : ExpireClaim(i) \/ Overrun(i)
      BY <2>2 DEF ExpireClaim, Overrun, ledger
    <2>3. CASE \E m \in requests : Serve(m)
      BY <2>3 DEF Serve, ledger
    <2>4. CASE \E p \in Syncer : StartIncremental(p) \/ StartRebuild(p) \/ Work(p)
                                 \/ GiveUp(p) \/ Crash(p)
      BY <2>4 DEF StartIncremental, StartRebuild, Work, GiveUp, Crash, FetchPage,
                  BeginRebuild, ClaimEvent, CompleteClaim, ReleaseRefused, Quarantine,
                  Acknowledge, Checkpoint, Survey, Mend, Retire, Converge, Sign, ledger
    <2> QED BY <2>1, <2>2, <2>3, <2>4 DEF Next
  <1>5. CASE \E s \in Subject : Record(s)
    BY <1>0, <1>2, <1>5
  <1>6. CASE \E i \in Id : Rerender(i)
    BY <1>0, <1>3, <1>6
  <1> QED BY <1>1, <1>4, <1>5, <1>6

(* Only the execution of an upsert changes what Minibook has.              *)
LEMMA OnlyUpserts ==
  ASSUME Typed, [Next]_vars
  PROVE  \/ rows' = rows /\ remoteHeads' = remoteHeads
         \/ feed' = feed /\ \E i \in 1..Len(feed), q \in Rendering : Upsert(i, q)
  <1>1. CASE UNCHANGED vars
    BY <1>1 DEF vars, mirror
  <1>2. CASE \E s \in Subject : Record(s)
    BY <1>2 DEF Record, mirror
  <1>3. CASE \E i \in Id : Rerender(i) \/ ExpireClaim(i) \/ Overrun(i)
    BY <1>3 DEF Rerender, ExpireClaim, Overrun, mirror
  <1>4. ASSUME NEW m \in requests, Serve(m)
        PROVE  feed' = feed /\ \E i \in 1..Len(feed), q \in Rendering : Upsert(i, q)
    <2>1. m.event \in 1..Len(feed) /\ m.print \in Rendering
      BY DEF Typed, TypeOK, AskedListed, Request
    <2>2. Upsert(m.event, m.print) /\ feed' = feed
      BY <1>4 DEF Serve, ledger
    <2> QED BY <2>1, <2>2
  <1>5. ASSUME NEW p \in Syncer, Mend(p)
        PROVE  feed' = feed /\ \E i \in 1..Len(feed), q \in Rendering : Upsert(i, q)
    <2>1. runs[p].pc = "repair" /\ feed' = feed
      BY <1>5 DEF Mend, ledger
    <2>2. PICK i \in runs[p].mend : Upsert(i, runs[p].seen[i])
      BY <1>5 DEF Mend
    <2>3. Shown(runs[p], Len(feed))
      BY DEF Typed, RunsShown
    <2>4. i \in 1..Len(feed) /\ runs[p].seen[i] \in Rendering
      BY <2>1, <2>3 DEF Shown
    <2> QED BY <2>1, <2>2, <2>4
  <1>6. CASE \E p \in Syncer : StartIncremental(p) \/ StartRebuild(p)
                               \/ GiveUp(p) \/ Crash(p)
    BY <1>6 DEF StartIncremental, StartRebuild, GiveUp, Crash, mirror
  <1>7. ASSUME NEW p \in Syncer, Work(p), ~Mend(p)
        PROVE  rows' = rows /\ remoteHeads' = remoteHeads
    BY <1>7 DEF Work, FetchPage, BeginRebuild, ClaimEvent, CompleteClaim, ReleaseRefused,
                Quarantine, Acknowledge, Checkpoint, Survey, Retire, Converge, Sign, mirror
  <1> QED BY <1>1, <1>2, <1>3, <1>4, <1>5, <1>6, <1>7 DEF Next

(* An upsert that changes something writes an event Minibook does not have *)
(* yet, above the head of its subject.                                     *)
LEMMA UpsertWrites ==
  ASSUME Typed, NEW i \in 1..Len(feed), NEW q \in Rendering, Upsert(i, q)
  PROVE  \/ rows' = rows /\ remoteHeads' = remoteHeads
         \/ /\ rows[i] = NoPrint /\ VersionOf(i) > remoteHeads[SubjectOf(i)]
            /\ rows' = [rows EXCEPT ![i] = q]
            /\ remoteHeads' = [remoteHeads EXCEPT ![SubjectOf(i)] = VersionOf(i)]
  <1>0. /\ i \in Id /\ SubjectOf(i) \in Subject /\ VersionOf(i) \in Nat
        /\ rows \in [Id -> Rendering \cup {NoPrint}] /\ remoteHeads \in [Subject -> Nat]
    BY EventTyped DEF Typed, TypeOK
  <1>1. CASE rows[i] = NoPrint
    <2>1. remoteHeads[SubjectOf(i)] \in Nat /\ q # NoPrint
      BY <1>0 DEF Rendering, NoPrint
    <2>2. UpsertOutcome(i, q) = "written" => VersionOf(i) > remoteHeads[SubjectOf(i)]
      BY <1>0, <1>1, <2>1 DEF UpsertOutcome
    <2> QED BY <1>1, <2>2 DEF Upsert, mirror
  <1>2. CASE rows[i] # NoPrint
    <2>1. UpsertOutcome(i, q) = "written" => rows[i] = q
      BY <1>0, <1>2 DEF UpsertOutcome
    <2> QED BY <1>0, <1>2, <2>1 DEF Upsert, mirror
  <1> QED BY <1>1, <1>2

(* One step of the mirror: nothing Minibook has is lost or rewritten.      *)
LEMMA MirrorStep ==
  ASSUME Typed, Typed', MirrorOK, [Next]_vars
  PROVE  /\ MirrorOK'
         /\ \A i \in Id : rows[i] # NoPrint => rows'[i] = rows[i]
         /\ \A s \in Subject : remoteHeads[s] <= remoteHeads'[s]
         /\ \A i \in Id : rows'[i] # rows[i] =>
              /\ i \in 1..Len(feed) /\ feed' = feed
              /\ rows[i] = NoPrint /\ VersionOf(i) > remoteHeads[SubjectOf(i)]
  <1>0. /\ rows \in [Id -> Rendering \cup {NoPrint}] /\ remoteHeads \in [Subject -> Nat]
        /\ \A i \in 1..Len(feed) : /\ i \in Id /\ SubjectOf(i) \in Subject
                                   /\ VersionOf(i) \in Nat \ {0}
    BY EventTyped DEF Typed, TypeOK
  <1>1. CASE rows' = rows /\ remoteHeads' = remoteHeads
    <2>1. /\ Len(feed) \in Nat /\ Len(feed') \in Nat /\ Len(feed) <= Len(feed')
          /\ \A i \in 1..Len(feed) : feed'[i] = feed[i]
      BY FeedGrows
    <2>2. \A i \in 1..Len(feed) : /\ i \in 1..Len(feed') /\ SubjectOf(i)' = SubjectOf(i)
                                  /\ VersionOf(i)' = VersionOf(i)
      BY <2>1 DEF SubjectOf, VersionOf
    <2>3. MirrorOK'
      BY <1>1, <2>2 DEF MirrorOK
    <2> QED BY <1>0, <1>1, <2>3
  <1>2. ASSUME feed' = feed, NEW i \in 1..Len(feed), NEW q \in Rendering,
               rows[i] = NoPrint, VersionOf(i) > remoteHeads[SubjectOf(i)],
               rows' = [rows EXCEPT ![i] = q],
               remoteHeads' = [remoteHeads EXCEPT ![SubjectOf(i)] = VersionOf(i)]
        PROVE  /\ MirrorOK'
               /\ \A j \in Id : rows[j] # NoPrint => rows'[j] = rows[j]
               /\ \A s \in Subject : remoteHeads[s] <= remoteHeads'[s]
               /\ \A j \in Id : rows'[j] # rows[j] => j = i
    <2>0. q # NoPrint /\ Len(feed') = Len(feed)
      BY <1>2 DEF Rendering, NoPrint
    <2>1. \A j \in 1..Len(feed) : /\ SubjectOf(j)' = SubjectOf(j)
                                  /\ VersionOf(j)' = VersionOf(j)
      BY <1>2 DEF SubjectOf, VersionOf
    <2>2. \A s \in Subject : remoteHeads[s] <= remoteHeads'[s]
      BY <1>0, <1>2
    <2>3. \A j \in Id : rows'[j] # NoPrint =>
            j \in 1..Len(feed') /\ VersionOf(j)' <= remoteHeads'[SubjectOf(j)']
      <3> TAKE j \in Id
      <3> HAVE rows'[j] # NoPrint
      <3>1. CASE j = i
        BY <1>0, <1>2, <2>0, <2>1, <3>1
      <3>2. CASE j # i
        <4>1. /\ j \in 1..Len(feed) /\ VersionOf(j) <= remoteHeads[SubjectOf(j)]
          BY <1>0, <1>2, <3>2 DEF MirrorOK
        <4>2. /\ VersionOf(j) \in Nat /\ remoteHeads[SubjectOf(j)] \in Nat
              /\ remoteHeads'[SubjectOf(j)] \in Nat
              /\ remoteHeads[SubjectOf(j)] <= remoteHeads'[SubjectOf(j)]
          BY <1>0, <1>2, <2>2, <4>1
        <4> QED BY <2>0, <2>1, <4>1, <4>2
      <3> QED BY <3>1, <3>2
    <2>4. \A s \in Subject : remoteHeads'[s] # 0 =>
            \E j \in 1..Len(feed') : /\ SubjectOf(j)' = s /\ rows'[j] # NoPrint
                                     /\ VersionOf(j)' = remoteHeads'[s]
      <3> TAKE s \in Subject
      <3> HAVE remoteHeads'[s] # 0
      <3>1. CASE s = SubjectOf(i)
        BY <1>0, <1>2, <2>0, <2>1, <3>1
      <3>2. CASE s # SubjectOf(i)
        <4>1. remoteHeads'[s] = remoteHeads[s]
          BY <1>0, <1>2, <3>2
        <4>2. PICK j \in 1..Len(feed) : /\ SubjectOf(j) = s /\ rows[j] # NoPrint
                                        /\ VersionOf(j) = remoteHeads[s]
          BY <4>1 DEF MirrorOK
        <4>3. rows'[j] # NoPrint
          BY <1>0, <1>2, <2>0, <4>2
        <4> QED BY <2>0, <2>1, <4>1, <4>2, <4>3
      <3> QED BY <3>1, <3>2
    <2> QED BY <1>0, <1>2, <2>2, <2>3, <2>4 DEF MirrorOK
  <1>3. CASE feed' = feed /\ \E i \in 1..Len(feed), q \in Rendering : Upsert(i, q)
    BY <1>1, <1>2, <1>3, UpsertWrites
  <1> QED BY <1>1, <1>3, OnlyUpserts

LEMMA MirrorInit == Init => MirrorOK
  BY DEF Init, MirrorOK

LEMMA MirrorAlways == Spec => [](Typed /\ MirrorOK)
  <1>1. Typed /\ MirrorOK /\ [Next]_vars => Typed' /\ MirrorOK'
    BY TypedStep, MirrorStep
  <1> QED BY <1>1, TypedInit, MirrorInit, PTL DEF Spec

(* Minibook never loses, rewrites or rolls back what it has, whichever     *)
(* runs send it what in which order, and however late a request arrives.   *)
THEOREM MirrorOnlyAdvances == Spec => MirrorAdvances
  <1> DEFINE Rises == \A i \in Id : rows'[i] # rows[i] =>
       /\ rows[i] = NoPrint
       /\ \A j \in Id : rows[j] # NoPrint /\ SubjectOf(j) = SubjectOf(i)
                        => VersionOf(j) < VersionOf(i)
  <1>1. Typed /\ MirrorOK /\ [Next]_vars => [Rises]_rows
    <2> SUFFICES ASSUME Typed, MirrorOK, [Next]_vars,
                        NEW i \in Id, rows'[i] # rows[i]
                 PROVE  /\ rows[i] = NoPrint
                        /\ \A j \in Id :
                             rows[j] # NoPrint /\ SubjectOf(j) = SubjectOf(i)
                             => VersionOf(j) < VersionOf(i)
      OBVIOUS
    <2>1. /\ i \in 1..Len(feed)
          /\ rows[i] = NoPrint /\ VersionOf(i) > remoteHeads[SubjectOf(i)]
      BY TypedStep, MirrorStep
    <2>2. ASSUME NEW j \in Id, rows[j] # NoPrint, SubjectOf(j) = SubjectOf(i)
          PROVE  VersionOf(j) < VersionOf(i)
      <3>1. j \in 1..Len(feed) /\ VersionOf(j) <= remoteHeads[SubjectOf(i)]
        BY <2>2 DEF MirrorOK
      <3>2. /\ VersionOf(i) \in Nat /\ VersionOf(j) \in Nat
            /\ remoteHeads[SubjectOf(i)] \in Nat
        BY <2>1, <3>1, EventTyped DEF Typed, TypeOK
      <3> QED BY <2>1, <3>1, <3>2
    <2> QED BY <2>1, <2>2
  <1>2. Spec => [][Rises]_rows
    BY <1>1, MirrorAlways, PTL DEF Spec
  <1> QED BY <1>2 DEF MirrorAdvances

(* ------------------------------ the claims ----------------------------- *)

(* Deleting the rows of events deletes them from both tables.              *)
LEMMA PairedWithout ==
  ASSUME Typed, ClaimsPaired, NEW S
  PROVE  /\ \A i \in Id : WithoutEvents(S)[i] # NoClaim =>
              i \in Listed /\ WithoutSubjects(S)[SubjectOf(i)] = i
         /\ \A s \in Subject : WithoutSubjects(S)[s] # 0 =>
              /\ SubjectOf(WithoutSubjects(S)[s]) = s
              /\ WithoutEvents(S)[WithoutSubjects(S)[s]] # NoClaim
  <1>0. /\ subjectClaims \in [Subject -> 0..MaxFeed] /\ Id = 1..MaxFeed /\ MaxFeed \in Nat
        /\ \A i \in Listed : SubjectOf(i) \in Subject
    BY EventTyped, Constants DEF Typed, TypeOK, Id, Listed
  <1>1. ASSUME NEW i \in Id, WithoutEvents(S)[i] # NoClaim
        PROVE  i \in Listed /\ WithoutSubjects(S)[SubjectOf(i)] = i
    <2>1. i \notin S /\ eventClaims[i] # NoClaim
      BY <1>1 DEF WithoutEvents
    <2>2. i \in Listed /\ subjectClaims[SubjectOf(i)] = i
      BY <2>1 DEF ClaimsPaired
    <2> QED BY <1>0, <2>1, <2>2 DEF WithoutSubjects
  <1>2. ASSUME NEW s \in Subject, WithoutSubjects(S)[s] # 0
        PROVE  /\ SubjectOf(WithoutSubjects(S)[s]) = s
               /\ WithoutEvents(S)[WithoutSubjects(S)[s]] # NoClaim
    <2>1. /\ subjectClaims[s] \notin S /\ subjectClaims[s] # 0
          /\ WithoutSubjects(S)[s] = subjectClaims[s] /\ subjectClaims[s] \in Id
      BY <1>0, <1>2 DEF WithoutSubjects
    <2>2. SubjectOf(subjectClaims[s]) = s /\ eventClaims[subjectClaims[s]] # NoClaim
      BY <2>1 DEF ClaimsPaired
    <2> QED BY <2>1, <2>2 DEF WithoutEvents
  <1> QED BY <1>1, <1>2

(* With both tables written as DeleteClaims does, or with the claims only  *)
(* changed in owner or life, the tables stay paired.                       *)
LEMMA PairedKept ==
  ASSUME Typed, Typed', ClaimsPaired, [Next]_vars,
         subjectClaims' = subjectClaims,
         \A i \in Id : (eventClaims'[i] = NoClaim) <=> (eventClaims[i] = NoClaim)
  PROVE  ClaimsPaired'
  <1>0. /\ subjectClaims \in [Subject -> 0..MaxFeed] /\ Id = 1..MaxFeed /\ MaxFeed \in Nat
        /\ \A i \in Listed : i \in Id /\ SubjectOf(i) \in Subject
    BY EventTyped, Constants DEF Typed, TypeOK, Id, Listed
  <1>1. \A i \in Listed : i \in Listed' /\ feed'[i].subject = SubjectOf(i)
    BY FeedGrows DEF Listed, SubjectOf
  <1>2. ASSUME NEW i \in Id, eventClaims'[i] # NoClaim
        PROVE  i \in Listed' /\ subjectClaims'[feed'[i].subject] = i
    <2>1. i \in Listed /\ subjectClaims[SubjectOf(i)] = i
      BY <1>2 DEF ClaimsPaired
    <2> QED BY <1>1, <2>1
  <1>3. ASSUME NEW s \in Subject, subjectClaims'[s] # 0
        PROVE  /\ feed'[subjectClaims'[s]].subject = s
               /\ eventClaims'[subjectClaims'[s]] # NoClaim
    <2>1. /\ subjectClaims[s] \in Id /\ SubjectOf(subjectClaims[s]) = s
          /\ eventClaims[subjectClaims[s]] # NoClaim
      BY <1>0, <1>3 DEF ClaimsPaired
    <2>2. subjectClaims[s] \in Listed
      BY <2>1 DEF ClaimsPaired
    <2> QED BY <1>1, <2>1, <2>2
  <1> QED BY <1>2, <1>3 DEF ClaimsPaired, SubjectOf

LEMMA PairedDeleted ==
  ASSUME Typed, ClaimsPaired, feed' = feed, NEW S, DeleteClaims(S)
  PROVE  ClaimsPaired'
  BY PairedWithout DEF DeleteClaims, ClaimsPaired, Listed, SubjectOf

(* A claim is inserted only where, after the sweep, its subject has none.  *)
LEMMA PairedAcquired ==
  ASSUME Typed, ClaimsPaired, feed' = feed, NEW i \in Listed, NEW q, NEW c \in Claim,
         ClaimOutcome(i, q) = "acquired",
         eventClaims' = [WithoutEvents(Swept(i, "acquired")) EXCEPT ![i] = c],
         subjectClaims' = [WithoutSubjects(Swept(i, "acquired")) EXCEPT ![SubjectOf(i)] = i]
  PROVE  ClaimsPaired'
  <1> DEFINE S == Swept(i, "acquired")
             lapsed == {j \in Id : Lapsed(j)}
             E == WithoutEvents(S)
             U == WithoutSubjects(S)
  <1>0. /\ subjectClaims \in [Subject -> 0..MaxFeed] /\ Id = 1..MaxFeed /\ MaxFeed \in Nat
        /\ i \in Id /\ \A j \in Listed : SubjectOf(j) \in Subject
        /\ E \in [Id -> Claim \cup {NoClaim}] /\ U \in [Subject -> 0..MaxFeed]
    BY EventTyped, ClaimsTyped, Constants DEF Typed, TypeOK, Id, Listed
  <1>1. c # NoClaim
    BY DEF Claim, NoClaim
  <1>2. U[SubjectOf(i)] = 0
    <2>1. WithoutSubjects(lapsed)[SubjectOf(i)] = 0
      BY DEF ClaimOutcome
    <2>2. subjectClaims[SubjectOf(i)] = 0 \/ subjectClaims[SubjectOf(i)] \in lapsed
      BY <1>0, <2>1 DEF WithoutSubjects
    <2>3. subjectClaims[SubjectOf(i)] \in lapsed => subjectClaims[SubjectOf(i)] \in S
      BY DEF Swept
    <2> QED BY <1>0, <2>2, <2>3 DEF WithoutSubjects
  <1>3. /\ \A j \in Id : E[j] # NoClaim => j \in Listed /\ U[SubjectOf(j)] = j
        /\ \A s \in Subject : U[s] # 0 => SubjectOf(U[s]) = s /\ E[U[s]] # NoClaim
    BY PairedWithout
  <1> HIDE DEF E, U, S
  <1>4. eventClaims' = [E EXCEPT ![i] = c] /\ subjectClaims' = [U EXCEPT ![SubjectOf(i)] = i]
    BY DEF E, U, S
  <1>5. ASSUME NEW j \in Id, eventClaims'[j] # NoClaim
        PROVE  j \in Listed /\ subjectClaims'[SubjectOf(j)] = j
    <2>1. CASE j = i
      BY <1>0, <1>4, <2>1
    <2>2. CASE j # i
      <3>1. j \in Listed /\ U[SubjectOf(j)] = j
        BY <1>0, <1>3, <1>4, <1>5, <2>2
      <3>2. SubjectOf(j) # SubjectOf(i)
        BY <1>0, <1>2, <3>1
      <3> QED BY <1>0, <1>4, <3>1, <3>2
    <2> QED BY <2>1, <2>2
  <1>6. ASSUME NEW s \in Subject, subjectClaims'[s] # 0
        PROVE  SubjectOf(subjectClaims'[s]) = s /\ eventClaims'[subjectClaims'[s]] # NoClaim
    <2>1. CASE s = SubjectOf(i)
      BY <1>0, <1>1, <1>4, <2>1
    <2>2. CASE s # SubjectOf(i)
      <3>1. subjectClaims'[s] = U[s] /\ U[s] \in Id
        BY <1>0, <1>4, <1>6, <2>2
      <3>2. SubjectOf(U[s]) = s /\ E[U[s]] # NoClaim
        BY <1>3, <1>6, <3>1
      <3> QED BY <1>0, <1>1, <1>4, <3>1, <3>2
    <2> QED BY <2>1, <2>2
  <1> QED BY <1>5, <1>6 DEF ClaimsPaired, Listed, SubjectOf

LEMMA AbandonKeeps ==
  ASSUME Typed, NEW p, NEW i \in Id
  PROVE  (Abandon(eventClaims, p)[i] = NoClaim) <=> (eventClaims[i] = NoClaim)
  <1>1. eventClaims[i] \in Claim \cup {NoClaim}
    BY DEF Typed, TypeOK
  <1>2. \A c \in Claim : [c EXCEPT !.owner = Gone] \in Claim
    BY DEF Claim
  <1>3. NoClaim \notin Claim
    BY DEF Claim, NoClaim
  <1> QED BY <1>1, <1>2, <1>3 DEF Abandon

LEMMA PairedStep ==
  ASSUME Typed, Typed', ClaimsPaired, [Next]_vars
  PROVE  ClaimsPaired'
  <1>1. CASE eventClaims' = eventClaims /\ subjectClaims' = subjectClaims
    BY <1>1, PairedKept
  <1>2. CASE UNCHANGED vars \/ (\E s \in Subject : Record(s))
             \/ (\E i \in Id : Rerender(i)) \/ (\E m \in requests : Serve(m))
    <2>1. eventClaims' = eventClaims /\ subjectClaims' = subjectClaims
      BY <1>2 DEF vars, store, Record, Rerender, Serve
    <2> QED BY <1>1, <2>1
  <1>3. ASSUME NEW i \in Id, ExpireClaim(i) \/ Overrun(i)
        PROVE  ClaimsPaired'
    <2>1. eventClaims' = [eventClaims EXCEPT ![i].live = FALSE]
          /\ eventClaims[i] # NoClaim /\ subjectClaims' = subjectClaims
      BY <1>3 DEF ExpireClaim, Overrun
    <2>2. eventClaims[i] \in Claim /\ eventClaims \in [Id -> Claim \cup {NoClaim}]
      BY <2>1 DEF Typed, TypeOK
    <2>3. [eventClaims[i] EXCEPT !.live = FALSE] \in Claim
      BY <2>2 DEF Claim
    <2>a. NoClaim \notin Claim
      BY DEF Claim, NoClaim
    <2>4. \A j \in Id : (eventClaims'[j] = NoClaim) <=> (eventClaims[j] = NoClaim)
      BY <2>1, <2>2, <2>3, <2>a
    <2> QED BY <2>1, <2>4, PairedKept
  <1>4. ASSUME NEW p \in Syncer, StartIncremental(p) \/ StartRebuild(p)
        PROVE  ClaimsPaired'
    <2>1. eventClaims' = eventClaims /\ subjectClaims' = subjectClaims
      BY <1>4 DEF StartIncremental, StartRebuild, store
    <2> QED BY <1>1, <2>1
  <1>5. ASSUME NEW p \in Syncer, Crash(p)
        PROVE  ClaimsPaired'
    <2>1. eventClaims' = Abandon(eventClaims, p) /\ subjectClaims' = subjectClaims
      BY <1>5 DEF Crash
    <2> QED BY <2>1, AbandonKeeps, PairedKept
  <1>6. ASSUME NEW p \in Syncer, GiveUp(p) \/ ReleaseRefused(p)
        PROVE  ClaimsPaired'
    <2>1. DeleteClaims(Released(p)) /\ feed' = feed
      BY <1>6 DEF GiveUp, ReleaseRefused, ledger
    <2> QED BY <2>1, PairedDeleted
  <1>7. ASSUME NEW p \in Syncer, BeginRebuild(p)
        PROVE  ClaimsPaired'
    BY <1>7 DEF BeginRebuild, ClaimsPaired
  <1>8. ASSUME NEW p \in Syncer, CompleteClaim(p)
        PROVE  ClaimsPaired'
    <2>1. \/ DeleteClaims({runs[p].at}) /\ feed' = feed
          \/ eventClaims' = Abandon(eventClaims, p) /\ subjectClaims' = subjectClaims
      BY <1>8 DEF CompleteClaim, ledger
    <2> QED BY <2>1, PairedDeleted, AbandonKeeps, PairedKept
  <1>9. ASSUME NEW p \in Syncer, ClaimEvent(p)
        PROVE  ClaimsPaired'
    <2> DEFINE i == runs[p].at
               q == runs[p].seen[i]
               outcome == ClaimOutcome(i, q)
               c == [owner |-> p, print |-> q, live |-> TRUE]
    <2>1. runs[p].pc \in EventStages /\ feed' = feed
      BY <1>9 DEF ClaimEvent, EventStages, ledger
    <2>2. i \in Listed /\ q \in Rendering
      BY <2>1, AtEvent DEF Listed
    <2>3. c \in Claim
      BY <2>2 DEF Claim
    <2> HIDE DEF c
    <2>4. CASE /\ outcome = "acquired"
               /\ eventClaims' = [WithoutEvents(Swept(i, outcome)) EXCEPT ![i] = c]
               /\ subjectClaims' =
                    [WithoutSubjects(Swept(i, outcome)) EXCEPT ![SubjectOf(i)] = i]
      BY <2>1, <2>2, <2>3, <2>4, PairedAcquired
    <2>5. CASE DeleteClaims(Swept(i, outcome))
      BY <2>1, <2>5, PairedDeleted
    <2>6. CASE eventClaims' = eventClaims /\ subjectClaims' = subjectClaims
      BY <1>1, <2>6
    <2> QED BY <1>9, <2>4, <2>5, <2>6 DEF ClaimEvent, c
  <1>10. ASSUME NEW p \in Syncer,
                FetchPage(p) \/ Quarantine(p) \/ Acknowledge(p) \/ Checkpoint(p)
                \/ Survey(p) \/ Mend(p) \/ Retire(p) \/ Converge(p) \/ Sign(p)
         PROVE  ClaimsPaired'
    <2>1. eventClaims' = eventClaims /\ subjectClaims' = subjectClaims
      BY <1>10 DEF FetchPage, Quarantine, Acknowledge, Checkpoint, Survey, Mend, Retire,
                   Converge, Sign, store
    <2> QED BY <1>1, <2>1
  <1> QED BY <1>2, <1>3, <1>4, <1>5, <1>6, <1>7, <1>8, <1>9, <1>10 DEF Next, Work

(* However many runs claim, expire, take over, release and reset, the two  *)
(* claim tables never disagree.                                            *)
THEOREM ClaimsStayPaired == Spec => []ClaimsPaired
  <1>1. Init => ClaimsPaired
    BY DEF Init, ClaimsPaired
  <1>2. Typed /\ ClaimsPaired /\ [Next]_vars => ClaimsPaired'
    BY TypedStep, PairedStep
  <1>3. Spec => []Typed
    BY TypedInit, TypedStep, PTL DEF Spec
  <1> QED BY <1>1, <1>2, <1>3, PTL DEF Spec

(* ------------------- what is passed is not lost ------------------------ *)

(* For the feed fd, the posts rw and the renderings pr: event i, or one of *)
(* its subject at least as new, is in Minibook, ahead of n, or excused.    *)
Covered(i, n, fd, rw, pr) ==
  \E j \in 1..Len(fd) : /\ fd[j].subject = fd[i].subject
                        /\ fd[j].version >= fd[i].version
                        /\ rw[j] # NoPrint \/ j > n \/ pr[j] # 1
Skips(n, fd, rw, pr) ==
  n <= Len(fd) /\ \A i \in 1..n : Covered(i, n, fd, rw, pr)

(* The event up to which a run has dealt with the feed.                    *)
Passed(r) == CASE r.pc = "fetch" -> r.after
               [] r.pc = "begin" -> 0
               [] r.pc \in EventStages -> r.at - 1
               [] OTHER -> r.upto

(* What a run knows between two steps stays true while others work.        *)
Truth(r, fd, rw, pr) ==
  /\ r.pc = "written" => rw[r.at] = r.seen[r.at]
  /\ r.pc = "ack" => fd[r.at].kind # "result" /\ rw[r.at] # NoPrint
  /\ r.pc = "sign" => \A i \in r.mend : fd[i].kind # "result"
  /\ r.pc \in {"stale", "conflict", "drop"} /\ ~r.flaw =>
       Covered(r.at, r.at, fd, rw, pr)
  /\ r.pc \in {"fetch", "begin"} \cup EndStages => ~r.flaw
  /\ r.pc \in {"begin"} \cup EventStages =>
       \A i \in r.at..r.upto : r.seen[i] = 2 => pr[i] # 1
  /\ r.pc # "idle" /\ ~r.flaw => Skips(Passed(r), fd, rw, pr)

RunsTrue == \A p \in Syncer : Truth(runs[p], feed, rows, print)

StoreTrue ==
  /\ CommittedIsMirrored /\ HeadsBehind
  /\ \A i \in Id : eventClaims[i] # NoClaim /\ eventClaims[i].print = 2 => print[i] # 1
  /\ Skips(cursor, feed, rows, print)

(* fd, rw, pr may become gd, sw, qr in one step.                           *)
Grown(fd, rw, pr, gd, sw, qr) ==
  /\ Len(fd) \in Nat /\ Len(gd) \in Nat /\ Len(fd) <= Len(gd) /\ Len(fd) <= MaxFeed
  /\ \A i \in 1..Len(fd) : gd[i] = fd[i]
  /\ \A i \in Id : rw[i] # NoPrint => sw[i] = rw[i]
  /\ \A i \in Id : pr[i] # 1 => qr[i] # 1

LEMMA CoveredKept ==
  ASSUME NEW fd, NEW rw, NEW pr, NEW gd, NEW sw, NEW qr,
         Grown(fd, rw, pr, gd, sw, qr), NEW i \in 1..Len(fd), NEW n,
         Covered(i, n, fd, rw, pr)
  PROVE  Covered(i, n, gd, sw, qr)
  <1>1. PICK j \in 1..Len(fd) : /\ fd[j].subject = fd[i].subject
                                /\ fd[j].version >= fd[i].version
                                /\ rw[j] # NoPrint \/ j > n \/ pr[j] # 1
    BY DEF Covered
  <1>2. j \in Id /\ j \in 1..Len(gd) /\ gd[j] = fd[j] /\ gd[i] = fd[i]
    BY Constants DEF Grown, Id
  <1>3. sw[j] # NoPrint \/ j > n \/ qr[j] # 1
    BY <1>1, <1>2 DEF Grown
  <1> QED BY <1>1, <1>2, <1>3 DEF Covered

LEMMA SkipsKept ==
  ASSUME NEW fd, NEW rw, NEW pr, NEW gd, NEW sw, NEW qr,
         Grown(fd, rw, pr, gd, sw, qr), NEW n \in Int, Skips(n, fd, rw, pr)
  PROVE  Skips(n, gd, sw, qr)
  <1>1. n <= Len(gd) /\ \A i \in 1..n : i \in 1..Len(fd)
    BY DEF Skips, Grown
  <1>2. \A i \in 1..n : Covered(i, n, gd, sw, qr)
    BY <1>1, CoveredKept DEF Skips
  <1> QED BY <1>1, <1>2 DEF Skips

LEMMA PassedInt ==
  ASSUME NEW r \in Run
  PROVE  Passed(r) \in Int
  BY Constants DEF Passed, Run, EventStages, Absent, Nowhere

LEMMA TruthKept ==
  ASSUME NEW fd, NEW rw, NEW pr, NEW gd, NEW sw, NEW qr,
         Grown(fd, rw, pr, gd, sw, qr),
         NEW r \in Run, Shown(r, Len(fd)), Truth(r, fd, rw, pr)
  PROVE  Truth(r, gd, sw, qr)
  <1>1. r.pc \in EventStages =>
          r.at \in 1..Len(fd) /\ r.at \in Id /\ r.seen[r.at] # NoPrint
    <2>1. r.at \in Int /\ r.upto \in Int /\ MaxFeed \in Nat
      BY Constants DEF Run, Nowhere
    <2> QED BY <2>1 DEF Shown, EventStages, Grown, Rendering, NoPrint, Id
  <1>2. r.pc = "written" => sw[r.at] = r.seen[r.at]
    BY <1>1 DEF Truth, Grown, EventStages
  <1>3. r.pc = "ack" => gd[r.at].kind # "result" /\ sw[r.at] # NoPrint
    BY <1>1 DEF Truth, Grown, EventStages
  <1>4. r.pc = "sign" => \A i \in r.mend : gd[i].kind # "result"
    <2>1. r.pc = "sign" => \A i \in r.mend : i \in 1..Len(fd)
      BY DEF Shown
    <2> QED BY <2>1 DEF Truth, Grown
  <1>5. r.pc \in {"stale", "conflict", "drop"} /\ ~r.flaw =>
          Covered(r.at, r.at, gd, sw, qr)
    BY <1>1, CoveredKept DEF Truth, EventStages
  <1>6. r.pc \in {"begin"} \cup EventStages =>
          \A i \in r.at..r.upto : r.seen[i] = 2 => qr[i] # 1
    <2>1. r.pc \in {"begin"} \cup EventStages => \A i \in r.at..r.upto : i \in 1..Len(fd)
      BY DEF Shown, EventStages
    <2>2. 1..Len(fd) \subseteq Id
      BY Constants DEF Grown, Id
    <2> QED BY <2>1, <2>2 DEF Truth, Grown
  <1>7. r.pc # "idle" /\ ~r.flaw => Skips(Passed(r), gd, sw, qr)
    BY PassedInt, SkipsKept DEF Truth
  <1>8. r.pc \in {"fetch", "begin"} \cup EndStages => ~r.flaw
    BY DEF Truth
  <1> QED BY <1>2, <1>3, <1>4, <1>5, <1>6, <1>7, <1>8 DEF Truth

(* A shorter stretch of a covered one is covered; and so is one event more *)
(* once that event is itself covered.                                      *)
LEMMA SkipsDown ==
  ASSUME NEW fd, NEW rw, NEW pr, NEW n \in Int, NEW m \in Int, m <= n,
         Len(fd) \in Nat, Skips(n, fd, rw, pr)
  PROVE  Skips(m, fd, rw, pr)
  <1>1. m <= Len(fd) /\ \A i \in 1..m : i \in 1..n
    BY DEF Skips
  <1>2. ASSUME NEW i \in 1..m PROVE Covered(i, m, fd, rw, pr)
    <2>1. PICK j \in 1..Len(fd) : /\ fd[j].subject = fd[i].subject
                                  /\ fd[j].version >= fd[i].version
                                  /\ rw[j] # NoPrint \/ j > n \/ pr[j] # 1
      BY <1>1 DEF Skips, Covered
    <2>2. j > n => j > m
      OBVIOUS
    <2> QED BY <2>1, <2>2 DEF Covered
  <1> QED BY <1>1, <1>2 DEF Skips

LEMMA SkipsNone ==
  ASSUME NEW fd, NEW rw, NEW pr, NEW m \in Int, m <= 0, Len(fd) \in Nat
  PROVE  Skips(m, fd, rw, pr)
  BY DEF Skips

LEMMA SkipsNext ==
  ASSUME NEW fd, NEW rw, NEW pr, Len(fd) \in Nat,
         \A k \in 1..Len(fd) : fd[k].version \in Nat,
         NEW a \in 1..Len(fd), Skips(a - 1, fd, rw, pr), Covered(a, a, fd, rw, pr)
  PROVE  Skips(a, fd, rw, pr)
  <1>1. PICK b \in 1..Len(fd) : /\ fd[b].subject = fd[a].subject
                                /\ fd[b].version >= fd[a].version
                                /\ rw[b] # NoPrint \/ b > a \/ pr[b] # 1
    BY DEF Covered
  <1>2. ASSUME NEW i \in 1..a
        PROVE  Covered(i, a, fd, rw, pr)
    <2>1. CASE i = a
      BY <2>1
    <2>2. CASE i # a
      <3>1. i \in 1..(a - 1)
        BY <2>2
      <3>2. PICK j \in 1..Len(fd) : /\ fd[j].subject = fd[i].subject
                                    /\ fd[j].version >= fd[i].version
                                    /\ rw[j] # NoPrint \/ j > a - 1 \/ pr[j] # 1
        BY <3>1 DEF Skips, Covered
      <3>3. CASE j = a
        <4>1. fd[b].subject = fd[i].subject /\ fd[b].version >= fd[i].version
          BY <1>1, <3>2, <3>3
        <4> QED BY <1>1, <4>1 DEF Covered
      <3>4. CASE j # a
        <4>1. rw[j] # NoPrint \/ j > a \/ pr[j] # 1
          BY <3>2, <3>4
        <4> QED BY <3>2, <4>1 DEF Covered
      <3> QED BY <3>3, <3>4
    <2> QED BY <2>1, <2>2
  <1> QED BY <1>2 DEF Skips

LEMMA AdvancedTrue ==
  ASSUME Typed, NEW p \in Syncer, runs[p].pc \in EventStages, NEW flaw \in BOOLEAN,
         Truth(runs[p], feed, rows, print),
         flaw \/ runs[p].flaw \/ Covered(runs[p].at, runs[p].at, feed, rows, print)
  PROVE  Truth(Advanced(runs[p], flaw), feed, rows, print)
  <1> DEFINE r == runs[p]
             bad == r.flaw \/ flaw
             next == [r EXCEPT !.pc = "event", !.at = r.at + 1, !.flaw = bad]
             end == [r EXCEPT !.pc = IF r.mode = "rebuild" THEN "survey"
                                     ELSE "checkpoint"]
  <1>0. /\ r \in Run /\ r.at \in 1..Len(feed) /\ r.at \in Int /\ r.upto \in Int
        /\ r.at <= r.upto /\ r.flaw \in BOOLEAN /\ Len(feed) \in Nat
        /\ \A k \in 1..Len(feed) : feed[k].version \in Nat
    <2>1. Len(feed) \in Nat
      BY DEF Typed, TypeOK
    <2>2. r \in Run /\ r.at \in 1..Len(feed) /\ r.at <= r.upto
      BY AtEvent
    <2>3. r.upto \in Int /\ r.flaw \in BOOLEAN
      BY <2>2, Constants DEF Run, Nowhere
    <2>4. \A k \in 1..Len(feed) : feed[k].version \in Nat
      BY EventTyped DEF Typed, VersionOf
    <2> QED BY <2>1, <2>2, <2>3, <2>4
  <1>1. ~bad => Skips(r.at, feed, rows, print)
    <2>1. ~r.flaw => Skips(r.at - 1, feed, rows, print)
      BY DEF Truth, Passed, EventStages
    <2> QED BY <1>0, <2>1, SkipsNext
  <1>2. CASE r.at < r.upto
    <2>1. Advanced(r, flaw) = next
      BY <1>0, <1>2 DEF Advanced
    <2>2. /\ next.pc = "event" /\ next.at = r.at + 1 /\ next.flaw = bad
          /\ next.upto = r.upto /\ next.seen = r.seen
      BY <1>0 DEF Run
    <2>3. \A i \in r.at..r.upto : r.seen[i] = 2 => print[i] # 1
      BY DEF Truth, EventStages
    <2> HIDE DEF next, bad
    <2>4. \A i \in (r.at + 1)..r.upto : r.seen[i] = 2 => print[i] # 1
      BY <1>0, <2>3
    <2>5. ~bad => Skips(Passed(next), feed, rows, print)
      BY <1>0, <1>1, <2>2 DEF Passed, EventStages
    <2>6. Truth(next, feed, rows, print)
      BY <2>2, <2>4, <2>5 DEF Truth, EventStages, EndStages
    <2> QED BY <2>1, <2>6
  <1>3. CASE ~(r.at < r.upto) /\ bad
    <2>1. Advanced(r, flaw) = Idle
      BY <1>0, <1>3 DEF Advanced
    <2> QED BY <2>1 DEF Truth, Idle, EventStages, EndStages
  <1>4. CASE ~(r.at < r.upto) /\ ~bad
    <2>1. Advanced(r, flaw) = end
      BY <1>0, <1>4 DEF Advanced
    <2>2. /\ end.pc \in {"survey", "checkpoint"} /\ end.upto = r.at
          /\ end.flaw = r.flaw /\ ~r.flaw
      BY <1>0, <1>4 DEF Run
    <2> HIDE DEF end
    <2>3. Skips(Passed(end), feed, rows, print)
      BY <1>1, <1>4, <2>2 DEF Passed, EventStages
    <2>4. Truth(end, feed, rows, print)
      BY <2>2, <2>3 DEF Truth, EventStages, EndStages
    <2> QED BY <2>1, <2>4
  <1> QED BY <1>2, <1>3, <1>4

LEMMA IdleTrue ==
  ASSUME NEW fd, NEW rw, NEW pr
  PROVE  Truth(Idle, fd, rw, pr)
  BY DEF Truth, Idle, EventStages, EndStages

LEMMA StepGrown ==
  ASSUME Typed, Typed', MirrorOK, [Next]_vars
  PROVE  Grown(feed, rows, print, feed', rows', print')
  BY FeedGrows, MirrorStep DEF Grown, Typed, TypeOK

(* A step that moves one run to a true local state, or none, keeps them    *)
(* all true.                                                               *)
LEMMA RunsTrueKept ==
  ASSUME Typed, Typed', MirrorOK, RunsTrue, [Next]_vars,
         \/ runs' = runs
         \/ \E p \in Syncer : \E x : /\ runs' = [runs EXCEPT ![p] = x]
                                     /\ Truth(x, feed', rows', print')
  PROVE  RunsTrue'
  <1>0. \A k \in Syncer : runs[k] \in Run /\ Shown(runs[k], Len(feed))
                          /\ Truth(runs[k], feed, rows, print)
    BY DEF Typed, TypeOK, RunsShown, RunsTrue
  <1>1. \A k \in Syncer : Truth(runs[k], feed', rows', print')
    BY <1>0, StepGrown, TruthKept
  <1>2. runs \in [Syncer -> Run]
    BY DEF Typed, TypeOK
  <1>3. \A k \in Syncer : Truth(runs'[k], feed', rows', print')
    BY <1>1, <1>2
  <1> QED BY <1>3 DEF RunsTrue

(* A step that leaves the store and the acknowledgements keeps them true.  *)
LEMMA StoreTrueKept ==
  ASSUME Typed, Typed', MirrorOK, StoreTrue, [Next]_vars,
         processed' = processed, heads' = heads, acks' = acks, cursor' = cursor,
         \A i \in Id : eventClaims'[i] # NoClaim =>
           /\ eventClaims[i] # NoClaim /\ eventClaims'[i].print = eventClaims[i].print
  PROVE  StoreTrue'
  <1>1. Grown(feed, rows, print, feed', rows', print')
    BY StepGrown
  <1>2. CommittedIsMirrored'
    <2>1. \A i \in Id : processed[i] # NoPrint => rows'[i] = processed[i]
      BY <1>1 DEF StoreTrue, CommittedIsMirrored, Grown
    <2>2. \A i \in acks : rows'[i] # NoPrint /\ feed'[i].kind # "result"
      <3> TAKE i \in acks
      <3>1. i \in Id /\ rows[i] # NoPrint /\ feed[i].kind # "result"
        BY DEF StoreTrue, CommittedIsMirrored, Typed, TypeOK
      <3>2. i \in 1..Len(feed)
        BY <3>1 DEF MirrorOK
      <3> QED BY <1>1, <3>1, <3>2 DEF Grown
    <2> QED BY <2>1, <2>2 DEF CommittedIsMirrored
  <1>3. HeadsBehind'
    <2>1. \A s \in Subject : heads[s] <= remoteHeads[s] /\ remoteHeads[s] <= remoteHeads'[s]
      BY MirrorStep DEF StoreTrue, HeadsBehind
    <2>2. \A s \in Subject : heads[s] \in Nat /\ remoteHeads[s] \in Nat
                             /\ remoteHeads'[s] \in Nat
      BY DEF Typed, TypeOK
    <2> QED BY <2>1, <2>2 DEF HeadsBehind
  <1>4. \A i \in Id : eventClaims'[i] # NoClaim /\ eventClaims'[i].print = 2
                      => print'[i] # 1
    BY <1>1 DEF StoreTrue, Grown
  <1>5. Skips(cursor, feed', rows', print')
    <2>1. cursor \in Int
      BY Constants DEF Typed, TypeOK, Absent
    <2> QED BY <1>1, <2>1, SkipsKept DEF StoreTrue
  <1> QED BY <1>2, <1>3, <1>4, <1>5 DEF StoreTrue

LEMMA WithoutKeeps ==
  ASSUME NEW S, NEW i \in Id, WithoutEvents(S)[i] # NoClaim
  PROVE  eventClaims[i] # NoClaim /\ WithoutEvents(S)[i] = eventClaims[i]
  BY DEF WithoutEvents

LEMMA AbandonPrints ==
  ASSUME Typed, NEW p, NEW i \in Id, Abandon(eventClaims, p)[i] # NoClaim
  PROVE  /\ eventClaims[i] # NoClaim
         /\ Abandon(eventClaims, p)[i].print = eventClaims[i].print
  <1>1. eventClaims[i] # NoClaim
    BY AbandonKeeps
  <1>2. eventClaims[i] \in Claim
    BY <1>1 DEF Typed, TypeOK
  <1>3. [eventClaims[i] EXCEPT !.owner = Gone].print = eventClaims[i].print
    BY <1>2 DEF Claim
  <1> QED BY <1>1, <1>3 DEF Abandon

Good == Typed /\ MirrorOK /\ ClaimsPaired /\ StoreTrue /\ RunsTrue

(* An event that Minibook, or a newer one, has need not come again.        *)
LEMMA BehindHead ==
  ASSUME Typed, MirrorOK, NEW i \in 1..Len(feed), NEW n,
         VersionOf(i) <= remoteHeads[SubjectOf(i)]
  PROVE  Covered(i, n, feed, rows, print)
  <1>0. SubjectOf(i) \in Subject /\ VersionOf(i) \in Nat \ {0}
        /\ remoteHeads[SubjectOf(i)] \in Nat
    BY EventTyped DEF Typed, TypeOK
  <1>1. remoteHeads[SubjectOf(i)] # 0
    BY <1>0
  <1>2. PICK j \in 1..Len(feed) : /\ SubjectOf(j) = SubjectOf(i) /\ rows[j] # NoPrint
                                  /\ VersionOf(j) = remoteHeads[SubjectOf(i)]
    BY <1>0, <1>1 DEF MirrorOK
  <1> QED BY <1>0, <1>2 DEF Covered, SubjectOf, VersionOf

LEMMA Present ==
  ASSUME Typed, NEW i \in 1..Len(feed), NEW n, rows[i] # NoPrint \/ print[i] # 1
  PROVE  Covered(i, n, feed, rows, print)
  <1>1. VersionOf(i) \in Nat
    BY EventTyped DEF Typed
  <1> QED BY <1>1 DEF Covered, VersionOf

(* What the cursor store calls stale or a conflict is superseded: by what  *)
(* Minibook has, by a claim of a newer event, or by a new rendering.       *)
LEMMA RefusedLocally ==
  ASSUME Good, NEW p \in Syncer, runs[p].pc = "event", ~runs[p].flaw,
         ClaimOutcome(runs[p].at, runs[p].seen[runs[p].at]) \in {"stale", "conflict"}
  PROVE  Covered(runs[p].at, runs[p].at, feed, rows, print)
  <1> DEFINE r == runs[p]
             i == r.at
             q == r.seen[i]
             rival == WithoutSubjects({j \in Id : Lapsed(j)})[SubjectOf(i)]
  <1>0. /\ i \in 1..Len(feed) /\ i \in Id /\ q \in Rendering /\ SubjectOf(i) \in Subject
        /\ VersionOf(i) \in Nat \ {0} /\ Len(feed) \in Nat /\ i <= r.upto /\ r.upto \in Int
    <2>1. Typed /\ runs[p].pc \in EventStages
      BY DEF Good, EventStages
    <2>2. Len(feed) \in Nat
      BY <2>1 DEF Typed, TypeOK
    <2> HIDE DEF Good
    <2>3. r \in Run /\ i \in 1..Len(feed) /\ i \in Id /\ q \in Rendering /\ i <= r.upto
          /\ SubjectOf(i) \in Subject /\ VersionOf(i) \in Nat \ {0}
      BY <2>1, AtEvent
    <2>4. r.upto \in Int
      BY <2>3, Constants DEF Run, Nowhere
    <2> QED BY <2>2, <2>3, <2>4
  <1>1. /\ \A j \in Id : processed[j] # NoPrint => rows[j] = processed[j]
        /\ \A s \in Subject : heads[s] <= remoteHeads[s]
        /\ \A j \in Id : eventClaims[j] # NoClaim /\ eventClaims[j].print = 2
                         => print[j] # 1
    BY DEF Good, StoreTrue, CommittedIsMirrored, HeadsBehind
  <1>2. Truth(r, feed, rows, print)
    BY DEF Good, RunsTrue
  <1>3. Skips(i - 1, feed, rows, print) /\ (q = 2 => print[i] # 1)
    <2>1. i \in r.at..r.upto
      BY <1>0
    <2> QED BY <1>2, <2>1 DEF Truth, Passed, EventStages
  <1>4. Typed /\ MirrorOK /\ ClaimsPaired
    BY DEF Good
  <1>5. /\ heads[SubjectOf(i)] \in Nat /\ remoteHeads[SubjectOf(i)] \in Nat
        /\ subjectClaims \in [Subject -> 0..MaxFeed] /\ Id = 1..MaxFeed /\ MaxFeed \in Nat
        /\ eventClaims \in [Id -> Claim \cup {NoClaim}]
    BY <1>0, <1>4, Constants DEF Typed, TypeOK, Id
  <1>6. CASE processed[i] # NoPrint
    BY <1>0, <1>1, <1>4, <1>6, Present
  <1>7. CASE processed[i] = NoPrint /\ eventClaims[i] # NoClaim /\ eventClaims[i].print # q
    <2>1. eventClaims[i] \in Claim
      BY <1>0, <1>5, <1>7
    <2>2. eventClaims[i].print = 2 \/ q = 2
      BY <1>0, <1>7, <2>1 DEF Claim, Rendering
    <2>3. print[i] # 1
      BY <1>0, <1>1, <1>3, <1>7, <2>2
    <2> QED BY <1>0, <1>4, <2>3, Present
  <1>8. CASE VersionOf(i) <= heads[SubjectOf(i)]
    <2>1. VersionOf(i) <= remoteHeads[SubjectOf(i)]
      BY <1>0, <1>1, <1>5, <1>8
    <2> QED BY <1>0, <1>4, <2>1, BehindHead
  <1>9. CASE rival # 0 /\ VersionOf(rival) > VersionOf(i)
    <2>1. rival = subjectClaims[SubjectOf(i)] /\ rival \in Id
      BY <1>0, <1>5, <1>9 DEF WithoutSubjects
    <2>2. SubjectOf(rival) = SubjectOf(i) /\ eventClaims[rival] # NoClaim
      BY <1>0, <1>4, <1>9, <2>1 DEF ClaimsPaired
    <2>3. rival \in 1..Len(feed)
      BY <1>4, <2>1, <2>2 DEF ClaimsPaired, Listed
    <2> HIDE DEF rival
    <2>4. VersionOf(rival) \in Nat
      BY <1>4, <2>3, EventTyped DEF Typed
    <2>5. CASE rival > i
      BY <1>0, <1>9, <2>2, <2>3, <2>4, <2>5 DEF Covered, SubjectOf, VersionOf
    <2>6. CASE ~(rival > i)
      <3>1. rival \in 1..(i - 1)
        BY <1>0, <1>9, <2>3, <2>6
      <3>2. PICK j \in 1..Len(feed) : /\ feed[j].subject = feed[rival].subject
                                      /\ feed[j].version >= feed[rival].version
                                      /\ rows[j] # NoPrint \/ j > i - 1 \/ print[j] # 1
        BY <1>3, <3>1 DEF Skips, Covered
      <3>3. VersionOf(j) \in Nat
        BY <1>4, EventTyped DEF Typed
      <3>4. feed[j].subject = feed[i].subject /\ feed[j].version > feed[i].version
        BY <1>0, <1>9, <2>2, <2>4, <3>2, <3>3 DEF SubjectOf, VersionOf
      <3>5. j # i
        BY <1>0, <3>4 DEF VersionOf
      <3>6. rows[j] # NoPrint \/ j > i \/ print[j] # 1
        BY <1>0, <3>2, <3>5
      <3>7. feed[j].version >= feed[i].version
        BY <1>0, <3>3, <3>4 DEF VersionOf
      <3> QED BY <3>4, <3>6, <3>7 DEF Covered
    <2> QED BY <2>5, <2>6
  <1> HIDE DEF i, q
  <1>10. \/ processed[i] # NoPrint
         \/ processed[i] = NoPrint /\ eventClaims[i] # NoClaim /\ eventClaims[i].print # q
         \/ VersionOf(i) <= heads[SubjectOf(i)]
         \/ rival # 0 /\ VersionOf(rival) > VersionOf(i)
    <2>1. ClaimOutcome(i, q) \in {"stale", "conflict"}
      BY DEF i, q
    <2>2. q # NoPrint
      BY <1>0 DEF Rendering, NoPrint
    <2> QED BY <2>1, <2>2 DEF ClaimOutcome
  <1> QED BY <1>6, <1>7, <1>8, <1>9, <1>10 DEF i, q

(* What Minibook refuses is superseded by what it has.                     *)
LEMMA RefusedRemotely ==
  ASSUME Typed, MirrorOK, NEW i \in 1..Len(feed), NEW q \in Rendering, NEW n,
         UpsertOutcome(i, q) # "written"
  PROVE  Covered(i, n, feed, rows, print)
  <1>0. /\ VersionOf(i) \in Nat /\ SubjectOf(i) \in Subject
        /\ remoteHeads[SubjectOf(i)] \in Nat
    BY EventTyped DEF Typed, TypeOK
  <1>1. rows[i] # NoPrint \/ VersionOf(i) <= remoteHeads[SubjectOf(i)]
    BY <1>0 DEF UpsertOutcome
  <1> QED BY <1>1, BehindHead, Present

(* The steps, each with what it does to the runs and to the store.         *)
LEMMA OtherStepsTrue ==
  ASSUME Good, Typed', [Next]_vars,
         \/ UNCHANGED vars
         \/ \E s \in Subject : Record(s)
         \/ \E i \in Id : Rerender(i) \/ ExpireClaim(i) \/ Overrun(i)
         \/ \E p \in Syncer : GiveUp(p) \/ Crash(p)
  PROVE  StoreTrue' /\ RunsTrue'
  <1>0. Typed /\ MirrorOK /\ StoreTrue /\ RunsTrue
    BY DEF Good
  <1>1. processed' = processed /\ heads' = heads /\ acks' = acks /\ cursor' = cursor
    BY DEF vars, store, Record, Rerender, ExpireClaim, Overrun, GiveUp, Crash
  <1>2. ASSUME NEW i \in Id, eventClaims'[i] # NoClaim
        PROVE  eventClaims[i] # NoClaim /\ eventClaims'[i].print = eventClaims[i].print
    <2>1. CASE eventClaims' = eventClaims
      BY <1>2, <2>1
    <2>2. CASE \E p \in Syncer : GiveUp(p) \/ Crash(p)
      <3>1. \/ \E p \in Syncer : eventClaims' = Abandon(eventClaims, p)
            \/ \E S : eventClaims' = WithoutEvents(S)
        BY <2>2 DEF GiveUp, Crash, DeleteClaims
      <3> QED BY <1>0, <1>2, <3>1, AbandonPrints, WithoutKeeps
    <2>3. ASSUME NEW j \in Id, ExpireClaim(j) \/ Overrun(j)
          PROVE  eventClaims[i] # NoClaim /\ eventClaims'[i].print = eventClaims[i].print
      <3>1. eventClaims[j] # NoClaim
            /\ eventClaims' = [eventClaims EXCEPT ![j].live = FALSE]
        BY <2>3 DEF ExpireClaim, Overrun
      <3>2. eventClaims \in [Id -> Claim \cup {NoClaim}]
        BY <1>0 DEF Typed, TypeOK
      <3>3. CASE i = j
        <4>1. eventClaims[i] \in Claim
          BY <3>1, <3>2, <3>3
        <4>2. eventClaims'[i] = [eventClaims[i] EXCEPT !.live = FALSE]
          BY <3>1, <3>2, <3>3
        <4>3. eventClaims'[i].print = eventClaims[i].print
          BY <4>1, <4>2 DEF Claim
        <4> QED BY <3>1, <3>3, <4>3
      <3>4. CASE i # j
        BY <1>2, <3>1, <3>2, <3>4
      <3> QED BY <3>3, <3>4
    <2>4. CASE UNCHANGED vars \/ (\E s \in Subject : Record(s)) \/ (\E j \in Id : Rerender(j))
      <3>1. eventClaims' = eventClaims
        BY <2>4 DEF vars, store, Record, Rerender
      <3> QED BY <2>1, <3>1
    <2> QED BY <2>2, <2>3, <2>4
  <1>3. StoreTrue'
    BY <1>0, <1>1, <1>2, StoreTrueKept
  <1>4. \/ runs' = runs
        \/ \E p \in Syncer : runs' = [runs EXCEPT ![p] = Idle]
    BY DEF vars, Record, Rerender, ExpireClaim, Overrun, GiveUp, Crash, Raise
  <1>5. RunsTrue'
    BY <1>0, <1>4, IdleTrue, RunsTrueKept
  <1> QED BY <1>3, <1>5

LEMMA ServeTrue ==
  ASSUME Good, Typed', [Next]_vars, NEW m \in requests, Serve(m)
  PROVE  StoreTrue' /\ RunsTrue'
  <1>0. Typed /\ MirrorOK /\ StoreTrue /\ RunsTrue
    BY DEF Good
  <1>1. StoreTrue'
    BY <1>0, StoreTrueKept DEF Serve, store
  <1>2. CASE runs' = runs
    BY <1>0, <1>1, <1>2, RunsTrueKept
  <1>3. CASE runs' # runs
    <2> DEFINE p == m.run
               r == runs[p]
               i == m.event
               pc == UpsertOutcome(i, m.print)
               x == [r EXCEPT !.pc = pc]
    <2>1. /\ p \in Syncer /\ r.pc = "waiting" /\ r.at = i /\ r.seen[i] = m.print
          /\ runs' = [runs EXCEPT ![p].pc = pc] /\ Upsert(i, m.print) /\ feed' = feed
          /\ print' = print
      BY <1>0, <1>3 DEF Serve, Go, Typed, TypeOK, Request, ledger
    <2>2. r \in Run /\ Truth(r, feed, rows, print) /\ i \in 1..Len(feed) /\ i \in Id
          /\ m.print \in Rendering
      BY <1>0, <2>1, AtEvent DEF Typed, TypeOK, RunsTrue, AskedListed, Request, EventStages
    <2>3. Grown(feed, rows, print, feed', rows', print')
      BY <1>0, StepGrown
    <2>4. Truth(r, feed', rows', print')
      BY <1>0, <2>1, <2>2, <2>3, TruthKept DEF Typed, RunsShown
    <2>5. runs' = [runs EXCEPT ![p] = x]
      BY <2>1
    <2>6. /\ x.pc = pc /\ x.at = r.at /\ x.upto = r.upto /\ x.seen = r.seen
          /\ x.flaw = r.flaw
      BY <2>2 DEF Run
    <2>7. pc = "written" => rows'[i] = m.print
      <3>1. rows \in [Id -> Rendering \cup {NoPrint}]
        BY <1>0 DEF Typed, TypeOK
      <3> QED BY <2>1, <2>2, <3>1 DEF Upsert
    <2>8. pc # "written" => Covered(i, i, feed', rows', print')
      BY <1>0, <2>2, <2>3, RefusedRemotely, CoveredKept
    <2>9. pc \in {"written", "stale", "conflict"}
      BY OutcomeOfUpsert
    <2> HIDE DEF x, pc
    <2>10. Passed(x) = Passed(r)
      BY <2>1, <2>6, <2>9 DEF Passed, EventStages
    <2>11. Truth(x, feed', rows', print')
      BY <2>1, <2>4, <2>6, <2>7, <2>8, <2>9, <2>10 DEF Truth, EventStages, EndStages
    <2> QED BY <1>0, <1>1, <2>1, <2>5, <2>11, RunsTrueKept
  <1> QED BY <1>1, <1>2, <1>3

LEMMA StartTrue ==
  ASSUME Good, Typed', [Next]_vars, NEW p \in Syncer,
         StartIncremental(p) \/ StartRebuild(p) \/ FetchPage(p)
  PROVE  StoreTrue' /\ RunsTrue'
  <1>0. /\ Typed /\ MirrorOK /\ StoreTrue /\ RunsTrue /\ TypeOK
        /\ feed' = feed /\ rows' = rows /\ print' = print
    BY DEF Good, Typed, StartIncremental, StartRebuild, FetchPage, ledger, mirror
  <1>1. StoreTrue'
    BY <1>0, StoreTrueKept DEF StartIncremental, StartRebuild, FetchPage, store
  <1>2. Len(feed) \in Nat /\ cursor \in Int /\ runs[p] \in Run
        /\ Truth(runs[p], feed, rows, print) /\ Shown(runs[p], Len(feed))
    BY <1>0, Constants DEF Typed, TypeOK, Absent, RunsTrue, RunsShown
  <1>3. CASE StartIncremental(p)
    <2> DEFINE x == [Idle EXCEPT !.pc = "fetch", !.mode = "incremental", !.after = cursor]
    <2>1. x.pc = "fetch" /\ x.flaw = FALSE /\ Passed(x) = cursor
      BY DEF Idle, Passed, EventStages
    <2>2. runs' = [runs EXCEPT ![p] = x]
      BY <1>3 DEF StartIncremental
    <2> HIDE DEF x
    <2>3. Truth(x, feed, rows, print)
      BY <1>0, <2>1 DEF StoreTrue, Truth, EventStages, EndStages
    <2> QED BY <1>0, <1>1, <2>2, <2>3, RunsTrueKept
  <1>4. CASE StartRebuild(p)
    <2> DEFINE r == [Idle EXCEPT !.mode = "rebuild"]
               y == Page(r, Nowhere, MaxFeed)
               x == [y EXCEPT !.pc = "begin"]
    <2>1. r \in Run /\ r.mode = "rebuild" /\ r.flaw = FALSE
      BY <1>2, IdleFits DEF Run, Idle
    <2>2. /\ y \in Run /\ y.at = 1 /\ y.flaw = r.flaw
          /\ \A i \in y.at..y.upto : y.seen[i] = print[i]
      <3> HIDE DEF r
      <3>1. Nowhere \in Nowhere..MaxFeed /\ MaxFeed \in Nat
        BY Constants DEF Nowhere
      <3> QED BY <1>0, <2>1, <3>1, PageFits
    <2>3. runs' = [runs EXCEPT ![p] = x]
      BY <1>4 DEF StartRebuild
    <2> HIDE DEF r, y
    <2>4. x.pc = "begin" /\ x.at = y.at /\ x.upto = y.upto /\ x.seen = y.seen
          /\ x.flaw = FALSE
      BY <2>1, <2>2 DEF Run
    <2> HIDE DEF x
    <2>5. Skips(Passed(x), feed, rows, print)
      BY <1>2, <2>4, SkipsNone DEF Passed, EventStages
    <2>6. Truth(x, feed, rows, print)
      BY <2>2, <2>4, <2>5 DEF Truth, EventStages, EndStages
    <2> QED BY <1>0, <1>1, <2>3, <2>6, RunsTrueKept
  <1>5. CASE FetchPage(p)
    <2> DEFINE r == runs[p]
               after == IF r.after = Absent THEN Nowhere ELSE r.after
               x == Page(r, after, PageSize)
    <2>0. r.pc = "fetch" /\ r.flaw = FALSE /\ Skips(r.after, feed, rows, print)
          /\ r.after \in Absent..MaxFeed /\ r.after # Nowhere /\ r.mode # "rebuild"
      BY <1>2, <1>5 DEF FetchPage, Truth, Passed, Run, Shown, EventStages
    <2>1. after \in Nowhere..MaxFeed /\ PageSize \in Nat
      BY <2>0, Constants DEF Absent, Nowhere
    <2>2. after \in Int /\ Skips(Highest(after, 0), feed, rows, print)
          /\ Highest(after, 0) \in Int
      <3>1. after \in Int
        BY <2>1, Constants DEF Nowhere
      <3>2. CASE after > 0
        BY <2>0, <3>1, <3>2 DEF Highest, Nowhere
      <3>3. CASE ~(after > 0)
        <4>1. Highest(after, 0) = 0
          BY <3>1, <3>3 DEF Highest
        <4> QED BY <1>2, <3>1, <4>1, SkipsNone
      <3> QED BY <3>1, <3>2, <3>3
    <2>3. runs' = [runs EXCEPT ![p] = x]
      BY <1>5 DEF FetchPage
    <2> HIDE DEF after
    <2>4. /\ x \in Run /\ x.flaw = r.flaw /\ x.pc \in {"event", "checkpoint"}
          /\ x.pc = "event" => x.at = Highest(after, 0) + 1
          /\ x.pc = "checkpoint" => x.upto <= Highest(after, 0)
          /\ \A i \in x.at..x.upto : x.seen[i] = print[i]
      <3> HIDE DEF r
      <3> QED BY <1>0, <1>2, <2>0, <2>1, PageFits DEF r
    <2> HIDE DEF x
    <2>5. Skips(Passed(x), feed, rows, print)
      <3>1. CASE x.pc = "event"
        <4>1. Passed(x) = Highest(after, 0)
          BY <2>2, <2>4, <3>1 DEF Passed, EventStages
        <4> QED BY <2>2, <4>1
      <3>2. CASE x.pc = "checkpoint"
        <4>1. Passed(x) = x.upto /\ x.upto \in Int
          BY <2>4, <3>2, Constants DEF Passed, EventStages, Run, Nowhere
        <4> QED BY <1>2, <2>2, <2>4, <3>2, <4>1, SkipsDown
      <3> QED BY <2>4, <3>1, <3>2
    <2>6. Truth(x, feed, rows, print)
      BY <2>0, <2>4, <2>5 DEF Truth, EventStages, EndStages
    <2> QED BY <1>0, <1>1, <2>3, <2>6, RunsTrueKept
  <1> QED BY <1>3, <1>4, <1>5

LEMMA BeginTrue ==
  ASSUME Good, Typed', [Next]_vars, NEW p \in Syncer, BeginRebuild(p)
  PROVE  StoreTrue' /\ RunsTrue'
  <1> DEFINE r == runs[p]
             pc == IF r.upto >= 1 THEN "event" ELSE "survey"
             x == [r EXCEPT !.pc = pc]
  <1>0. /\ Typed /\ MirrorOK /\ StoreTrue /\ RunsTrue
        /\ feed' = feed /\ rows' = rows /\ print' = print /\ remoteHeads' = remoteHeads
    BY DEF Good, BeginRebuild, ledger, mirror
  <1>1. StoreTrue'
    <2>1. \A s \in Subject : remoteHeads[s] \in Nat
      BY <1>0 DEF Typed, TypeOK
    <2>2. CommittedIsMirrored' /\ HeadsBehind'
      BY <1>0, <2>1 DEF BeginRebuild, StoreTrue, CommittedIsMirrored, HeadsBehind
    <2> QED BY <1>0, <2>2 DEF BeginRebuild, StoreTrue
  <1>2. /\ r \in Run /\ Truth(r, feed, rows, print) /\ Shown(r, Len(feed))
        /\ Len(feed) \in Nat /\ r.upto \in Int /\ r.pc = "begin"
        /\ runs' = [runs EXCEPT ![p].pc = pc]
    BY <1>0, Constants DEF Typed, TypeOK, RunsTrue, RunsShown, Run, Nowhere,
                           BeginRebuild, Go
  <1>3. x.pc = pc /\ x.at = 1 /\ x.upto = r.upto /\ x.seen = r.seen /\ x.flaw = r.flaw
        /\ r.at = 1 /\ r.flaw = FALSE
    BY <1>2 DEF Run, Shown, Truth
  <1>4. runs' = [runs EXCEPT ![p] = x]
    BY <1>2
  <1> HIDE DEF x
  <1>5. Skips(Passed(x), feed, rows, print)
    <2>1. Passed(x) \in Int /\ Passed(x) <= 0
      BY <1>2, <1>3 DEF Passed, EventStages
    <2> QED BY <1>2, <2>1, SkipsNone
  <1>6. Truth(x, feed, rows, print)
    BY <1>2, <1>3, <1>5 DEF Truth, EventStages, EndStages
  <1> QED BY <1>0, <1>1, <1>4, <1>6, RunsTrueKept

(* Going on with the same event keeps what the run knows, as far as the    *)
(* new stage wants no more.                                                *)
LEMMA GoTrue ==
  ASSUME Typed, MirrorOK, RunsTrue, NEW p \in Syncer, runs[p].pc \in EventStages,
         NEW pc \in {"waiting", "ack", "drop"},
         pc = "ack" => feed[runs[p].at].kind # "result" /\ rows[runs[p].at] # NoPrint,
         pc = "drop" /\ ~runs[p].flaw =>
           Covered(runs[p].at, runs[p].at, feed, rows, print)
  PROVE  Truth([runs[p] EXCEPT !.pc = pc], feed, rows, print)
  <1> DEFINE r == runs[p]
             x == [r EXCEPT !.pc = pc]
  <1>1. r \in Run /\ Truth(r, feed, rows, print)
    BY DEF Typed, TypeOK, RunsTrue
  <1>2. x.pc = pc /\ x.at = r.at /\ x.upto = r.upto /\ x.seen = r.seen /\ x.flaw = r.flaw
    BY <1>1 DEF Run
  <1> HIDE DEF x
  <1>3. Passed(x) = Passed(r)
    BY <1>2 DEF Passed, EventStages
  <1>4. Truth(x, feed, rows, print)
    BY <1>1, <1>2, <1>3 DEF Truth, EventStages, EndStages
  <1> QED BY <1>4 DEF x

LEMMA ClaimTrue ==
  ASSUME Good, Typed', [Next]_vars, NEW p \in Syncer, ClaimEvent(p)
  PROVE  StoreTrue' /\ RunsTrue'
  <1> DEFINE r == runs[p]
             i == r.at
             q == r.seen[i]
             outcome == ClaimOutcome(i, q)
             c == [owner |-> p, print |-> q, live |-> TRUE]
             S == Swept(i, outcome)
  <1>0. /\ Typed /\ MirrorOK /\ StoreTrue /\ RunsTrue
        /\ feed' = feed /\ rows' = rows /\ print' = print /\ remoteHeads' = remoteHeads
        /\ processed' = processed /\ heads' = heads /\ acks' = acks /\ cursor' = cursor
        /\ r.pc = "event" /\ runs[p].pc \in EventStages
    BY DEF Good, ClaimEvent, ledger, mirror, EventStages
  <1>1. /\ i \in 1..Len(feed) /\ i \in Id /\ q \in Rendering /\ i <= r.upto /\ i \in Int
        /\ r.upto \in Int /\ r \in Run /\ Truth(r, feed, rows, print)
    <2>1. i \in 1..Len(feed) /\ i \in Id /\ q \in Rendering /\ i <= r.upto /\ r \in Run
      BY <1>0, AtEvent
    <2>2. r.upto \in Int /\ i \in Int
      BY <2>1, Constants DEF Run, Nowhere
    <2> QED BY <1>0, <2>1, <2>2 DEF RunsTrue
  <1>2. ASSUME NEW x, runs' = [runs EXCEPT ![p] = x], Truth(x, feed, rows, print)
        PROVE  RunsTrue'
    BY <1>0, <1>2, RunsTrueKept
  <1>3. ASSUME NEW flaw \in BOOLEAN, runs' = [runs EXCEPT ![p] = Advanced(r, flaw)],
               flaw \/ rows[i] # NoPrint
        PROVE  RunsTrue'
    <2>1. flaw \/ Covered(i, i, feed, rows, print)
      BY <1>0, <1>1, <1>3, Present
    <2>2. Truth(Advanced(r, flaw), feed, rows, print)
      BY <1>0, <1>1, <2>1, AdvancedTrue
    <2> QED BY <1>2, <1>3, <2>2
  <1>4. ASSUME NEW pc \in {"waiting", "ack", "drop"}, Go(p, pc),
               pc = "ack" => feed[i].kind # "result" /\ rows[i] # NoPrint,
               pc = "drop" /\ ~r.flaw => Covered(i, i, feed, rows, print)
        PROVE  RunsTrue'
    <2>1. Truth([r EXCEPT !.pc = pc], feed, rows, print)
      BY <1>0, <1>4, GoTrue
    <2>2. runs' = [runs EXCEPT ![p] = [r EXCEPT !.pc = pc]]
      BY <1>4 DEF Go
    <2> QED BY <1>2, <2>1, <2>2
  <1>5. CASE /\ outcome = "acquired" /\ eventClaims' = [WithoutEvents(S) EXCEPT ![i] = c]
             /\ Go(p, "waiting")
    <2>1. RunsTrue'
      BY <1>4, <1>5
    <2>2. q = 2 => print[i] # 1
      <3>1. i \in r.at..r.upto
        BY <1>1
      <3> QED BY <1>0, <1>1, <3>1 DEF Truth
    <2>3. c.print = q
      OBVIOUS
    <2>4. \A j \in Id : eventClaims'[j] # NoClaim /\ eventClaims'[j].print = 2
                        => print[j] # 1
      <3> HIDE DEF c, S, q
      <3> TAKE j \in Id
      <3>1. WithoutEvents(S) \in [Id -> Claim \cup {NoClaim}]
        BY <1>0, ClaimsTyped DEF Typed
      <3>2. CASE j = i
        BY <1>1, <1>5, <2>2, <2>3, <3>1, <3>2
      <3>3. CASE j # i
        <4>1. eventClaims'[j] = WithoutEvents(S)[j]
          BY <1>5, <3>1, <3>3
        <4> QED BY <1>0, <4>1, WithoutKeeps DEF StoreTrue
      <3> QED BY <3>2, <3>3
    <2>5. CommittedIsMirrored' /\ HeadsBehind' /\ Skips(cursor, feed, rows, print)
      BY <1>0 DEF StoreTrue, CommittedIsMirrored, HeadsBehind
    <2> QED BY <1>0, <2>1, <2>4, <2>5 DEF StoreTrue
  <1>6. CASE /\ outcome \in {"stale", "conflict"} /\ DeleteClaims(S) /\ Go(p, "drop")
    <2>1. ~r.flaw => Covered(i, i, feed, rows, print)
      BY <1>0, <1>6, RefusedLocally
    <2>2. RunsTrue'
      BY <1>4, <1>6, <2>1
    <2>3. StoreTrue'
      BY <1>0, <1>6, WithoutKeeps, StoreTrueKept DEF DeleteClaims
    <2> QED BY <2>2, <2>3
  <1>7. CASE DeleteClaims(S) /\ runs' = [runs EXCEPT ![p] = Advanced(r, TRUE)]
    <2>1. RunsTrue'
      BY <1>3, <1>7
    <2>2. StoreTrue'
      BY <1>0, <1>7, WithoutKeeps, StoreTrueKept DEF DeleteClaims
    <2> QED BY <2>1, <2>2
  <1>8. CASE /\ outcome = "duplicate" /\ eventClaims' = eventClaims
             /\ \/ feed[i].kind # "result" /\ Go(p, "ack")
                \/ runs' = [runs EXCEPT ![p] = Advanced(r, FALSE)]
    <2>1. processed[i] = q
      BY <1>8 DEF ClaimOutcome
    <2>2. rows[i] # NoPrint
      BY <1>0, <1>1, <2>1 DEF StoreTrue, CommittedIsMirrored, Rendering, NoPrint
    <2>3. RunsTrue'
      BY <1>3, <1>4, <1>8, <2>2
    <2>4. StoreTrue'
      BY <1>0, <1>8, StoreTrueKept
    <2> QED BY <2>3, <2>4
  <1> QED BY <1>5, <1>6, <1>7, <1>8 DEF ClaimEvent

LEMMA CompleteTrue ==
  ASSUME Good, Typed', [Next]_vars, NEW p \in Syncer, CompleteClaim(p)
  PROVE  StoreTrue' /\ RunsTrue'
  <1> DEFINE r == runs[p]
             i == r.at
             s == SubjectOf(i)
             commits == Mine(p) /\ eventClaims[i].live /\ VersionOf(i) > heads[s]
  <1>0. /\ Typed /\ MirrorOK /\ StoreTrue /\ RunsTrue
        /\ feed' = feed /\ rows' = rows /\ print' = print /\ remoteHeads' = remoteHeads
        /\ acks' = acks /\ cursor' = cursor
        /\ r.pc = "written" /\ runs[p].pc \in EventStages
    BY DEF Good, CompleteClaim, ledger, mirror, EventStages
  <1>1. /\ i \in 1..Len(feed) /\ i \in Id /\ r.seen[i] \in Rendering /\ s \in Subject
        /\ VersionOf(i) \in Nat /\ r \in Run
    BY <1>0, AtEvent
  <1>2. rows[i] = r.seen[i] /\ rows[i] # NoPrint
    BY <1>0, <1>1 DEF RunsTrue, Truth, Rendering, NoPrint
  <1>3. CASE commits
    <2>1. /\ processed' = [processed EXCEPT ![i] = r.seen[i]]
          /\ heads' = [heads EXCEPT ![s] = VersionOf(i)]
          /\ eventClaims' = WithoutEvents({i})
          /\ \/ feed[i].kind # "result" /\ Go(p, "ack")
             \/ runs' = [runs EXCEPT ![p] = Advanced(r, FALSE)]
      BY <1>3 DEF CompleteClaim, DeleteClaims
    <2>2. CommittedIsMirrored'
      <3>1. processed \in [Id -> Rendering \cup {NoPrint}]
        BY <1>0 DEF Typed, TypeOK
      <3> QED BY <1>0, <1>1, <1>2, <2>1, <3>1 DEF StoreTrue, CommittedIsMirrored
    <2>3. HeadsBehind'
      <3>1. VersionOf(i) <= remoteHeads[s]
        BY <1>0, <1>1, <1>2 DEF MirrorOK
      <3>2. heads \in [Subject -> Nat]
        BY <1>0 DEF Typed, TypeOK
      <3> QED BY <1>0, <1>1, <2>1, <3>1, <3>2 DEF StoreTrue, HeadsBehind
    <2>4. StoreTrue'
      BY <1>0, <2>1, <2>2, <2>3, WithoutKeeps DEF StoreTrue
    <2>5. Covered(i, i, feed, rows, print)
      BY <1>0, <1>1, <1>2, Present
    <2>6. CASE feed[i].kind # "result" /\ Go(p, "ack")
      <3>1. Truth([r EXCEPT !.pc = "ack"], feed, rows, print)
        BY <1>0, <1>2, <2>6, GoTrue
      <3>2. runs' = [runs EXCEPT ![p] = [r EXCEPT !.pc = "ack"]]
        BY <2>6 DEF Go
      <3> QED BY <1>0, <2>4, <3>1, <3>2, RunsTrueKept
    <2>7. CASE runs' = [runs EXCEPT ![p] = Advanced(r, FALSE)]
      <3>1. Truth(Advanced(r, FALSE), feed, rows, print)
        BY <1>0, <2>5, AdvancedTrue DEF RunsTrue
      <3> QED BY <1>0, <2>4, <2>7, <3>1, RunsTrueKept
    <2> QED BY <2>1, <2>6, <2>7
  <1>4. CASE ~commits
    <2>1. /\ runs' = [runs EXCEPT ![p] = Idle]
          /\ eventClaims' = Abandon(eventClaims, p)
          /\ processed' = processed /\ heads' = heads
      BY <1>4 DEF CompleteClaim, Raise
    <2>2. StoreTrue'
      BY <1>0, <2>1, AbandonPrints, StoreTrueKept
    <2>3. RunsTrue'
      BY <1>0, <2>1, IdleTrue, RunsTrueKept
    <2> QED BY <2>2, <2>3
  <1> QED BY <1>3, <1>4

LEMMA EndOfEventTrue ==
  ASSUME Good, Typed', [Next]_vars, NEW p \in Syncer,
         ReleaseRefused(p) \/ Quarantine(p) \/ Acknowledge(p)
  PROVE  StoreTrue' /\ RunsTrue'
  <1> DEFINE r == runs[p]
             i == r.at
  <1>0. /\ Typed /\ MirrorOK /\ StoreTrue /\ RunsTrue
        /\ feed' = feed /\ rows' = rows /\ print' = print /\ remoteHeads' = remoteHeads
        /\ processed' = processed /\ heads' = heads /\ cursor' = cursor
        /\ r.pc \in {"stale", "conflict", "drop", "ack"} /\ runs[p].pc \in EventStages
    BY DEF Good, ReleaseRefused, Quarantine, Acknowledge, ledger, mirror, store,
           EventStages
  <1>1. /\ i \in 1..Len(feed) /\ i \in Id /\ r.seen[i] \in Rendering /\ r \in Run
    BY <1>0, AtEvent
  <1>2. Truth(r, feed, rows, print)
    BY <1>0 DEF RunsTrue
  <1>3. r.flaw \/ Covered(i, i, feed, rows, print)
    <2>1. r.pc = "ack" => rows[i] # NoPrint
      BY <1>2 DEF Truth
    <2> QED BY <1>0, <1>1, <1>2, <2>1, Present DEF Truth
  <1>4. CASE ReleaseRefused(p)
    <2>1. DeleteClaims(Released(p)) /\ Go(p, "drop") /\ acks' = acks
      BY <1>4 DEF ReleaseRefused
    <2>2. StoreTrue'
      BY <1>0, <2>1, WithoutKeeps, StoreTrueKept DEF DeleteClaims
    <2>3. Truth([r EXCEPT !.pc = "drop"], feed, rows, print)
      BY <1>0, <1>3, GoTrue
    <2>4. runs' = [runs EXCEPT ![p] = [r EXCEPT !.pc = "drop"]]
      BY <2>1 DEF Go
    <2> QED BY <1>0, <2>2, <2>3, <2>4, RunsTrueKept
  <1>5. CASE Quarantine(p)
    <2>1. /\ eventClaims' = eventClaims /\ acks' = acks
          /\ runs' = [runs EXCEPT ![p] = Advanced(r, r.mode = "rebuild")]
      BY <1>5 DEF Quarantine
    <2>2. StoreTrue'
      BY <1>0, <2>1, StoreTrueKept
    <2>3. Truth(Advanced(r, r.mode = "rebuild"), feed, rows, print)
      BY <1>0, <1>2, <1>3, AdvancedTrue
    <2> QED BY <1>0, <2>1, <2>2, <2>3, RunsTrueKept
  <1>6. CASE Acknowledge(p)
    <2>1. /\ eventClaims' = eventClaims /\ r.pc = "ack"
          /\ \/ acks' = acks /\ runs' = [runs EXCEPT ![p] = Idle]
             \/ acks' = acks \cup {i} /\ runs' = [runs EXCEPT ![p] = Advanced(r, FALSE)]
      BY <1>6 DEF Acknowledge, Raise, store
    <2>2. feed[i].kind # "result" /\ rows[i] # NoPrint
      BY <1>2, <2>1 DEF Truth
    <2>3. CommittedIsMirrored'
      BY <1>0, <2>1, <2>2 DEF StoreTrue, CommittedIsMirrored
    <2>4. StoreTrue'
      BY <1>0, <2>1, <2>3 DEF StoreTrue, HeadsBehind
    <2>5. Truth(Advanced(r, FALSE), feed, rows, print)
      BY <1>0, <1>2, <1>3, AdvancedTrue
    <2> QED BY <1>0, <2>1, <2>4, <2>5, IdleTrue, RunsTrueKept
  <1> QED BY <1>4, <1>5, <1>6

(* The end of a page or of a rebuild: at, upto and seen no longer change.  *)
LEMMA EndMoveTrue ==
  ASSUME Typed, RunsTrue, NEW p \in Syncer, runs[p].pc \in EndStages,
         NEW x, x.pc \in EndStages, x.upto = runs[p].upto, x.flaw = runs[p].flaw,
         x.pc = "sign" => \A i \in x.mend : feed[i].kind # "result"
  PROVE  Truth(x, feed, rows, print)
  <1>1. Truth(runs[p], feed, rows, print)
    BY DEF RunsTrue
  <1>2. Passed(x) = Passed(runs[p])
    BY DEF Passed, EventStages, EndStages
  <1> QED BY <1>1, <1>2 DEF Truth, EventStages, EndStages

LEMMA EndTrue ==
  ASSUME Good, Typed', [Next]_vars, NEW p \in Syncer,
         Survey(p) \/ Retire(p) \/ Converge(p) \/ Sign(p)
  PROVE  StoreTrue' /\ RunsTrue'
  <1> DEFINE r == runs[p]
  <1>0. /\ Typed /\ MirrorOK /\ StoreTrue /\ RunsTrue /\ r \in Run
        /\ feed' = feed /\ rows' = rows /\ print' = print /\ remoteHeads' = remoteHeads
        /\ processed' = processed /\ heads' = heads /\ cursor' = cursor
        /\ eventClaims' = eventClaims
        /\ r.pc \in EndStages
    BY DEF Good, Typed, TypeOK, Survey, Retire, Converge, Sign, ledger, mirror, store,
           EndStages
  <1>1. ASSUME NEW x, runs' = [runs EXCEPT ![p] = x], Truth(x, feed, rows, print)
        PROVE  RunsTrue'
    BY <1>0, <1>1, RunsTrueKept
  <1>2. CASE acks' = acks
    <2>1. StoreTrue'
      BY <1>0, <1>2, StoreTrueKept
    <2>2. CASE runs' = [runs EXCEPT ![p] = Idle]
      BY <1>1, <2>1, <2>2, IdleTrue
    <2>3. CASE Survey(p)
      <3> DEFINE x == [r EXCEPT !.pc = "repair", !.retire = open \ Expected(r),
                 !.mend = {i \in Expected(r) : i \notin open \/ rows[i] # r.seen[i]}]
      <3>1. runs' = [runs EXCEPT ![p] = x]
        BY <2>3 DEF Survey
      <3>2. x.pc = "repair" /\ x.upto = r.upto /\ x.flaw = r.flaw
        BY <1>0 DEF Run
      <3> HIDE DEF x
      <3>3. Truth(x, feed, rows, print)
        BY <1>0, <3>2, EndMoveTrue DEF EndStages
      <3> QED BY <1>1, <2>1, <3>1, <3>3
    <2>4. CASE Retire(p)
      <3>1. PICK i \in r.retire : runs' = [runs EXCEPT ![p].retire = @ \ {i}]
        BY <2>4 DEF Retire
      <3> DEFINE x == [r EXCEPT !.retire = @ \ {i}]
      <3>2. runs' = [runs EXCEPT ![p] = x]
        BY <3>1
      <3>3. x.pc = "repair" /\ x.upto = r.upto /\ x.flaw = r.flaw
        BY <1>0, <2>4 DEF Run, Retire
      <3> HIDE DEF x
      <3>4. Truth(x, feed, rows, print)
        BY <1>0, <3>3, EndMoveTrue DEF EndStages
      <3> QED BY <1>1, <2>1, <3>2, <3>4
    <2>5. CASE Converge(p)
      <3> DEFINE x == [r EXCEPT !.pc = "sign",
                         !.mend = {i \in Expected(r) : feed[i].kind # "result"}]
      <3>1. runs' = [runs EXCEPT ![p] = x] \/ runs' = [runs EXCEPT ![p] = Idle]
        BY <2>5 DEF Converge, Raise
      <3>2. /\ x.pc = "sign" /\ x.upto = r.upto /\ x.flaw = r.flaw
            /\ \A i \in x.mend : feed[i].kind # "result"
        BY <1>0 DEF Run
      <3> HIDE DEF x
      <3>3. Truth(x, feed, rows, print)
        BY <1>0, <3>2, EndMoveTrue DEF EndStages
      <3> QED BY <1>1, <2>1, <2>2, <3>1, <3>3
    <2>6. CASE Go(p, "checkpoint")
      <3> DEFINE x == [r EXCEPT !.pc = "checkpoint"]
      <3>1. runs' = [runs EXCEPT ![p] = x]
        BY <2>6 DEF Go
      <3>2. x.pc = "checkpoint" /\ x.upto = r.upto /\ x.flaw = r.flaw
        BY <1>0 DEF Run
      <3> HIDE DEF x
      <3>3. Truth(x, feed, rows, print)
        BY <1>0, <3>2, EndMoveTrue DEF EndStages
      <3> QED BY <1>1, <2>1, <3>1, <3>3
    <2>7. ASSUME Sign(p), NEW i \in r.mend, runs' = [runs EXCEPT ![p].mend = @ \ {i}]
          PROVE  RunsTrue'
      <3> DEFINE x == [r EXCEPT !.mend = @ \ {i}]
      <3>1. runs' = [runs EXCEPT ![p] = x]
        BY <2>7
      <3>2. x.pc = "sign" /\ x.upto = r.upto /\ x.flaw = r.flaw /\ x.mend = r.mend \ {i}
        BY <1>0, <2>7 DEF Run, Sign
      <3>3. \A k \in r.mend : feed[k].kind # "result"
        BY <1>0, <2>7 DEF RunsTrue, Truth, Sign
      <3> HIDE DEF x
      <3>4. Truth(x, feed, rows, print)
        BY <1>0, <3>2, <3>3, EndMoveTrue DEF EndStages
      <3> QED BY <1>1, <3>1, <3>4
    <2> QED BY <2>1, <2>2, <2>3, <2>4, <2>5, <2>6, <2>7 DEF Sign, Raise
  <1>3. ASSUME Sign(p), NEW i \in r.mend, Confirmed(i, r.seen[i]), acks' = acks \cup {i},
               runs' = [runs EXCEPT ![p].mend = @ \ {i}]
        PROVE  StoreTrue' /\ RunsTrue'
    <2> DEFINE x == [r EXCEPT !.mend = @ \ {i}]
    <2>1. runs' = [runs EXCEPT ![p] = x]
      BY <1>3
    <2>2. x.pc = "sign" /\ x.upto = r.upto /\ x.flaw = r.flaw /\ x.mend = r.mend \ {i}
      BY <1>0, <1>3 DEF Run, Sign
    <2>3. \A k \in r.mend : feed[k].kind # "result"
      BY <1>0, <1>3 DEF RunsTrue, Truth, Sign
    <2> HIDE DEF x
    <2>4. Truth(x, feed, rows, print)
      BY <1>0, <2>2, <2>3, EndMoveTrue DEF EndStages
    <2>5. rows[i] # NoPrint
      <3>1. r.seen[i] \in Rendering
        BY <1>0, <1>3 DEF Typed, RunsShown, Shown, Sign
      <3> QED BY <1>3, <3>1 DEF Confirmed, Rendering, NoPrint
    <2>6. CommittedIsMirrored'
      BY <1>0, <1>3, <2>3, <2>5 DEF StoreTrue, CommittedIsMirrored
    <2>7. StoreTrue'
      BY <1>0, <2>6 DEF StoreTrue, HeadsBehind
    <2> QED BY <1>1, <2>1, <2>4, <2>7
  <1> QED BY <1>2, <1>3 DEF Survey, Retire, Converge, Sign

LEMMA MendTrue ==
  ASSUME Good, Typed', [Next]_vars, NEW p \in Syncer, Mend(p)
  PROVE  StoreTrue' /\ RunsTrue'
  <1> DEFINE r == runs[p]
  <1>0. /\ Typed /\ MirrorOK /\ StoreTrue /\ RunsTrue /\ r \in Run /\ r.pc = "repair"
        /\ Shown(r, Len(feed))
    BY DEF Good, Typed, TypeOK, Mend, RunsShown
  <1>1. StoreTrue'
    BY <1>0, StoreTrueKept DEF Mend, store
  <1>2. CASE runs' = [runs EXCEPT ![p] = Idle]
    BY <1>0, <1>1, <1>2, IdleTrue, RunsTrueKept
  <1>3. ASSUME NEW i \in r.mend, runs' = [runs EXCEPT ![p].mend = @ \ {i}]
        PROVE  RunsTrue'
    <2> DEFINE x == [r EXCEPT !.mend = @ \ {i}]
    <2>1. runs' = [runs EXCEPT ![p] = x]
      BY <1>3
    <2>2. x.pc = "repair" /\ x.upto = r.upto /\ x.flaw = r.flaw
      BY <1>0 DEF Run
    <2> HIDE DEF x
    <2>3. Truth(r, feed', rows', print')
      BY <1>0, StepGrown, TruthKept DEF RunsTrue
    <2>4. Passed(x) = Passed(r)
      BY <1>0, <2>2 DEF Passed, EventStages
    <2>5. Truth(x, feed', rows', print')
      BY <1>0, <2>2, <2>3, <2>4 DEF Truth, EventStages, EndStages
    <2> QED BY <1>0, <2>1, <2>5, RunsTrueKept
  <1> QED BY <1>1, <1>2, <1>3 DEF Mend, Raise

LEMMA CheckpointTrue ==
  ASSUME Good, Typed', [Next]_vars, NEW p \in Syncer, Checkpoint(p)
  PROVE  StoreTrue' /\ RunsTrue'
  <1> DEFINE r == runs[p]
             x == [r EXCEPT !.pc = "fetch", !.after = r.upto]
  <1>0. /\ Typed /\ MirrorOK /\ StoreTrue /\ RunsTrue /\ r \in Run /\ r.pc = "checkpoint"
        /\ feed' = feed /\ rows' = rows /\ print' = print /\ remoteHeads' = remoteHeads
        /\ processed' = processed /\ heads' = heads /\ cursor' = r.upto
        /\ eventClaims' = eventClaims /\ acks' = acks
    BY DEF Good, Typed, TypeOK, Checkpoint, ledger, mirror
  <1>1. /\ r.flaw = FALSE /\ Skips(r.upto, feed, rows, print)
        /\ Truth(r, feed, rows, print)
    BY <1>0 DEF RunsTrue, Truth, Passed, EventStages, EndStages, Run
  <1>2. StoreTrue'
    <2>1. CommittedIsMirrored' /\ HeadsBehind'
      BY <1>0 DEF StoreTrue, CommittedIsMirrored, HeadsBehind
    <2> QED BY <1>0, <1>1, <2>1 DEF StoreTrue
  <1>3. runs' = [runs EXCEPT ![p] = x] \/ runs' = [runs EXCEPT ![p] = Idle]
    BY DEF Checkpoint
  <1>4. x.pc = "fetch" /\ x.after = r.upto /\ x.flaw = FALSE
    BY <1>0, <1>1 DEF Run
  <1> HIDE DEF x
  <1>5. Passed(x) = r.upto
    BY <1>4 DEF Passed, EventStages
  <1>6. Truth(x, feed, rows, print)
    BY <1>1, <1>4, <1>5 DEF Truth, EventStages, EndStages
  <1> QED BY <1>0, <1>2, <1>3, <1>6, IdleTrue, RunsTrueKept

LEMMA GoodInit == Init => Good
  <1> SUFFICES ASSUME Init PROVE Good
    OBVIOUS
  <1>1. Typed /\ MirrorOK
    BY TypedInit, MirrorInit
  <1>2. ClaimsPaired
    BY DEF Init, ClaimsPaired
  <1>3. StoreTrue
    <2>1. CommittedIsMirrored /\ HeadsBehind
      BY DEF Init, CommittedIsMirrored, HeadsBehind
    <2>2. Skips(cursor, feed, rows, print)
      <3>1. cursor = -2
        BY DEF Init, Absent
      <3>2. Len(feed) \in Nat
        BY <1>1 DEF Typed, TypeOK
      <3> QED BY <3>1, <3>2, SkipsNone
    <2> QED BY <2>1, <2>2 DEF Init, StoreTrue
  <1>4. RunsTrue
    BY IdleTrue DEF Init, RunsTrue
  <1> QED BY <1>1, <1>2, <1>3, <1>4 DEF Good

LEMMA GoodStep == Good /\ [Next]_vars => Good'
  <1> SUFFICES ASSUME Good, [Next]_vars PROVE Good'
    OBVIOUS
  <1>1. Typed' /\ MirrorOK' /\ ClaimsPaired'
    BY TypedStep, MirrorStep, PairedStep DEF Good
  <1>2. StoreTrue' /\ RunsTrue'
    <2>1. CASE \/ UNCHANGED vars
               \/ \E s \in Subject : Record(s)
               \/ \E i \in Id : Rerender(i) \/ ExpireClaim(i) \/ Overrun(i)
               \/ \E p \in Syncer : GiveUp(p) \/ Crash(p)
      BY <1>1, <2>1, OtherStepsTrue
    <2>2. CASE \E m \in requests : Serve(m)
      BY <1>1, <2>2, ServeTrue
    <2>3. CASE \E p \in Syncer : StartIncremental(p) \/ StartRebuild(p)
      BY <1>1, <2>3, StartTrue
    <2>4. CASE \E p \in Syncer : Work(p)
      BY <1>1, <2>4, StartTrue, BeginTrue, ClaimTrue, CompleteTrue, EndOfEventTrue,
         EndTrue, MendTrue, CheckpointTrue DEF Work
    <2> QED BY <2>1, <2>2, <2>3, <2>4 DEF Next
  <1> QED BY <1>1, <1>2 DEF Good

LEMMA GoodAlways == Spec => []Good
  BY GoodInit, GoodStep, PTL DEF Spec

(* What a run has recorded as done, or acknowledged, is in Minibook with   *)
(* the recorded content, whatever other runs and late requests do.         *)
THEOREM CommittedStaysMirrored == Spec => []CommittedIsMirrored
  <1>1. Good => CommittedIsMirrored
    BY DEF Good, StoreTrue
  <1> QED BY <1>1, GoodAlways, PTL

(* The local head of a subject never overtakes Minibook's.                 *)
THEOREM HeadsStayBehind == Spec => []HeadsBehind
  <1>1. Good => HeadsBehind
    BY DEF Good, StoreTrue
  <1> QED BY <1>1, GoodAlways, PTL

(* The cursor never passes an event whose content is lost to Minibook,     *)
(* although claim_event calls events stale on the strength of claims and   *)
(* heads that other runs hold.                                             *)
THEOREM CursorSkipsNothing == Spec => []NothingSkipped
  <1>1. Good => NothingSkipped
    <2> SUFFICES ASSUME Good, NEW i \in Id, i <= cursor
                 PROVE  \E j \in Listed : /\ SubjectOf(j) = SubjectOf(i)
                                          /\ VersionOf(j) >= VersionOf(i)
                                          /\ rows[j] # NoPrint \/ j > cursor \/ print[j] # 1
      BY DEF NothingSkipped
    <2>1. i \in 1..cursor
      BY Constants DEF Good, Typed, TypeOK, Absent, Id
    <2>2. Covered(i, cursor, feed, rows, print)
      BY <2>1 DEF Good, StoreTrue, Skips
    <2> QED BY <2>2 DEF Covered, Listed, SubjectOf, VersionOf
  <1> QED BY <1>1, GoodAlways, PTL
=============================================================================
