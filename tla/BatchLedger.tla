----------------------------- MODULE BatchLedger -----------------------------
(***************************************************************************)
(* The Gateway's lifecycle of one work batch: an append-only list of       *)
(* blocks, and a projection that every request computes anew by replaying  *)
(* the list.  The model keeps the replayed value: each block is absorbed   *)
(* once, by the operator named after it, and the part of the projection    *)
(* that depends on the time of the request is Status.                      *)
(*                                                                         *)
(* A request runs in one transaction that locks the batch, so requests     *)
(* take effect one after the other.  Claim, heartbeat, approval, recovery  *)
(* and review read the clock before they wait for the lock, so a request   *)
(* that waited acts on an old time.  Requests and replies may be lost, and *)
(* a worker may use any token it ever received.                            *)
(*                                                                         *)
(* Codex sessions are delivery events outside the list, fenced by claim.   *)
(* Left out: holdouts, and evidence blocks that change no field that a     *)
(* guard below reads (codex_session, codex_process, reasoning_slice).      *)
(* Definitions marked faulty model bugs the code does not have.            *)
(***************************************************************************)
EXTENDS Naturals, FiniteSets

CONSTANTS Worker,
          Session,          \* Codex session ids
          Review,           \* review ids
          Artifact,         \* artifact references of validation runs
          ClaimTtl,         \* claim_ttl, in ticks of the clock
          HeartbeatTtl,     \* the 30 minutes of a heartbeat
          MaxFailedReviews, \* 5 in the code
          ClaimBound,       \* bound: claims
          WaitBound,        \* bound: requests waiting for the lock
          Horizon           \* bound: the clock

ASSUME BatchAssumption ==
    /\ {ClaimTtl, HeartbeatTtl, MaxFailedReviews} \subseteq Nat \ {0}
    /\ {ClaimBound, WaitBound, Horizon} \subseteq Nat

Claim == 1 .. ClaimBound
Outcome == {"succeeded", "failed", "rejected", "cancelled",
            "failed_after_max_iterations", "aborted_infra"}

VARIABLES batch,    \* the replayed blocks
          clock,
          waiting,  \* requests that read the clock and wait for the lock
          tokens,   \* claims whose token each worker received
          started,  \* the claim each session was started under; 0: not started
          finished, \* sessions with terminal evidence
          facts     \* history: what was recorded, and in which iteration

sessions == <<started, finished>>
vars == <<batch, clock, waiting, tokens, sessions, facts>>

Request ==
    [kind : {"approve"}, at : 0 .. Horizon]
    \cup [kind : {"claim"}, by : Worker, at : 0 .. Horizon]
    \cup [kind : {"heartbeat"}, token : Claim, at : 0 .. Horizon]
    \cup [kind : {"recover"}, iteration : Claim,
          decision : {"requeue", "aborted_infra"}, at : 0 .. Horizon]
    \cup [kind : {"review"}, id : Review, iteration : Claim,
          decision : {"passed", "failed"},
          refs : SUBSET Artifact \ {{}}, at : 0 .. Horizon]

(* What clients may send now.  A worker knows the tokens it received, and  *)
(* Captain names iterations it has seen.                                   *)
Fresh ==
    {r \in Request :
        /\ r.at = clock
        /\ r.kind = "heartbeat" => r.token \in UNION {tokens[w] : w \in Worker}
        /\ r.kind \in {"recover", "review"} => r.iteration <= batch.claims}

-----------------------------------------------------------------------------
(* The projection.                                                         *)

(* A work_batch block before any child. *)
NewBatch(status) ==
    [status    |-> status,
     terminal  |-> FALSE,
     claims    |-> 0,       \* claim_iteration
     holder    |-> 0,       \* the claim whose token is current; 0: none
     expires   |-> 0,       \* claim_expires_at; 0: none
     validated |-> FALSE,   \* validation_run_recorded
     artifacts |-> {},      \* artifact_refs of this iteration's validation runs
     passed    |-> FALSE,   \* passing_review_recorded
     failed    |-> 0,       \* failed_review_count
     reviews   |-> {},      \* review_ids
     recovered |-> {},      \* recovered_iterations
     lapsed    |-> 0]       \* latest expiry that a recovery decision closed

(* recovery_recorded: set by the first recovery, never cleared. *)
RecoveryRecorded(b) == b.recovered # {}

(* The time-dependent end of project_batch. *)
Status(b, now) ==
    IF ~b.terminal /\ b.claims > 0 /\ ~RecoveryRecorded(b)
    THEN IF b.expires > now THEN "claimed" ELSE "pending"
    ELSE b.status

(* Replaying the list at a time before a recorded recovery fails, because  *)
(* the claim it closed had not expired then.                               *)
Replays(b, now) == b.lapsed <= now

(* _assert_live_claim *)
Live(b, token, now) ==
    /\ Replays(b, now)
    /\ Status(b, now) = "claimed"
    /\ b.holder = token
    /\ b.expires > now

(* Faulty: a validation of an earlier claim still counts. *)
ClaimedKeepingEvidence(b, expiry) ==
    [b EXCEPT !.claims = @ + 1, !.holder = b.claims + 1, !.expires = expiry,
              !.status = "claimed"]

Claimed(b, expiry) ==
    [b EXCEPT !.claims = @ + 1, !.holder = b.claims + 1, !.expires = expiry,
              !.validated = FALSE, !.artifacts = {}, !.passed = FALSE,
              !.status = "claimed"]

Validated(b, refs) == [b EXCEPT !.validated = TRUE, !.artifacts = @ \cup refs]

(* Faulty: the decision becomes the status, also when it is "requeue". *)
RecoveredVerbatim(b, iteration, decision) ==
    [b EXCEPT !.recovered = @ \cup {iteration}, !.lapsed = b.expires,
              !.holder = 0, !.expires = 0, !.status = decision,
              !.terminal = decision = "aborted_infra"]

Recovered(b, iteration, decision) ==
    [b EXCEPT !.recovered = @ \cup {iteration}, !.lapsed = b.expires,
              !.holder = 0, !.expires = 0,
              !.status = IF decision = "requeue" THEN "pending" ELSE decision,
              !.terminal = decision = "aborted_infra"]

Done(b, outcome) == [b EXCEPT !.status = outcome, !.terminal = TRUE]

(* A review, and with the last failure allowed the end of the batch. *)
Reviewed(b, id, decision) ==
    IF decision = "passed"
    THEN [b EXCEPT !.reviews = @ \cup {id}, !.passed = TRUE]
    ELSE LET failing == [b EXCEPT !.reviews = @ \cup {id}, !.failed = @ + 1]
         IN  IF failing.failed = MaxFailedReviews
             THEN Done(failing, "failed_after_max_iterations")
             ELSE failing

ActiveSessions == {s \in Session : started[s] # 0} \ finished

-----------------------------------------------------------------------------
Init ==
    /\ \E status \in {"pending", "pending_review"} : batch = NewBatch(status)
    /\ clock = 0
    /\ waiting = {}
    /\ tokens = [w \in Worker |-> {}]
    /\ started = [s \in Session |-> 0]
    /\ finished = {}
    /\ facts = {}

Record(kind) == facts' = facts \cup {<<kind, batch.claims>>}

(* approve *)
Approve(r) ==
    /\ r.kind = "approve"
    /\ Replays(batch, r.at)
    /\ Status(batch, r.at) = "pending_review"
    /\ batch' = [batch EXCEPT !.status = "pending"]
    /\ UNCHANGED <<tokens, facts>>

(* claim: an expired claim is pending, but needs a recovery decision. *)
Claimable(now) ==
    /\ Status(batch, now) = "pending"
    /\ ~ /\ batch.claims > 0
         /\ batch.expires # 0
         /\ batch.expires <= now
         /\ ~RecoveryRecorded(batch)

(* The reply that carries the token may be lost. *)
TakeClaim(r) ==
    /\ r.kind = "claim"
    /\ batch.claims < ClaimBound
    /\ Replays(batch, r.at)
    /\ Claimable(r.at)
    /\ batch' = Claimed(batch, r.at + ClaimTtl)
    /\ \/ tokens' = [tokens EXCEPT ![r.by] = @ \cup {batch'.holder}]
       \/ UNCHANGED tokens
    /\ UNCHANGED facts

(* heartbeat: the new expiry replaces the one of the claim. *)
Heartbeat(r) ==
    /\ r.kind = "heartbeat"
    /\ Live(batch, r.token, r.at)
    /\ batch' = [batch EXCEPT !.expires = r.at + HeartbeatTtl]
    /\ UNCHANGED <<tokens, facts>>

(* Faulty: requeues whatever still runs. *)
ClosesAnyway(iteration) == TRUE

(* _active_codex_sessions is empty for the iteration. *)
Closes(iteration) == \A s \in ActiveSessions : started[s] # iteration

(* recover: Captain closes an expired claim.  The same decision sent again *)
(* is answered from the list, another one for the iteration is refused.    *)
Recover(r) ==
    /\ r.kind = "recover"
    /\ Replays(batch, r.at)
    /\ r.iteration \notin batch.recovered
    /\ Status(batch, r.at) = "pending"
    /\ batch.claims = r.iteration
    /\ batch.expires # 0
    /\ batch.expires <= r.at
    /\ Closes(r.iteration)
    /\ batch' = Recovered(batch, r.iteration, r.decision)
    /\ UNCHANGED <<tokens, facts>>

(* review: only of the current iteration, on the references its validation *)
(* runs recorded, and once per review id.                                  *)
ReviewBatch(r) ==
    /\ r.kind = "review"
    /\ Replays(batch, r.at)
    /\ r.id \notin batch.reviews
    /\ Status(batch, r.at) = "claimed"
    /\ batch.claims = r.iteration
    /\ batch.validated
    /\ r.refs \subseteq batch.artifacts
    /\ batch' = Reviewed(batch, r.id, r.decision)
    /\ Record(r.decision)
    /\ UNCHANGED tokens

Serve(r) ==
    /\ Approve(r) \/ TakeClaim(r) \/ Heartbeat(r) \/ Recover(r) \/ ReviewBatch(r)
    /\ waiting' = waiting \ {r}
    /\ UNCHANGED <<clock, sessions>>

(* A request waits for the lock; it may never take effect. *)
Wait ==
    /\ Cardinality(waiting) < WaitBound
    /\ \E r \in Fresh : waiting' = waiting \cup {r}
    /\ UNCHANGED <<batch, clock, tokens, sessions, facts>>

Drop ==
    /\ \E r \in waiting : waiting' = waiting \ {r}
    /\ UNCHANGED <<batch, clock, tokens, sessions, facts>>

-----------------------------------------------------------------------------
(* append: the clock is read after the lock.                               *)

Validate(w) ==
    \E token \in tokens[w], refs \in {{}} \cup {{a} : a \in Artifact} :
        /\ Live(batch, token, clock)
        /\ batch' = Validated(batch, refs)
        /\ Record("validation_run")
        /\ UNCHANGED <<clock, waiting, tokens, sessions>>

(* Faulty: any review of the iteration closes the batch. *)
Earned(outcome) ==
    /\ outcome = "succeeded" => batch.validated
    /\ outcome = "failed_after_max_iterations" => batch.failed >= MaxFailedReviews

(* The checks of a batch_done candidate. *)
Justified(outcome) ==
    /\ outcome = "succeeded" => batch.validated /\ batch.passed
    /\ outcome = "failed_after_max_iterations" => batch.failed >= MaxFailedReviews

Finish(w) ==
    \E token \in tokens[w], outcome \in Outcome :
        /\ Live(batch, token, clock)
        /\ Justified(outcome)
        /\ batch' = Done(batch, outcome)
        /\ UNCHANGED <<clock, waiting, tokens, sessions, facts>>

-----------------------------------------------------------------------------
(* append_delivery_event, for the start and the end of a Codex session.    *)

(* Faulty: events are taken for any claim. *)
AnyClaim(token) == Status(batch, clock) = "claimed"

(* The current claim, with its fencing token.  The expiry is not checked   *)
(* beyond the status.                                                      *)
CurrentClaim(token) ==
    /\ Replays(batch, clock)
    /\ Status(batch, clock) = "claimed"
    /\ batch.holder = token

(* stale fencing token: not below one that the run already used. *)
Unfenced(token) == \A s \in Session : started[s] <= token

(* A start also names the iteration it is for, which the Gateway takes as  *)
(* it comes and recovery counts by.  The workers here name the claim that  *)
(* their token is of, so that started[s] is both.                          *)
StartSession(w) ==
    \E token \in tokens[w], s \in Session :
        /\ started[s] = 0
        /\ CurrentClaim(token)
        /\ Unfenced(token)
        /\ started' = [started EXCEPT ![s] = token]
        /\ UNCHANGED <<batch, clock, waiting, tokens, finished, facts>>

EndSession(w) ==
    \E token \in tokens[w], s \in ActiveSessions :
        /\ started[s] = token
        /\ CurrentClaim(token)
        /\ Unfenced(token)
        /\ finished' = finished \cup {s}
        /\ UNCHANGED <<batch, clock, waiting, tokens, started, facts>>

(* Captain records the end of a session whose process is gone: it needs no *)
(* claim, but is fenced like any event.                                    *)
EndLostSession ==
    \E s \in ActiveSessions :
        /\ Unfenced(started[s])
        /\ finished' = finished \cup {s}
        /\ UNCHANGED <<batch, clock, waiting, tokens, started, facts>>

Tick ==
    /\ clock < Horizon
    /\ clock' = clock + 1
    /\ UNCHANGED <<batch, waiting, tokens, sessions, facts>>

-----------------------------------------------------------------------------
Next ==
    \/ \E r \in waiting \cup Fresh : Serve(r)
    \/ Wait
    \/ Drop
    \/ \E w \in Worker : Validate(w) \/ Finish(w) \/ StartSession(w) \/ EndSession(w)
    \/ EndLostSession
    \/ Tick

Spec == Init /\ [][Next]_vars

-----------------------------------------------------------------------------
(* Type correctness. *)
Batch ==
    [status : Outcome \cup {"pending", "pending_review", "claimed"},
     terminal : BOOLEAN, claims : {0} \cup Claim, holder : {0} \cup Claim,
     expires : Nat, validated : BOOLEAN, artifacts : SUBSET Artifact,
     passed : BOOLEAN, failed : 0 .. MaxFailedReviews, reviews : SUBSET Review,
     recovered : SUBSET Claim, lapsed : Nat]

TypeOK ==
    /\ batch \in Batch
    /\ clock \in 0 .. Horizon
    /\ waiting \subseteq Request
    /\ tokens \in [Worker -> SUBSET Claim]
    /\ started \in [Session -> {0} \cup Claim]
    /\ finished \subseteq Session
    /\ facts \subseteq {"validation_run", "passed", "failed"} \X Claim

(* An external provider never works for two iterations of a batch at once: *)
(* every session without terminal evidence belongs to the current claim.   *)
(* Three fences meet here, each taken at another time: a claim needs the   *)
(* expired one closed, closing needs the end of its sessions, and no       *)
(* session starts under a claim that is not current.                       *)
OneIterationAtATime == \A s \in ActiveSessions : started[s] = batch.claims

(* A batch is claimed again only after Captain closed the claim before,    *)
(* however late a claim or a recovery request is served.                   *)
EarlierClaimsClosed == 1 .. batch.claims - 1 \subseteq batch.recovered

(* A batch that succeeded was validated and passed review in its last      *)
(* iteration; the evidence of an earlier worker does not count.            *)
SuccessEarned ==
    batch.status = "succeeded" =>
        {<<"validation_run", batch.claims>>, <<"passed", batch.claims>>} \subseteq facts

(* Reviews fail a batch at most MaxFailedReviews times, over all its       *)
(* iterations, and the last one closes it in the same transaction.         *)
FailureCap == batch.failed >= MaxFailedReviews => batch.terminal

(* The list keeps the promise of BatchPromise, although requests act on    *)
(* old times, tokens are used late and replies are lost: a round ends only *)
(* when its providers are gone, evidence does not outlive its round, and a *)
(* closed batch stays as it is.                                            *)
Standing ==
    IF batch.terminal THEN batch.status
    ELSE IF batch.holder # 0 THEN "held"
    ELSE IF batch.status = "pending_review" THEN "unapproved" ELSE "open"

EarnedSoFar ==
    {e \in {"validated", "passed"} : IF e = "passed" THEN batch.passed ELSE batch.validated}

Provider(s) ==
    IF started[s] = 0 THEN "unused" ELSE IF s \in finished THEN "gone" ELSE "working"

Promise == INSTANCE BatchPromise
               WITH standing <- Standing,
                    evidence <- EarnedSoFar,
                    failures <- batch.failed,
                    provider <- [s \in Session |-> Provider(s)]
KeepsPromise == Promise!Spec

(* Nothing is added to a closed batch, whatever requests are under way. *)
TerminalFinal == [][batch.terminal => batch' = batch]_vars

(* A claim whose lease ran out counts as pending, so that Captain can      *)
(* recover it ("treats an expired non-terminal lease as pending").  The    *)
(* code breaks it: recovery_recorded outlives the claim it closed.         *)
ExpiredIsPending ==
    batch.claims > 0 /\ batch.expires # 0 /\ batch.expires <= clock /\ ~batch.terminal
        => Status(batch, clock) = "pending"

(* "Heartbeats extend leases": a heartbeat never moves the expiry to an    *)
(* earlier time.  The code breaks it: the first heartbeat replaces the     *)
(* longer lease of the claim.                                              *)
HeartbeatsExtend ==
    [][batch'.claims = batch.claims /\ batch'.expires # 0
           => batch'.expires >= batch.expires]_vars
==============================================================================
