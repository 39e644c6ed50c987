-------------------------- MODULE BatchLedger_proofs --------------------------
(***************************************************************************)
(* What holds of a work batch for every number of workers, sessions and    *)
(* reviews, every lease, and any number of requests waiting for the lock.  *)
(***************************************************************************)
EXTENDS BatchLedger, TLAPS

-----------------------------------------------------------------------------
(* Requests and the projection.                                            *)

LEMMA RequestServed ==
  ASSUME TypeOK, NEW r \in waiting \cup Fresh
  PROVE  r \in Request
  BY DEF TypeOK, Fresh

LEMMA RequestParts ==
  ASSUME NEW r \in Request
  PROVE  /\ r.at \in 0 .. Horizon
         /\ r.kind = "claim" => r.by \in Worker
         /\ r.kind = "heartbeat" => r.token \in Claim
         /\ r.kind = "recover" =>
               /\ r.iteration \in Claim
               /\ r.decision \in {"requeue", "aborted_infra"}
         /\ r.kind = "review" =>
               /\ r.id \in Review
               /\ r.iteration \in Claim
               /\ r.decision \in {"passed", "failed"}
  BY DEF Request

(* A batch shown as claimed is open and was claimed; so is one that is     *)
(* shown as pending, unless it still waits for its first claim.            *)
BatchShape ==
    /\ batch.recovered \subseteq 1 .. batch.claims
    /\ batch.terminal => batch.status \in Outcome
    /\ batch.claims = 0 =>
          batch.holder = 0 /\ batch.expires = 0
          /\ batch.status \in {"pending", "pending_review"}
    /\ batch.status = "pending_review" => batch.claims = 0

Closed == batch.claims \in batch.recovered

(* A claim holds the batch until a recovery decision closes it, and only a *)
(* closed one leaves the batch pending in the list itself.                 *)
ClaimShape ==
    /\ Closed => /\ batch.holder = 0 /\ batch.expires = 0
                 /\ ~batch.terminal => batch.status = "pending"
    /\ batch.claims > 0 /\ ~Closed =>
          /\ batch.holder = batch.claims
          /\ batch.expires # 0
          /\ batch.status # "pending"

SessionShape ==
    /\ \A s \in Session : started[s] <= batch.claims
    /\ \A s \in finished : started[s] # 0
    /\ Closed => ActiveSessions = {}

Evidence ==
    /\ batch.validated => <<"validation_run", batch.claims>> \in facts
    /\ batch.passed => <<"passed", batch.claims>> \in facts

FailureOpen == ~batch.terminal => batch.failed < MaxFailedReviews

Shape == BatchShape /\ ClaimShape /\ FailureOpen /\ EarlierClaimsClosed

(* The inductive invariant. *)
IInv ==
    /\ TypeOK
    /\ Shape
    /\ SessionShape /\ OneIterationAtATime
    /\ Evidence /\ SuccessEarned

LEMMA ShownClaimed ==
  ASSUME TypeOK, BatchShape, NEW now \in Nat, Status(batch, now) = "claimed"
  PROVE  ~batch.terminal /\ batch.claims \in Claim
  BY DEF TypeOK, Batch, BatchShape, Status, Outcome

LEMMA ShownPending ==
  ASSUME TypeOK, BatchShape, ClaimShape, NEW now \in Nat,
         Status(batch, now) = "pending"
  PROVE  /\ ~batch.terminal
         /\ batch.claims > 0 /\ ~Closed =>
               batch.expires # 0 /\ batch.expires <= now /\ ~RecoveryRecorded(batch)
  BY DEF TypeOK, Batch, BatchShape, ClaimShape, Status, Outcome

LEMMA ShownForReview ==
  ASSUME TypeOK, BatchShape, NEW now \in Nat,
         Status(batch, now) = "pending_review"
  PROVE  ~batch.terminal /\ batch.claims = 0
  BY DEF TypeOK, Batch, BatchShape, Status, Outcome

(* Whoever may write holds the current claim, and it is not closed. *)
LEMMA LiveFacts ==
  ASSUME TypeOK, BatchShape, ClaimShape, NEW token \in Claim, NEW now \in Nat,
         Live(batch, token, now)
  PROVE  /\ ~batch.terminal
         /\ batch.claims \in Claim
         /\ ~Closed
  BY ShownClaimed DEF Live, ClaimShape, Claim

LEMMA ClaimableFacts ==
  ASSUME TypeOK, BatchShape, ClaimShape, NEW now \in Nat, Claimable(now)
  PROVE  ~batch.terminal /\ (batch.claims = 0 \/ Closed)
  <1> QED
    BY ShownPending DEF Claimable, TypeOK, Batch, Claim

-----------------------------------------------------------------------------
(* Types.                                                                  *)

LEMMA TypeInit ==
  ASSUME Init
  PROVE  TypeOK
  BY BatchAssumption DEF Init, TypeOK, Batch, NewBatch, Claim, Request


(* A review adds at most one failure, and the batch had room for it. *)
LEMMA ReviewedIsBatch ==
  ASSUME NEW b \in Batch, NEW id \in Review, NEW d \in {"passed", "failed"},
         b.failed < MaxFailedReviews
  PROVE  /\ Reviewed(b, id, d) \in Batch
         /\ Reviewed(b, id, d).terminal = FALSE =>
               Reviewed(b, id, d).failed < MaxFailedReviews
  <1> DEFINE failing == [b EXCEPT !.reviews = @ \cup {id}, !.failed = @ + 1]
  <1>1. failing \in Batch
    <2>1. b.failed + 1 \in 0 .. MaxFailedReviews
      BY BatchAssumption DEF Batch
    <2>2. b.reviews \cup {id} \in SUBSET Review
      BY DEF Batch
    <2> QED
      BY <2>1, <2>2 DEF Batch
  <1>2. Done(failing, "failed_after_max_iterations") \in Batch
    BY <1>1 DEF Batch, Done, Outcome
  <1>3. Done(failing, "failed_after_max_iterations").terminal = TRUE
    BY <1>1 DEF Batch, Done
  <1>4. CASE d = "passed"
    BY <1>4 DEF Reviewed, Batch
  <1>5. CASE d = "failed"
    <2>1. failing.failed < MaxFailedReviews \/ failing.failed = MaxFailedReviews
      BY BatchAssumption DEF Batch
    <2> QED
      BY <1>1, <1>2, <1>3, <1>5, <2>1 DEF Reviewed
  <1> QED
    BY <1>4, <1>5

LEMMA TypeServed ==
  ASSUME TypeOK, BatchShape, ClaimShape, FailureOpen,
         NEW r \in waiting \cup Fresh, Serve(r)
  PROVE  TypeOK'
  <1>1. r \in Request
    BY RequestServed
  <1>2. r.at \in Nat /\ r.at + ClaimTtl \in Nat /\ r.at + HeartbeatTtl \in Nat
    BY <1>1, RequestParts, BatchAssumption
  <1>3. /\ clock' \in 0 .. Horizon
        /\ waiting' \subseteq Request
        /\ started' \in [Session -> {0} \cup Claim]
        /\ finished' \subseteq Session
    BY DEF Serve, sessions, TypeOK
  <1>4. CASE Approve(r)
    <2>1. batch' \in Batch
      BY <1>4 DEF Approve, TypeOK, Batch
    <2> QED
      BY <1>3, <1>4, <2>1 DEF Approve, TypeOK
  <1>5. CASE TakeClaim(r)
    <2>1. batch.claims + 1 \in Claim
      BY <1>5, BatchAssumption DEF TakeClaim, TypeOK, Batch, Claim
    <2>2. batch' \in Batch /\ batch'.holder \in Claim
      BY <1>2, <1>5, <2>1 DEF TakeClaim, Claimed, TypeOK, Batch
    <2>3. tokens' \in [Worker -> SUBSET Claim]
      BY <1>1, <1>5, <2>2, RequestParts DEF TakeClaim, TypeOK
    <2> QED
      BY <1>3, <1>5, <2>2, <2>3 DEF TakeClaim, TypeOK
  <1>6. CASE Heartbeat(r)
    <2>1. batch' \in Batch
      BY <1>2, <1>6 DEF Heartbeat, TypeOK, Batch
    <2> QED
      BY <1>3, <1>6, <2>1 DEF Heartbeat, TypeOK
  <1>7. CASE Recover(r)
    <2>1. batch' \in Batch
      <3>1. r.iteration \in Claim /\ r.decision \in {"requeue", "aborted_infra"}
        BY <1>1, <1>7, RequestParts DEF Recover
      <3> QED
        BY <1>7, <3>1 DEF Recover, Recovered, TypeOK, Batch, Outcome
    <2> QED
      BY <1>3, <1>7, <2>1 DEF Recover, TypeOK
  <1>8. CASE ReviewBatch(r)
    <2>1. r.id \in Review /\ r.decision \in {"passed", "failed"}
      BY <1>1, <1>8, RequestParts DEF ReviewBatch
    <2>2. ~batch.terminal /\ batch.claims \in Claim
      BY <1>2, <1>8, ShownClaimed DEF ReviewBatch
    <2>3. batch' \in Batch
      BY <1>8, <2>1, <2>2, ReviewedIsBatch DEF ReviewBatch, TypeOK, FailureOpen
    <2>4. facts' \subseteq {"validation_run", "passed", "failed"} \X Claim
      BY <1>8, <2>1, <2>2 DEF ReviewBatch, Record, TypeOK
    <2> QED
      BY <1>3, <1>8, <2>3, <2>4 DEF ReviewBatch, TypeOK
  <1> QED
    BY <1>4, <1>5, <1>6, <1>7, <1>8 DEF Serve


LEMMA TypeStep ==
  ASSUME TypeOK, BatchShape, ClaimShape, FailureOpen, [Next]_vars
  PROVE  TypeOK'
  <1>1. CASE \E r \in waiting \cup Fresh : Serve(r)
    BY <1>1, TypeServed
  <1>2. CASE Wait
    BY <1>2 DEF Wait, Fresh, TypeOK, sessions
  <1>3. CASE Drop
    BY <1>3 DEF Drop, TypeOK, sessions
  <1>4. ASSUME NEW w \in Worker, Validate(w)
        PROVE  TypeOK'
    <2>1. PICK token \in tokens[w], refs \in {{}} \cup {{a} : a \in Artifact} :
             /\ Live(batch, token, clock)
             /\ batch' = Validated(batch, refs)
             /\ Record("validation_run")
             /\ UNCHANGED <<clock, waiting, tokens, sessions>>
      BY <1>4 DEF Validate
    <2>2. batch.claims \in Claim
      BY <2>1, ShownClaimed DEF Live, TypeOK
    <2>3. batch' \in Batch
      <3>1. batch.artifacts \cup refs \in SUBSET Artifact
        BY <2>1 DEF TypeOK, Batch
      <3>2. batch' = [batch EXCEPT !.validated = TRUE,
                                   !.artifacts = batch.artifacts \cup refs]
        BY <2>1 DEF Validated
      <3> QED
        BY <3>1, <3>2 DEF TypeOK, Batch
    <2> QED
      BY <2>1, <2>2, <2>3 DEF Record, TypeOK, sessions
  <1>5. ASSUME NEW w \in Worker, Finish(w)
        PROVE  TypeOK'
    <2>1. PICK outcome \in Outcome : batch' = Done(batch, outcome)
      BY <1>5 DEF Finish
    <2>2. batch' \in Batch
      BY <2>1 DEF Done, TypeOK, Batch
    <2> QED
      BY <1>5, <2>2 DEF Finish, TypeOK, sessions
  <1>6. ASSUME NEW w \in Worker, StartSession(w)
        PROVE  TypeOK'
    BY <1>6 DEF StartSession, TypeOK
  <1>7. ASSUME NEW w \in Worker, EndSession(w)
        PROVE  TypeOK'
    BY <1>7 DEF EndSession, TypeOK, ActiveSessions
  <1>8. CASE EndLostSession
    BY <1>8 DEF EndLostSession, TypeOK, ActiveSessions
  <1>9. CASE Tick
    BY <1>9, BatchAssumption DEF Tick, TypeOK, sessions
  <1>10. CASE UNCHANGED vars
    BY <1>10 DEF vars, sessions, TypeOK
  <1> QED
    BY <1>1, <1>2, <1>3, <1>4, <1>5, <1>6, <1>7, <1>8, <1>9, <1>10 DEF Next

-----------------------------------------------------------------------------
(* The batch: a claim follows a closed one, and nothing follows the end.   *)

LEMMA ShapeInit ==
  ASSUME Init
  PROVE  Shape
  BY BatchAssumption DEF Init, NewBatch, Shape, BatchShape, ClaimShape, Closed,
                         FailureOpen, EarlierClaimsClosed

(* The steps of an open batch that keep its claim and do not end it. *)
LEMMA ShapeKept ==
  ASSUME TypeOK, TypeOK', Shape,
         batch'.claims = batch.claims, batch'.recovered = batch.recovered,
         batch'.holder = batch.holder, batch'.status = batch.status,
         batch'.terminal = batch.terminal,
         batch'.expires = batch.expires
            \/ (batch'.expires # 0 /\ batch.claims > 0 /\ ~Closed),
         batch'.failed = batch.failed \/ batch'.failed < MaxFailedReviews
  PROVE  Shape'
  BY DEF Shape, BatchShape, ClaimShape, Closed, FailureOpen, EarlierClaimsClosed,
         TypeOK, Batch, Claim

(* The steps that end a claimed batch. *)
LEMMA ShapeDone ==
  ASSUME TypeOK, TypeOK', Shape, batch.claims \in Claim,
         batch'.claims = batch.claims, batch'.recovered = batch.recovered,
         batch'.holder = batch.holder, batch'.expires = batch.expires,
         batch'.terminal = TRUE, batch'.status \in Outcome
  PROVE  Shape'
  BY DEF Shape, BatchShape, ClaimShape, Closed, FailureOpen, EarlierClaimsClosed,
         TypeOK, Batch, Claim, Outcome

LEMMA ShapeClaimed ==
  ASSUME TypeOK, TypeOK', Shape, NEW r \in Request, TakeClaim(r)
  PROVE  Shape'
  <1>1. r.at \in Nat
    BY RequestParts, BatchAssumption
  <1>2. ~batch.terminal /\ (batch.claims = 0 \/ Closed)
    BY <1>1, ClaimableFacts DEF TakeClaim, Shape
  <1>3. /\ batch'.claims = batch.claims + 1
        /\ batch'.holder = batch.claims + 1
        /\ batch'.expires = r.at + ClaimTtl
        /\ batch'.status = "claimed"
        /\ batch'.terminal = batch.terminal
        /\ batch'.recovered = batch.recovered
        /\ batch'.failed = batch.failed
    BY DEF TakeClaim, Claimed, TypeOK, Batch
  <1>4. r.at + ClaimTtl # 0
    BY <1>1, BatchAssumption
  <1>5. batch.claims \in Nat
    BY BatchAssumption DEF TypeOK, Batch, Claim
  <1>6. ~Closed'
    BY <1>3, <1>5 DEF Shape, BatchShape, Closed
  <1>7. BatchShape' /\ ClaimShape'
    BY <1>2, <1>3, <1>4, <1>5, <1>6 DEF Shape, BatchShape, ClaimShape, Outcome
  <1>8. EarlierClaimsClosed'
    BY <1>2, <1>3, <1>5 DEF Shape, EarlierClaimsClosed, Closed
  <1>9. FailureOpen'
    BY <1>3 DEF Shape, FailureOpen
  <1> QED
    BY <1>7, <1>8, <1>9 DEF Shape

LEMMA ShapeRecovered ==
  ASSUME TypeOK, TypeOK', Shape, NEW r \in Request, Recover(r)
  PROVE  Shape'
  <1>1. r.at \in Nat /\ r.iteration \in Claim
        /\ r.decision \in {"requeue", "aborted_infra"}
    BY RequestParts, BatchAssumption DEF Recover
  <1>2. ~batch.terminal
    BY <1>1, ShownPending DEF Recover, Shape
  <1>3. /\ batch'.claims = batch.claims
        /\ batch'.recovered = batch.recovered \cup {batch.claims}
        /\ batch'.holder = 0
        /\ batch'.expires = 0
        /\ batch'.failed = batch.failed
        /\ batch'.status = IF r.decision = "requeue" THEN "pending" ELSE r.decision
        /\ batch'.terminal = (r.decision = "aborted_infra")
    BY DEF Recover, Recovered, TypeOK, Batch
  <1>4. batch.claims \in Claim
    BY <1>1 DEF Recover
  <1>5. Closed'
    BY <1>3 DEF Closed
  <1>6. BatchShape' /\ ClaimShape'
    <2>1. batch'.recovered \subseteq 1 .. batch'.claims
      BY <1>3, <1>4 DEF Shape, BatchShape, Claim
    <2>2. batch'.status \in {"pending", "aborted_infra"} /\ batch'.claims # 0
      BY <1>1, <1>3, <1>4 DEF Claim
    <2>3. batch'.terminal => batch'.status \in Outcome
      BY <1>1, <1>3 DEF Outcome
    <2>4. BatchShape'
      BY <2>1, <2>2, <2>3 DEF BatchShape
    <2>5. ~batch'.terminal => batch'.status = "pending"
      BY <1>1, <1>3
    <2> QED
      BY <1>3, <1>5, <2>4, <2>5 DEF ClaimShape
  <1>7. EarlierClaimsClosed'
    BY <1>3 DEF Shape, EarlierClaimsClosed
  <1>8. FailureOpen'
    BY <1>2, <1>3 DEF Shape, FailureOpen
  <1> QED
    BY <1>6, <1>7, <1>8 DEF Shape

LEMMA ShapeReviewed ==
  ASSUME TypeOK, TypeOK', Shape, NEW r \in Request, ReviewBatch(r)
  PROVE  Shape'
  <1>1. r.at \in Nat /\ r.id \in Review /\ r.decision \in {"passed", "failed"}
    BY RequestParts, BatchAssumption DEF ReviewBatch
  <1>2. ~batch.terminal /\ batch.claims \in Claim
    BY <1>1, ShownClaimed DEF ReviewBatch, Shape
  <1>3. batch'.terminal = FALSE => batch'.failed < MaxFailedReviews
    BY <1>1, <1>2, ReviewedIsBatch DEF ReviewBatch, Shape, FailureOpen, TypeOK
  <1>4. /\ batch'.claims = batch.claims
        /\ batch'.recovered = batch.recovered
        /\ batch'.holder = batch.holder
        /\ batch'.expires = batch.expires
        /\ \/ batch'.status = batch.status /\ batch'.terminal = batch.terminal
           \/ batch'.status \in Outcome /\ batch'.terminal = TRUE
    BY <1>1 DEF ReviewBatch, Reviewed, Done, TypeOK, Batch, Outcome
  <1>5. CASE batch'.status = batch.status /\ batch'.terminal = batch.terminal
    <2>1. batch'.failed < MaxFailedReviews
      BY <1>2, <1>3, <1>5 DEF TypeOK, Batch
    <2> QED
      BY <1>4, <1>5, <2>1, ShapeKept
  <1>6. CASE batch'.status \in Outcome /\ batch'.terminal = TRUE
    BY <1>2, <1>4, <1>6, ShapeDone
  <1> QED
    BY <1>4, <1>5, <1>6

LEMMA ShapeServed ==
  ASSUME TypeOK, TypeOK', Shape, NEW r \in Request, Serve(r)
  PROVE  Shape'
  <1>1. r.at \in Nat /\ (r.kind = "heartbeat" => r.token \in Claim)
    BY RequestParts, BatchAssumption
  <1>2. CASE Approve(r)
    <2>1. batch.claims = 0
      BY <1>1, <1>2, ShownForReview DEF Approve, Shape
    <2>2. batch' = [batch EXCEPT !.status = "pending"]
      BY <1>2 DEF Approve
    <2> QED
      BY <2>1, <2>2 DEF Shape, BatchShape, ClaimShape, Closed, FailureOpen,
                        EarlierClaimsClosed, TypeOK, Batch, Outcome
  <1>3. CASE TakeClaim(r)
    BY <1>3, ShapeClaimed
  <1>4. CASE Heartbeat(r)
    <2>1. ~Closed /\ batch.claims \in Claim
      BY <1>1, <1>4, LiveFacts DEF Heartbeat, Shape
    <2>2. r.at + HeartbeatTtl # 0
      BY <1>1, BatchAssumption
    <2>3. batch' = [batch EXCEPT !.expires = r.at + HeartbeatTtl]
      BY <1>4 DEF Heartbeat
    <2>4. batch.claims > 0
      BY <2>1 DEF Claim
    <2> QED
      BY <2>1, <2>2, <2>3, <2>4, ShapeKept DEF TypeOK, Batch
  <1>5. CASE Recover(r)
    BY <1>5, ShapeRecovered
  <1>6. CASE ReviewBatch(r)
    BY <1>6, ShapeReviewed
  <1> QED
    BY <1>2, <1>3, <1>4, <1>5, <1>6 DEF Serve

LEMMA ShapeStep ==
  ASSUME TypeOK, TypeOK', Shape, [Next]_vars
  PROVE  Shape'
  <1>1. CASE batch' = batch
    BY <1>1 DEF Shape, BatchShape, ClaimShape, Closed, FailureOpen,
                EarlierClaimsClosed
  <1>2. ASSUME NEW r \in waiting \cup Fresh, Serve(r)
        PROVE  Shape'
    BY <1>2, RequestServed, ShapeServed
  <1>3. ASSUME NEW w \in Worker, Validate(w)
        PROVE  Shape'
    <2>1. PICK refs \in {{}} \cup {{a} : a \in Artifact} :
             batch' = Validated(batch, refs)
      BY <1>3 DEF Validate
    <2> QED
      BY <2>1, ShapeKept DEF Validated, TypeOK, Batch
  <1>4. ASSUME NEW w \in Worker, Finish(w)
        PROVE  Shape'
    <2>1. PICK token \in tokens[w], outcome \in Outcome :
             Live(batch, token, clock) /\ batch' = Done(batch, outcome)
      BY <1>4 DEF Finish
    <2>2. batch.claims \in Claim
      BY <2>1, ShownClaimed DEF Live, TypeOK, Shape
    <2> QED
      BY <2>1, <2>2, ShapeDone DEF Done, TypeOK, Batch
  <1> QED
    BY <1>1, <1>2, <1>3, <1>4
       DEF Next, vars, Wait, Drop, StartSession, EndSession, EndLostSession, Tick


-----------------------------------------------------------------------------
(* Codex sessions: each starts under the claim that is current, and a new  *)
(* claim finds none of them active.                                        *)

SessionInv == SessionShape /\ OneIterationAtATime

LEMMA SessionInit ==
  ASSUME Init
  PROVE  SessionInv
  BY DEF Init, NewBatch, SessionInv, SessionShape, OneIterationAtATime,
         ActiveSessions, Closed

LEMMA SessionServed ==
  ASSUME TypeOK, Shape, SessionInv, NEW r \in Request, Serve(r)
  PROVE  SessionInv'
  <1>1. r.at \in Nat
    BY RequestParts, BatchAssumption
  <1>2. started' = started /\ finished' = finished /\ ActiveSessions' = ActiveSessions
    BY DEF Serve, sessions, ActiveSessions
  <1>3. CASE batch'.claims = batch.claims /\ batch'.recovered = batch.recovered
    BY <1>2, <1>3 DEF SessionInv, SessionShape, OneIterationAtATime, Closed
  <1>4. CASE TakeClaim(r)
    <2>1. batch.claims = 0 \/ Closed
      BY <1>1, <1>4, ClaimableFacts DEF TakeClaim, Shape
    <2>2. ActiveSessions = {}
      BY <2>1 DEF SessionInv, SessionShape, ActiveSessions, TypeOK, Claim
    <2>3. batch'.claims = batch.claims + 1
      BY <1>4 DEF TakeClaim, Claimed, TypeOK, Batch
    <2>4. \A s \in Session : started'[s] <= batch'.claims
      BY <1>2, <2>3, BatchAssumption DEF SessionInv, SessionShape, TypeOK, Batch, Claim
    <2> QED
      BY <1>2, <2>2, <2>4 DEF SessionInv, SessionShape, OneIterationAtATime
  <1>5. CASE Recover(r)
    <2>1. ActiveSessions = {}
      BY <1>5 DEF Recover, Closes, SessionInv, OneIterationAtATime
    <2>2. batch'.claims = batch.claims
      BY <1>5 DEF Recover, Recovered, TypeOK, Batch
    <2> QED
      BY <1>2, <2>1, <2>2 DEF SessionInv, SessionShape, OneIterationAtATime
  <1>6. CASE Approve(r) \/ Heartbeat(r) \/ ReviewBatch(r)
    <2>1. batch'.claims = batch.claims /\ batch'.recovered = batch.recovered
      BY <1>6 DEF Approve, Heartbeat, ReviewBatch, Reviewed, Done, TypeOK, Batch
    <2> QED
      BY <1>3, <2>1
  <1> QED
    BY <1>4, <1>5, <1>6 DEF Serve

LEMMA SessionStep ==
  ASSUME TypeOK, Shape, SessionInv, [Next]_vars
  PROVE  SessionInv'
  <1>1. CASE /\ batch'.claims = batch.claims /\ batch'.recovered = batch.recovered
             /\ UNCHANGED started /\ finished \subseteq finished'
             /\ finished' \subseteq finished \cup ActiveSessions
    BY <1>1 DEF SessionInv, SessionShape, OneIterationAtATime, Closed, ActiveSessions
  <1>2. ASSUME NEW r \in waiting \cup Fresh, Serve(r)
        PROVE  SessionInv'
    BY <1>2, RequestServed, SessionServed
  <1>3. ASSUME NEW w \in Worker, Validate(w) \/ Finish(w)
        PROVE  SessionInv'
    <2>1. batch'.claims = batch.claims /\ batch'.recovered = batch.recovered
      BY <1>3 DEF Validate, Finish, Validated, Done, TypeOK, Batch
    <2> QED
      BY <1>1, <1>3, <2>1 DEF Validate, Finish, sessions
  <1>4. ASSUME NEW w \in Worker, StartSession(w)
        PROVE  SessionInv'
    <2>1. PICK token \in tokens[w], s \in Session :
             /\ CurrentClaim(token)
             /\ started' = [started EXCEPT ![s] = token]
             /\ UNCHANGED <<batch, finished>>
      BY <1>4 DEF StartSession
    <2>2. token \in Claim /\ batch.holder = token
      BY <2>1 DEF CurrentClaim, TypeOK
    <2>3. token # 0 /\ token = batch.claims /\ ~Closed
      BY <2>2, BatchAssumption
         DEF Shape, BatchShape, ClaimShape, Claim, TypeOK, Batch
    <2>4. \A x \in Session : started'[x] = started[x] \/ started'[x] = batch.claims
      BY <2>1, <2>3 DEF TypeOK
    <2>5. \A x \in ActiveSessions' : x \in ActiveSessions \/ started'[x] = batch.claims
      BY <2>1, <2>4 DEF ActiveSessions
    <2>6. \A x \in Session : started'[x] <= batch'.claims
      BY <2>1, <2>4, BatchAssumption DEF SessionInv, SessionShape, TypeOK, Batch, Claim
    <2>7. OneIterationAtATime'
      <3>1. ASSUME NEW x \in ActiveSessions' PROVE started'[x] = batch'.claims
        <4>1. x \in Session
          BY DEF ActiveSessions
        <4>2. CASE started'[x] = started[x]
          BY <2>1, <2>5, <4>2 DEF SessionInv, OneIterationAtATime
        <4> QED
          BY <2>1, <2>4, <4>1, <4>2
      <3> QED
        BY <3>1 DEF OneIterationAtATime
    <2> QED
      BY <2>1, <2>3, <2>6, <2>7 DEF SessionInv, SessionShape, Closed
  <1>5. ASSUME NEW w \in Worker, EndSession(w)
        PROVE  SessionInv'
    BY <1>1, <1>5 DEF EndSession
  <1>6. CASE EndLostSession
    BY <1>1, <1>6 DEF EndLostSession
  <1>7. CASE Wait \/ Drop \/ Tick \/ UNCHANGED vars
    BY <1>1, <1>7 DEF Wait, Drop, Tick, vars, sessions
  <1> QED
    BY <1>2, <1>3, <1>4, <1>5, <1>6, <1>7 DEF Next

-----------------------------------------------------------------------------
(* Evidence of an iteration is evidence that was recorded in it.           *)

EvidenceInv == Evidence /\ SuccessEarned

LEMMA EvidenceInit ==
  ASSUME Init
  PROVE  EvidenceInv
  BY DEF Init, NewBatch, EvidenceInv, Evidence, SuccessEarned

(* Steps that add no evidence to the projection and claim no success. *)
LEMMA EvidenceKept ==
  ASSUME EvidenceInv, facts \subseteq facts',
         batch'.claims = batch.claims, batch'.validated = batch.validated,
         batch'.passed = batch.passed,
         batch'.status = batch.status \/ batch'.status # "succeeded"
  PROVE  EvidenceInv'
  BY DEF EvidenceInv, Evidence, SuccessEarned

LEMMA EvidenceServed ==
  ASSUME TypeOK, Shape, EvidenceInv, NEW r \in Request, Serve(r)
  PROVE  EvidenceInv'
  <1>1. CASE TakeClaim(r)
    <2>1. /\ batch'.validated = FALSE
          /\ batch'.passed = FALSE
          /\ batch'.status = "claimed"
      BY <1>1 DEF TakeClaim, Claimed, TypeOK, Batch
    <2> QED
      BY <2>1 DEF EvidenceInv, Evidence, SuccessEarned
  <1>2. CASE Approve(r)
    BY <1>2, EvidenceKept DEF Approve, TypeOK, Batch
  <1>3. CASE Heartbeat(r)
    BY <1>3, EvidenceKept DEF Heartbeat, TypeOK, Batch
  <1>4. CASE Recover(r)
    <2>1. r.decision \in {"requeue", "aborted_infra"}
      BY <1>4, RequestParts DEF Recover
    <2>2. /\ batch'.claims = batch.claims
          /\ batch'.validated = batch.validated
          /\ batch'.passed = batch.passed
          /\ batch'.status # "succeeded"
      BY <1>4, <2>1 DEF Recover, Recovered, TypeOK, Batch
    <2> QED
      BY <1>4, <2>2, EvidenceKept DEF Recover
  <1>5. CASE ReviewBatch(r)
    <2>1. /\ batch'.claims = batch.claims
          /\ batch'.validated = batch.validated
          /\ batch'.passed = batch.passed \/ r.decision = "passed"
          /\ batch'.status = batch.status \/ batch'.status # "succeeded"
      BY <1>5 DEF ReviewBatch, Reviewed, Done, TypeOK, Batch
    <2>2. facts' = facts \cup {<<r.decision, batch.claims>>}
      BY <1>5 DEF ReviewBatch, Record
    <2> QED
      BY <2>1, <2>2 DEF EvidenceInv, Evidence, SuccessEarned
  <1> QED
    BY <1>1, <1>2, <1>3, <1>4, <1>5 DEF Serve

LEMMA EvidenceStep ==
  ASSUME TypeOK, Shape, EvidenceInv, [Next]_vars
  PROVE  EvidenceInv'
  <1>1. CASE batch' = batch /\ facts' = facts
    BY <1>1 DEF EvidenceInv, Evidence, SuccessEarned
  <1>2. ASSUME NEW r \in waiting \cup Fresh, Serve(r)
        PROVE  EvidenceInv'
    BY <1>2, RequestServed, EvidenceServed
  <1>3. ASSUME NEW w \in Worker, Validate(w)
        PROVE  EvidenceInv'
    <2>1. /\ batch'.claims = batch.claims
          /\ batch'.passed = batch.passed
          /\ batch'.status = batch.status
      BY <1>3 DEF Validate, Validated, TypeOK, Batch
    <2>2. facts' = facts \cup {<<"validation_run", batch.claims>>}
      BY <1>3 DEF Validate, Record
    <2> QED
      BY <2>1, <2>2 DEF EvidenceInv, Evidence, SuccessEarned
  <1>4. ASSUME NEW w \in Worker, Finish(w)
        PROVE  EvidenceInv'
    <2>1. PICK outcome \in Outcome :
             Justified(outcome) /\ batch' = Done(batch, outcome) /\ facts' = facts
      BY <1>4 DEF Finish
    <2>2. /\ batch'.claims = batch.claims
          /\ batch'.validated = batch.validated
          /\ batch'.passed = batch.passed
          /\ batch'.status = outcome
      BY <2>1 DEF Done, TypeOK, Batch
    <2> QED
      BY <2>1, <2>2 DEF Justified, EvidenceInv, Evidence, SuccessEarned
  <1> QED
    BY <1>1, <1>2, <1>3, <1>4
       DEF Next, vars, Wait, Drop, StartSession, EndSession, EndLostSession, Tick

-----------------------------------------------------------------------------
(* The theorems.                                                           *)

LEMMA InvInit ==
  ASSUME Init
  PROVE  IInv
  BY TypeInit, ShapeInit, SessionInit, EvidenceInit DEF IInv, SessionInv, EvidenceInv

LEMMA InvStep ==
  ASSUME IInv, [Next]_vars
  PROVE  IInv'
  <1>1. TypeOK'
    BY TypeStep DEF IInv, Shape
  <1>2. Shape'
    BY <1>1, ShapeStep DEF IInv
  <1>3. SessionInv'
    BY SessionStep DEF IInv, SessionInv
  <1>4. EvidenceInv'
    BY EvidenceStep DEF IInv, EvidenceInv
  <1> QED
    BY <1>1, <1>2, <1>3, <1>4 DEF IInv, SessionInv, EvidenceInv

LEMMA InvAlways == Spec => []IInv
  <1> QED
    BY InvInit, InvStep, PTL DEF Spec

(* Every variable of the batch ledger keeps its type. *)
THEOREM BatchTypeCorrect == Spec => []TypeOK
  <1>1. IInv => TypeOK
    BY DEF IInv
  <1> QED
    BY <1>1, InvAlways, PTL

(* A session without terminal evidence belongs to the current claim, so no *)
(* external provider works for two iterations of a batch at once.          *)
THEOREM OneIterationAlways == Spec => []OneIterationAtATime
  <1>1. IInv => OneIterationAtATime
    BY DEF IInv
  <1> QED
    BY <1>1, InvAlways, PTL

(* Every claim but the current one was closed by a recovery decision, even *)
(* when claims and recoveries act on a time that has passed.               *)
THEOREM EarlierClaimsClosedAlways == Spec => []EarlierClaimsClosed
  <1>1. IInv => EarlierClaimsClosed
    BY DEF IInv, Shape
  <1> QED
    BY <1>1, InvAlways, PTL

(* Success rests on the validation and the review of the last iteration. *)
THEOREM SuccessEarnedAlways == Spec => []SuccessEarned
  <1>1. IInv => SuccessEarned
    BY DEF IInv
  <1> QED
    BY <1>1, InvAlways, PTL

(* The last failed review allowed closes the batch. *)
THEOREM FailureCapAlways == Spec => []FailureCap
  <1>1. IInv => FailureCap
    BY BatchAssumption DEF IInv, Shape, FailureOpen, FailureCap, TypeOK, Batch
  <1> QED
    BY <1>1, InvAlways, PTL

(* A closed batch is never claimed, pending or waiting for approval, at    *)
(* any time a request may have read, so no request adds to it.             *)
LEMMA ClosedBatchKept ==
  ASSUME IInv, batch.terminal, [Next]_vars
  PROVE  batch' = batch
  <1>1. \A now \in Nat :
           Status(batch, now) \notin {"claimed", "pending", "pending_review"}
    BY DEF IInv, Shape, BatchShape, Status, Outcome
  <1>2. ASSUME NEW r \in waiting \cup Fresh, Serve(r)
        PROVE  FALSE
    <2>1. r.at \in Nat
      BY RequestServed, RequestParts, BatchAssumption DEF IInv
    <2> QED
      BY <1>1, <1>2, <2>1
         DEF Serve, Approve, TakeClaim, Claimable, Heartbeat, Live, Recover, ReviewBatch
  <1>3. ASSUME NEW w \in Worker, Validate(w) \/ Finish(w)
        PROVE  FALSE
    <2>1. clock \in Nat
      BY BatchAssumption DEF IInv, TypeOK
    <2> QED
      BY <1>1, <1>3, <2>1 DEF Validate, Finish, Live
  <1> QED
    BY <1>2, <1>3
       DEF Next, vars, Wait, Drop, StartSession, EndSession, EndLostSession, Tick

(* Nothing is added to a closed batch. *)
THEOREM TerminalFinalAlways == Spec => TerminalFinal
  <1>1. IInv /\ [Next]_vars => [batch.terminal => batch' = batch]_vars
    BY ClosedBatchKept
  <1> QED
    BY <1>1, InvAlways, PTL DEF Spec, TerminalFinal

-----------------------------------------------------------------------------
(* The list keeps the promise of BatchPromise.                             *)

providers == [s \in Session |-> Provider(s)]

(* A batch with a holder is in a round, one without is not.                *)
LEMMA HeldFacts ==
  ASSUME IInv, ~batch.terminal
  PROVE  /\ batch.claims > 0 /\ ~Closed => Standing = "held"
         /\ batch.claims = 0 \/ Closed => Standing \in {"open", "unapproved"}
         /\ Standing = "unapproved" <=> batch.status = "pending_review"
  <1>1. batch.claims \in Nat /\ batch.holder \in Nat
    BY BatchAssumption DEF IInv, TypeOK, Batch, Claim
  <1> QED
    BY <1>1 DEF IInv, Shape, BatchShape, ClaimShape, Standing, Closed

(* Who is shown as the holder at some time is the holder.                  *)
LEMMA LiveHeld ==
  ASSUME IInv, NEW token \in Claim, NEW now \in Nat, Live(batch, token, now)
  PROVE  Standing = "held"
  BY LiveFacts, HeldFacts DEF IInv, Shape, Claim

LEMMA QuietSessions ==
  ASSUME IInv, ActiveSessions = {}
  PROVE  Promise!Quiet
  BY DEF Promise!Quiet, Provider, ActiveSessions

LEMMA QuietUnlessHeld ==
  ASSUME IInv, batch.claims = 0 \/ Closed
  PROVE  ActiveSessions = {}
  BY BatchAssumption DEF IInv, SessionShape, ActiveSessions, TypeOK, Claim

LEMMA PromiseInit ==
  ASSUME Init
  PROVE  Promise!Init
  BY DEF Init, NewBatch, Promise!Init, Standing, EarnedSoFar, Provider

(* Requests that wait for the lock.                                        *)
LEMMA PromiseServed ==
  ASSUME IInv, NEW r \in Request, Serve(r)
  PROVE  [Promise!Next]_(Promise!vars)
  <1>1. r.at \in Nat
    BY RequestParts, BatchAssumption
  <1>2. providers' = providers
    BY DEF Serve, sessions, providers, Provider
  <1>3. batch \in Batch
    BY DEF IInv, TypeOK
  <1>4. CASE Approve(r)
    <2>1. Standing = "unapproved" /\ Standing' = "open"
      <3>1. ~batch.terminal /\ batch.claims = 0 /\ batch.status = "pending_review"
        BY <1>1, <1>4, ShownForReview DEF Approve, IInv, Shape, Status
      <3>2. ~batch'.terminal /\ batch'.holder = 0 /\ batch'.status = "pending"
        BY <1>3, <1>4, <3>1 DEF Approve, Batch, IInv, Shape, BatchShape
      <3> QED
        BY <3>1, <3>2, HeldFacts DEF Standing
    <2>2. EarnedSoFar' = EarnedSoFar /\ batch'.failed = batch.failed
      BY <1>3, <1>4 DEF Approve, Batch, EarnedSoFar
    <2> QED
      BY <1>2, <2>1, <2>2 DEF Promise!Next, Promise!Approve, providers
  <1>5. CASE TakeClaim(r)
    <2>1. ~batch.terminal /\ (batch.claims = 0 \/ Closed)
      BY <1>1, <1>5, ClaimableFacts DEF TakeClaim, IInv, Shape
    <2>2. Standing = "open"
      <3>1. batch.status # "pending_review"
        BY <1>5 DEF TakeClaim, Claimable, Status, IInv, Shape, BatchShape
      <3> QED
        BY <2>1, <3>1, HeldFacts
    <2>3. Promise!Quiet
      BY <2>1, QuietUnlessHeld, QuietSessions
    <2>4. Standing' = "held" /\ EarnedSoFar' = {} /\ batch'.failed = batch.failed
      <3>1. /\ batch'.terminal = FALSE /\ batch'.holder = batch.claims + 1
            /\ batch'.validated = FALSE /\ batch'.passed = FALSE
            /\ batch'.failed = batch.failed
        BY <1>3, <1>5, <2>1 DEF TakeClaim, Claimed, Batch
      <3>2. batch.claims + 1 # 0
        BY <1>3, BatchAssumption DEF Batch, Claim
      <3> QED
        BY <3>1, <3>2 DEF Standing, EarnedSoFar
    <2> QED
      BY <1>2, <2>2, <2>3, <2>4 DEF Promise!Next, Promise!Hold, providers
  <1>6. CASE Heartbeat(r)
    <2>1. /\ batch'.terminal = batch.terminal /\ batch'.holder = batch.holder
          /\ batch'.status = batch.status /\ batch'.failed = batch.failed
          /\ batch'.validated = batch.validated /\ batch'.passed = batch.passed
      BY <1>3, <1>6 DEF Heartbeat, Batch
    <2> QED
      BY <1>2, <2>1 DEF Promise!vars, Standing, EarnedSoFar, providers
  <1>7. CASE Recover(r)
    <2>1. ~batch.terminal /\ batch.claims > 0 /\ ~Closed
      <3>1. r.iteration \in Claim
        BY <1>7, RequestParts DEF Recover
      <3>2. ~batch.terminal
        BY <1>1, <1>7, ShownPending DEF Recover, IInv, Shape
      <3> QED
        BY <1>7, <3>1, <3>2, BatchAssumption DEF Recover, Closed, Claim
    <2>2. Standing = "held"
      BY <2>1, HeldFacts
    <2>3. Promise!Quiet
      <3>1. ActiveSessions = {}
        BY <1>7 DEF Recover, Closes, IInv, OneIterationAtATime
      <3> QED
        BY <3>1, QuietSessions
    <2>4. Standing' \in {"open", "aborted_infra"}
      <3>1. /\ batch'.holder = 0
            /\ batch'.terminal <=> r.decision = "aborted_infra"
            /\ batch'.status = IF r.decision = "requeue" THEN "pending" ELSE r.decision
        BY <1>3, <1>7 DEF Recover, Recovered, Batch
      <3>2. r.decision \in {"requeue", "aborted_infra"}
        BY <1>7, RequestParts DEF Recover
      <3> QED
        BY <3>1, <3>2 DEF Standing
    <2>5. EarnedSoFar' = EarnedSoFar /\ batch'.failed = batch.failed
      BY <1>3, <1>7 DEF Recover, Recovered, Batch, EarnedSoFar
    <2> QED
      BY <1>2, <2>2, <2>3, <2>4, <2>5 DEF Promise!Next, Promise!Release, providers
  <1>8. CASE ReviewBatch(r)
    <2>1. batch.validated /\ "validated" \in EarnedSoFar
      BY <1>8 DEF ReviewBatch, EarnedSoFar
    <2>2. Standing = "held" /\ ~batch.terminal
      <3>1. ~batch.terminal /\ batch.claims \in Claim
        BY <1>1, <1>8, ShownClaimed DEF ReviewBatch, IInv, Shape
      <3>2. ~Closed
        BY <1>8, <3>1 DEF ReviewBatch, Status, Closed, RecoveryRecorded, IInv, Shape, ClaimShape
      <3> QED
        BY <3>1, <3>2, HeldFacts DEF Claim
    <2>3. CASE r.decision = "passed"
      <3>1. /\ batch'.terminal = batch.terminal /\ batch'.holder = batch.holder
            /\ batch'.status = batch.status /\ batch'.failed = batch.failed
            /\ batch'.validated = batch.validated /\ batch'.passed = TRUE
        BY <1>3, <1>8, <2>3 DEF ReviewBatch, Reviewed, Batch
      <3>2. Standing' = Standing /\ EarnedSoFar' = EarnedSoFar \cup {"passed"}
        BY <3>1 DEF Standing, EarnedSoFar
      <3> QED
        BY <1>2, <2>1, <2>2, <3>1, <3>2 DEF Promise!Next, Promise!Pass, providers
    <2>4. CASE r.decision # "passed"
      <3>1. /\ batch'.failed = batch.failed + 1 /\ batch'.holder = batch.holder
            /\ batch'.validated = batch.validated /\ batch'.passed = batch.passed
        BY <1>3, <1>8, <2>4 DEF ReviewBatch, Reviewed, Done, Batch
      <3>2. IF batch.failed + 1 = MaxFailedReviews
            THEN batch'.terminal = TRUE /\ batch'.status = "failed_after_max_iterations"
            ELSE batch'.terminal = batch.terminal /\ batch'.status = batch.status
        BY <1>3, <1>8, <2>4 DEF ReviewBatch, Reviewed, Done, Batch
      <3>3. Standing' = IF batch'.failed = MaxFailedReviews
                        THEN "failed_after_max_iterations" ELSE "held"
        BY <2>2, <3>1, <3>2 DEF Standing
      <3>4. EarnedSoFar' = EarnedSoFar
        BY <3>1 DEF EarnedSoFar
      <3> QED
        BY <1>2, <2>1, <2>2, <3>1, <3>3, <3>4 DEF Promise!Next, Promise!Fail, providers
    <2> QED
      BY <2>3, <2>4
  <1> QED
    BY <1>4, <1>5, <1>6, <1>7, <1>8 DEF Serve

(* A session starts or ends, and nothing else happens.                     *)
LEMMA PromiseStarted ==
  ASSUME IInv, NEW w \in Worker, StartSession(w)
  PROVE  Promise!Next
  <1>1. PICK token \in tokens[w], s \in Session :
           /\ started[s] = 0
           /\ CurrentClaim(token)
           /\ started' = [started EXCEPT ![s] = token]
           /\ UNCHANGED <<batch, finished>>
    BY DEF StartSession
  <1>2. clock \in Nat /\ token \in Claim /\ token # 0
    BY <1>1, BatchAssumption DEF IInv, TypeOK, Claim
  <1>3. Standing = "held"
    BY <1>1, <1>2, ShownClaimed DEF CurrentClaim, Standing, IInv, Shape
  <1>4. s \notin finished
    BY <1>1 DEF IInv, SessionShape
  <1>5. started'[s] = token /\ \A x \in Session \ {s} : started'[x] = started[x]
    BY <1>1 DEF IInv, TypeOK
  <1>6. providers[s] = "unused" /\ providers' = [providers EXCEPT ![s] = "working"]
    <2>1. \A x \in Session : Provider(x)' = IF x = s THEN "working" ELSE Provider(x)
      BY <1>1, <1>2, <1>4, <1>5 DEF Provider
    <2> QED
      BY <1>1, <2>1 DEF providers, Provider
  <1>7. UNCHANGED <<Standing, EarnedSoFar, batch.failed>>
    BY <1>1 DEF Standing, EarnedSoFar
  <1> QED
    BY <1>3, <1>6, <1>7 DEF Promise!Next, Promise!Start, providers

LEMMA PromiseEnded ==
  ASSUME IInv, NEW s \in ActiveSessions, UNCHANGED <<batch, started>>,
         finished' = finished \cup {s}
  PROVE  Promise!Next
  <1>1. s \in Session /\ started[s] # 0 /\ s \notin finished
    BY DEF ActiveSessions
  <1>2. providers[s] = "working" /\ providers' = [providers EXCEPT ![s] = "gone"]
    <2>1. \A x \in Session : Provider(x)' = IF x = s THEN "gone" ELSE Provider(x)
      BY <1>1 DEF Provider
    <2> QED
      BY <1>1, <2>1 DEF providers, Provider
  <1>3. UNCHANGED <<Standing, EarnedSoFar, batch.failed>>
    BY DEF Standing, EarnedSoFar
  <1> QED
    BY <1>1, <1>2, <1>3 DEF Promise!Next, Promise!End, providers

LEMMA PromiseStep ==
  ASSUME IInv, [Next]_vars
  PROVE  [Promise!Next]_(Promise!vars)
  <1>1. clock \in Nat /\ batch \in Batch
    BY BatchAssumption DEF IInv, TypeOK
  <1>2. ASSUME NEW r \in waiting \cup Fresh, Serve(r)
        PROVE  [Promise!Next]_(Promise!vars)
    BY <1>2, RequestServed, PromiseServed DEF IInv
  <1>3. ASSUME NEW w \in Worker, Validate(w)
        PROVE  [Promise!Next]_(Promise!vars)
    <2>1. PICK token \in tokens[w], refs \in {{}} \cup {{a} : a \in Artifact} :
             Live(batch, token, clock) /\ batch' = Validated(batch, refs)
      BY <1>3 DEF Validate
    <2>2. Standing = "held"
      BY <1>1, <2>1, LiveHeld DEF IInv, TypeOK
    <2>3. /\ batch'.terminal = batch.terminal /\ batch'.holder = batch.holder
          /\ batch'.status = batch.status /\ batch'.failed = batch.failed
          /\ batch'.validated = TRUE /\ batch'.passed = batch.passed
      BY <1>1, <2>1 DEF Validated, Batch
    <2>4. Standing' = Standing /\ EarnedSoFar' = EarnedSoFar \cup {"validated"}
      BY <2>3 DEF Standing, EarnedSoFar
    <2>5. providers' = providers
      BY <1>3 DEF Validate, sessions, providers, Provider
    <2> QED
      BY <2>2, <2>3, <2>4, <2>5 DEF Promise!Next, Promise!Validate, providers
  <1>4. ASSUME NEW w \in Worker, Finish(w)
        PROVE  [Promise!Next]_(Promise!vars)
    <2>1. PICK token \in tokens[w], outcome \in Outcome :
             /\ Live(batch, token, clock)
             /\ Justified(outcome)
             /\ batch' = Done(batch, outcome)
      BY <1>4 DEF Finish
    <2>2. Standing = "held" /\ ~batch.terminal
      BY <1>1, <2>1, LiveHeld, LiveFacts DEF IInv, TypeOK, Shape
    <2>3. /\ batch'.terminal = TRUE /\ batch'.status = outcome
          /\ batch'.failed = batch.failed
          /\ batch'.validated = batch.validated /\ batch'.passed = batch.passed
      BY <1>1, <2>1 DEF Done, Batch
    <2>4. outcome # "failed_after_max_iterations"
      BY <1>1, <2>1, <2>2, BatchAssumption
         DEF Justified, IInv, Shape, FailureOpen, Batch
    <2>5. outcome = "succeeded" => EarnedSoFar = {"validated", "passed"}
      BY <2>1 DEF Justified, EarnedSoFar
    <2>6. Standing' = outcome /\ EarnedSoFar' = EarnedSoFar
      BY <2>3 DEF Standing, EarnedSoFar
    <2>7. providers' = providers
      BY <1>4 DEF Finish, sessions, providers, Provider
    <2>8. Promise!Close(outcome)
      BY <2>2, <2>3, <2>4, <2>5, <2>6, <2>7 DEF Promise!Close, providers
    <2> QED
      BY <2>8 DEF Promise!Next
  <1>5. ASSUME NEW w \in Worker, StartSession(w)
        PROVE  [Promise!Next]_(Promise!vars)
    BY <1>5, PromiseStarted
  <1>6. ASSUME NEW w \in Worker, EndSession(w)
        PROVE  [Promise!Next]_(Promise!vars)
    BY <1>6, PromiseEnded DEF EndSession
  <1>7. CASE EndLostSession
    BY <1>7, PromiseEnded DEF EndLostSession
  <1>8. CASE Wait \/ Drop \/ Tick \/ UNCHANGED vars
    <2>1. UNCHANGED <<batch, started, finished>>
      BY <1>8 DEF Wait, Drop, Tick, vars, sessions
    <2> QED
      BY <2>1 DEF Promise!vars, Standing, EarnedSoFar, Provider
  <1> QED
    BY <1>2, <1>3, <1>4, <1>5, <1>6, <1>7, <1>8 DEF Next

(* The batch ledger implements BatchPromise: rounds do not overlap, their  *)
(* providers are gone before they end, and the batch closes once, on the   *)
(* evidence of the round it closes in.                                     *)
THEOREM BatchPromiseKept == Spec => KeepsPromise
  <1>1. Init => Promise!Init
    BY PromiseInit
  <1>2. IInv /\ [Next]_vars => [Promise!Next]_(Promise!vars)
    BY PromiseStep
  <1> QED
    BY <1>1, <1>2, InvAlways, PTL DEF Spec, KeepsPromise, Promise!Spec

==============================================================================
