--------------------------- MODULE BlockLifecycle ---------------------------
(***************************************************************************)
(* The ledger block of one subproblem and what each Ledger Recorder        *)
(* handler makes of it.  stage_machine.py owns the legal stages, and       *)
(* recorder.py the fields a handler may write once a transition is known   *)
(* to be legal.  No state here: LedgerRecorder and SupplyChain both build  *)
(* their actions from these operators.  The ones marked faulty model bugs  *)
(* the code does not have; the properties are shown to notice them.        *)
(*                                                                         *)
(* Kept of a block: its status, the owner the Coordinator named (agent and *)
(* lease), the result, the two "in trouble" fields a reader looks at       *)
(* (last_error, retriable), and whether late_events holds anything.        *)
(* Descriptions, tags, reasons and the append-only histories are left out. *)
(***************************************************************************)
CONSTANTS Agent,      \* agent types a subproblem can be assigned to
          NoAgent,
          Lease,      \* lease deadlines, each standing for one assignment
          NoLease,
          Result,     \* results a worker can report
          NoResult

ASSUME NullAssumption ==
    /\ NoAgent \notin Agent
    /\ NoLease \notin Lease
    /\ NoResult \notin Result

Stage == {"queued", "validating", "accepted", "assigned", "in_progress",
          "verifying", "done", "failed", "retrying", "rejected"}

TerminalStages == {"done", "failed", "rejected"}

(* Faulty: a failed block may be assigned again, as before RETRYING. *)
AllowedWithRetriedFailure ==
    [st \in Stage |->
        CASE st = "queued"      -> {"validating"}
          [] st = "validating"  -> {"accepted", "rejected"}
          [] st = "accepted"    -> {"assigned", "failed"}
          [] st \in {"assigned", "in_progress"}
                                -> {"in_progress", "verifying", "retrying", "failed"}
          [] st = "verifying"   -> {"done", "failed"}
          [] st \in {"retrying", "failed"} -> {"assigned", "failed"}
          [] OTHER              -> {}]

AllowedTransitions ==
    [st \in Stage |->
        CASE st = "queued"      -> {"validating"}
          [] st = "validating"  -> {"accepted", "rejected"}
          [] st = "accepted"    -> {"assigned", "failed"}
          [] st = "assigned"    -> {"in_progress", "retrying", "failed"}
          [] st = "in_progress" -> {"verifying", "retrying", "failed"}
          [] st = "verifying"   -> {"done", "failed"}
          [] st = "retrying"    -> {"assigned", "failed"}
          [] OTHER              -> {}]

Block == [stage     : Stage,
          agent     : Agent \cup {NoAgent},
          lease     : Lease \cup {NoLease},
          result    : Result \cup {NoResult},
          lastError : BOOLEAN,
          retriable : {"unset", "yes", "no"},
          late      : BOOLEAN]

(* validate_transition, reached through _can_transition. *)
CanTransition(b, target) == target \in AllowedTransitions[b.stage]

(* What add_block writes for a fresh proposal. *)
QueuedBlock ==
    [stage |-> "queued", agent |-> NoAgent, lease |-> NoLease,
     result |-> NoResult, lastError |-> FALSE, retriable |-> "unset",
     late |-> FALSE]

ValidatingBlock == [QueuedBlock EXCEPT !.stage = "validating"]

(* A report that can no longer apply leaves a breadcrumb and nothing else. *)
LateEvent(b) == [b EXCEPT !.late = TRUE]

-----------------------------------------------------------------------------
(* One operator per handler: the block after the handler has run.          *)

(* The Gatekeeper's verdict counts for a block that is still VALIDATING.   *)
AfterVerdict(b, target) ==
    IF b.stage = "validating" THEN [b EXCEPT !.stage = target] ELSE b

(* Faulty: the trouble fields of the previous attempt stay. *)
AssignedKeepsTrouble(b, agent, lease) ==
    IF CanTransition(b, "assigned")
    THEN [b EXCEPT !.stage = "assigned", !.agent = agent, !.lease = lease]
    ELSE b

AfterAssigned(b, agent, lease) ==
    IF CanTransition(b, "assigned")
    THEN [b EXCEPT !.stage = "assigned", !.agent = agent, !.lease = lease,
                   !.lastError = FALSE, !.retriable = "unset"]
    ELSE b

AfterHeartbeat(b) ==
    IF b.stage = "assigned" THEN [b EXCEPT !.stage = "in_progress"] ELSE b

(* A completion may overtake the first heartbeat, so it passes through     *)
(* IN_PROGRESS; then VERIFYING and DONE follow in the same turn.           *)
AfterCompleted(b, result) ==
    LET started == AfterHeartbeat(b)
    IN  IF CanTransition(started, "verifying")
        THEN [started EXCEPT !.stage = "done", !.result = result]
        ELSE LateEvent(b)

(* Faulty: writes a stage nobody knows. *)
RetriableUnknownStage(b) ==
    IF CanTransition(b, "retrying") THEN [b EXCEPT !.stage = "retry"] ELSE LateEvent(b)

(* RETRYING is not an illegal target for a block that is RETRYING already: *)
(* the report only refreshes last_error.                                   *)
AfterRetriable(b) ==
    IF b.stage = "retrying" THEN [b EXCEPT !.lastError = TRUE]
    ELSE IF CanTransition(b, "retrying")
         THEN [b EXCEPT !.stage = "retrying", !.lastError = TRUE,
                        !.retriable = "yes"]
         ELSE LateEvent(b)

(* A failure that is not retriable, and an unroutable subproblem.          *)
AfterFinalFailure(b) ==
    IF CanTransition(b, "failed")
    THEN [b EXCEPT !.stage = "failed", !.retriable = "no"]
    ELSE LateEvent(b)

(* The reports a handler files as errors: their transition is illegal.     *)
LateCompletion(b) == ~CanTransition(AfterHeartbeat(b), "verifying")
LateRetriable(b) == b.stage # "retrying" /\ ~CanTransition(b, "retrying")
LateFinalFailure(b) == ~CanTransition(b, "failed")

(* What the disk holds when the process dies inside the completion         *)
(* handler: every version of the block it saves before the last one.       *)
CompletedPrefix(b, result) ==
    LET started == AfterHeartbeat(b)
    IN  {x \in {started,
                [started EXCEPT !.stage = "verifying", !.result = result]} :
            /\ x # b
            /\ CanTransition(started, "verifying")}
=============================================================================
