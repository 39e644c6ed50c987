--------------------------- MODULE LedgerRecorder ---------------------------
(***************************************************************************)
(* The Ledger Recorder: the sole writer of the supply-chain ledger.        *)
(* Every handler only enqueues; one writer loop takes the inbox in order   *)
(* and applies one item per turn.  Two of the handlers publish again on    *)
(* topics the recorder itself subscribes to, which puts a new item at the  *)
(* end of the inbox.                                                       *)
(*                                                                         *)
(* The environment may deliver any event at any time, in any order and any *)
(* number of times: this is the recorder against the worst bus allowed by  *)
(* the EventBus contract.  A redelivery whose event_id the recorder still  *)
(* remembers is dropped before any handler runs and changes nothing, so    *)
(* event ids are left out; one it has forgotten (after a restart) is a     *)
(* further delivery here.                                                  *)
(*                                                                         *)
(* A turn never suspends between its saves, so only a crash can expose a   *)
(* half-applied handler: the Crash actions cut a turn at each of its saves *)
(* and restart the process from what the disk holds.                       *)
(***************************************************************************)
EXTENDS BlockLifecycle, Naturals, Sequences, FiniteSets

CONSTANTS Sub,          \* subproblem ids
          NoBlock,      \* no block written for this id
          Root,         \* root problem ids
          RootOf,       \* the root problem each subproblem belongs to
          Cap,          \* max_total_subproblems a ProblemSubmitted may carry
          DefaultCap,   \* the recorder's default_budget
          InboxBound    \* bound: deliveries waiting at once

ASSUME RecorderAssumption ==
    /\ IsFiniteSet(Sub)
    /\ RootOf \in [Sub -> Root]
    /\ Cap \subseteq Nat
    /\ DefaultCap \in Nat
    /\ NoBlock \notin Block
    /\ InboxBound \in Nat

VARIABLES inbox,        \* _inbox
          blocks,       \* the block of each subproblem (memory and disk)
          index,        \* status_index: stage -> subproblems
          problem,      \* roots that have a problem block
          cap,          \* the budget written on each problem block
          saved,        \* budget_consumed on each problem block
          consumed,     \* InProcessBudgetLedger._consumed
          errors,       \* self.errors is not empty
          writer,       \* the writer task
          stopRequested,
          lost          \* history: reservations a crash left unpersisted

memory == <<inbox, index, consumed, errors, writer, stopRequested>>
disk == <<blocks, problem, cap, saved>>
vars == <<memory, disk, lost>>

Event ==
    [kind : {"submitted"}, root : Root, cap : Cap]
    \cup [kind : {"proposed", "accepted", "rejected", "heartbeat",
                  "unroutable", "lease_expired"}, sub : Sub]
    \cup [kind : {"assigned"}, sub : Sub, agent : Agent, lease : Lease]
    \cup [kind : {"completed"}, sub : Sub, result : Result]
    \cup [kind : {"failed"}, sub : Sub, retriable : BOOLEAN]

Stop == [kind |-> "stop"]
Item == Event \cup {Stop}

StageOf(s) == IF blocks[s] = NoBlock THEN "none" ELSE blocks[s].stage
BlocksOf(r) == {s \in Sub : RootOf[s] = r /\ blocks[s] # NoBlock}
IndexOf(bs) == [st \in Stage |-> {s \in Sub : bs[s] # NoBlock /\ bs[s].stage = st}]

Init ==
    /\ inbox = <<>>
    /\ blocks = [s \in Sub |-> NoBlock]
    /\ index = [st \in Stage |-> {}]
    /\ problem = {}
    /\ cap = [r \in Root |-> 0]
    /\ saved = [r \in Root |-> 0]
    /\ consumed = [r \in Root |-> 0]
    /\ errors = FALSE
    /\ writer = "running"
    /\ stopRequested = FALSE
    /\ lost = [r \in Root |-> 0]

-----------------------------------------------------------------------------
(* Deliveries, stop() and start().                                         *)

Deliver(e) ==
    /\ Len(inbox) < InboxBound
    /\ inbox' = Append(inbox, e)
    /\ UNCHANGED <<index, consumed, errors, writer, stopRequested, disk, lost>>

RequestStop ==
    /\ writer = "running"
    /\ ~stopRequested
    /\ stopRequested' = TRUE
    /\ inbox' = Append(inbox, Stop)
    /\ UNCHANGED <<index, consumed, errors, writer, disk, lost>>

Start ==
    /\ writer = "stopped"
    /\ stopRequested' = FALSE
    /\ writer' = "running"
    /\ UNCHANGED <<inbox, index, consumed, errors, disk, lost>>

(* stop() was called and nothing is left, self-published items included.   *)
Exit(kind) == stopRequested /\ inbox' = <<>>

(* The frame of every turn: take the head, leave the items a nested        *)
(* publish added behind the rest, and stop only on an empty inbox.         *)
Turn(kind, published) ==
    /\ writer = "running"
    /\ inbox # <<>>
    /\ Head(inbox).kind = kind
    /\ inbox' = Tail(inbox) \o published
    /\ writer' = IF Exit(kind) THEN "stopped" ELSE "running"
    /\ UNCHANGED <<stopRequested, lost>>

(* Faulty: the stage the block leaves keeps it. *)
WriteWithoutLeaving(s, b) ==
    /\ blocks' = [blocks EXCEPT ![s] = b]
    /\ index' = [index EXCEPT ![b.stage] = @ \cup {s}]

(* Save block b for s and move s in the status index.                      *)
Write(s, b) ==
    /\ blocks' = [blocks EXCEPT ![s] = b]
    /\ index' = [st \in Stage |->
                    IF st = b.stage THEN index[st] \cup {s}
                    ELSE IF st = StageOf(s) THEN index[st] \ {s} ELSE index[st]]

(* Most handlers touch one block and no budget.                            *)
WriteOnly(s, b, illegal) ==
    /\ Write(s, b)
    /\ errors' = (errors \/ illegal)
    /\ UNCHANGED <<problem, cap, saved, consumed>>

(* _require_block: no block for this id is an error, and nothing else.     *)
Unknown ==
    /\ errors' = TRUE
    /\ UNCHANGED <<blocks, index, problem, cap, saved, consumed>>

Ignore == UNCHANGED <<blocks, index, problem, cap, saved, consumed, errors>>

-----------------------------------------------------------------------------
(* One action per _apply_xxx.                                              *)

(* stop()'s sentinel only wakes the loop.                                  *)
ApplyStop ==
    /\ Turn("stop", <<>>)
    /\ Ignore

(* _write_problem_block *)
WriteProblem(r, c) ==
    /\ problem' = problem \cup {r}
    /\ cap' = [cap EXCEPT ![r] = c]

ApplyProblemSubmitted ==
    /\ Turn("submitted", <<>>)
    /\ LET r == Head(inbox).root
       IN  IF r \in problem THEN Ignore
           ELSE /\ WriteProblem(r, Head(inbox).cap)
                /\ saved' = [saved EXCEPT ![r] = 0]
                /\ UNCHANGED <<blocks, index, consumed, errors>>

(* _ensure_problem_block: the budget in force, after synthesizing a        *)
(* problem block when ProblemSubmitted was never observed.                 *)
EffectiveCap(r) == IF r \in problem THEN cap[r] ELSE DefaultCap
EnsureProblem(r) == WriteProblem(r, EffectiveCap(r))

(* try_reserve(root, budget, 1) *)
Reserved(r) == IF consumed[r] < EffectiveCap(r) THEN 1 ELSE 0

(* Faulty: the count stays in memory. *)
PersistNothing(r) == UNCHANGED saved

(* _persist_budget_consumed *)
PersistConsumed(r) == saved' = [saved EXCEPT ![r] = consumed'[r]]

(* A proposal whose id already has a block writes no second one; it only   *)
(* finishes a QUEUED -> VALIDATING move a crash interrupted.               *)
ApplyProposedAgain ==
    /\ Turn("proposed", <<>>)
    /\ LET s == Head(inbox).sub
       IN  /\ blocks[s] # NoBlock
           /\ IF StageOf(s) = "queued"
              THEN WriteOnly(s, [blocks[s] EXCEPT !.stage = "validating"], FALSE)
              ELSE Ignore

(* A new proposal that gets a slot: block, then VALIDATING, then the       *)
(* budget count.                                                           *)
ApplyProposed ==
    /\ Turn("proposed", <<>>)
    /\ LET s == Head(inbox).sub
           r == RootOf[s]
       IN  /\ blocks[s] = NoBlock
           /\ Reserved(r) = 1
           /\ EnsureProblem(r)
           /\ Write(s, ValidatingBlock)
           /\ consumed' = [consumed EXCEPT ![r] = @ + 1]
           /\ PersistConsumed(r)
           /\ UNCHANGED errors

(* No slot left: the rejection is published and no block is written.       *)
ApplyProposedOverBudget ==
    /\ inbox # <<>>
    /\ Head(inbox).kind = "proposed"
    /\ LET s == Head(inbox).sub
           r == RootOf[s]
       IN  /\ Turn("proposed", <<[kind |-> "rejected", sub |-> s]>>)
           /\ blocks[s] = NoBlock
           /\ Reserved(r) = 0
           /\ EnsureProblem(r)
           /\ UNCHANGED <<blocks, index, saved, consumed, errors>>

(* The verdict handlers ignore a block that is missing or not VALIDATING.  *)
(* An acceptance that applies is published again, now with a block index,  *)
(* and comes back through the recorder's own subscription.                 *)
ApplyAccepted ==
    /\ inbox # <<>>
    /\ Head(inbox).kind = "accepted"
    /\ LET s == Head(inbox).sub
       IN  IF StageOf(s) = "validating"
           THEN /\ Turn("accepted", <<[kind |-> "accepted", sub |-> s]>>)
                /\ WriteOnly(s, AfterVerdict(blocks[s], "accepted"), FALSE)
           ELSE Turn("accepted", <<>>) /\ Ignore

ApplyRejected ==
    /\ Turn("rejected", <<>>)
    /\ LET s == Head(inbox).sub
       IN  IF StageOf(s) = "validating"
           THEN WriteOnly(s, AfterVerdict(blocks[s], "rejected"), FALSE)
           ELSE Ignore

ApplyAssigned ==
    /\ Turn("assigned", <<>>)
    /\ LET e == Head(inbox)
       IN  IF blocks[e.sub] = NoBlock THEN Unknown
           ELSE WriteOnly(e.sub,
                          AfterAssigned(blocks[e.sub], e.agent, e.lease),
                          ~CanTransition(blocks[e.sub], "assigned"))

ApplyHeartbeat ==
    /\ Turn("heartbeat", <<>>)
    /\ LET s == Head(inbox).sub
       IN  IF blocks[s] = NoBlock THEN Ignore
           ELSE WriteOnly(s, AfterHeartbeat(blocks[s]), FALSE)

ApplyCompleted ==
    /\ Turn("completed", <<>>)
    /\ LET e == Head(inbox)
       IN  IF blocks[e.sub] = NoBlock THEN Unknown
           ELSE WriteOnly(e.sub, AfterCompleted(blocks[e.sub], e.result),
                          LateCompletion(blocks[e.sub]))

ApplyFailed ==
    /\ Turn("failed", <<>>)
    /\ LET e == Head(inbox)
       IN  IF blocks[e.sub] = NoBlock THEN Unknown
           ELSE IF e.retriable
                THEN WriteOnly(e.sub, AfterRetriable(blocks[e.sub]),
                               LateRetriable(blocks[e.sub]))
                ELSE WriteOnly(e.sub, AfterFinalFailure(blocks[e.sub]),
                               LateFinalFailure(blocks[e.sub]))

ApplyUnroutable ==
    /\ Turn("unroutable", <<>>)
    /\ LET s == Head(inbox).sub
       IN  IF blocks[s] = NoBlock THEN Unknown
           ELSE WriteOnly(s, AfterFinalFailure(blocks[s]),
                          LateFinalFailure(blocks[s]))

ApplyLeaseExpired ==
    /\ Turn("lease_expired", <<>>)
    /\ LET s == Head(inbox).sub
       IN  IF blocks[s] = NoBlock THEN Unknown
           ELSE WriteOnly(s, AfterRetriable(blocks[s]), LateRetriable(blocks[s]))

-----------------------------------------------------------------------------
(* The process dies and comes back: memory is gone, and the budget ledger, *)
(* the indices and the status index are rebuilt from the chain.  The new   *)
(* writer loop waits for start().                                          *)
Reboot ==
    /\ inbox' = <<>>
    /\ consumed' = saved
    /\ index' = IndexOf(blocks')
    /\ errors' = FALSE
    /\ writer' = "stopped"
    /\ stopRequested' = FALSE
    /\ saved' = saved

(* Between two turns, or in a turn before its first save.                  *)
Crash ==
    /\ UNCHANGED <<blocks, problem, cap, lost>>
    /\ Reboot

(* In a new proposal's turn: after the problem block, or after the block   *)
(* was added as QUEUED, or after it moved to VALIDATING, and in the last   *)
(* two cases before the budget count was persisted.                        *)
CrashInProposed ==
    /\ writer = "running"
    /\ inbox # <<>>
    /\ Head(inbox).kind = "proposed"
    /\ LET s == Head(inbox).sub
           r == RootOf[s]
       IN  /\ blocks[s] = NoBlock
           /\ EnsureProblem(r)
           /\ \/ UNCHANGED <<blocks, lost>>
              \/ /\ Reserved(r) = 1
                 /\ \E b \in {QueuedBlock, ValidatingBlock} :
                        blocks' = [blocks EXCEPT ![s] = b]
                 /\ lost' = [lost EXCEPT ![r] = @ + 1]
    /\ Reboot

(* In a completion's turn: the disk keeps a version saved on the way.      *)
CrashInCompleted ==
    /\ writer = "running"
    /\ inbox # <<>>
    /\ Head(inbox).kind = "completed"
    /\ LET e == Head(inbox)
       IN  /\ blocks[e.sub] # NoBlock
           /\ \E b \in CompletedPrefix(blocks[e.sub], e.result) :
                  blocks' = [blocks EXCEPT ![e.sub] = b]
    /\ Reboot
    /\ UNCHANGED <<problem, cap, lost>>

-----------------------------------------------------------------------------
WriterStep ==
    \/ ApplyStop
    \/ ApplyProblemSubmitted
    \/ ApplyProposedAgain
    \/ ApplyProposed
    \/ ApplyProposedOverBudget
    \/ ApplyAccepted
    \/ ApplyRejected
    \/ ApplyAssigned
    \/ ApplyHeartbeat
    \/ ApplyCompleted
    \/ ApplyFailed
    \/ ApplyUnroutable
    \/ ApplyLeaseExpired

CrashStep == Crash \/ CrashInProposed \/ CrashInCompleted

Next ==
    \/ \E e \in Event : Deliver(e)
    \/ RequestStop
    \/ Start
    \/ WriterStep
    \/ CrashStep

Spec == Init /\ [][Next]_vars

-----------------------------------------------------------------------------
(* Types.                                                                  *)
TypeOK ==
    /\ inbox \in Seq(Item)
    /\ blocks \in [Sub -> Block \cup {NoBlock}]
    /\ index \in [Stage -> SUBSET Sub]
    /\ problem \in SUBSET Root
    /\ cap \in [Root -> Nat]
    /\ saved \in [Root -> Nat]
    /\ consumed \in [Root -> Nat]
    /\ errors \in BOOLEAN
    /\ writer \in {"running", "stopped"}
    /\ stopRequested \in BOOLEAN
    /\ lost \in [Root -> Nat]

(* Every block of a root is counted once, in the memory counter and on the *)
(* problem block alike, apart from those whose count a crash lost, and the *)
(* count stays within the budget written there: what a restart needs to    *)
(* resume "exactly where the last one left off" (query.py).                *)
BudgetAccounted ==
    \A r \in Root :
        /\ saved[r] = consumed[r]
        /\ Cardinality(BlocksOf(r)) = consumed[r] + lost[r]
        /\ consumed[r] <= cap[r]
        /\ r \notin problem => consumed[r] = 0

(* A root never has more subproblem blocks than its budget, except for one *)
(* per crash that fell between add_block and the count being persisted     *)
(* (recorder.py, _apply_subproblem_proposed).  Counter, cap and blocks     *)
(* meet at every root, also one whose problem block was synthesized.       *)
BudgetRespected ==
    \A r \in Root : Cardinality(BlocksOf(r)) <= cap[r] + lost[r]

(* What budget.py asks of every implementation: the cap holds, crash or no *)
(* crash.  The code does not meet it.                                      *)
BudgetCrashSafe ==
    \A r \in Root : Cardinality(BlocksOf(r)) <= cap[r]

(* The status index the Coordinator, Reaper and recovery read always says  *)
(* what the blocks say (query.py: reads and writes never disagree), across *)
(* handlers that move a block twice in a turn and across restarts.         *)
IndexInLockstep == index = IndexOf(blocks)

(* A result is on the ledger only for a verified block; a DONE block always *)
(* has one.  FAILED is in the set because a crash can park a block in      *)
(* VERIFYING, which a late failure report may then fail.                   *)
ResultOnlyWhenVerified ==
    \A s \in Sub : blocks[s] # NoBlock =>
        /\ blocks[s].result # NoResult
              => blocks[s].stage \in {"verifying", "done", "failed"}
        /\ blocks[s].stage \in {"verifying", "done"}
              => blocks[s].result # NoResult

(* The fields a reader uses to find blocks in trouble never describe an    *)
(* attempt that is over (recorder.py, _apply_subproblem_assigned): a block *)
(* says retriable only while RETRYING, and carries last_error only while   *)
(* RETRYING or after failing for good.                                     *)
TroubleIsCurrent ==
    \A s \in Sub : blocks[s] # NoBlock =>
        /\ blocks[s].retriable = "yes" <=> blocks[s].stage = "retrying"
        /\ blocks[s].lastError => blocks[s].stage \in {"retrying", "failed"}

(* Stale, duplicate and out-of-order reports leave a finished block as it  *)
(* was, breadcrumbs aside (recorder.py, _record_late_event).               *)
FinishedBlockKept ==
    \A s \in Sub : blocks[s] # NoBlock /\ blocks[s].stage \in TerminalStages
        => blocks'[s] \in {blocks[s], LateEvent(blocks[s])}
OutcomeIsFinal == [][FinishedBlockKept]_vars

(* The owner of a block changes only when an assignment is legal: an       *)
(* assignment that arrives while another attempt runs never stomps on the  *)
(* agent and lease the Reaper trusts (recorder.py, _can_transition).       *)
OwnerKept ==
    \A s \in Sub : blocks[s] # NoBlock
        /\ <<blocks'[s].agent, blocks'[s].lease>> # <<blocks[s].agent, blocks[s].lease>>
        => /\ blocks[s].stage \in {"accepted", "retrying"}
           /\ blocks'[s].stage = "assigned"
OwnerChangesOnAssignment == [][OwnerKept]_vars

(* stop() lets the loop exit only on an empty inbox, so an item that a     *)
(* turn published to itself is never abandoned (recorder.py, stop).        *)
ExitDrained == writer = "running" /\ writer' = "stopped" => inbox' = <<>>
StopDrains == [][ExitDrained]_vars

(* The ledger keeps the promise of SubproblemPromise.                      *)
PhaseOf(s) ==
    CASE StageOf(s) = "none" -> "unknown"
      [] StageOf(s) \in {"queued", "validating"} -> "proposed"
      [] StageOf(s) = "rejected" -> "declined"
      [] StageOf(s) = "done" -> "succeeded"
      [] StageOf(s) = "failed" -> "failed"
      [] OTHER -> "open"

OutcomeOf(s) == IF StageOf(s) = "done" THEN blocks[s].result ELSE NoResult

Promise == INSTANCE SubproblemPromise
               WITH phase <- [s \in Sub |-> PhaseOf(s)],
                    outcome <- [s \in Sub |-> OutcomeOf(s)]
KeepsPromise == Promise!Spec
=============================================================================
