---------------------------- MODULE SupplyChain ----------------------------
(***************************************************************************)
(* The supply-chain pipeline as build_pipeline wires it on the in-memory   *)
(* bus: Decomposer, Gatekeeper, Ledger Recorder, Spawn Coordinator, worker *)
(* fleet, Supervisor, Reaper and startup recovery, for one root problem.   *)
(*                                                                         *)
(* publish() calls every handler inline, so an event runs as one chain of  *)
(* nested calls in the task that published it, until something in the      *)
(* chain suspends: a worker executing, the Coordinator sleeping off a      *)
(* delay, an LLM call.  Four tasks publish: the client, the Recorder's     *)
(* writer loop, the Reaper's poll loop, and recovery, which runs before    *)
(* the writer is started.  The Recorder's handlers only enqueue, so the    *)
(* ledger lags behind what the agents do; and when the chain belongs to    *)
(* the writer itself, the ledger stands still until the chain returns.     *)
(*                                                                         *)
(* asyncio is cooperative and neither a put on the unbounded inbox nor a   *)
(* get from a non-empty one suspends.  A task with pc "turn" holds the     *)
(* loop between two steps; no other task moves until it lets go.           *)
(*                                                                         *)
(* Left to LedgerRecorder: crashes inside a writer turn, stop(), the       *)
(* problem block, redelivery.  Definitions marked faulty model bugs the    *)
(* code does not have; the properties are shown to notice them.            *)
(***************************************************************************)
EXTENDS Circuit

CONSTANTS Agent,        \* agent types, results and their nulls, as in
          NoAgent,      \* BlockLifecycle
          Result,
          NoResult,
          MaxSub,       \* bound: subproblems ever proposed
          NoBlock,
          TypeOf,       \* agent type a subproblem's tags resolve to, or NoAgent
          Budget,       \* max_total_subproblems
          Fanout,       \* max_fanout_per_node
          MaxRetries,
          MaxInFlight,  \* max_in_flight_per_type
          TimedOut,     \* the answers a half-open timeout check may give
          ExpiryBound,  \* bound: leases that run out
          CrashBound    \* bound: crashes

(* Leases are numbered in the order they are handed out.                   *)
Lease == Nat \ {0}
NoLease == 0
INSTANCE BlockLifecycle

Sub == 1 .. MaxSub
Task == {"client", "writer", "reaper", "recovery"}

ASSUME ChainAssumption ==
    /\ TypeOf \in [Sub -> Agent \cup {NoAgent}]
    /\ {MaxSub, Budget, Fanout, MaxRetries, MaxInFlight, ExpiryBound,
        CrashBound} \subseteq Nat
    /\ TimedOut \in SUBSET BOOLEAN \ {{}}
    /\ NoAgent \notin Agent /\ NoResult \notin Result
    /\ NoBlock \notin Block

VARIABLES
    inbox,        \* the Recorder's inbox
    blocks,       \* the ledger
    errors,       \* recorder.errors is not empty
    chain,        \* each task's chain: where it is suspended, and on what
    scan,         \* the Reaper's and recovery's walk over the stages
    reaped,       \* reaper._reaped_leases
    attempts,     \* supervisor._attempts
    assigned,     \* supervisor._assigned_agent_type
    circuit,      \* supervisor._circuits; the Coordinator's view follows it
    leases,       \* leases handed out so far; they all last equally long,
    expired,      \* so leases 1 .. expired are the ones that ran out
    born,         \* subproblems proposed so far are 1 .. born
    turnedAway,   \* budget rejections published for each subproblem
    phase,        \* the process: "recovering", "up"
    submitted,
    crashes,
    escalated     \* history: subproblems the Decomposer was asked to re-plan

ledger == <<blocks, errors>>
supervisor == <<attempts, assigned, circuit, escalated>>
clock == <<leases, expired>>
client == <<born, submitted>>
walk == <<scan, reaped>>
process == <<phase, crashes>>
vars == <<inbox, ledger, chain, walk, supervisor, clock, client, turnedAway,
          process>>

Idle == [pc |-> "idle", sub |-> 0, lease |-> 0, todo |-> <<>>, beat |-> FALSE]
NoScan == [stages |-> <<>>, left |-> {}]

Item(kind, s) == [kind |-> kind, sub |-> s]

InStage(bs, st) == {s \in Sub : bs[s] # NoBlock /\ bs[s].stage = st}
StageOf(s) == IF blocks[s] = NoBlock THEN "none" ELSE blocks[s].stage
Used == Cardinality({s \in Sub : blocks[s] # NoBlock})

Init ==
    /\ inbox = <<>>
    /\ blocks = [s \in Sub |-> NoBlock]
    /\ errors = FALSE
    /\ chain = [t \in Task |-> Idle]
    /\ scan = [t \in {"reaper", "recovery"} |-> NoScan]
    /\ reaped = {}
    /\ attempts = [s \in Sub |-> 0]
    /\ assigned = [s \in Sub |-> NoAgent]
    /\ circuit = [a \in Agent |-> Fresh("closed")]
    /\ leases = 0
    /\ expired = 0
    /\ born = 0
    /\ turnedAway = [s \in Sub |-> 0]
    /\ phase = "up"
    /\ submitted = FALSE
    /\ crashes = 0
    /\ escalated = {}

-----------------------------------------------------------------------------
(* Suspending and returning.                                               *)

MayRun(t) == \A u \in Task \ {t} : chain[u].pc # "turn"
At(t, pc) == chain[t].pc = pc /\ MayRun(t)

Suspend(t, c) == chain' = [chain EXCEPT ![t] = c]
Wait(pc, s) == [Idle EXCEPT !.pc = pc, !.sub = s]

(* The chain of t returns to its loop.  With more to do at once, t keeps   *)
(* holding the event loop: the writer never suspends on a non-empty inbox, *)
(* nor a scan between two blocks.                                          *)
Return(t) ==
    LET more == CASE t = "writer" -> inbox' # <<>>
                  [] t \in {"reaper", "recovery"} -> scan'[t] # NoScan
                  [] OTHER -> FALSE
    IN  Suspend(t, [Idle EXCEPT !.pc = IF more THEN "turn" ELSE "idle"])

-----------------------------------------------------------------------------
(* Spawn Coordinator.                                                      *)

InFlight(a, bs) ==
    Cardinality({s \in InStage(bs, "assigned") \cup InStage(bs, "in_progress") :
                    bs[s].agent = a})

Deferred(a, bs) == circuit[a].state = "open" \/ InFlight(a, bs) >= MaxInFlight

(* Faulty: the Supervisor hears of an assignment only after the worker. *)
LearnTooLate(s, a) == UNCHANGED assigned

(* supervisor.handle_assigned *)
Learn(s, a) == assigned' = [assigned EXCEPT ![s] = a]

(* _attempt_assignment for s in the chain of t, with bs on the ledger and  *)
(* queue already in the inbox.  A deferral sleeps and tries again; an      *)
(* assignment reaches the Recorder, the Supervisor and the worker in that  *)
(* order.  The stage of the block is not looked at.                        *)
Attempt(t, s, bs, queue) ==
    LET a == TypeOf[s]
    IN  \/ /\ a = NoAgent
           /\ inbox' = Append(queue, Item("unroutable", s))
           /\ Return(t)
           /\ UNCHANGED <<leases, assigned>>
        \/ /\ a # NoAgent
           /\ Deferred(a, bs)
           /\ inbox' = queue
           /\ Suspend(t, Wait("backoff", s))
           /\ UNCHANGED <<leases, assigned>>
        \/ /\ a # NoAgent
           /\ ~Deferred(a, bs)
           /\ leases' = leases + 1
           /\ Learn(s, a)
           /\ inbox' = Append(queue, [kind |-> "assigned", sub |-> s, agent |-> a,
                                      lease |-> leases'])
           /\ Suspend(t, [Wait("exec", s) EXCEPT !.lease = leases'])

(* handle_retry_requested after its sleep *)
WakeUp(t) ==
    /\ At(t, "backoff")
    /\ UNCHANGED <<ledger, walk, attempts, circuit, escalated, expired, client,
                   turnedAway, process>>
    /\ LET s == chain[t].sub
       IN  IF blocks[s] = NoBlock
           THEN inbox' = inbox /\ Return(t) /\ UNCHANGED <<leases, assigned>>
           ELSE Attempt(t, s, blocks, inbox)

-----------------------------------------------------------------------------
(* Supervisor.                                                             *)

RecordOutcome(a, failure) ==
    IF a = NoAgent THEN UNCHANGED circuit
    ELSE \E late \in TimedOut :
             circuit' = [circuit EXCEPT ![a] = AfterOutcome(@, failure, late)]

(* Faulty: the attempt count outlives the subproblem. *)
ForgetTypeOnly(s) ==
    /\ UNCHANGED attempts
    /\ assigned' = [assigned EXCEPT ![s] = NoAgent]

Forget(s) ==
    /\ attempts' = [attempts EXCEPT ![s] = 0]
    /\ assigned' = [assigned EXCEPT ![s] = NoAgent]

(* Faulty: grants one retry too many. *)
RetryOnceMore(t, s, retriable) ==
    IF retriable /\ attempts[s] <= MaxRetries
    THEN /\ attempts' = [attempts EXCEPT ![s] = @ + 1]
         /\ Suspend(t, Wait("backoff", s))
         /\ UNCHANGED <<assigned, escalated>>
    ELSE /\ Forget(s)
         /\ escalated' = escalated \cup {s}
         /\ Suspend(t, Wait("decompose", s))

(* _handle_retriable_outcome: grant a retry, which sleeps in the           *)
(* Coordinator, or escalate, which goes to the Decomposer's LLM.           *)
RetryOrEscalate(t, s, retriable) ==
    IF retriable /\ attempts[s] < MaxRetries
    THEN /\ attempts' = [attempts EXCEPT ![s] = @ + 1]
         /\ Suspend(t, Wait("backoff", s))
         /\ UNCHANGED <<assigned, escalated>>
    ELSE /\ Forget(s)
         /\ escalated' = escalated \cup {s}
         /\ Suspend(t, Wait("decompose", s))

-----------------------------------------------------------------------------
(* Worker: execute() settles in one of three ways, and a heartbeat may go  *)
(* out while it runs (bound: one per execution).                           *)

Heartbeat(t) ==
    /\ At(t, "exec")
    /\ ~chain[t].beat
    /\ Suspend(t, [chain[t] EXCEPT !.beat = TRUE])
    /\ inbox' = Append(inbox, Item("heartbeat", chain[t].sub))
    /\ UNCHANGED <<ledger, walk, supervisor, clock, client, turnedAway, process>>

WorkerCompletes(t) ==
    /\ At(t, "exec")
    /\ UNCHANGED <<ledger, walk, escalated, clock, client, turnedAway, process>>
    /\ LET s == chain[t].sub
       IN  /\ \E r \in Result :
                  inbox' = Append(inbox, [kind |-> "completed", sub |-> s,
                                          result |-> r])
           /\ Forget(s)
           /\ RecordOutcome(assigned[s], FALSE)
    /\ Return(t)

WorkerFails(t) ==
    /\ At(t, "exec")
    /\ LET s == chain[t].sub
       IN  \E retriable \in BOOLEAN :
               /\ inbox' = Append(inbox, [kind |-> "failed", sub |-> s,
                                          retriable |-> retriable])
               /\ RecordOutcome(assigned[s], TRUE)
               /\ RetryOrEscalate(t, s, retriable)
    /\ UNCHANGED <<ledger, walk, clock, client, turnedAway, process>>

-----------------------------------------------------------------------------
(* Decomposer and Gatekeeper.                                              *)

Submit ==
    /\ phase = "up"
    /\ At("client", "idle")
    /\ ~submitted
    /\ submitted' = TRUE
    /\ Suspend("client", Wait("decompose", 0))
    /\ UNCHANGED <<inbox, ledger, walk, supervisor, clock, born, turnedAway,
                   process>>

(* The LLM answered: the candidates are proposed one by one, and each is   *)
(* judged before the next one is published.                                *)
Decomposed(t) ==
    /\ At(t, "decompose")
    /\ UNCHANGED <<ledger, walk, supervisor, clock, submitted, turnedAway,
                   process>>
    /\ \E n \in 0 .. Fanout :
           /\ born + n <= MaxSub
           /\ born' = born + n
           /\ IF n = 0 THEN inbox' = inbox /\ Return(t)
              ELSE /\ inbox' = Append(inbox, Item("proposed", born + 1))
                   /\ Suspend(t, [Wait("judge", born + 1) EXCEPT
                                     !.todo = [i \in 1 .. n - 1 |-> born + 1 + i]])

(* Faulty: counts the Gatekeeper's rejections as well. *)
CountAnyRejection(s, reason) == turnedAway' = [turnedAway EXCEPT ![s] = @ + 1]

(* pipeline._on_subproblem_rejected *)
CountRejection(s, reason) ==
    IF reason = "budget_exceeded" THEN turnedAway' = [turnedAway EXCEPT ![s] = @ + 1]
    ELSE UNCHANGED turnedAway

(* Faulty: the Coordinator acts on the Gatekeeper's own verdict. *)
JudgedAndAssigned(t) ==
    /\ At(t, "judge")
    /\ UNCHANGED <<ledger, walk, attempts, circuit, escalated, expired, client,
                   turnedAway, process>>
    /\ \/ /\ inbox' = Append(inbox, Item("rejected", chain[t].sub))
          /\ Return(t)
          /\ UNCHANGED <<leases, assigned>>
       \/ Attempt(t, chain[t].sub, blocks, Append(inbox, Item("accepted", chain[t].sub)))

(* The verdict is published without a block index, which the Coordinator   *)
(* ignores; then the next candidate follows.                               *)
Judged(t) ==
    /\ At(t, "judge")
    /\ UNCHANGED <<ledger, walk, supervisor, clock, client, process>>
    /\ LET todo == chain[t].todo
           s == chain[t].sub
       IN  \E verdict \in {"accepted", "rejected"} :
               LET sent == Append(inbox, Item(verdict, s))
               IN  /\ IF verdict = "rejected" THEN CountRejection(s, "quality_bar")
                      ELSE UNCHANGED turnedAway
                   /\ IF todo = <<>> THEN inbox' = sent /\ Return(t)
                      ELSE /\ inbox' = Append(sent, Item("proposed", Head(todo)))
                           /\ Suspend(t, [Wait("judge", Head(todo)) EXCEPT
                                             !.todo = Tail(todo)])

-----------------------------------------------------------------------------
(* Ledger Recorder: one inbox item per turn.                               *)

Turn(kinds) ==
    /\ phase = "up"
    /\ chain["writer"].pc \in {"idle", "turn"}
    /\ MayRun("writer")
    /\ inbox # <<>>
    /\ Head(inbox).kind \in kinds

NextTurn(published) ==
    /\ inbox' = Tail(inbox) \o published
    /\ Return("writer")

ApplyProposed ==
    /\ Turn({"proposed"})
    /\ LET s == Head(inbox).sub
       IN  \/ /\ blocks[s] # NoBlock
              /\ NextTurn(<<>>)
              /\ UNCHANGED <<blocks, turnedAway>>
           \/ /\ blocks[s] = NoBlock
              /\ Used < Budget
              /\ blocks' = [blocks EXCEPT ![s] = ValidatingBlock]
              /\ NextTurn(<<>>)
              /\ UNCHANGED turnedAway
           \/ /\ blocks[s] = NoBlock
              /\ Used >= Budget
              /\ CountRejection(s, "budget_exceeded")
              /\ NextTurn(<<Item("rejected", s)>>)
              /\ UNCHANGED blocks
    /\ UNCHANGED <<errors, walk, supervisor, clock, client, process>>

(* Faulty: the accepted block is never announced to the Coordinator. *)
AcceptQuietly ==
    /\ Turn({"accepted"})
    /\ LET s == Head(inbox).sub
       IN  blocks' = IF StageOf(s) = "validating"
                    THEN [blocks EXCEPT ![s] = AfterVerdict(@, "accepted")]
                    ELSE blocks
    /\ NextTurn(<<>>)
    /\ UNCHANGED <<errors, walk, supervisor, clock, client, turnedAway, process>>

(* An acceptance that applies is published again with its block index: the *)
(* Recorder enqueues it once more, and the Coordinator acts on it within   *)
(* this very turn.                                                         *)
ApplyAccepted ==
    /\ Turn({"accepted"})
    /\ LET s == Head(inbox).sub
       IN  IF StageOf(s) = "validating"
           THEN /\ blocks' = [blocks EXCEPT ![s] = AfterVerdict(@, "accepted")]
                /\ Attempt("writer", s, blocks',
                           Append(Tail(inbox), Item("accepted", s)))
           ELSE /\ NextTurn(<<>>)
                /\ UNCHANGED <<blocks, leases, assigned>>
    /\ UNCHANGED <<errors, walk, attempts, circuit, escalated, expired, client,
                   turnedAway, process>>

(* The other handlers change one block and publish nothing.  All but the   *)
(* verdict and the heartbeat file an error when there is no block or the   *)
(* move is illegal.                                                        *)
AfterReport(b, e) ==
    CASE e.kind = "rejected"    -> AfterVerdict(b, "rejected")
      [] e.kind = "assigned"    -> AfterAssigned(b, e.agent, e.lease)
      [] e.kind = "heartbeat"   -> AfterHeartbeat(b)
      [] e.kind = "completed"   -> AfterCompleted(b, e.result)
      [] e.kind = "failed" /\ ~e.retriable -> AfterFinalFailure(b)
      [] e.kind = "unroutable"  -> AfterFinalFailure(b)
      [] OTHER                  -> AfterRetriable(b)

IllegalReport(b, e) ==
    CASE e.kind \in {"rejected", "heartbeat"} -> FALSE
      [] b = NoBlock            -> TRUE
      [] e.kind = "assigned"    -> ~CanTransition(b, "assigned")
      [] e.kind = "completed"   -> LateCompletion(b)
      [] e.kind = "failed" /\ ~e.retriable -> LateFinalFailure(b)
      [] e.kind = "unroutable"  -> LateFinalFailure(b)
      [] OTHER                  -> LateRetriable(b)

ApplyReport ==
    /\ Turn({"rejected", "assigned", "heartbeat", "completed", "failed",
             "unroutable", "lease_expired"})
    /\ LET e == Head(inbox)
           b == blocks[e.sub]
       IN  /\ blocks' = IF b = NoBlock THEN blocks
                        ELSE [blocks EXCEPT ![e.sub] = AfterReport(b, e)]
           /\ errors' = (errors \/ IllegalReport(b, e))
    /\ NextTurn(<<>>)
    /\ UNCHANGED <<walk, supervisor, clock, client, turnedAway, process>>

-----------------------------------------------------------------------------
(* The Reaper and startup recovery walk over stages.  The list of blocks   *)
(* in a stage is read once, when its turn comes; the blocks themselves are *)
(* shared objects, so their lease is read when the walk reaches them.      *)

LeaseStages == <<"assigned", "in_progress">>
RecoveryStages == <<"queued", "validating", "accepted">> \o LeaseStages

Due(s) == blocks[s].lease # NoLease /\ blocks[s].lease <= expired
NewlyDue(s) == Due(s) /\ <<s, blocks[s].lease>> \notin reaped

(* What a walk acts on among the blocks left of its current stage.         *)
Acts(t, s) ==
    IF t = "reaper" THEN NewlyDue(s)
    ELSE blocks[s].stage \in {"assigned", "in_progress"} => Due(s)
Pending(t) == {s \in scan[t].left : Acts(t, s)}

(* Walk on: past the blocks that need nothing, into the next stage.        *)
NextStage(t) ==
    /\ At(t, "turn")
    /\ Pending(t) = {}
    /\ LET stages == scan[t].stages
       IN  scan' = [scan EXCEPT ![t] =
                       IF stages = <<>> THEN NoScan
                       ELSE [stages |-> Tail(stages),
                             left |-> InStage(blocks, Head(stages))]]
    /\ Return(t)
    /\ UNCHANGED <<inbox, ledger, reaped, supervisor, clock, client, turnedAway,
                   process>>

Visited(t, s) == scan' = [scan EXCEPT ![t].left = @ \ {s}]

(* Publish LeaseExpired: the Recorder enqueues it and the Supervisor       *)
(* answers inline.                                                         *)
PublishLeaseExpired(t, s) ==
    /\ Visited(t, s)
    /\ inbox' = Append(inbox, Item("lease_expired", s))
    /\ RecordOutcome(blocks[s].agent, TRUE)
    /\ RetryOrEscalate(t, s, TRUE)

(* A poll that would find nothing due changes nothing and is left out.     *)
Poll ==
    /\ phase = "up"
    /\ At("reaper", "idle")
    /\ \E st \in {"assigned", "in_progress"} :
           \E s \in InStage(blocks, st) : NewlyDue(s)
    /\ scan' = [scan EXCEPT !["reaper"] = [stages |-> LeaseStages, left |-> {}]]
    /\ Return("reaper")
    /\ UNCHANGED <<inbox, ledger, reaped, supervisor, clock, client, turnedAway,
                   process>>

(* The key is remembered once publish returns; nothing reads it before.    *)
Reap ==
    /\ At("reaper", "turn")
    /\ \E s \in Pending("reaper") :
           /\ PublishLeaseExpired("reaper", s)
           /\ reaped' = reaped \cup {<<s, blocks[s].lease>>}
    /\ UNCHANGED <<ledger, clock, client, turnedAway, process>>

(* recover_on_startup, block by block.  A proposal goes through the gate   *)
(* again, an acceptance straight to the Coordinator.  RETRYING and         *)
(* VERIFYING blocks are only counted.                                      *)
Recover ==
    /\ At("recovery", "turn")
    /\ \E s \in Pending("recovery") :
           \/ /\ StageOf(s) \in {"queued", "validating"}
              /\ Visited("recovery", s)
              /\ inbox' = Append(inbox, Item("proposed", s))
              /\ Suspend("recovery", Wait("judge", s))
              /\ UNCHANGED <<supervisor, leases>>
           \/ /\ StageOf(s) = "accepted"
              /\ Visited("recovery", s)
              /\ Attempt("recovery", s, blocks, Append(inbox, Item("accepted", s)))
              /\ UNCHANGED <<attempts, circuit, escalated>>
           \/ /\ StageOf(s) \in {"assigned", "in_progress"}
              /\ PublishLeaseExpired("recovery", s)
              /\ UNCHANGED leases
    /\ UNCHANGED <<ledger, reaped, expired, client, turnedAway, process>>

(* pipeline.start() once recovery has returned. *)
Start ==
    /\ phase = "recovering"
    /\ At("recovery", "idle")
    /\ phase' = "up"
    /\ UNCHANGED <<inbox, ledger, chain, walk, supervisor, clock, client,
                   turnedAway, crashes>>

-----------------------------------------------------------------------------
(* Time and crashes.                                                       *)

LeaseRunsOut ==
    /\ expired < leases
    /\ expired < ExpiryBound
    /\ expired' = expired + 1
    /\ UNCHANGED <<inbox, ledger, chain, walk, supervisor, leases, client,
                   turnedAway, process>>

(* Only the ledger survives.  The new process begins with recovery.        *)
Crash ==
    /\ crashes < CrashBound
    /\ crashes' = crashes + 1
    /\ phase' = "recovering"
    /\ inbox' = <<>>
    /\ errors' = FALSE
    /\ scan' = [scan EXCEPT !["reaper"] = NoScan,
                            !["recovery"] = [stages |-> RecoveryStages, left |-> {}]]
    /\ chain' = [t \in Task |->
                    IF t = "recovery" THEN [Idle EXCEPT !.pc = "turn"] ELSE Idle]
    /\ reaped' = {}
    /\ attempts' = [s \in Sub |-> 0]
    /\ assigned' = [s \in Sub |-> NoAgent]
    /\ circuit' = [a \in Agent |-> Fresh("closed")]
    /\ turnedAway' = [s \in Sub |-> 0]
    /\ UNCHANGED <<blocks, clock, client, escalated>>

-----------------------------------------------------------------------------
(* A suspended chain moves on. *)
Resume(t) ==
    \/ WakeUp(t)
    \/ WorkerCompletes(t)
    \/ WorkerFails(t)
    \/ Decomposed(t)
    \/ Judged(t)

WriterTurn == ApplyProposed \/ ApplyAccepted \/ ApplyReport

Walk == NextStage("reaper") \/ NextStage("recovery") \/ Poll \/ Reap \/ Recover

Next ==
    \/ \E t \in Task : Resume(t) \/ Heartbeat(t)
    \/ WriterTurn
    \/ Walk
    \/ Submit
    \/ Start
    \/ LeaseRunsOut
    \/ Crash

Spec == Init /\ [][Next]_vars

(* Every LLM call, sleep and execution ends, and the loop runs what is     *)
(* ready: asyncio starves no task, and execute() is taken to return.       *)
Fairness ==
    /\ \A t \in Task : WF_vars(Resume(t))
    /\ WF_vars(WriterTurn)
    /\ WF_vars(Walk)
    /\ WF_vars(Start)

FairSpec == Spec /\ Fairness
-----------------------------------------------------------------------------
(* Types.                                                                  *)
Chain == [pc : {"idle", "turn", "exec", "backoff", "judge", "decompose"},
          sub : 0 .. MaxSub, lease : Nat, todo : Seq(Sub), beat : BOOLEAN]

Event == [kind : {"proposed", "accepted", "rejected", "heartbeat", "unroutable",
                  "lease_expired"}, sub : Sub]
         \cup [kind : {"assigned"}, sub : Sub, agent : Agent, lease : Lease]
         \cup [kind : {"completed"}, sub : Sub, result : Result]
         \cup [kind : {"failed"}, sub : Sub, retriable : BOOLEAN]

TypeOK ==
    /\ inbox \in Seq(Event)
    /\ blocks \in [Sub -> Block \cup {NoBlock}]
    /\ chain \in [Task -> Chain]
    /\ scan \in [{"reaper", "recovery"} ->
                     [stages : Seq(Stage), left : SUBSET Sub]]
    /\ attempts \in [Sub -> 0 .. MaxRetries]
    /\ assigned \in [Sub -> Agent \cup {NoAgent}]
    /\ circuit \in [Agent -> Circuit]
    /\ leases \in Nat
    /\ expired \in 0 .. leases
    /\ born \in 0 .. MaxSub
    /\ turnedAway \in [Sub -> Nat]
    /\ phase \in {"up", "recovering"}

Executing(t, s) == chain[t].pc = "exec" /\ chain[t].sub = s
Busy(t, s) == chain[t].pc \in {"exec", "backoff"} /\ chain[t].sub = s

(* No two tasks work on the same subproblem: neither recovery and the      *)
(* writer after a restart, nor the Reaper and the chain whose lease ran    *)
(* out.  The Coordinator never looks at the stage of the block, so nothing *)
(* but the order of publications prevents it (coordinator.py,              *)
(* _attempt_assignment; tests/test_e2e_smoke.py on recovery before start). *)
OneChainPerSubproblem ==
    \A s \in Sub : Cardinality({t \in Task : Busy(t, s)}) <= 1

(* Work runs only past the Gatekeeper: a subproblem that executes has an   *)
(* admitted block, so one that was rejected, that waits for its verdict or *)
(* that the budget turned away never runs (coordinator.py on block_index). *)
GatedExecution ==
    \A t \in Task, s \in Sub :
        Executing(t, s) => StageOf(s) \notin {"none", "queued", "validating", "rejected"}

(* A worker's outcome can always be attributed: the Supervisor knows the   *)
(* type of everything that executes (pipeline.py, subscription order).     *)
OutcomesAttributed ==
    \A t \in Task, s \in Sub : Executing(t, s) => assigned[s] = TypeOf[s]

(* The Supervisor's maps do not leak: an entry belongs to a subproblem     *)
(* some chain is still executing or about to retry (supervisor.py,         *)
(* handle_completed and escalation both evict).                            *)
NoStaleSupervision ==
    \A s \in Sub : attempts[s] > 0 \/ assigned[s] # NoAgent
                      => \E t \in Task : Busy(t, s)

Terminal == {s \in Sub : StageOf(s) \in TerminalStages}

(* wait_until_terminal may trust its sum: a subproblem is counted at most  *)
(* once, by a terminal block or by a budget rejection (pipeline.py,        *)
(* _on_subproblem_rejected).                                               *)
CountedOnce ==
    \A s \in Sub : turnedAway[s] + (IF s \in Terminal THEN 1 ELSE 0) <= 1

(* Without Reaper and crashes no agent causes an illegal transition: the   *)
(* reports reach the Recorder in an order it accepts.                      *)
NoIllegalReports == ~errors

(* ... and a subproblem that was handed back to the Decomposer, whose      *)
(* children do its work, never completes as well.                          *)
ReplannedOrDone == \A s \in escalated : StageOf(s) # "done"

(* Every proposed subproblem comes to rest: finished, turned away by the   *)
(* budget, or parked in RETRYING after it was re-planned.                  *)
Settled(s) ==
    \/ s \in Terminal
    \/ turnedAway[s] > 0
    \/ StageOf(s) = "retrying" /\ s \in escalated
AllSettle == \A s \in Sub : born >= s ~> Settled(s)

-----------------------------------------------------------------------------
(* What the documentation says and the code does not do.                   *)

(* recovery.py: every meaningful transition is a block before anything     *)
(* downstream acts on it.  The worker acts while the block says ACCEPTED   *)
(* or RETRYING, because it runs inside the writer's own turn.              *)
LedgerBeforeWork ==
    \A t \in Task, s \in Sub :
        Executing(t, s) => StageOf(s) \in {"assigned", "in_progress"}

(* reaper.py: leases are reaped for workers that die before ever           *)
(* publishing anything back.  A completion still queued behind the         *)
(* writer's own chain does not count, and the work runs again.             *)
Reported(s) == \E i \in DOMAIN inbox :
                   inbox[i].kind = "completed" /\ inbox[i].sub = s
FinishedWorkNotRedone ==
    \A t \in Task, s \in Sub :
        Executing(t, s) => ~Reported(s) /\ StageOf(s) # "done"

(* supervisor.py: an open circuit becomes half-open once the timeout has   *)
(* passed, checked on next access.  The Coordinator's own check is not     *)
(* such an access, so work that waits for the circuit waits forever.       *)
WaitingFor(a) == \E t \in Task : chain[t].pc = "backoff" /\ TypeOf[chain[t].sub] = a
CircuitLetsGo ==
    \A a \in Agent :
        circuit[a].state = "open" /\ WaitingFor(a) ~> circuit[a].state # "open"

(* coordinator.py: a type at capacity likely frees up soon.  With one slot *)
(* the block that holds it waits for the writer, and the writer for it.    *)
CapacityFreesUp ==
    \A a \in Agent :
        InFlight(a, blocks) >= MaxInFlight ~> InFlight(a, blocks) < MaxInFlight

==============================================================================
