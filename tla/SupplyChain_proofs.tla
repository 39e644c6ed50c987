------------------------- MODULE SupplyChain_proofs -------------------------
(***************************************************************************)
(* What holds of the supply chain for any number of subproblems, agent     *)
(* types, retries, slots, budgets, leases that run out and crashes.        *)
(***************************************************************************)
EXTENDS SupplyChain, FiniteSetTheorems, TLAPS

(* The stages an assigned subproblem can reach: it never waits for a       *)
(* verdict, and is never merely accepted, again.                           *)
Past == {"assigned", "in_progress", "verifying", "done", "failed", "retrying"}

-----------------------------------------------------------------------------
(* The inductive invariant.                                                *)

(* Who may hold a chain: the client's never runs a worker, recovery's runs *)
(* before the others exist, and a chain that works, waits or judges does   *)
(* so for a subproblem.                                                    *)
ChainsApart ==
  /\ chain["client"].pc \in {"idle", "judge", "decompose"}
  /\ phase = "up" => chain["recovery"].pc = "idle"
  /\ phase = "recovering" => \A t \in Task \ {"recovery"} : chain[t].pc = "idle"
  /\ \A t \in Task : chain[t].pc \in {"exec", "backoff", "judge"}
                        => chain[t].sub \in Sub

(* The ledger as each task finds it: the writer's own chain holds still a  *)
(* block it has just accepted, and the Reaper works on what was assigned.  *)
Fits(t, s) ==
  \/ t = "writer" /\ StageOf(s) = "accepted"
  \/ t = "reaper" /\ StageOf(s) \in Past
  \/ t = "recovery" /\ StageOf(s) \in Past \cup {"accepted"}

StagesFit ==
  /\ \A t \in Task : \A s \in Sub : Busy(t, s) => Fits(t, s)
  /\ \A s \in scan["reaper"].left : StageOf(s) \in Past
  /\ scan["reaper"].stages \in Seq({"assigned", "in_progress"})

(* What is assigned, or ever was, has a capable agent.                     *)
RoutedQueue(q) ==
  \A i \in 1 .. Len(q) : q[i].kind = "assigned" => TypeOf[q[i].sub] # NoAgent

Routed ==
  /\ RoutedQueue(inbox)
  /\ \A s \in Sub : blocks[s] # NoBlock /\ blocks[s].lease # NoLease
                       => TypeOf[s] # NoAgent
  /\ \A t \in Task : \A s \in Sub : Busy(t, s) => TypeOf[s] # NoAgent

Supervised == OutcomesAttributed /\ NoStaleSupervision

(* A proposal of s waits in the queue; at most one does; s came up before; *)
(* s is a candidate that t has yet to propose.                             *)
Proposal(q, i, s) == q[i].kind = "proposed" /\ q[i].sub = s
Mentions(q, s) == \E i \in 1 .. Len(q) : Proposal(q, i, s)
Single(q, s) ==
  \A i, j \in 1 .. Len(q) : Proposal(q, i, s) /\ Proposal(q, j, s) => i = j
Told(s) == turnedAway[s] > 0 \/ blocks[s] # NoBlock \/ Mentions(inbox, s)
Listed(t, s) == \E i \in 1 .. Len(chain[t].todo) : chain[t].todo[i] = s

(* A subproblem without a block is proposed at most once.                  *)
ProposedOnce ==
  /\ \A s \in Sub :
       /\ s > born => ~Told(s)
       /\ turnedAway[s] <= 1
       /\ turnedAway[s] > 0 => blocks[s] = NoBlock /\ ~Mentions(inbox, s)
       /\ blocks[s] = NoBlock => Single(inbox, s)
  /\ \A t \in Task : \A s \in Sub : Listed(t, s) => s <= born /\ ~Told(s)
  /\ \A t, u \in Task : \A s \in Sub : Listed(t, s) /\ Listed(u, s) => t = u
  /\ \A t \in Task : \A i, j \in 1 .. Len(chain[t].todo) :
        chain[t].todo[i] = chain[t].todo[j] => i = j

IInv ==
  /\ TypeOK
  /\ ChainsApart
  /\ StagesFit
  /\ Routed
  /\ Supervised
  /\ ProposedOnce

-----------------------------------------------------------------------------
(* The block operators map blocks to blocks, and name what they leave.     *)

LEMMA Numbers ==
  /\ MaxSub \in Nat /\ MaxRetries \in Nat /\ Sub = 1 .. MaxSub
  /\ 0 \notin Sub /\ Sub \subseteq Nat
  /\ TypeOf \in [Sub -> Agent \cup {NoAgent}]
  /\ NoAgent \notin Agent /\ NoBlock \notin Block
  /\ TimedOut \subseteq BOOLEAN
  BY ChainAssumption DEF ChainAssumption, Sub

LEMMA LateIsBlock ==
  ASSUME NEW b \in Block
  PROVE  /\ LateEvent(b) \in Block
         /\ LateEvent(b).stage = b.stage /\ LateEvent(b).lease = b.lease
  BY DEF LateEvent, Block

LEMMA FreshIsBlock ==
  /\ ValidatingBlock \in Block
  /\ ValidatingBlock.stage = "validating" /\ ValidatingBlock.lease = NoLease
  BY DEF ValidatingBlock, QueuedBlock, Block, Stage

LEMMA VerdictIsBlock ==
  ASSUME NEW b \in Block, NEW st \in {"accepted", "rejected"}
  PROVE  /\ AfterVerdict(b, st) \in Block
         /\ AfterVerdict(b, st).lease = b.lease
         /\ b.stage = "validating" => AfterVerdict(b, st).stage = st
         /\ b.stage # "validating" => AfterVerdict(b, st) = b
  BY DEF AfterVerdict, Block, Stage

(* A block that moves on to one of the past stages. *)
PastMove(b, c) ==
  c \in Block /\ c.lease = b.lease /\ (b.stage \in Past => c.stage \in Past)

LEMMA AssignedIsBlock ==
  ASSUME NEW b \in Block, NEW a \in Agent, NEW l \in Lease
  PROVE  /\ AfterAssigned(b, a, l) \in Block
         /\ b.stage \in Past => AfterAssigned(b, a, l).stage \in Past
  BY DEF AfterAssigned, Block, Stage, Past

LEMMA HeartbeatIsBlock ==
  ASSUME NEW b \in Block
  PROVE  PastMove(b, AfterHeartbeat(b))
  BY DEF AfterHeartbeat, Block, Stage, Past, PastMove

LEMMA CompletedIsBlock ==
  ASSUME NEW b \in Block, NEW x \in Result
  PROVE  PastMove(b, AfterCompleted(b, x))
  <1>1. AfterHeartbeat(b) \in Block /\ AfterHeartbeat(b).lease = b.lease
    BY HeartbeatIsBlock DEF PastMove
  <1>2. ASSUME NEW y \in Block
        PROVE  LET z == [y EXCEPT !.stage = "done", !.result = x]
               IN  z \in Block /\ z.stage = "done" /\ z.lease = y.lease
    BY DEF Block, Stage
  <1> QED BY <1>1, <1>2, LateIsBlock DEF AfterCompleted, PastMove, Past

LEMMA RetriableIsBlock ==
  ASSUME NEW b \in Block
  PROVE  PastMove(b, AfterRetriable(b))
  <1> DEFINE noted == [b EXCEPT !.lastError = TRUE]
             parked == [b EXCEPT !.stage = "retrying", !.lastError = TRUE,
                                 !.retriable = "yes"]
  <1>1. noted \in Block /\ noted.stage = b.stage /\ noted.lease = b.lease
    BY DEF Block
  <1>2. parked \in Block /\ parked.stage = "retrying" /\ parked.lease = b.lease
    BY DEF Block, Stage
  <1>3. AfterRetriable(b) \in {noted, parked, LateEvent(b)}
    BY DEF AfterRetriable
  <1> HIDE DEF noted, parked
  <1> QED BY <1>1, <1>2, <1>3, LateIsBlock DEF PastMove, Past

LEMMA FinalFailureIsBlock ==
  ASSUME NEW b \in Block
  PROVE  PastMove(b, AfterFinalFailure(b))
  <1> DEFINE failed == [b EXCEPT !.stage = "failed", !.retriable = "no"]
  <1>1. failed \in Block /\ failed.stage = "failed" /\ failed.lease = b.lease
    BY DEF Block, Stage
  <1>2. AfterFinalFailure(b) \in {failed, LateEvent(b)}
    BY DEF AfterFinalFailure
  <1> HIDE DEF failed
  <1> QED BY <1>1, <1>2, LateIsBlock DEF PastMove, Past

-----------------------------------------------------------------------------
(* The circuit breaker stays a circuit. *)
LEMMA OutcomeIsCircuit ==
  ASSUME NEW c \in Circuit, NEW failure \in BOOLEAN, NEW late \in BOOLEAN
  PROVE  AfterOutcome(c, failure, late) \in Circuit
  <1>1. \A st \in CircuitState : Fresh(st) \in Circuit
    BY DEF Fresh, Circuit
  <1>2. OnAccess(c, late) \in Circuit
    BY <1>1 DEF OnAccess, CircuitState
  <1>3. ASSUME NEW o \in Seq(BOOLEAN)
        PROVE  Remember(o, failure) \in Seq(BOOLEAN)
    <2>1. Append(o, failure) \in Seq(BOOLEAN) /\ Append(o, failure) # <<>>
      OBVIOUS
    <2>2. Tail(Append(o, failure)) \in Seq(BOOLEAN)
      BY <2>1
    <2> QED BY <2>1, <2>2 DEF Remember
  <1>4. ASSUME NEW d \in Circuit
        PROVE  [d EXCEPT !.outcomes = Remember(@, failure)] \in Circuit
    BY <1>3 DEF Circuit
  <1> QED BY <1>1, <1>2, <1>4 DEF AfterOutcome, CircuitState

LEMMA OutcomeTyped ==
  ASSUME TypeOK, NEW a \in Agent \cup {NoAgent}, NEW failure \in BOOLEAN,
         RecordOutcome(a, failure)
  PROVE  circuit' \in [Agent -> Circuit]
  <1>1. CASE a = NoAgent
    BY <1>1 DEF RecordOutcome, TypeOK
  <1>2. CASE a # NoAgent
    <2>1. PICK late \in TimedOut :
             circuit' = [circuit EXCEPT ![a] = AfterOutcome(@, failure, late)]
      BY <1>2 DEF RecordOutcome
    <2>2. AfterOutcome(circuit[a], failure, late) \in Circuit
      BY <1>2, Numbers, OutcomeIsCircuit DEF TypeOK
    <2> QED BY <2>1, <2>2 DEF TypeOK
  <1> QED BY <1>1, <1>2

-----------------------------------------------------------------------------
(* Events and the queue.                                                   *)

SimpleKind == {"proposed", "accepted", "rejected", "heartbeat", "unroutable",
               "lease_expired"}

LEMMA EventsMade ==
  ASSUME NEW s \in Sub
  PROVE  /\ \A k \in SimpleKind : Item(k, s) \in Event
         /\ \A a \in Agent, l \in Lease :
               [kind |-> "assigned", sub |-> s, agent |-> a, lease |-> l] \in Event
         /\ \A r \in Result : [kind |-> "completed", sub |-> s, result |-> r] \in Event
         /\ \A b \in BOOLEAN : [kind |-> "failed", sub |-> s, retriable |-> b] \in Event
  BY DEF Item, Event, SimpleKind

LEMMA EventFields ==
  ASSUME NEW e \in Event
  PROVE  /\ e.sub \in Sub
         /\ e.kind = "assigned" => e.agent \in Agent /\ e.lease \in Lease
         /\ e.kind = "completed" => e.result \in Result
         /\ e.kind = "failed" => e.retriable \in BOOLEAN
  BY DEF Event

(* What remains in the queue once its head is taken. *)
LEMMA Taken ==
  ASSUME NEW q \in Seq(Event), q # <<>>
  PROVE  /\ Head(q) \in Event /\ Tail(q) \in Seq(Event) /\ Head(q) = q[1]
         /\ Len(q) \in Nat \ {0} /\ Len(Tail(q)) = Len(q) - 1
         /\ \A i \in 1 .. Len(Tail(q)) : i + 1 \in 1 .. Len(q) /\ Tail(q)[i] = q[i + 1]
  OBVIOUS

LEMMA Added ==
  ASSUME NEW q \in Seq(Event), NEW e \in Event
  PROVE  /\ Append(q, e) \in Seq(Event) /\ Len(q) \in Nat
         /\ Len(Append(q, e)) = Len(q) + 1
         /\ \A i \in 1 .. Len(q) : Append(q, e)[i] = q[i]
         /\ Append(q, e)[Len(q) + 1] = e
  OBVIOUS

LEMMA Published ==
  ASSUME NEW q \in Seq(Event), NEW e \in Event
  PROVE  q \o <<>> = q /\ q \o <<e>> = Append(q, e)
  OBVIOUS

-----------------------------------------------------------------------------
(* Where a chain can stand after a step.                                   *)

Others(t) == \A u \in Task \ {t} : chain'[u] = chain[u]

(* The chain of t stands at pc, for s, with todo ahead. *)
Stands(t, pc, s, todo) ==
  /\ chain' \in [Task -> Chain] /\ Others(t)
  /\ chain'[t].pc = pc /\ chain'[t].sub = s /\ chain'[t].todo = todo

(* It is back in its loop; the client's has no loop to go on with. *)
Rests(t) ==
  \/ Stands(t, "idle", 0, <<>>)
  \/ Stands(t, "turn", 0, <<>>) /\ t # "client"

Pc == {"idle", "turn", "exec", "backoff", "judge", "decompose"}

LEMMA Placed ==
  ASSUME TypeOK, NEW t \in Task, NEW c \in Chain, Suspend(t, c)
  PROVE  Stands(t, c.pc, c.sub, c.todo)
  BY DEF TypeOK, Suspend, Stands, Others

LEMMA ChainExcept ==
  ASSUME NEW c \in Chain
  PROVE  /\ \A pc \in Pc :
               LET d == [c EXCEPT !.pc = pc]
               IN  d \in Chain /\ d.pc = pc /\ d.sub = c.sub /\ d.todo = c.todo
         /\ \A s \in 0 .. MaxSub :
               LET d == [c EXCEPT !.sub = s]
               IN  d \in Chain /\ d.pc = c.pc /\ d.sub = s /\ d.todo = c.todo
         /\ \A l \in Nat :
               LET d == [c EXCEPT !.lease = l]
               IN  d \in Chain /\ d.pc = c.pc /\ d.sub = c.sub /\ d.todo = c.todo
         /\ \A todo \in Seq(Sub) :
               LET d == [c EXCEPT !.todo = todo]
               IN  d \in Chain /\ d.pc = c.pc /\ d.sub = c.sub /\ d.todo = todo
         /\ LET d == [c EXCEPT !.beat = TRUE]
            IN  d \in Chain /\ d.pc = c.pc /\ d.sub = c.sub /\ d.todo = c.todo
  BY DEF Chain, Pc

LEMMA IdleIsChain ==
  Idle \in Chain /\ Idle.pc = "idle" /\ Idle.sub = 0 /\ Idle.todo = <<>>
  <1>1. <<>> \in Seq(Sub) /\ 0 \in 0 .. MaxSub
    BY Numbers
  <1> QED BY <1>1 DEF Idle, Chain

LEMMA WaitIsChain ==
  ASSUME NEW pc \in Pc, NEW s \in 0 .. MaxSub
  PROVE  LET c == Wait(pc, s)
         IN  c \in Chain /\ c.pc = pc /\ c.sub = s /\ c.todo = <<>>
  <1> DEFINE c == [Idle EXCEPT !.pc = pc]
             d == [c EXCEPT !.sub = s]
  <1>1. c \in Chain /\ c.pc = pc /\ c.todo = <<>>
    BY IdleIsChain, ChainExcept
  <1>2. Wait(pc, s) = d
    BY DEF Wait
  <1> HIDE DEF c
  <1>3. d \in Chain /\ d.pc = pc /\ d.sub = s /\ d.todo = <<>>
    BY <1>1, ChainExcept
  <1> HIDE DEF d
  <1> QED BY <1>2, <1>3

LEMMA WaitStands ==
  ASSUME TypeOK, NEW t \in Task, NEW pc \in Pc, NEW s \in 0 .. MaxSub,
         Suspend(t, Wait(pc, s))
  PROVE  Stands(t, pc, s, <<>>)
  <1> DEFINE c == Wait(pc, s)
  <1>1. c \in Chain /\ c.pc = pc /\ c.sub = s /\ c.todo = <<>> /\ Suspend(t, c)
    BY WaitIsChain
  <1> HIDE DEF c
  <1>2. Stands(t, c.pc, c.sub, c.todo)
    BY <1>1, Placed
  <1> QED BY <1>1, <1>2

LEMMA ExecStands ==
  ASSUME TypeOK, NEW t \in Task, NEW s \in Sub, NEW l \in Nat,
         Suspend(t, [Wait("exec", s) EXCEPT !.lease = l])
  PROVE  Stands(t, "exec", s, <<>>)
  <1> DEFINE w == Wait("exec", s)
             c == [w EXCEPT !.lease = l]
  <1>1. w \in Chain /\ w.pc = "exec" /\ w.sub = s /\ w.todo = <<>>
    BY Numbers, WaitIsChain DEF Pc
  <1> HIDE DEF w
  <1>2. c \in Chain /\ c.pc = "exec" /\ c.sub = s /\ c.todo = <<>>
    BY <1>1, ChainExcept
  <1>3. Suspend(t, c)
    BY DEF w
  <1> HIDE DEF c
  <1>4. Stands(t, c.pc, c.sub, c.todo)
    BY <1>2, <1>3, Placed
  <1> QED BY <1>2, <1>4

LEMMA JudgeStands ==
  ASSUME TypeOK, NEW t \in Task, NEW s \in Sub, NEW todo \in Seq(Sub),
         Suspend(t, [Wait("judge", s) EXCEPT !.todo = todo])
  PROVE  Stands(t, "judge", s, todo)
  <1> DEFINE w == Wait("judge", s)
             c == [w EXCEPT !.todo = todo]
  <1>1. w \in Chain /\ w.pc = "judge" /\ w.sub = s
    BY Numbers, WaitIsChain DEF Pc
  <1> HIDE DEF w
  <1>2. c \in Chain /\ c.pc = "judge" /\ c.sub = s /\ c.todo = todo
    BY <1>1, ChainExcept
  <1>3. Suspend(t, c)
    BY DEF w
  <1> HIDE DEF c
  <1>4. Stands(t, c.pc, c.sub, c.todo)
    BY <1>2, <1>3, Placed
  <1> QED BY <1>2, <1>4

LEMMA ReturnRests ==
  ASSUME TypeOK, NEW t \in Task, Return(t)
  PROVE  Rests(t)
  <1> DEFINE c(pc) == [Idle EXCEPT !.pc = pc]
  <1>1. ASSUME NEW pc \in {"idle", "turn"}
        PROVE  c(pc) \in Chain /\ c(pc).pc = pc /\ c(pc).sub = 0 /\ c(pc).todo = <<>>
    <2> DEFINE d == [Idle EXCEPT !.pc = pc]
    <2>1. pc \in Pc
      BY DEF Pc
    <2>2. d \in Chain /\ d.pc = pc /\ d.sub = 0 /\ d.todo = <<>>
      BY <2>1, IdleIsChain, ChainExcept
    <2> QED BY <2>2
  <1>2. \/ Suspend(t, c("idle"))
        \/ Suspend(t, c("turn")) /\ t # "client"
    BY DEF Return
  <1>3. ASSUME NEW pc \in {"idle", "turn"}, Suspend(t, c(pc))
        PROVE  Stands(t, pc, 0, <<>>)
    <2>1. PICK d \in Chain : d = c(pc)
      BY <1>1
    <2> HIDE DEF c
    <2>2. Suspend(t, d) /\ d.pc = pc /\ d.sub = 0 /\ d.todo = <<>>
      BY <1>1, <1>3, <2>1
    <2>3. Stands(t, d.pc, d.sub, d.todo)
      BY <2>2, Placed
    <2> QED BY <2>2, <2>3
  <1> QED BY <1>2, <1>3 DEF Rests

(* What an attempt at an assignment comes to. *)
LEMMA Attempted ==
  ASSUME TypeOK, NEW t \in Task, NEW s \in Sub, NEW bs, NEW q, Attempt(t, s, bs, q)
  PROVE  /\ leases' \in Nat /\ leases' >= leases
         /\ \/ /\ TypeOf[s] = NoAgent
               /\ Rests(t) /\ assigned' = assigned
               /\ inbox' = Append(q, Item("unroutable", s))
            \/ /\ TypeOf[s] \in Agent
               /\ Stands(t, "backoff", s, <<>>) /\ assigned' = assigned
               /\ inbox' = q
            \/ /\ TypeOf[s] \in Agent
               /\ Stands(t, "exec", s, <<>>)
               /\ assigned' = [assigned EXCEPT ![s] = TypeOf[s]]
               /\ \E l \in Lease :
                     inbox' = Append(q, [kind |-> "assigned", sub |-> s,
                                         agent |-> TypeOf[s], lease |-> l])
  <1>0. leases \in Nat /\ s \in 0 .. MaxSub /\ TypeOf[s] \in Agent \cup {NoAgent}
    BY Numbers DEF TypeOK
  <1>1. CASE TypeOf[s] = NoAgent /\ Return(t) /\ UNCHANGED <<leases, assigned>>
             /\ inbox' = Append(q, Item("unroutable", s))
    BY <1>0, <1>1, ReturnRests
  <1>2. CASE TypeOf[s] # NoAgent /\ inbox' = q /\ Suspend(t, Wait("backoff", s))
             /\ UNCHANGED <<leases, assigned>>
    <2>1. Stands(t, "backoff", s, <<>>)
      BY <1>0, <1>2, WaitStands DEF Pc
    <2> QED BY <1>0, <1>2, <2>1
  <1>3. CASE /\ TypeOf[s] # NoAgent /\ leases' = leases + 1 /\ Learn(s, TypeOf[s])
             /\ inbox' = Append(q, [kind |-> "assigned", sub |-> s,
                                    agent |-> TypeOf[s], lease |-> leases'])
             /\ Suspend(t, [Wait("exec", s) EXCEPT !.lease = leases'])
    <2>1. leases' \in Nat /\ leases' \in Lease /\ leases' >= leases
      BY <1>0, <1>3 DEF Lease
    <2>2. Stands(t, "exec", s, <<>>)
      BY <1>3, <2>1, ExecStands
    <2> QED BY <1>0, <1>3, <2>1, <2>2 DEF Learn
  <1> QED BY <1>1, <1>2, <1>3 DEF Attempt

(* What the Supervisor makes of an outcome that may be retried. *)
LEMMA Supervision ==
  ASSUME TypeOK, NEW t \in Task, NEW s \in Sub, NEW retriable \in BOOLEAN,
         RetryOrEscalate(t, s, retriable)
  PROVE  \/ /\ Stands(t, "backoff", s, <<>>) /\ assigned' = assigned
            /\ attempts' = [attempts EXCEPT ![s] = @ + 1]
            /\ attempts[s] < MaxRetries
         \/ Stands(t, "decompose", s, <<>>) /\ Forget(s)
  <1>1. s \in 0 .. MaxSub
    BY Numbers
  <1>2. CASE /\ retriable /\ attempts[s] < MaxRetries
             /\ attempts' = [attempts EXCEPT ![s] = @ + 1]
             /\ Suspend(t, Wait("backoff", s)) /\ UNCHANGED <<assigned, escalated>>
    <2>1. Stands(t, "backoff", s, <<>>)
      BY <1>1, <1>2, WaitStands DEF Pc
    <2> QED BY <1>2, <2>1
  <1>3. CASE Forget(s) /\ Suspend(t, Wait("decompose", s))
    <2>1. Stands(t, "decompose", s, <<>>)
      BY <1>1, <1>3, WaitStands DEF Pc
    <2> QED BY <1>3, <2>1
  <1> QED BY <1>2, <1>3, Zenon DEF RetryOrEscalate

-----------------------------------------------------------------------------
(* What a step does to the chain that takes it, whatever the action: the   *)
(* chain works on nothing before and after, it takes up a subproblem or    *)
(* goes on with it, or it leaves the subproblem and the Supervisor forgets *)
(* about it.                                                               *)

Active(t) == IF phase = "up" THEN t # "recovery" ELSE t = "recovery"

Moves(t) ==
  /\ Active(t) /\ phase' = phase
  /\ chain' \in [Task -> Chain] /\ Others(t)
  /\ chain'[t].pc \in {"exec", "backoff", "judge"} => chain'[t].sub \in Sub
  /\ t = "client" => chain'[t].pc \in {"idle", "judge", "decompose"}

OnlyFor(s) ==
  \A r \in Sub \ {s} : attempts'[r] = attempts[r] /\ assigned'[r] = assigned[r]

Strolls(t) ==
  /\ \A s \in Sub : ~Busy(t, s) /\ ~Busy(t, s)'
  /\ attempts' = attempts /\ assigned' = assigned

Takes(t, s) ==
  /\ Fits(t, s)' /\ TypeOf[s] # NoAgent
  /\ \A r \in Sub \ {s} : ~Busy(t, r)
  /\ Busy(t, s)' /\ OnlyFor(s)
  /\ chain'[t].pc = "exec" => assigned'[s] = TypeOf[s]

Leaves(t, s) ==
  /\ Fits(t, s)'
  /\ \A r \in Sub \ {s} : ~Busy(t, r)
  /\ \A r \in Sub : ~Busy(t, r)'
  /\ OnlyFor(s) /\ attempts'[s] = 0 /\ assigned'[s] = NoAgent

(* Only the writer changes blocks, and past stages stay past. *)
LedgerMoves(t) ==
  \/ blocks' = blocks
  \/ t = "writer" /\ \A s \in Sub : StageOf(s) \in Past => (StageOf(s))' \in Past

ReaperWalks ==
  /\ \A s \in scan'["reaper"].left : (StageOf(s))' \in Past
  /\ scan'["reaper"].stages \in Seq({"assigned", "in_progress"})

Step(t) ==
  /\ Moves(t) /\ LedgerMoves(t) /\ ReaperWalks
  /\ Strolls(t) \/ \E s \in Sub : Takes(t, s) \/ Leaves(t, s)

LEMMA Awake ==
  ASSUME TypeOK, ChainsApart, NEW t \in Task, chain[t].pc # "idle"
  PROVE  Active(t)
  BY DEF TypeOK, ChainsApart, Active

(* A chain at work is known to be about a routed subproblem it fits. *)
LEMMA AtWork ==
  ASSUME IInv, NEW t \in Task, chain[t].pc \in {"exec", "backoff"}
  PROVE  LET s == chain[t].sub
         IN  /\ s \in Sub /\ Busy(t, s) /\ Active(t) /\ t # "client"
             /\ Fits(t, s) /\ TypeOf[s] # NoAgent
             /\ blocks[s] \in Block
             /\ \A r \in Sub \ {s} : ~Busy(t, r)
  <1> DEFINE s == chain[t].sub
  <1>1. s \in Sub /\ t # "client"
    BY DEF IInv, ChainsApart
  <1>2. Busy(t, s) /\ \A r \in Sub \ {s} : ~Busy(t, r)
    BY DEF Busy
  <1>3. Fits(t, s) /\ TypeOf[s] # NoAgent
    BY <1>1, <1>2 DEF IInv, StagesFit, Routed
  <1>4. blocks[s] \in Block
    BY <1>1, <1>3 DEF IInv, TypeOK, Fits, StageOf, Past
  <1>5. Active(t)
    BY Awake DEF IInv
  <1> QED BY <1>1, <1>2, <1>3, <1>4, <1>5

LEMMA NotBusy ==
  ASSUME NEW t \in Task, chain[t].pc \notin {"exec", "backoff"}
  PROVE  \A s \in Sub : ~Busy(t, s)
  BY DEF Busy

LEMMA AttemptTyped ==
  ASSUME TypeOK, NEW t \in Task, NEW s \in Sub, NEW bs, NEW q \in Seq(Event),
         Attempt(t, s, bs, q)
  PROVE  /\ inbox' \in Seq(Event) /\ chain' \in [Task -> Chain]
         /\ assigned' \in [Sub -> Agent \cup {NoAgent}]
         /\ leases' \in Nat /\ leases' >= leases
  <1>1. Item("unroutable", s) \in Event
    BY EventsMade DEF SimpleKind
  <1>2. ASSUME TypeOf[s] \in Agent, NEW l \in Lease
        PROVE  [kind |-> "assigned", sub |-> s, agent |-> TypeOf[s], lease |-> l]
                  \in Event
    BY <1>2, EventsMade
  <1>3. \A e \in Event : Append(q, e) \in Seq(Event)
    OBVIOUS
  <1>4. leases' \in Nat /\ leases' >= leases
    BY Attempted
  <1>5. inbox' \in Seq(Event)
    <2>1. CASE inbox' = Append(q, Item("unroutable", s))
      BY <1>1, <1>3, <2>1
    <2>2. CASE inbox' = q
      BY <2>2
    <2>3. CASE /\ TypeOf[s] \in Agent
               /\ \E l \in Lease :
                     inbox' = Append(q, [kind |-> "assigned", sub |-> s,
                                         agent |-> TypeOf[s], lease |-> l])
      BY <1>2, <1>3, <2>3
    <2> QED BY <2>1, <2>2, <2>3, Attempted
  <1>6. chain' \in [Task -> Chain]
    BY Attempted DEF Rests, Stands
  <1>7. assigned' \in [Sub -> Agent \cup {NoAgent}]
    BY Attempted DEF TypeOK
  <1> QED BY <1>4, <1>5, <1>6, <1>7

(* A routed attempt takes up the subproblem. *)
LEMMA AttemptTakes ==
  ASSUME IInv, NEW t \in Task, NEW s \in Sub, NEW bs, NEW q,
         Attempt(t, s, bs, q), TypeOf[s] # NoAgent, t # "client",
         Active(t), \A r \in Sub \ {s} : ~Busy(t, r), Fits(t, s)',
         attempts' = attempts, phase' = phase
  PROVE  Moves(t) /\ Takes(t, s)
  <1>1. PICK pc \in {"exec", "backoff"} :
           /\ Stands(t, pc, s, <<>>)
           /\ pc = "backoff" => assigned' = assigned
           /\ pc = "exec" => assigned' = [assigned EXCEPT ![s] = TypeOf[s]]
    BY Attempted DEF IInv
  <1>2. chain'[t].pc = pc /\ chain'[t].sub = s
    BY <1>1 DEF Stands
  <1>3. Moves(t)
    BY <1>1, <1>2 DEF Stands, Moves
  <1>4. Busy(t, s)'
    BY <1>2 DEF Busy
  <1>5. OnlyFor(s) /\ (pc = "exec" => assigned'[s] = TypeOf[s])
    BY <1>1 DEF OnlyFor, IInv, TypeOK
  <1> QED BY <1>2, <1>3, <1>4, <1>5 DEF Takes

LEMMA ForgetShape ==
  ASSUME TypeOK, NEW s \in Sub, Forget(s)
  PROVE  /\ attempts' \in [Sub -> 0 .. MaxRetries]
         /\ assigned' \in [Sub -> Agent \cup {NoAgent}]
         /\ OnlyFor(s) /\ attempts'[s] = 0 /\ assigned'[s] = NoAgent
  BY Numbers DEF TypeOK, Forget, OnlyFor

LEMMA SupervisionTyped ==
  ASSUME TypeOK, NEW t \in Task, NEW s \in Sub, NEW retriable \in BOOLEAN,
         RetryOrEscalate(t, s, retriable)
  PROVE  /\ chain' \in [Task -> Chain]
         /\ attempts' \in [Sub -> 0 .. MaxRetries]
         /\ assigned' \in [Sub -> Agent \cup {NoAgent}]
  <1>1. CASE /\ Stands(t, "backoff", s, <<>>) /\ assigned' = assigned
             /\ attempts' = [attempts EXCEPT ![s] = @ + 1]
             /\ attempts[s] < MaxRetries
    BY <1>1, Numbers DEF Stands, TypeOK
  <1>2. CASE Stands(t, "decompose", s, <<>>) /\ Forget(s)
    BY <1>2, ForgetShape DEF Stands
  <1> QED BY <1>1, <1>2, Supervision

LEMMA SupervisionWorks ==
  ASSUME IInv, NEW t \in Task, NEW s \in Sub, NEW retriable \in BOOLEAN,
         RetryOrEscalate(t, s, retriable), TypeOf[s] # NoAgent, t # "client",
         Active(t), \A r \in Sub \ {s} : ~Busy(t, r), Fits(t, s)',
         phase' = phase
  PROVE  Moves(t) /\ (Takes(t, s) \/ Leaves(t, s))
  <1>0. TypeOK
    BY DEF IInv
  <1>1. CASE /\ Stands(t, "backoff", s, <<>>) /\ assigned' = assigned
             /\ attempts' = [attempts EXCEPT ![s] = @ + 1]
    <2>1. chain'[t].pc = "backoff" /\ chain'[t].sub = s
      BY <1>1 DEF Stands
    <2>2. Moves(t)
      BY <1>1, <2>1 DEF Moves, Stands
    <2>3. OnlyFor(s)
      BY <1>0, <1>1 DEF TypeOK, OnlyFor
    <2> QED BY <2>1, <2>2, <2>3 DEF Takes, Busy
  <1>2. CASE Stands(t, "decompose", s, <<>>) /\ Forget(s)
    <2>1. chain'[t].pc = "decompose"
      BY <1>2 DEF Stands
    <2>2. Moves(t)
      BY <1>2, <2>1 DEF Moves, Stands
    <2> QED BY <1>0, <1>2, <2>1, <2>2, ForgetShape DEF Leaves, Busy
  <1> QED BY <1>0, <1>1, <1>2, Supervision

-----------------------------------------------------------------------------
(* One lemma per action: the types hold on, and the step is a Step.        *)

(* What the actions of a suspended chain leave alone. *)
LEMMA ReaperStays ==
  ASSUME IInv, blocks' = blocks,
         scan' = scan \/ \E t \in {"reaper", "recovery"}, s \in Sub : Visited(t, s)
  PROVE  ReaperWalks
  <1>1. scan'["reaper"].stages = scan["reaper"].stages
    BY DEF Visited, IInv, TypeOK
  <1>2. scan'["reaper"].left \subseteq scan["reaper"].left
    <2>1. CASE scan' = scan
      BY <2>1
    <2>2. ASSUME NEW t \in {"reaper", "recovery"}, NEW s \in Sub, Visited(t, s)
          PROVE  scan'["reaper"].left \subseteq scan["reaper"].left
      <3>1. scan' = [scan EXCEPT ![t] = [scan[t] EXCEPT !.left = scan[t].left \ {s}]]
        BY <2>2 DEF Visited
      <3>2. scan[t] \in [stages : Seq(Stage), left : SUBSET Sub]
        BY DEF IInv, TypeOK
      <3>3. [scan[t] EXCEPT !.left = scan[t].left \ {s}].left = scan[t].left \ {s}
        BY <3>2
      <3>4. scan'[t].left = scan[t].left \ {s}
        BY <3>1, <3>3 DEF IInv, TypeOK
      <3> QED BY <3>1, <3>4 DEF IInv, TypeOK
    <2> QED BY <2>1, <2>2
  <1> QED BY <1>1, <1>2 DEF ReaperWalks, StageOf, IInv, StagesFit

LEMMA FitsOn ==
  ASSUME blocks' = blocks, NEW t \in Task, NEW s \in Sub, Fits(t, s)
  PROVE  Fits(t, s)'
  BY DEF Fits, StageOf

LEMMA WakeUpStep ==
  ASSUME IInv, NEW t \in Task, WakeUp(t)
  PROVE  TypeOK' /\ Step(t)
  <1>0. TypeOK
    BY DEF IInv
  <1>a. PICK s \in Sub : s = chain[t].sub
    BY AtWork DEF WakeUp, At
  <1>1. /\ s \in Sub /\ Busy(t, s) /\ Active(t) /\ t # "client"
        /\ Fits(t, s) /\ TypeOf[s] # NoAgent /\ blocks[s] \in Block
        /\ \A r \in Sub \ {s} : ~Busy(t, r)
    BY <1>a, AtWork DEF WakeUp, At
  <1>2. /\ Attempt(t, s, blocks, inbox) /\ phase' = phase /\ attempts' = attempts
        /\ blocks' = blocks /\ scan' = scan /\ circuit' = circuit
        /\ expired' = expired /\ born' = born /\ turnedAway' = turnedAway
    BY <1>a, <1>1, Numbers DEF WakeUp, ledger, walk, client, process
  <1>3. Fits(t, s)'
    BY <1>1, <1>2, FitsOn
  <1>4. Moves(t) /\ Takes(t, s)
    BY <1>1, <1>2, <1>3, AttemptTakes
  <1>5. ReaperWalks
    BY <1>2, ReaperStays
  <1>6. TypeOK /\ inbox \in Seq(Event)
    BY DEF IInv, TypeOK
  <1>7. TypeOK'
    <2>1. /\ inbox' \in Seq(Event) /\ chain' \in [Task -> Chain]
          /\ assigned' \in [Sub -> Agent \cup {NoAgent}]
          /\ leases' \in Nat /\ leases' >= leases
      BY <1>1, <1>2, <1>6, AttemptTyped
    <2> QED BY <1>2, <1>6, <2>1 DEF TypeOK
  <1> QED BY <1>1, <1>2, <1>4, <1>5, <1>7 DEF Step, LedgerMoves

LEMMA HeartbeatStep ==
  ASSUME IInv, NEW t \in Task, Heartbeat(t)
  PROVE  TypeOK' /\ Step(t)
  <1>0. TypeOK
    BY DEF IInv
  <1>a. PICK s \in Sub : s = chain[t].sub
    BY AtWork DEF Heartbeat, At
  <1>1. /\ s \in Sub /\ Busy(t, s) /\ Active(t) /\ t # "client"
        /\ Fits(t, s) /\ TypeOf[s] # NoAgent
        /\ \A r \in Sub \ {s} : ~Busy(t, r)
    BY <1>a, AtWork DEF Heartbeat, At
  <1>2. /\ chain[t].pc = "exec" /\ phase' = phase /\ attempts' = attempts
        /\ assigned' = assigned /\ blocks' = blocks /\ scan' = scan
        /\ circuit' = circuit /\ leases' = leases /\ expired' = expired
        /\ born' = born /\ turnedAway' = turnedAway
        /\ inbox' = Append(inbox, Item("heartbeat", s))
        /\ Suspend(t, [chain[t] EXCEPT !.beat = TRUE])
    BY <1>a DEF Heartbeat, At, ledger, walk, supervisor, clock, client, process
  <1>3. Stands(t, "exec", s, chain[t].todo)
    <2> DEFINE c == [chain[t] EXCEPT !.beat = TRUE]
    <2>1. chain[t] \in Chain
      BY <1>0 DEF TypeOK
    <2>2. c \in Chain /\ c.pc = "exec" /\ c.sub = s /\ c.todo = chain[t].todo
      BY <1>a, <1>2, <2>1, ChainExcept
    <2> HIDE DEF c
    <2> QED BY <1>0, <1>2, <2>2, Placed DEF c
  <1>4. Fits(t, s)' /\ ReaperWalks
    BY <1>1, <1>2, FitsOn, ReaperStays
  <1>5. chain'[t].pc = "exec" /\ chain'[t].sub = s
    BY <1>3 DEF Stands
  <1>6. Moves(t)
    BY <1>1, <1>2, <1>3, <1>5 DEF Moves, Stands
  <1>7. assigned[s] = TypeOf[s]
    BY <1>a, <1>1, <1>2 DEF IInv, Supervised, OutcomesAttributed, Executing
  <1>8. Takes(t, s)
    BY <1>1, <1>2, <1>4, <1>5, <1>7 DEF Takes, OnlyFor, Busy
  <1>9. TypeOK'
    <2>1. inbox' \in Seq(Event)
      <3>1. Item("heartbeat", s) \in Event /\ inbox \in Seq(Event)
        BY <1>0, <1>1, EventsMade DEF SimpleKind, TypeOK
      <3> QED BY <1>2, <3>1
    <2>2. chain' \in [Task -> Chain]
      BY <1>3 DEF Stands
    <2> QED BY <1>0, <1>2, <2>1, <2>2 DEF TypeOK
  <1> QED BY <1>1, <1>2, <1>4, <1>6, <1>8, <1>9 DEF Step, LedgerMoves

LEMMA CompletesStep ==
  ASSUME IInv, NEW t \in Task, WorkerCompletes(t)
  PROVE  TypeOK' /\ Step(t)
  <1>0. TypeOK
    BY DEF IInv
  <1>a. PICK s \in Sub : s = chain[t].sub
    BY AtWork DEF WorkerCompletes, At
  <1>1. /\ s \in Sub /\ Active(t) /\ t # "client" /\ Fits(t, s)
        /\ \A r \in Sub \ {s} : ~Busy(t, r)
    BY <1>a, AtWork DEF WorkerCompletes, At
  <1>2. /\ phase' = phase /\ blocks' = blocks /\ scan' = scan /\ leases' = leases
        /\ expired' = expired /\ born' = born /\ turnedAway' = turnedAway
        /\ Forget(s) /\ RecordOutcome(assigned[s], FALSE) /\ Return(t)
        /\ \E r \in Result :
              inbox' = Append(inbox, [kind |-> "completed", sub |-> s, result |-> r])
    BY <1>a DEF WorkerCompletes, ledger, walk, clock, client, process
  <1>3. Rests(t)
    BY <1>0, <1>2, ReturnRests
  <1>4. Fits(t, s)' /\ ReaperWalks
    BY <1>1, <1>2, FitsOn, ReaperStays
  <1>5. chain'[t].pc \in {"idle", "turn"}
    BY <1>3 DEF Rests, Stands
  <1>6. Moves(t)
    BY <1>1, <1>2, <1>3, <1>5 DEF Moves, Rests, Stands
  <1>7. Leaves(t, s)
    BY <1>0, <1>1, <1>2, <1>4, <1>5, ForgetShape DEF Leaves, Busy
  <1>8. TypeOK'
    <2>1. inbox' \in Seq(Event)
      <3>1. PICK r \in Result :
               inbox' = Append(inbox, [kind |-> "completed", sub |-> s, result |-> r])
        BY <1>2
      <3>2. [kind |-> "completed", sub |-> s, result |-> r] \in Event
        BY <1>1, EventsMade
      <3> QED BY <1>0, <3>1, <3>2 DEF TypeOK
    <2>2. chain' \in [Task -> Chain]
      BY <1>3 DEF Rests, Stands
    <2>3. circuit' \in [Agent -> Circuit]
      <3>1. assigned[s] \in Agent \cup {NoAgent}
        BY <1>0, <1>1 DEF TypeOK
      <3> QED BY <1>0, <1>2, <3>1, OutcomeTyped
    <2>4. attempts' \in [Sub -> 0 .. MaxRetries]
          /\ assigned' \in [Sub -> Agent \cup {NoAgent}]
      BY <1>0, <1>1, <1>2, ForgetShape
    <2> QED BY <1>0, <1>2, <2>1, <2>2, <2>3, <2>4 DEF TypeOK
  <1> QED BY <1>1, <1>2, <1>4, <1>6, <1>7, <1>8 DEF Step, LedgerMoves

LEMMA FailsStep ==
  ASSUME IInv, NEW t \in Task, WorkerFails(t)
  PROVE  TypeOK' /\ Step(t)
  <1>0. TypeOK
    BY DEF IInv
  <1>a. PICK s \in Sub : s = chain[t].sub
    BY AtWork DEF WorkerFails, At
  <1>1. /\ s \in Sub /\ Active(t) /\ t # "client" /\ Fits(t, s)
        /\ TypeOf[s] # NoAgent
        /\ \A r \in Sub \ {s} : ~Busy(t, r)
    BY <1>a, AtWork DEF WorkerFails, At
  <1>2. /\ phase' = phase /\ blocks' = blocks /\ scan' = scan /\ leases' = leases
        /\ expired' = expired /\ born' = born /\ turnedAway' = turnedAway
    BY DEF WorkerFails, ledger, walk, clock, client, process
  <1>3. PICK retriable \in BOOLEAN :
           /\ inbox' = Append(inbox, [kind |-> "failed", sub |-> s,
                                      retriable |-> retriable])
           /\ RecordOutcome(assigned[s], TRUE)
           /\ RetryOrEscalate(t, s, retriable)
    BY <1>a DEF WorkerFails
  <1>4. Fits(t, s)' /\ ReaperWalks
    BY <1>1, <1>2, FitsOn, ReaperStays
  <1>5. Moves(t) /\ (Takes(t, s) \/ Leaves(t, s))
    BY <1>1, <1>2, <1>3, <1>4, SupervisionWorks
  <1>6. TypeOK'
    <2>1. inbox' \in Seq(Event)
      <3>1. [kind |-> "failed", sub |-> s, retriable |-> retriable] \in Event
        BY <1>1, EventsMade
      <3> QED BY <1>0, <1>3, <3>1 DEF TypeOK
    <2>2. circuit' \in [Agent -> Circuit]
      <3>1. assigned[s] \in Agent \cup {NoAgent}
        BY <1>0, <1>1 DEF TypeOK
      <3> QED BY <1>0, <1>3, <3>1, OutcomeTyped
    <2>3. /\ chain' \in [Task -> Chain]
          /\ attempts' \in [Sub -> 0 .. MaxRetries]
          /\ assigned' \in [Sub -> Agent \cup {NoAgent}]
      BY <1>0, <1>1, <1>3, SupervisionTyped
    <2> QED BY <1>0, <1>2, <2>1, <2>2, <2>3 DEF TypeOK
  <1> QED BY <1>1, <1>2, <1>4, <1>5, <1>6 DEF Step, LedgerMoves

(* A chain that works on nothing before and after the step. *)
LEMMA Strolling ==
  ASSUME NEW t \in Task, Active(t), phase' = phase,
         chain[t].pc \notin {"exec", "backoff"},
         \/ Rests(t)
         \/ \E s \in 0 .. MaxSub : \E todo : Stands(t, "decompose", s, todo)
         \/ \E s \in Sub : \E todo : Stands(t, "judge", s, todo),
         attempts' = attempts, assigned' = assigned
  PROVE  Moves(t) /\ Strolls(t)
  <1>1. CASE Rests(t)
    BY <1>1 DEF Rests, Stands, Moves, Strolls, Busy
  <1>2. CASE \E s \in 0 .. MaxSub : \E todo : Stands(t, "decompose", s, todo)
    BY <1>2 DEF Stands, Moves, Strolls, Busy
  <1>3. CASE \E s \in Sub : \E todo : Stands(t, "judge", s, todo)
    BY <1>3 DEF Stands, Moves, Strolls, Busy
  <1> QED BY <1>1, <1>2, <1>3

LEMMA SubmitStep ==
  ASSUME IInv, Submit
  PROVE  TypeOK' /\ Step("client")
  <1>0. TypeOK /\ "client" \in Task /\ 0 \in 0 .. MaxSub
    BY Numbers DEF IInv, Task
  <1>1. /\ phase = "up" /\ phase' = phase /\ chain["client"].pc = "idle"
        /\ Suspend("client", Wait("decompose", 0))
        /\ inbox' = inbox /\ blocks' = blocks /\ scan' = scan
        /\ attempts' = attempts /\ assigned' = assigned /\ circuit' = circuit
        /\ leases' = leases /\ expired' = expired /\ born' = born
        /\ turnedAway' = turnedAway
    BY DEF Submit, At, ledger, walk, supervisor, clock, process
  <1>2. Stands("client", "decompose", 0, <<>>)
    BY <1>0, <1>1, WaitStands DEF Pc
  <1>3. Active("client")
    BY <1>1 DEF Active
  <1>4. Moves("client") /\ Strolls("client")
    BY <1>0, <1>1, <1>2, <1>3, Strolling
  <1>5. TypeOK'
    BY <1>0, <1>1, <1>2 DEF TypeOK, Stands
  <1> QED BY <1>1, <1>4, <1>5, ReaperStays DEF Step, LedgerMoves

LEMMA DecomposedStep ==
  ASSUME IInv, NEW t \in Task, Decomposed(t)
  PROVE  TypeOK' /\ Step(t)
  <1>0. TypeOK
    BY DEF IInv
  <1>1. /\ chain[t].pc = "decompose" /\ phase' = phase
        /\ blocks' = blocks /\ scan' = scan
        /\ attempts' = attempts /\ assigned' = assigned /\ circuit' = circuit
        /\ leases' = leases /\ expired' = expired /\ turnedAway' = turnedAway
    BY DEF Decomposed, At, ledger, walk, supervisor, clock, process
  <1>2. PICK n \in 0 .. Fanout :
           /\ born + n <= MaxSub /\ born' = born + n
           /\ IF n = 0 THEN inbox' = inbox /\ Return(t)
              ELSE /\ inbox' = Append(inbox, Item("proposed", born + 1))
                   /\ Suspend(t, [Wait("judge", born + 1) EXCEPT
                                     !.todo = [i \in 1 .. n - 1 |-> born + 1 + i]])
    BY DEF Decomposed
  <1>3. Active(t)
    BY <1>0, <1>1, Awake DEF IInv
  <1>4. n \in Nat /\ born \in Nat /\ born' \in 0 .. MaxSub
    BY <1>0, <1>2, Numbers, ChainAssumption DEF ChainAssumption, TypeOK
  <1>5. CASE n = 0
    <2>1. Rests(t)
      BY <1>0, <1>2, <1>5, ReturnRests
    <2>2. Moves(t) /\ Strolls(t)
      BY <1>1, <1>3, <2>1, Strolling
    <2>3. TypeOK'
      BY <1>0, <1>1, <1>2, <1>4, <1>5, <2>1 DEF TypeOK, Rests, Stands
    <2> QED BY <1>1, <2>2, <2>3, ReaperStays DEF Step, LedgerMoves
  <1>6. CASE n # 0
    <2> DEFINE todo == [i \in 1 .. n - 1 |-> born + 1 + i]
    <2>0. PICK s \in Sub : s = born + 1
      BY <1>2, <1>4, <1>6, Numbers
    <2>1. todo \in Seq(Sub)
      <3>1. \A i \in 1 .. n - 1 : born + 1 + i \in Sub
        BY <1>2, <1>4, Numbers
      <3>2. n - 1 \in Nat
        BY <1>4, <1>6
      <3> QED BY <3>1, <3>2
    <2>2. PICK todo0 \in Seq(Sub) : todo0 = todo
      BY <2>1
    <2>3. Suspend(t, [Wait("judge", s) EXCEPT !.todo = todo0])
      BY <1>2, <1>6, <2>0, <2>2
    <2>4. Stands(t, "judge", s, todo0)
      BY <1>0, <2>3, JudgeStands
    <2>5. Moves(t) /\ Strolls(t)
      BY <1>1, <1>3, <2>4, Strolling
    <2>6. inbox' \in Seq(Event)
      <3>1. Item("proposed", s) \in Event /\ inbox \in Seq(Event)
        BY <1>0, EventsMade DEF SimpleKind, TypeOK
      <3>2. inbox' = Append(inbox, Item("proposed", s))
        BY <1>2, <1>6, <2>0
      <3> QED BY <3>1, <3>2
    <2>7. TypeOK'
      BY <1>0, <1>1, <1>4, <2>4, <2>6 DEF TypeOK, Stands
    <2> QED BY <1>1, <2>5, <2>7, ReaperStays DEF Step, LedgerMoves
  <1> QED BY <1>5, <1>6

LEMMA JudgedStep ==
  ASSUME IInv, NEW t \in Task, Judged(t)
  PROVE  TypeOK' /\ Step(t)
  <1>0. TypeOK
    BY DEF IInv
  <1>1. /\ chain[t].pc = "judge" /\ phase' = phase
        /\ blocks' = blocks /\ scan' = scan /\ born' = born
        /\ attempts' = attempts /\ assigned' = assigned /\ circuit' = circuit
        /\ leases' = leases /\ expired' = expired
    BY DEF Judged, At, ledger, walk, supervisor, clock, client, process
  <1>2. PICK s \in Sub, todo \in Seq(Sub) : s = chain[t].sub /\ todo = chain[t].todo
    BY <1>0, <1>1 DEF IInv, ChainsApart, TypeOK, Chain
  <1>3. PICK verdict \in {"accepted", "rejected"} :
           /\ turnedAway' = turnedAway
           /\ IF todo = <<>>
              THEN inbox' = Append(inbox, Item(verdict, s)) /\ Return(t)
              ELSE /\ inbox' = Append(Append(inbox, Item(verdict, s)),
                                      Item("proposed", Head(todo)))
                   /\ Suspend(t, [Wait("judge", Head(todo)) EXCEPT !.todo = Tail(todo)])
    BY <1>2 DEF Judged, CountRejection
  <1>4. Active(t)
    BY <1>0, <1>1, Awake DEF IInv
  <1>5. Append(inbox, Item(verdict, s)) \in Seq(Event)
    <2>1. Item(verdict, s) \in Event /\ inbox \in Seq(Event)
      BY <1>0, EventsMade DEF SimpleKind, TypeOK
    <2> QED BY <2>1
  <1>6. CASE todo = <<>>
    <2>1. Rests(t)
      BY <1>0, <1>3, <1>6, ReturnRests
    <2>2. Moves(t) /\ Strolls(t)
      BY <1>1, <1>4, <2>1, Strolling
    <2>3. TypeOK'
      BY <1>0, <1>1, <1>3, <1>5, <1>6, <2>1 DEF TypeOK, Rests, Stands
    <2> QED BY <1>1, <2>2, <2>3, ReaperStays DEF Step, LedgerMoves
  <1>7. CASE todo # <<>>
    <2>1. PICK r \in Sub, rest \in Seq(Sub) : r = Head(todo) /\ rest = Tail(todo)
      <3>1. Head(todo) \in Sub /\ Tail(todo) \in Seq(Sub)
        BY <1>7
      <3> QED BY <3>1
    <2>2. Stands(t, "judge", r, rest)
      BY <1>0, <1>3, <1>7, <2>1, JudgeStands
    <2>3. Moves(t) /\ Strolls(t)
      BY <1>1, <1>4, <2>2, Strolling
    <2>4. inbox' \in Seq(Event)
      <3>1. Item("proposed", r) \in Event
        BY EventsMade DEF SimpleKind
      <3>2. inbox' = Append(Append(inbox, Item(verdict, s)), Item("proposed", r))
        BY <1>3, <1>7, <2>1
      <3> QED BY <1>5, <3>1, <3>2
    <2>5. TypeOK'
      BY <1>0, <1>1, <1>3, <2>2, <2>4 DEF TypeOK, Stands
    <2> QED BY <1>1, <2>3, <2>5, ReaperStays DEF Step, LedgerMoves
  <1> QED BY <1>6, <1>7

(* The writer takes the head of the queue. *)
LEMMA TurnTaken ==
  ASSUME TypeOK, NEW kinds, Turn(kinds)
  PROVE  /\ "writer" \in Task /\ Active("writer")
         /\ chain["writer"].pc \notin {"exec", "backoff"}
         /\ Head(inbox) \in Event /\ Head(inbox).kind \in kinds
         /\ Tail(inbox) \in Seq(Event) /\ inbox \in Seq(Event) /\ inbox # <<>>
  <1>1. inbox \in Seq(Event) /\ inbox # <<>>
    BY DEF TypeOK, Turn
  <1> QED BY <1>1, Taken DEF Turn, Active, Task

LEMMA NextTurnShape ==
  ASSUME TypeOK, NEW kinds, Turn(kinds)
  PROVE  /\ NextTurn(<<>>) => inbox' = Tail(inbox) /\ Rests("writer")
         /\ \A e \in Event :
               NextTurn(<<e>>) => inbox' = Append(Tail(inbox), e) /\ Rests("writer")
  <1>1. Tail(inbox) \in Seq(Event) /\ "writer" \in Task
    BY TurnTaken
  <1> QED BY <1>1, Published, ReturnRests DEF NextTurn

LEMMA ReaperWalksOn ==
  ASSUME IInv, scan' = scan,
         \A s \in Sub : StageOf(s) \in Past => (StageOf(s))' \in Past
  PROVE  ReaperWalks
  BY DEF IInv, StagesFit, ReaperWalks, TypeOK

(* A turn that publishes at most one event and goes on. *)
LEMMA QuietTurn ==
  ASSUME IInv, NEW kinds, Turn(kinds),
         NextTurn(<<>>) \/ \E e \in Event : NextTurn(<<e>>),
         blocks' \in [Sub -> Block \cup {NoBlock}],
         turnedAway' \in [Sub -> Nat],
         \A s \in Sub : StageOf(s) \in Past => (StageOf(s))' \in Past,
         UNCHANGED <<walk, supervisor, clock, client, process>>
  PROVE  TypeOK' /\ Step("writer")
  <1>0. TypeOK
    BY DEF IInv
  <1>1. /\ phase' = phase /\ scan' = scan /\ born' = born
        /\ attempts' = attempts /\ assigned' = assigned /\ circuit' = circuit
        /\ leases' = leases /\ expired' = expired
    BY DEF walk, supervisor, clock, client, process
  <1>2. /\ "writer" \in Task /\ Active("writer")
        /\ chain["writer"].pc \notin {"exec", "backoff"}
        /\ Tail(inbox) \in Seq(Event)
    BY <1>0, TurnTaken
  <1>3. inbox' \in Seq(Event) /\ Rests("writer")
    <2>1. CASE NextTurn(<<>>)
      BY <1>0, <1>2, <2>1, NextTurnShape
    <2>2. CASE \E e \in Event : NextTurn(<<e>>)
      <3>1. \A e \in Event : Append(Tail(inbox), e) \in Seq(Event)
        BY <1>2
      <3> QED BY <1>0, <2>2, <3>1, NextTurnShape
    <2> QED BY <2>1, <2>2
  <1>4. Moves("writer") /\ Strolls("writer")
    BY <1>1, <1>2, <1>3, Strolling
  <1>5. TypeOK'
    BY <1>0, <1>1, <1>3 DEF TypeOK, Rests, Stands
  <1> QED BY <1>1, <1>4, <1>5, ReaperWalksOn DEF Step, LedgerMoves

LEMMA ProposedStep ==
  ASSUME IInv, ApplyProposed
  PROVE  TypeOK' /\ Step("writer")
  <1>0. TypeOK
    BY DEF IInv
  <1>1. Turn({"proposed"}) /\ UNCHANGED <<walk, supervisor, clock, client, process>>
    BY DEF ApplyProposed
  <1>2. PICK s \in Sub : s = Head(inbox).sub
    BY <1>0, <1>1, TurnTaken, EventFields
  <1>3. \/ NextTurn(<<>>) /\ blocks' = blocks /\ turnedAway' = turnedAway
        \/ /\ NextTurn(<<>>) /\ blocks[s] = NoBlock
           /\ blocks' = [blocks EXCEPT ![s] = ValidatingBlock]
           /\ turnedAway' = turnedAway
        \/ /\ NextTurn(<<Item("rejected", s)>>) /\ blocks' = blocks
           /\ turnedAway' = [turnedAway EXCEPT ![s] = @ + 1]
    BY <1>2 DEF ApplyProposed, CountRejection
  <1>4. NextTurn(<<>>) \/ \E e \in Event : NextTurn(<<e>>)
    <2>1. Item("rejected", s) \in Event
      BY EventsMade DEF SimpleKind
    <2> QED BY <1>3, <2>1
  <1>5. blocks' \in [Sub -> Block \cup {NoBlock}] /\ turnedAway' \in [Sub -> Nat]
    <2>1. turnedAway \in [Sub -> Nat] /\ blocks \in [Sub -> Block \cup {NoBlock}]
      BY <1>0 DEF TypeOK
    <2>2. [turnedAway EXCEPT ![s] = @ + 1] \in [Sub -> Nat]
      BY <2>1
    <2>3. [blocks EXCEPT ![s] = ValidatingBlock] \in [Sub -> Block \cup {NoBlock}]
      BY <2>1, FreshIsBlock
    <2> QED BY <1>3, <2>1, <2>2, <2>3
  <1>6. \A r \in Sub : StageOf(r) \in Past => (StageOf(r))' \in Past
    BY <1>0, <1>3 DEF StageOf, Past, TypeOK
  <1> QED BY <1>1, <1>4, <1>5, <1>6, QuietTurn

ReportKind == {"rejected", "assigned", "heartbeat", "completed", "failed",
               "unroutable", "lease_expired"}

LEMMA ReportIsBlock ==
  ASSUME NEW b \in Block, NEW e \in Event, e.kind \in ReportKind
  PROVE  LET c == AfterReport(b, e)
         IN  /\ c \in Block
             /\ b.stage \in Past => c.stage \in Past
             /\ c.lease # b.lease => e.kind = "assigned"
  <1>1. CASE e.kind = "rejected"
    BY <1>1, VerdictIsBlock DEF AfterReport, Past
  <1>2. CASE e.kind = "assigned"
    <2>1. AfterReport(b, e) = AfterAssigned(b, e.agent, e.lease)
      BY <1>2 DEF AfterReport
    <2>2. e.agent \in Agent /\ e.lease \in Lease
      BY <1>2, EventFields
    <2> QED BY <1>2, <2>1, <2>2, AssignedIsBlock
  <1>3. CASE e.kind = "heartbeat"
    BY <1>3, HeartbeatIsBlock DEF AfterReport, PastMove
  <1>4. CASE e.kind = "completed"
    <2>1. AfterReport(b, e) = AfterCompleted(b, e.result)
      BY <1>4 DEF AfterReport
    <2>2. e.result \in Result
      BY <1>4, EventFields
    <2> QED BY <2>1, <2>2, CompletedIsBlock DEF PastMove
  <1>5. CASE e.kind \in {"failed", "unroutable", "lease_expired"}
    <2>1. AfterReport(b, e) \in {AfterFinalFailure(b), AfterRetriable(b)}
      BY <1>5 DEF AfterReport
    <2> QED BY <2>1, FinalFailureIsBlock, RetriableIsBlock DEF PastMove
  <1> QED BY <1>1, <1>2, <1>3, <1>4, <1>5 DEF ReportKind

LEMMA ReportShape ==
  ASSUME TypeOK, ApplyReport
  PROVE  LET e == Head(inbox)
         IN  /\ Turn(ReportKind) /\ NextTurn(<<>>)
             /\ UNCHANGED <<walk, supervisor, clock, client, turnedAway, process>>
             /\ e \in Event /\ e.sub \in Sub /\ e.kind \in ReportKind
             /\ \/ blocks' = blocks
                \/ /\ blocks[e.sub] \in Block
                   /\ blocks' = [blocks EXCEPT ![e.sub] = AfterReport(blocks[e.sub], e)]
  <1>1. Turn(ReportKind) /\ NextTurn(<<>>)
        /\ UNCHANGED <<walk, supervisor, clock, client, turnedAway, process>>
    BY DEF ApplyReport, ReportKind
  <1>2. Head(inbox) \in Event /\ Head(inbox).sub \in Sub /\ Head(inbox).kind \in ReportKind
    BY <1>1, TurnTaken, EventFields
  <1> QED BY <1>1, <1>2 DEF ApplyReport, TypeOK

LEMMA ReportStep ==
  ASSUME IInv, ApplyReport
  PROVE  TypeOK' /\ Step("writer")
  <1>0. TypeOK
    BY DEF IInv
  <1>1. /\ Turn(ReportKind) /\ NextTurn(<<>>)
        /\ UNCHANGED <<walk, supervisor, clock, client, turnedAway, process>>
    BY <1>0, ReportShape
  <1>2. turnedAway' \in [Sub -> Nat]
    BY <1>0, <1>1 DEF TypeOK
  <1>3. CASE blocks' = blocks
    <2>1. /\ blocks' \in [Sub -> Block \cup {NoBlock}]
          /\ \A s \in Sub : StageOf(s) \in Past => (StageOf(s))' \in Past
      BY <1>0, <1>3 DEF TypeOK, StageOf
    <2> QED BY <1>1, <1>2, <2>1, QuietTurn
  <1>4. CASE ~(blocks' = blocks)
    <2>1. PICK s \in Sub, e \in Event :
             /\ e.kind \in ReportKind /\ blocks[s] \in Block
             /\ blocks' = [blocks EXCEPT ![s] = AfterReport(blocks[s], e)]
      BY <1>0, <1>4, ReportShape
    <2>2. PICK b \in Block, c \in Block :
             /\ b = blocks[s] /\ c = AfterReport(b, e)
             /\ b.stage \in Past => c.stage \in Past
      BY <2>1, ReportIsBlock
    <2>3. blocks' = [blocks EXCEPT ![s] = c]
      BY <2>1, <2>2
    <2>4. /\ blocks' \in [Sub -> Block \cup {NoBlock}]
          /\ \A r \in Sub : StageOf(r) \in Past => (StageOf(r))' \in Past
      BY <1>0, <2>2, <2>3, Numbers DEF TypeOK, StageOf
    <2> QED BY <1>1, <1>2, <2>4, QuietTurn
  <1> QED BY <1>3, <1>4

LEMMA AcceptedStep ==
  ASSUME IInv, ApplyAccepted
  PROVE  TypeOK' /\ Step("writer")
  <1>0. TypeOK
    BY DEF IInv
  <1>1. /\ Turn({"accepted"}) /\ attempts' = attempts
        /\ UNCHANGED <<walk, expired, client, turnedAway, process>>
        /\ circuit' = circuit /\ escalated' = escalated
    BY DEF ApplyAccepted
  <1>2. PICK s \in Sub : s = Head(inbox).sub
    BY <1>0, <1>1, TurnTaken, EventFields
  <1>3. CASE StageOf(s) # "validating"
    <2>1. NextTurn(<<>>) /\ UNCHANGED <<blocks, leases, assigned>>
      BY <1>2, <1>3 DEF ApplyAccepted
    <2>2. /\ blocks' \in [Sub -> Block \cup {NoBlock}] /\ turnedAway' \in [Sub -> Nat]
          /\ \A r \in Sub : StageOf(r) \in Past => (StageOf(r))' \in Past
          /\ UNCHANGED <<walk, supervisor, clock, client, process>>
      BY <1>0, <1>1, <2>1 DEF TypeOK, StageOf, supervisor, clock
    <2> QED BY <1>1, <2>1, <2>2, QuietTurn
  <1>4. CASE StageOf(s) = "validating"
    <2>1. /\ blocks' = [blocks EXCEPT ![s] = AfterVerdict(@, "accepted")]
          /\ Attempt("writer", s, blocks', Append(Tail(inbox), Item("accepted", s)))
      BY <1>2, <1>4 DEF ApplyAccepted
    <2>2. blocks[s] \in Block /\ blocks[s].stage = "validating"
      BY <1>0, <1>4 DEF StageOf, TypeOK
    <2>3. PICK c \in Block : c.stage = "accepted" /\ blocks' = [blocks EXCEPT ![s] = c]
      BY <2>1, <2>2, VerdictIsBlock
    <2>4. PICK q \in Seq(Event) : q = Append(Tail(inbox), Item("accepted", s))
      <3>1. Item("accepted", s) \in Event /\ Tail(inbox) \in Seq(Event)
        BY <1>0, <1>1, EventsMade, TurnTaken DEF SimpleKind
      <3>2. Append(Tail(inbox), Item("accepted", s)) \in Seq(Event)
        BY <3>1
      <3> QED BY <3>2
    <2>5. PICK bs : bs = blocks'
      OBVIOUS
    <2>6. Attempt("writer", s, bs, q)
      BY <2>1, <2>4, <2>5
    <2>7. /\ "writer" \in Task /\ Active("writer") /\ \A r \in Sub : ~Busy("writer", r)
      BY <1>0, <1>1, TurnTaken, NotBusy
    <2>8. (StageOf(s))' = "accepted"
          /\ \A r \in Sub : StageOf(r) \in Past => (StageOf(r))' \in Past
      BY <1>0, <2>2, <2>3, Numbers DEF TypeOK, StageOf, Past
    <2>9. Fits("writer", s)'
      BY <2>8 DEF Fits
    <2>10. /\ phase' = phase /\ scan' = scan /\ born' = born /\ expired' = expired
           /\ turnedAway' = turnedAway
      BY <1>1 DEF walk, client, process
    <2>11. Moves("writer") /\ (Strolls("writer") \/ Takes("writer", s))
      <3>1. CASE TypeOf[s] = NoAgent
        <4>1. Rests("writer") /\ assigned' = assigned
          BY <1>0, <2>6, <2>7, <3>1, Attempted, Numbers
        <4> QED BY <1>0, <1>1, <2>7, <2>10, <4>1, TurnTaken, Strolling
      <3>2. CASE TypeOf[s] # NoAgent
        BY <1>1, <2>6, <2>7, <2>9, <2>10, <3>2, AttemptTakes
      <3> QED BY <3>1, <3>2
    <2>12. TypeOK'
      <3>1. /\ inbox' \in Seq(Event) /\ chain' \in [Task -> Chain]
            /\ assigned' \in [Sub -> Agent \cup {NoAgent}]
            /\ leases' \in Nat /\ leases' >= leases
        BY <1>0, <2>6, <2>7, AttemptTyped
      <3>2. blocks' \in [Sub -> Block \cup {NoBlock}]
        BY <1>0, <2>3 DEF TypeOK
      <3> QED BY <1>0, <1>1, <2>10, <3>1, <3>2 DEF TypeOK
    <2>13. ReaperWalks
      BY <2>8, <2>10, ReaperWalksOn
    <2> QED BY <2>8, <2>11, <2>12, <2>13 DEF Step, LedgerMoves
  <1> QED BY <1>3, <1>4

-----------------------------------------------------------------------------
(* The walks of the Reaper and of recovery. *)

Walker == {"reaper", "recovery"}

LEMMA InStageSub ==
  ASSUME NEW st \in Stage
  PROVE  /\ InStage(blocks, st) \in SUBSET Sub
         /\ \A s \in InStage(blocks, st) : StageOf(s) = st
  BY DEF InStage, StageOf

LEMMA NextStageStep ==
  ASSUME IInv, NEW t \in Walker, NextStage(t)
  PROVE  TypeOK' /\ Step(t)
  <1>0. TypeOK /\ t \in Task
    BY DEF IInv, Walker, Task
  <1>1. /\ chain[t].pc = "turn" /\ Return(t) /\ phase' = phase
        /\ inbox' = inbox /\ blocks' = blocks
        /\ attempts' = attempts /\ assigned' = assigned /\ circuit' = circuit
        /\ leases' = leases /\ expired' = expired /\ born' = born
        /\ turnedAway' = turnedAway
    BY DEF NextStage, At, ledger, supervisor, clock, client, process
  <1>2. Rests(t) /\ Active(t)
    BY <1>0, <1>1, ReturnRests, Awake DEF IInv
  <1>3. Moves(t) /\ Strolls(t)
    BY <1>0, <1>1, <1>2, Strolling
  <1>4. PICK new : /\ scan' = [scan EXCEPT ![t] = new]
                   /\ \/ new = NoScan
                      \/ /\ scan[t].stages # <<>>
                         /\ new = [stages |-> Tail(scan[t].stages),
                                   left |-> InStage(blocks, Head(scan[t].stages))]
    BY DEF NextStage
  <1>5. scan[t].stages \in Seq(Stage)
    BY <1>0 DEF TypeOK, Walker
  <1>6. /\ new \in [stages : Seq(Stage), left : SUBSET Sub]
        /\ t = "reaper" => /\ new.stages \in Seq({"assigned", "in_progress"})
                           /\ \A s \in new.left : StageOf(s) \in Past
    <2>1. CASE new = NoScan
      <3>1. <<>> \in Seq(Stage) /\ <<>> \in Seq({"assigned", "in_progress"})
        OBVIOUS
      <3>2. {} \in SUBSET Sub
        OBVIOUS
      <3>3. new.stages = <<>> /\ new.left = {}
            /\ new = [stages |-> <<>>, left |-> {}]
        BY <2>1 DEF NoScan
      <3> QED BY <3>1, <3>2, <3>3
    <2>2. CASE /\ scan[t].stages # <<>>
               /\ new = [stages |-> Tail(scan[t].stages),
                         left |-> InStage(blocks, Head(scan[t].stages))]
      <3>1. Head(scan[t].stages) \in Stage /\ Tail(scan[t].stages) \in Seq(Stage)
        BY <1>5, <2>2
      <3>2. /\ new.left \in SUBSET Sub /\ new.stages = Tail(scan[t].stages)
            /\ \A s \in new.left : StageOf(s) = Head(scan[t].stages)
        BY <2>2, <3>1, InStageSub
      <3>3. ASSUME t = "reaper"
            PROVE  /\ Tail(scan[t].stages) \in Seq({"assigned", "in_progress"})
                   /\ Head(scan[t].stages) \in {"assigned", "in_progress"}
        <4>1. scan[t].stages \in Seq({"assigned", "in_progress"})
          BY <3>3 DEF IInv, StagesFit
        <4> QED BY <2>2, <4>1
      <3> QED BY <2>2, <3>1, <3>2, <3>3 DEF Past
    <2> QED BY <1>4, <2>1, <2>2
  <1>7. ReaperWalks
    <2>1. CASE t = "reaper"
      <3>1. scan'["reaper"] = new
        BY <1>0, <1>4, <2>1 DEF TypeOK
      <3> QED BY <1>1, <1>6, <2>1, <3>1 DEF ReaperWalks, StageOf
    <2>2. CASE t # "reaper"
      <3>1. scan'["reaper"] = scan["reaper"]
        BY <1>4, <2>2, <1>0 DEF TypeOK
      <3> QED BY <1>1, <3>1 DEF ReaperWalks, IInv, StagesFit, StageOf
    <2> QED BY <2>1, <2>2
  <1>8. TypeOK'
    <2>1. scan' \in [Walker -> [stages : Seq(Stage), left : SUBSET Sub]]
      BY <1>0, <1>4, <1>6 DEF TypeOK, Walker
    <2> QED BY <1>0, <1>1, <1>2, <2>1 DEF TypeOK, Rests, Stands, Walker
  <1> QED BY <1>1, <1>3, <1>7, <1>8 DEF Step, LedgerMoves

LEMMA PollStep ==
  ASSUME IInv, Poll
  PROVE  TypeOK' /\ Step("reaper")
  <1>0. TypeOK /\ "reaper" \in Task
    BY DEF IInv, Task
  <1>1. /\ phase = "up" /\ chain["reaper"].pc = "idle" /\ Return("reaper")
        /\ phase' = phase /\ inbox' = inbox /\ blocks' = blocks
        /\ attempts' = attempts /\ assigned' = assigned /\ circuit' = circuit
        /\ leases' = leases /\ expired' = expired /\ born' = born
        /\ turnedAway' = turnedAway
        /\ scan' = [scan EXCEPT !["reaper"] = [stages |-> LeaseStages, left |-> {}]]
    BY DEF Poll, At, ledger, supervisor, clock, client, process
  <1>2. Rests("reaper") /\ Active("reaper")
    BY <1>0, <1>1, ReturnRests DEF Active
  <1>3. Moves("reaper") /\ Strolls("reaper")
    BY <1>0, <1>1, <1>2, Strolling
  <1>4. /\ LeaseStages \in Seq(Stage)
        /\ LeaseStages \in Seq({"assigned", "in_progress"})
    BY DEF LeaseStages, Stage
  <1>5. ReaperWalks
    BY <1>0, <1>1, <1>4 DEF ReaperWalks, TypeOK
  <1>6. scan' \in [Walker -> [stages : Seq(Stage), left : SUBSET Sub]]
    BY <1>0, <1>1, <1>4 DEF TypeOK, Walker
  <1>7. TypeOK'
    BY <1>0, <1>1, <1>2, <1>6 DEF TypeOK, Rests, Stands, Walker
  <1> QED BY <1>1, <1>3, <1>5, <1>7 DEF Step, LedgerMoves

LEMMA VisitedTyped ==
  ASSUME TypeOK, NEW t \in Walker, NEW s \in Sub, Visited(t, s)
  PROVE  scan' \in [Walker -> [stages : Seq(Stage), left : SUBSET Sub]]
  <1>1. scan \in [Walker -> [stages : Seq(Stage), left : SUBSET Sub]]
    BY DEF TypeOK, Walker
  <1>2. \A x \in [stages : Seq(Stage), left : SUBSET Sub] :
           [x EXCEPT !.left = @ \ {s}] \in [stages : Seq(Stage), left : SUBSET Sub]
    OBVIOUS
  <1>3. scan' = [scan EXCEPT ![t] = [scan[t] EXCEPT !.left = @ \ {s}]]
    BY DEF Visited
  <1> QED BY <1>1, <1>2, <1>3

(* A lease is reported as run out. *)
LEMMA ExpiredStep ==
  ASSUME IInv, NEW t \in Walker, NEW s \in Sub, PublishLeaseExpired(t, s),
         chain[t].pc = "turn", Fits(t, s), blocks[s].lease # NoLease,
         blocks' = blocks, leases' = leases, expired' = expired, phase' = phase,
         born' = born, turnedAway' = turnedAway
  PROVE  TypeOK' /\ Step(t)
  <1>0. TypeOK /\ t \in Task /\ t # "client"
    BY DEF IInv, Walker, Task
  <1>1. /\ Visited(t, s) /\ inbox' = Append(inbox, Item("lease_expired", s))
        /\ RecordOutcome(blocks[s].agent, TRUE) /\ RetryOrEscalate(t, s, TRUE)
    BY DEF PublishLeaseExpired
  <1>2. blocks[s] \in Block
    BY <1>0 DEF TypeOK, Fits, StageOf, Past
  <1>3. TypeOf[s] # NoAgent
    BY <1>2, Numbers DEF IInv, Routed
  <1>4. Active(t) /\ \A r \in Sub : ~Busy(t, r)
    BY <1>0, Awake, NotBusy DEF IInv
  <1>5. Fits(t, s)' /\ ReaperWalks
    BY <1>0, <1>1, FitsOn, ReaperStays DEF Walker
  <1>6. Moves(t) /\ (Takes(t, s) \/ Leaves(t, s))
    BY <1>0, <1>1, <1>3, <1>4, <1>5, SupervisionWorks
  <1>7. TypeOK'
    <2>1. inbox' \in Seq(Event)
      <3>1. Item("lease_expired", s) \in Event /\ inbox \in Seq(Event)
        BY <1>0, EventsMade DEF SimpleKind, TypeOK
      <3> QED BY <1>1, <3>1
    <2>2. circuit' \in [Agent -> Circuit]
      <3>1. blocks[s].agent \in Agent \cup {NoAgent}
        BY <1>2 DEF Block
      <3> QED BY <1>0, <1>1, <3>1, OutcomeTyped
    <2>3. /\ chain' \in [Task -> Chain]
          /\ attempts' \in [Sub -> 0 .. MaxRetries]
          /\ assigned' \in [Sub -> Agent \cup {NoAgent}]
      BY <1>0, <1>1, SupervisionTyped
    <2>4. scan' \in [Walker -> [stages : Seq(Stage), left : SUBSET Sub]]
      BY <1>0, <1>1, VisitedTyped
    <2> QED BY <1>0, <2>1, <2>2, <2>3, <2>4 DEF TypeOK, Walker
  <1> QED BY <1>5, <1>6, <1>7 DEF Step, LedgerMoves

LEMMA ReapStep ==
  ASSUME IInv, Reap
  PROVE  TypeOK' /\ Step("reaper")
  <1>1. /\ chain["reaper"].pc = "turn" /\ blocks' = blocks /\ leases' = leases
        /\ expired' = expired /\ phase' = phase /\ born' = born
        /\ turnedAway' = turnedAway
    BY DEF Reap, At, ledger, clock, client, process
  <1>2. PICK s \in Pending("reaper") : PublishLeaseExpired("reaper", s)
    BY DEF Reap
  <1>3. s \in scan["reaper"].left /\ blocks[s].lease # NoLease
    BY DEF Pending, Acts, NewlyDue, Due
  <1>4. s \in Sub
    BY <1>3 DEF IInv, TypeOK
  <1>5. Fits("reaper", s)
    BY <1>3 DEF IInv, StagesFit, Fits
  <1> QED BY <1>1, <1>2, <1>3, <1>4, <1>5, ExpiredStep DEF Walker

LEMMA RecoverStep ==
  ASSUME IInv, Recover
  PROVE  TypeOK' /\ Step("recovery")
  <1> DEFINE t == "recovery"
  <1>0. TypeOK /\ t \in Task /\ t \in Walker /\ t # "client"
    BY DEF IInv, Task, Walker
  <1>1. /\ chain[t].pc = "turn" /\ blocks' = blocks
        /\ expired' = expired /\ phase' = phase /\ born' = born
        /\ turnedAway' = turnedAway
    BY DEF Recover, At, ledger, client, process
  <1>2. PICK s \in Pending(t) :
           \/ /\ StageOf(s) \in {"queued", "validating"} /\ Visited(t, s)
              /\ inbox' = Append(inbox, Item("proposed", s))
              /\ Suspend(t, Wait("judge", s))
              /\ UNCHANGED <<supervisor, leases>>
           \/ /\ StageOf(s) = "accepted" /\ Visited(t, s)
              /\ Attempt(t, s, blocks, Append(inbox, Item("accepted", s)))
              /\ UNCHANGED <<attempts, circuit, escalated>>
           \/ /\ StageOf(s) \in {"assigned", "in_progress"}
              /\ PublishLeaseExpired(t, s)
              /\ UNCHANGED leases
    BY DEF Recover
  <1>3. s \in Sub /\ s \in 0 .. MaxSub /\ Acts(t, s)
    BY <1>0, Numbers DEF Pending, TypeOK
  <1>4. Active(t) /\ (\A r \in Sub : ~Busy(t, r))
        /\ chain[t].pc \notin {"exec", "backoff"}
    BY <1>0, <1>1, Awake, NotBusy DEF IInv
  <1> SUFFICES TypeOK' /\ Step(t)
    OBVIOUS
  <1> HIDE DEF t
  <1>5. CASE /\ StageOf(s) \in {"queued", "validating"} /\ Visited(t, s)
             /\ inbox' = Append(inbox, Item("proposed", s))
             /\ Suspend(t, Wait("judge", s))
             /\ UNCHANGED <<supervisor, leases>>
    <2>1. Stands(t, "judge", s, <<>>)
      BY <1>0, <1>3, <1>5, WaitStands DEF Pc
    <2>2. attempts' = attempts /\ assigned' = assigned /\ circuit' = circuit
          /\ leases' = leases
      BY <1>5 DEF supervisor
    <2>3. Moves(t) /\ Strolls(t)
      BY <1>0, <1>1, <1>3, <1>4, <2>1, <2>2, Strolling
    <2>4. ReaperWalks
      BY <1>0, <1>1, <1>3, <1>5, ReaperStays DEF Walker
    <2>5. TypeOK'
      <3>1. inbox' \in Seq(Event)
        <4>1. Item("proposed", s) \in Event /\ inbox \in Seq(Event)
          BY <1>0, <1>3, EventsMade DEF SimpleKind, TypeOK
        <4> QED BY <1>5, <4>1
      <3>2. scan' \in [Walker -> [stages : Seq(Stage), left : SUBSET Sub]]
        BY <1>0, <1>3, <1>5, VisitedTyped
      <3> QED BY <1>0, <1>1, <2>1, <2>2, <3>1, <3>2 DEF TypeOK, Stands, Walker
    <2> QED BY <1>1, <2>3, <2>4, <2>5 DEF Step, LedgerMoves
  <1>6. CASE /\ StageOf(s) = "accepted" /\ Visited(t, s)
             /\ Attempt(t, s, blocks, Append(inbox, Item("accepted", s)))
             /\ UNCHANGED <<attempts, circuit, escalated>>
    <2>1. PICK q \in Seq(Event) : q = Append(inbox, Item("accepted", s))
      <3>1. Item("accepted", s) \in Event /\ inbox \in Seq(Event)
        BY <1>0, <1>3, EventsMade DEF SimpleKind, TypeOK
      <3>2. Append(inbox, Item("accepted", s)) \in Seq(Event)
        BY <3>1
      <3> QED BY <3>2
    <2>2. PICK bs : bs = blocks
      OBVIOUS
    <2>3. Attempt(t, s, bs, q) /\ attempts' = attempts /\ circuit' = circuit
      BY <1>6, <2>1, <2>2
    <2>4. Fits(t, s)'
      <3>1. Fits(t, s)
        BY <1>6 DEF Fits, t
      <3> QED BY <1>0, <1>1, <1>3, <3>1, FitsOn
    <2>5. Moves(t) /\ (Strolls(t) \/ Takes(t, s))
      <3>1. CASE TypeOf[s] = NoAgent
        <4>1. Rests(t) /\ assigned' = assigned
          BY <1>0, <1>3, <2>3, <3>1, Attempted, Numbers
        <4> QED BY <1>0, <1>1, <1>4, <2>3, <4>1, Strolling
      <3>2. CASE TypeOf[s] # NoAgent
        BY <1>0, <1>1, <1>3, <1>4, <2>3, <2>4, <3>2, AttemptTakes
      <3> QED BY <3>1, <3>2
    <2>6. ReaperWalks
      BY <1>0, <1>1, <1>3, <1>6, ReaperStays DEF Walker
    <2>7. TypeOK'
      <3>1. /\ inbox' \in Seq(Event) /\ chain' \in [Task -> Chain]
            /\ assigned' \in [Sub -> Agent \cup {NoAgent}]
            /\ leases' \in Nat /\ leases' >= leases
        BY <1>0, <1>3, <2>3, AttemptTyped
      <3>2. scan' \in [Walker -> [stages : Seq(Stage), left : SUBSET Sub]]
        BY <1>0, <1>3, <1>6, VisitedTyped
      <3> QED BY <1>0, <1>1, <2>3, <3>1, <3>2 DEF TypeOK, Walker
    <2> QED BY <1>1, <1>3, <2>5, <2>6, <2>7 DEF Step, LedgerMoves
  <1>7. CASE /\ StageOf(s) \in {"assigned", "in_progress"}
             /\ PublishLeaseExpired(t, s) /\ UNCHANGED leases
    <2>1. blocks[s].lease # NoLease
      BY <1>3, <1>7 DEF Acts, Due, StageOf, t
    <2>2. Fits(t, s)
      BY <1>7 DEF Fits, Past, t
    <2> QED BY <1>0, <1>1, <1>3, <1>7, <2>1, <2>2, ExpiredStep
  <1> QED BY <1>2, <1>5, <1>6, <1>7

-----------------------------------------------------------------------------
(* The steps no chain takes. *)

(* Starting up, and time passing, concern no chain. *)
LEMMA StartStep ==
  ASSUME IInv, Start \/ LeaseRunsOut \/ UNCHANGED vars
  PROVE  /\ TypeOK' /\ UNCHANGED <<inbox, blocks, chain, scan, attempts, assigned,
                                   born, turnedAway>>
         /\ phase' = phase \/ Start
  <1>1. CASE Start
    BY <1>1 DEF Start, IInv, TypeOK, ledger, walk, supervisor, clock, client
  <1>2. CASE LeaseRunsOut
    BY <1>2 DEF LeaseRunsOut, IInv, TypeOK, ledger, walk, supervisor, client, process
  <1>3. CASE UNCHANGED vars
    BY <1>3 DEF vars, IInv, TypeOK, ledger, walk, supervisor, clock, client, process
  <1> QED BY <1>1, <1>2, <1>3

LEMMA CrashStep ==
  ASSUME IInv, Crash
  PROVE  /\ TypeOK' /\ phase' = "recovering" /\ inbox' = <<>>
         /\ blocks' = blocks /\ born' = born
         /\ \A t \in Task : /\ chain'[t].pc \in {"idle", "turn"}
                            /\ t # "recovery" => chain'[t].pc = "idle"
                            /\ chain'[t].todo = <<>>
         /\ scan'["reaper"] = NoScan
         /\ \A s \in Sub : /\ attempts'[s] = 0 /\ assigned'[s] = NoAgent
                           /\ turnedAway'[s] = 0
  <1>0. TypeOK
    BY DEF IInv
  <1>1. /\ phase' = "recovering" /\ inbox' = <<>> /\ blocks' = blocks /\ born' = born
        /\ leases' = leases /\ expired' = expired
        /\ attempts' = [s \in Sub |-> 0] /\ assigned' = [s \in Sub |-> NoAgent]
        /\ turnedAway' = [s \in Sub |-> 0]
        /\ circuit' = [a \in Agent |-> Fresh("closed")]
        /\ chain' = [t \in Task |->
                        IF t = "recovery" THEN [Idle EXCEPT !.pc = "turn"] ELSE Idle]
        /\ scan' = [scan EXCEPT !["reaper"] = NoScan,
                                !["recovery"] = [stages |-> RecoveryStages, left |-> {}]]
    BY DEF Crash, clock, client
  <1>2. PICK turn \in Chain : /\ turn = [Idle EXCEPT !.pc = "turn"]
                              /\ turn.pc = "turn" /\ turn.todo = <<>>
    <2> DEFINE d == [Idle EXCEPT !.pc = "turn"]
    <2>1. "turn" \in Pc
      BY DEF Pc
    <2>2. d \in Chain /\ d.pc = "turn" /\ d.todo = <<>>
      BY <2>1, IdleIsChain, ChainExcept
    <2> QED BY <2>2
  <1>3. chain' = [t \in Task |-> IF t = "recovery" THEN turn ELSE Idle]
    BY <1>1, <1>2
  <1>4. /\ chain' \in [Task -> Chain]
        /\ \A t \in Task : /\ chain'[t].pc \in {"idle", "turn"}
                           /\ t # "recovery" => chain'[t].pc = "idle"
                           /\ chain'[t].todo = <<>>
    BY <1>2, <1>3, IdleIsChain
  <1>5. scan' \in [Walker -> [stages : Seq(Stage), left : SUBSET Sub]]
        /\ scan'["reaper"] = NoScan
    <2>1. scan \in [Walker -> [stages : Seq(Stage), left : SUBSET Sub]]
      BY <1>0 DEF TypeOK, Walker
    <2>2. NoScan \in [stages : Seq(Stage), left : SUBSET Sub]
      <3>1. <<>> \in Seq(Stage)
        OBVIOUS
      <3> QED BY <3>1 DEF NoScan
    <2>3. [stages |-> RecoveryStages, left |-> {}]
             \in [stages : Seq(Stage), left : SUBSET Sub]
      <3>1. RecoveryStages \in Seq(Stage)
        <4>1. <<"queued", "validating", "accepted">> \in Seq(Stage)
          BY DEF Stage
        <4>2. <<"assigned", "in_progress">> \in Seq(Stage)
          BY DEF Stage
        <4> QED BY <4>1, <4>2 DEF RecoveryStages, LeaseStages
      <3> QED BY <3>1
    <2> QED BY <1>1, <2>1, <2>2, <2>3 DEF Walker
  <1>6. Fresh("closed") \in Circuit
    <2>1. <<>> \in Seq(BOOLEAN)
      OBVIOUS
    <2> QED BY <2>1 DEF Fresh, Circuit, CircuitState
  <1>7. TypeOK'
    <2>1. /\ attempts' \in [Sub -> 0 .. MaxRetries] /\ turnedAway' \in [Sub -> Nat]
          /\ assigned' \in [Sub -> Agent \cup {NoAgent}]
          /\ circuit' \in [Agent -> Circuit]
      BY <1>1, <1>6, Numbers
    <2>2. inbox' \in Seq(Event)
      BY <1>1
    <2> QED BY <1>0, <1>1, <1>4, <1>5, <2>1, <2>2 DEF TypeOK, Walker
  <1> QED BY <1>1, <1>4, <1>5, <1>7, Numbers

-----------------------------------------------------------------------------
(* What every Step keeps. *)

LEMMA ApartKept ==
  ASSUME IInv, NEW t \in Task, Step(t)
  PROVE  ChainsApart'
  <1>1. Moves(t) /\ ChainsApart /\ phase \in {"up", "recovering"}
    BY DEF Step, IInv, TypeOK
  <1>2. phase' = phase /\ \A u \in Task : u # t => chain'[u] = chain[u]
    BY <1>1 DEF Moves, Others
  <1>3. chain'["client"].pc \in {"idle", "judge", "decompose"}
    <2>1. CASE t = "client"
      BY <1>1, <2>1 DEF Moves
    <2>2. CASE t # "client"
      BY <1>1, <1>2, <2>2 DEF ChainsApart, Task
    <2> QED BY <2>1, <2>2
  <1>4. phase = "up" => chain'["recovery"].pc = "idle"
    BY <1>1, <1>2 DEF ChainsApart, Moves, Active, Task
  <1>5. phase = "recovering" => \A u \in Task \ {"recovery"} : chain'[u].pc = "idle"
    BY <1>1, <1>2 DEF ChainsApart, Moves, Active
  <1>6. \A u \in Task : chain'[u].pc \in {"exec", "backoff", "judge"}
                            => chain'[u].sub \in Sub
    BY <1>1, <1>2 DEF ChainsApart, Moves
  <1> QED BY <1>2, <1>3, <1>4, <1>5, <1>6 DEF ChainsApart

(* The chains that do not take the step keep what they work on. *)
LEMMA OthersBusy ==
  ASSUME NEW t \in Task, Others(t), NEW u \in Task \ {t}, NEW s \in Sub
  PROVE  /\ Busy(u, s)' <=> Busy(u, s)
         /\ Executing(u, s)' <=> Executing(u, s)
  BY DEF Others, Busy, Executing

LEMMA BusyOnce ==
  ASSUME NEW t \in Task, NEW s \in Sub, NEW r \in Sub, Busy(t, s)', Busy(t, r)'
  PROVE  r = s
  BY DEF Busy

LEMMA FitKept ==
  ASSUME IInv, NEW t \in Task, Step(t)
  PROVE  /\ StagesFit'
         /\ \A u \in Task : \A s \in Sub : Busy(u, s)' => TypeOf[s] # NoAgent
  <1>1. /\ Moves(t) /\ LedgerMoves(t) /\ ReaperWalks
        /\ Strolls(t) \/ \E s \in Sub : Takes(t, s) \/ Leaves(t, s)
    BY DEF Step
  <1>2. Others(t) /\ Active(t)
    BY <1>1 DEF Moves
  <1>3. ASSUME NEW r \in Sub, Busy(t, r)'
        PROVE  Fits(t, r)' /\ TypeOf[r] # NoAgent
    <2>1. PICK s \in Sub : Takes(t, s)
      BY <1>1, <1>3 DEF Strolls, Leaves
    <2>2. Busy(t, s)' /\ Fits(t, s)' /\ TypeOf[s] # NoAgent
      BY <2>1 DEF Takes
    <2>3. r = s
      BY <1>3, <2>2, BusyOnce
    <2> QED BY <2>2, <2>3
  <1>4. ASSUME NEW u \in Task \ {t}, NEW r \in Sub, Busy(u, r)'
        PROVE  Fits(u, r)' /\ TypeOf[r] # NoAgent
    <2>1. Busy(u, r)
      BY <1>2, <1>4, OthersBusy
    <2>2. Fits(u, r) /\ TypeOf[r] # NoAgent
      BY <2>1 DEF IInv, StagesFit, Routed
    <2>3. CASE blocks' = blocks
      BY <2>2, <2>3, FitsOn
    <2>4. CASE t = "writer" /\ \A s \in Sub : StageOf(s) \in Past => (StageOf(s))' \in Past
      <3>1. u # "writer"
        BY <2>4
      <3>2. phase = "up"
        BY <1>2, <2>4 DEF Active
      <3>3. chain[u].pc # "idle"
        BY <2>1 DEF Busy
      <3>4. u # "recovery"
        BY <3>2, <3>3 DEF IInv, ChainsApart
      <3>5. u = "reaper" /\ StageOf(r) \in Past
        BY <2>2, <3>1, <3>4 DEF Fits
      <3>6. (StageOf(r))' \in Past
        BY <2>4, <3>5
      <3> QED BY <2>2, <3>5, <3>6 DEF Fits
    <2> QED BY <1>1, <2>2, <2>3, <2>4 DEF LedgerMoves
  <1>5. \A u \in Task : \A s \in Sub : Busy(u, s)' => Fits(u, s)' /\ TypeOf[s] # NoAgent
    BY <1>3, <1>4
  <1> QED BY <1>1, <1>5 DEF StagesFit, ReaperWalks

(* After a step, two chains that fit the same subproblem are the same.     *)
LEMMA Exclusive ==
  ASSUME ChainsApart', NEW t \in Task, NEW u \in Task, NEW s \in Sub,
         phase' \in {"up", "recovering"},
         Active(t)', Fits(t, s)', Busy(u, s)', Fits(u, s)'
  PROVE  u = t
  <1>1. chain'[u].pc # "idle"
    BY DEF Busy
  <1>2. CASE phase' = "up"
    <2>1. t # "recovery" /\ u # "recovery"
      BY <1>1, <1>2 DEF Active, ChainsApart
    <2> QED BY <2>1 DEF Fits, Past
  <1>3. CASE phase' = "recovering"
    <2>1. t = "recovery" /\ u = "recovery"
      BY <1>1, <1>3 DEF Active, ChainsApart
    <2> QED BY <2>1
  <1> QED BY <1>2, <1>3

LEMMA SupervisedKept ==
  ASSUME IInv, TypeOK', NEW t \in Task, Step(t)
  PROVE  Supervised'
  <1>1. /\ Moves(t)
        /\ Strolls(t) \/ \E s \in Sub : Takes(t, s) \/ Leaves(t, s)
    BY DEF Step
  <1>2. Others(t) /\ Active(t) /\ phase' = phase /\ phase \in {"up", "recovering"}
    BY <1>1 DEF Moves, IInv, TypeOK
  <1>3. ChainsApart' /\ StagesFit' /\ Active(t)'
    BY <1>2, ApartKept, FitKept DEF Active
  <1>4. /\ \A u \in Task : \A s \in Sub : Executing(u, s) => assigned[s] = TypeOf[s]
        /\ \A s \in Sub : attempts[s] > 0 \/ assigned[s] # NoAgent
                             => \E u \in Task : Busy(u, s)
    BY DEF IInv, Supervised, OutcomesAttributed, NoStaleSupervision
  <1>5. CASE Strolls(t)
    <2>1. ASSUME NEW u \in Task, NEW s \in Sub
          PROVE  /\ Busy(u, s)' <=> Busy(u, s)
                 /\ Executing(u, s)' <=> Executing(u, s)
      <3>1. CASE u = t
        BY <1>5, <3>1 DEF Strolls, Busy, Executing
      <3>2. CASE u # t
        BY <1>2, <3>2, OthersBusy
      <3> QED BY <3>1, <3>2
    <2>2. attempts' = attempts /\ assigned' = assigned
      BY <1>5 DEF Strolls
    <2>3. \A u \in Task : \A s \in Sub : Executing(u, s)' => assigned'[s] = TypeOf[s]
      BY <1>4, <2>1, <2>2
    <2>4. \A s \in Sub : attempts'[s] > 0 \/ assigned'[s] # NoAgent
                             => \E u \in Task : Busy(u, s)'
      BY <1>4, <2>1, <2>2
    <2> QED BY <2>3, <2>4 DEF Supervised, OutcomesAttributed, NoStaleSupervision
  <1>6. ASSUME NEW s \in Sub, Takes(t, s) \/ Leaves(t, s)
        PROVE  Supervised'
    <2>1. /\ Fits(t, s)' /\ OnlyFor(s) /\ \A r \in Sub \ {s} : ~Busy(t, r)
      BY <1>6 DEF Takes, Leaves
    <2>2. ASSUME NEW u \in Task \ {t}
          PROVE  ~Busy(u, s)'
      <3>1. SUFFICES ASSUME Busy(u, s)'
                     PROVE  FALSE
        OBVIOUS
      <3>2. Fits(u, s)'
        BY <1>3, <3>1 DEF StagesFit
      <3>3. u = t
        BY <1>2, <1>3, <2>1, <3>1, <3>2, Exclusive
      <3> QED BY <3>3
    <2>3. ASSUME NEW r \in Sub, attempts'[r] > 0 \/ assigned'[r] # NoAgent
          PROVE  \E u \in Task : Busy(u, r)'
      <3>1. CASE r = s
        <4>1. Takes(t, s)
          BY <1>6, <2>3, <3>1 DEF Leaves
        <4> QED BY <3>1, <4>1 DEF Takes
      <3>2. CASE r # s
        <4>1. attempts[r] > 0 \/ assigned[r] # NoAgent
          BY <2>1, <2>3, <3>2 DEF OnlyFor
        <4>2. PICK u \in Task : Busy(u, r)
          BY <1>4, <4>1
        <4>3. u # t
          BY <2>1, <3>2, <4>2
        <4> QED BY <1>2, <4>2, <4>3, OthersBusy
      <3> QED BY <3>1, <3>2
    <2>4. ASSUME NEW u \in Task, NEW r \in Sub, Executing(u, r)'
          PROVE  assigned'[r] = TypeOf[r]
      <3>0. Busy(u, r)'
        BY <2>4 DEF Executing, Busy
      <3>1. CASE u = t
        <4>1. Takes(t, s)
          BY <1>6, <3>0, <3>1 DEF Leaves
        <4>2. r = s
          BY <3>0, <3>1, <4>1, BusyOnce DEF Takes
        <4> QED BY <2>4, <3>1, <4>1, <4>2 DEF Takes, Executing
      <3>2. CASE u # t
        <4>1. r # s
          BY <2>2, <3>0, <3>2
        <4>2. Executing(u, r)
          BY <1>2, <2>4, <3>2, OthersBusy
        <4> QED BY <1>4, <2>1, <4>1, <4>2 DEF OnlyFor
      <3> QED BY <3>1, <3>2
    <2> QED BY <2>3, <2>4 DEF Supervised, OutcomesAttributed, NoStaleSupervision
  <1> QED BY <1>1, <1>5, <1>6

-----------------------------------------------------------------------------
(* The queue: what an event added, or taken, does to what it proposes and  *)
(* to whom it assigns.                                                     *)

RoutedEvent(e) == e.kind = "assigned" => TypeOf[e.sub] # NoAgent

(* q2 proposes nothing that q does not, and assigns as q does. *)
Calm(q, q2) ==
  /\ RoutedQueue(q) => RoutedQueue(q2)
  /\ \A s \in Sub : /\ Mentions(q2, s) => Mentions(q, s)
                    /\ Single(q, s) => Single(q2, s)

LEMMA CalmTwice ==
  ASSUME NEW q, NEW q2, NEW q3, Calm(q, q2), Calm(q2, q3)
  PROVE  Calm(q, q3)
  BY DEF Calm

LEMMA AppendRouted ==
  ASSUME NEW q \in Seq(Event), NEW e \in Event, RoutedEvent(e), RoutedQueue(q)
  PROVE  RoutedQueue(Append(q, e))
  <1> DEFINE q2 == Append(q, e)
  <1>1. /\ Len(q) \in Nat /\ Len(q2) = Len(q) + 1
        /\ \A i \in 1 .. Len(q) : q2[i] = q[i]
        /\ q2[Len(q) + 1] = e
    BY Added
  <1> SUFFICES ASSUME NEW i \in 1 .. Len(q2), q2[i].kind = "assigned"
               PROVE  TypeOf[q2[i].sub] # NoAgent
    BY DEF RoutedQueue
  <1> HIDE DEF q2
  <1>2. CASE i \in 1 .. Len(q)
    BY <1>1, <1>2 DEF RoutedQueue
  <1>3. CASE i = Len(q) + 1
    BY <1>1, <1>3 DEF RoutedEvent
  <1> QED BY <1>1, <1>2, <1>3

(* Adding an event: a proposal is new, and the only one if none waited.    *)
LEMMA AppendMentions ==
  ASSUME NEW q \in Seq(Event), NEW e \in Event, NEW s \in Sub
  PROVE  LET q2 == Append(q, e)
             new == e.kind = "proposed" /\ e.sub = s
         IN  /\ Mentions(q2, s) <=> Mentions(q, s) \/ new
             /\ Single(q, s) /\ (new => ~Mentions(q, s)) => Single(q2, s)
  <1> DEFINE q2 == Append(q, e)
             new == e.kind = "proposed" /\ e.sub = s
  <1>1. /\ Len(q) \in Nat /\ Len(q2) = Len(q) + 1
        /\ \A i \in 1 .. Len(q) : q2[i] = q[i]
        /\ q2[Len(q) + 1] = e
    BY Added
  <1> HIDE DEF q2
  <1>2. \A i \in 1 .. Len(q) : Proposal(q2, i, s) <=> Proposal(q, i, s)
    BY <1>1 DEF Proposal
  <1>3. Proposal(q2, Len(q) + 1, s) <=> new
    BY <1>1 DEF Proposal
  <1>4. 1 .. Len(q2) = (1 .. Len(q)) \cup {Len(q) + 1}
    BY <1>1
  <1>5. Mentions(q2, s) <=> Mentions(q, s) \/ new
    BY <1>2, <1>3, <1>4 DEF Mentions
  <1>6. ASSUME Single(q, s), new => ~Mentions(q, s)
        PROVE  Single(q2, s)
    <2> SUFFICES ASSUME NEW i \in 1 .. Len(q2), NEW j \in 1 .. Len(q2),
                        Proposal(q2, i, s), Proposal(q2, j, s)
                 PROVE  i = j
      BY DEF Single
    <2>1. CASE i \in 1 .. Len(q) /\ j \in 1 .. Len(q)
      BY <1>2, <1>6, <2>1 DEF Single
    <2>2. CASE i = Len(q) + 1 /\ j = Len(q) + 1
      BY <2>2
    <2>3. CASE i = Len(q) + 1 /\ j \in 1 .. Len(q)
      BY <1>2, <1>3, <1>6, <2>3 DEF Mentions
    <2>4. CASE i \in 1 .. Len(q) /\ j = Len(q) + 1
      BY <1>2, <1>3, <1>6, <2>4 DEF Mentions
    <2> QED BY <1>4, <2>1, <2>2, <2>3, <2>4
  <1> QED BY <1>5, <1>6 DEF q2

LEMMA AppendCalm ==
  ASSUME NEW q \in Seq(Event), NEW e \in Event, RoutedEvent(e), e.kind # "proposed"
  PROVE  Calm(q, Append(q, e))
  BY AppendRouted, AppendMentions DEF Calm

LEMMA TailMentions ==
  ASSUME NEW q \in Seq(Event), q # <<>>, NEW s \in Sub
  PROVE  /\ Mentions(Tail(q), s) => Mentions(q, s)
         /\ Single(q, s) => Single(Tail(q), s)
         /\ Proposal(q, 1, s) => Mentions(q, s)
         /\ Proposal(q, 1, s) /\ Single(q, s) => ~Mentions(Tail(q), s)
  <1> DEFINE q2 == Tail(q)
  <1>1. /\ Len(q) \in Nat \ {0} /\ Len(q2) = Len(q) - 1
        /\ \A i \in 1 .. Len(q2) : i + 1 \in 1 .. Len(q) /\ q2[i] = q[i + 1]
    BY Taken
  <1> HIDE DEF q2
  <1>2. \A i \in 1 .. Len(q2) : /\ i + 1 \in 1 .. Len(q) /\ i + 1 # 1
                                /\ Proposal(q2, i, s) <=> Proposal(q, i + 1, s)
    BY <1>1 DEF Proposal
  <1>3. Mentions(q2, s) => Mentions(q, s)
    BY <1>2 DEF Mentions
  <1>4. Single(q, s) => Single(q2, s)
    <2> SUFFICES ASSUME Single(q, s), NEW i \in 1 .. Len(q2), NEW j \in 1 .. Len(q2),
                        Proposal(q2, i, s), Proposal(q2, j, s)
                 PROVE  i = j
      BY DEF Single
    <2>1. i + 1 = j + 1
      BY <1>2 DEF Single
    <2> QED BY <1>1, <2>1
  <1>5. Proposal(q, 1, s) => Mentions(q, s)
    BY <1>1 DEF Mentions
  <1>6. ASSUME Proposal(q, 1, s), Single(q, s), Mentions(q2, s)
        PROVE  FALSE
    <2>1. PICK i \in 1 .. Len(q2) : Proposal(q2, i, s)
      BY <1>6 DEF Mentions
    <2>2. i + 1 = 1
      BY <1>1, <1>2, <1>6, <2>1 DEF Single
    <2> QED BY <1>2, <2>2
  <1> QED BY <1>3, <1>4, <1>5, <1>6 DEF q2

LEMMA TailCalm ==
  ASSUME NEW q \in Seq(Event), q # <<>>
  PROVE  Calm(q, Tail(q))
  <1>1. /\ Len(q) \in Nat \ {0} /\ Len(Tail(q)) = Len(q) - 1
        /\ \A i \in 1 .. Len(Tail(q)) : i + 1 \in 1 .. Len(q) /\ Tail(q)[i] = q[i + 1]
    BY Taken
  <1>2. RoutedQueue(q) => RoutedQueue(Tail(q))
    BY <1>1 DEF RoutedQueue
  <1> QED BY <1>2, TailMentions DEF Calm

LEMMA AttemptCalm ==
  ASSUME TypeOK, NEW t \in Task, NEW s \in Sub, NEW bs, NEW q \in Seq(Event),
         Attempt(t, s, bs, q)
  PROVE  Calm(q, inbox')
  <1>1. CASE inbox' = q
    BY <1>1 DEF Calm
  <1>2. CASE inbox' = Append(q, Item("unroutable", s))
    <2>1. Item("unroutable", s) \in Event
      BY EventsMade DEF SimpleKind
    <2>2. RoutedEvent(Item("unroutable", s)) /\ Item("unroutable", s).kind # "proposed"
      BY DEF Item, RoutedEvent
    <2> QED BY <1>2, <2>1, <2>2, AppendCalm
  <1>3. CASE /\ TypeOf[s] \in Agent
             /\ \E l \in Lease :
                   inbox' = Append(q, [kind |-> "assigned", sub |-> s,
                                       agent |-> TypeOf[s], lease |-> l])
    <2>1. PICK l \in Lease :
             inbox' = Append(q, [kind |-> "assigned", sub |-> s,
                                 agent |-> TypeOf[s], lease |-> l])
      BY <1>3
    <2> DEFINE e == [kind |-> "assigned", sub |-> s, agent |-> TypeOf[s], lease |-> l]
    <2>2. e \in Event
      BY <1>3, EventsMade
    <2>3. RoutedEvent(e) /\ e.kind # "proposed"
      BY <1>3, Numbers DEF RoutedEvent
    <2> QED BY <2>1, <2>2, <2>3, AppendCalm
  <1> QED BY <1>1, <1>2, <1>3, Attempted

-----------------------------------------------------------------------------
(* A calm step proposes nothing new and counts nothing.                    *)

LeasesRouted ==
  \A s \in Sub : blocks[s] # NoBlock /\ blocks[s].lease # NoLease
                    => TypeOf[s] # NoAgent

TodoCalm == \A t \in Task : chain'[t].todo \in {chain[t].todo, <<>>}

Calmed ==
  /\ Calm(inbox, inbox') /\ TodoCalm
  /\ born' = born /\ turnedAway' = turnedAway
  /\ \A s \in Sub : blocks'[s] = NoBlock <=> blocks[s] = NoBlock
  /\ LeasesRouted'

Counted == RoutedQueue(inbox) /\ LeasesRouted /\ ProposedOnce

LEMMA CalmKeeps ==
  ASSUME IInv, TypeOK', Calmed
  PROVE  Counted'
  <1>1. /\ Calm(inbox, inbox') /\ TodoCalm /\ born' = born /\ turnedAway' = turnedAway
        /\ \A s \in Sub : blocks'[s] = NoBlock <=> blocks[s] = NoBlock
        /\ LeasesRouted' /\ RoutedQueue(inbox) /\ ProposedOnce
    BY DEF Calmed, IInv, Routed
  <1>2. RoutedQueue(inbox')
    BY <1>1 DEF Calm
  <1>3. \A s \in Sub : Told(s)' => Told(s)
    BY <1>1 DEF Told, Calm
  <1>4. \A t \in Task : \A s \in Sub : Listed(t, s)' => Listed(t, s)
    BY <1>1 DEF Listed, TodoCalm
  <1>5. \A s \in Sub :
           /\ s > born' => ~Told(s)'
           /\ turnedAway'[s] <= 1
           /\ turnedAway'[s] > 0 => blocks'[s] = NoBlock /\ ~Mentions(inbox', s)
           /\ blocks'[s] = NoBlock => Single(inbox', s)
    BY <1>1, <1>3 DEF Calm, ProposedOnce
  <1>6. \A t \in Task : \A s \in Sub : Listed(t, s)' => s <= born' /\ ~Told(s)'
    BY <1>1, <1>3, <1>4 DEF ProposedOnce
  <1>7. \A t, u \in Task : \A s \in Sub : Listed(t, s)' /\ Listed(u, s)' => t = u
    BY <1>1, <1>4 DEF ProposedOnce
  <1>8. \A t \in Task : \A i, j \in 1 .. Len(chain'[t].todo) :
           chain'[t].todo[i] = chain'[t].todo[j] => i = j
    BY <1>1 DEF ProposedOnce, TodoCalm
  <1> QED BY <1>1, <1>2, <1>5, <1>6, <1>7, <1>8 DEF Counted, ProposedOnce

LEMMA StandsCalm ==
  ASSUME NEW t \in Task,
         Rests(t) \/ \E pc, s : Stands(t, pc, s, <<>>)
  PROVE  TodoCalm
  BY DEF Rests, Stands, Others, TodoCalm

LEMMA LedgerCalm ==
  ASSUME IInv, blocks' = blocks
  PROVE  /\ \A s \in Sub : blocks'[s] = NoBlock <=> blocks[s] = NoBlock
         /\ LeasesRouted'
  BY DEF IInv, Routed, LeasesRouted

(* An event that is neither a proposal nor an assignment is calm. *)
LEMMA PlainCalm ==
  ASSUME TypeOK, NEW e \in Event, e.kind \notin {"proposed", "assigned"},
         inbox' = Append(inbox, e)
  PROVE  Calm(inbox, inbox')
  <1>1. inbox \in Seq(Event) /\ RoutedEvent(e)
    BY DEF TypeOK, RoutedEvent
  <1> QED BY <1>1, AppendCalm

LEMMA WakeUpCalm ==
  ASSUME IInv, NEW t \in Task, WakeUp(t)
  PROVE  Calmed
  <1>0. TypeOK /\ inbox \in Seq(Event)
    BY DEF IInv, TypeOK
  <1>a. PICK s \in Sub : s = chain[t].sub
    BY AtWork DEF WakeUp, At
  <1>1. blocks[s] \in Block
    BY <1>a, AtWork DEF WakeUp, At
  <1>2. /\ Attempt(t, s, blocks, inbox) /\ blocks' = blocks
        /\ born' = born /\ turnedAway' = turnedAway
    BY <1>a, <1>1, Numbers DEF WakeUp, ledger, client
  <1>3. PICK bs : bs = blocks
    OBVIOUS
  <1>4. Attempt(t, s, bs, inbox)
    BY <1>2, <1>3
  <1>5. PICK q \in Seq(Event) : q = inbox
    BY <1>0
  <1>6. Calm(inbox, inbox')
    BY <1>0, <1>4, <1>5, AttemptCalm
  <1>7. TodoCalm
    BY <1>0, <1>4, Attempted, StandsCalm
  <1> QED BY <1>2, <1>6, <1>7, LedgerCalm DEF Calmed

LEMMA HeartbeatCalm ==
  ASSUME IInv, NEW t \in Task, Heartbeat(t)
  PROVE  Calmed
  <1>0. TypeOK
    BY DEF IInv
  <1>a. PICK s \in Sub : s = chain[t].sub
    BY AtWork DEF Heartbeat, At
  <1>1. /\ inbox' = Append(inbox, Item("heartbeat", s)) /\ blocks' = blocks
        /\ born' = born /\ turnedAway' = turnedAway
        /\ chain' = [chain EXCEPT ![t] = [chain[t] EXCEPT !.beat = TRUE]]
    BY <1>a DEF Heartbeat, Suspend, ledger, client
  <1>2. Item("heartbeat", s) \in Event /\ Item("heartbeat", s).kind = "heartbeat"
    BY EventsMade DEF SimpleKind, Item
  <1>3. Calm(inbox, inbox')
    BY <1>0, <1>1, <1>2, PlainCalm
  <1>4. TodoCalm
    <2>1. chain \in [Task -> Chain] /\ chain[t] \in Chain
      BY <1>0 DEF TypeOK
    <2>2. [chain[t] EXCEPT !.beat = TRUE].todo = chain[t].todo
      BY <2>1, ChainExcept
    <2> QED BY <1>1, <2>1, <2>2 DEF TodoCalm
  <1> QED BY <1>1, <1>3, <1>4, LedgerCalm DEF Calmed

LEMMA CompletesCalm ==
  ASSUME IInv, NEW t \in Task, WorkerCompletes(t)
  PROVE  Calmed
  <1>0. TypeOK
    BY DEF IInv
  <1>a. PICK s \in Sub : s = chain[t].sub
    BY AtWork DEF WorkerCompletes, At
  <1>1. /\ blocks' = blocks /\ born' = born /\ turnedAway' = turnedAway /\ Return(t)
    BY DEF WorkerCompletes, ledger, client
  <1>2. PICK r \in Result :
           inbox' = Append(inbox, [kind |-> "completed", sub |-> s, result |-> r])
    BY <1>a DEF WorkerCompletes
  <1>3. [kind |-> "completed", sub |-> s, result |-> r] \in Event
    BY EventsMade
  <1>4. Calm(inbox, inbox')
    BY <1>0, <1>2, <1>3, PlainCalm
  <1>5. TodoCalm
    BY <1>0, <1>1, ReturnRests, StandsCalm
  <1> QED BY <1>1, <1>4, <1>5, LedgerCalm DEF Calmed

LEMMA FailsCalm ==
  ASSUME IInv, NEW t \in Task, WorkerFails(t)
  PROVE  Calmed
  <1>0. TypeOK
    BY DEF IInv
  <1>a. PICK s \in Sub : s = chain[t].sub
    BY AtWork DEF WorkerFails, At
  <1>1. blocks' = blocks /\ born' = born /\ turnedAway' = turnedAway
    BY DEF WorkerFails, ledger, client
  <1>2. PICK retriable \in BOOLEAN :
           /\ inbox' = Append(inbox, [kind |-> "failed", sub |-> s,
                                      retriable |-> retriable])
           /\ RetryOrEscalate(t, s, retriable)
    BY <1>a DEF WorkerFails
  <1>3. [kind |-> "failed", sub |-> s, retriable |-> retriable] \in Event
    BY EventsMade
  <1>4. Calm(inbox, inbox')
    BY <1>0, <1>2, <1>3, PlainCalm
  <1>5. TodoCalm
    BY <1>0, <1>2, Supervision, StandsCalm
  <1> QED BY <1>1, <1>4, <1>5, LedgerCalm DEF Calmed

(* Actions that leave the queue and the ledger alone. *)
LEMMA StillCalm ==
  ASSUME IInv, inbox' = inbox, blocks' = blocks, born' = born,
         turnedAway' = turnedAway, TodoCalm
  PROVE  Calmed
  BY LedgerCalm DEF Calmed, Calm

LEMMA OutsideCalm ==
  ASSUME IInv, Submit \/ (\E t \in Walker : NextStage(t)) \/ Poll
               \/ Start \/ LeaseRunsOut \/ UNCHANGED vars
  PROVE  Calmed
  <1>0. TypeOK
    BY DEF IInv
  <1>1. CASE Submit
    <2>1. /\ Suspend("client", Wait("decompose", 0)) /\ inbox' = inbox
          /\ blocks' = blocks /\ born' = born /\ turnedAway' = turnedAway
      BY <1>1 DEF Submit, ledger
    <2>2. TodoCalm
      <3>1. "client" \in Task /\ 0 \in 0 .. MaxSub /\ "decompose" \in Pc
        BY Numbers DEF Task, Pc
      <3> QED BY <1>0, <2>1, <3>1, WaitStands, StandsCalm
    <2> QED BY <2>1, <2>2, StillCalm
  <1>2. ASSUME NEW t \in Walker, NextStage(t)
        PROVE  Calmed
    <2>1. /\ t \in Task /\ Return(t) /\ inbox' = inbox
          /\ blocks' = blocks /\ born' = born /\ turnedAway' = turnedAway
      BY <1>2 DEF NextStage, ledger, client, Walker, Task
    <2> QED BY <1>0, <2>1, ReturnRests, StandsCalm, StillCalm
  <1>3. CASE Poll
    <2>1. /\ "reaper" \in Task /\ Return("reaper") /\ inbox' = inbox
          /\ blocks' = blocks /\ born' = born /\ turnedAway' = turnedAway
      BY <1>3 DEF Poll, ledger, client, Task
    <2> QED BY <1>0, <2>1, ReturnRests, StandsCalm, StillCalm
  <1>4. CASE Start \/ LeaseRunsOut \/ UNCHANGED vars
    <2>1. UNCHANGED <<inbox, blocks, chain, born, turnedAway>>
      BY <1>4, StartStep
    <2> QED BY <2>1, StillCalm DEF TodoCalm
  <1> QED BY <1>1, <1>2, <1>3, <1>4

LEMMA ExpiredCalm ==
  ASSUME IInv, NEW t \in Walker, NEW s \in Sub, PublishLeaseExpired(t, s),
         blocks' = blocks, born' = born, turnedAway' = turnedAway
  PROVE  Calmed
  <1>0. TypeOK /\ t \in Task
    BY DEF IInv, Walker, Task
  <1>1. inbox' = Append(inbox, Item("lease_expired", s)) /\ RetryOrEscalate(t, s, TRUE)
    BY DEF PublishLeaseExpired
  <1>2. Item("lease_expired", s) \in Event
        /\ Item("lease_expired", s).kind = "lease_expired"
    BY EventsMade DEF SimpleKind, Item
  <1>3. Calm(inbox, inbox')
    BY <1>0, <1>1, <1>2, PlainCalm
  <1>4. TodoCalm
    BY <1>0, <1>1, Supervision, StandsCalm
  <1> QED BY <1>3, <1>4, LedgerCalm DEF Calmed

LEMMA ReapCalm ==
  ASSUME IInv, Reap
  PROVE  Calmed
  <1>1. blocks' = blocks /\ born' = born /\ turnedAway' = turnedAway
    BY DEF Reap, ledger, client
  <1>2. PICK s \in Sub : PublishLeaseExpired("reaper", s)
    BY DEF Reap, Pending, IInv, TypeOK
  <1> QED BY <1>1, <1>2, ExpiredCalm DEF Walker

LEMMA ReportCalm ==
  ASSUME IInv, ApplyReport
  PROVE  Calmed
  <1>0. TypeOK
    BY DEF IInv
  <1>1. /\ Turn(ReportKind) /\ NextTurn(<<>>)
        /\ UNCHANGED <<walk, supervisor, clock, client, turnedAway, process>>
    BY <1>0, ReportShape
  <1>2. /\ inbox' = Tail(inbox) /\ inbox \in Seq(Event) /\ inbox # <<>>
        /\ Rests("writer") /\ "writer" \in Task
    BY <1>0, <1>1, NextTurnShape, TurnTaken
  <1>3. Calm(inbox, inbox') /\ TodoCalm
    BY <1>2, TailCalm, StandsCalm
  <1>4. born' = born /\ turnedAway' = turnedAway
    BY <1>1 DEF client
  <1>5. CASE blocks' = blocks
    BY <1>3, <1>4, <1>5, LedgerCalm DEF Calmed
  <1>6. CASE ~(blocks' = blocks)
    <2>1. PICK s \in Sub, e \in Event :
             /\ e = Head(inbox) /\ s = e.sub
             /\ e.kind \in ReportKind /\ blocks[s] \in Block
             /\ blocks' = [blocks EXCEPT ![s] = AfterReport(blocks[s], e)]
      BY <1>0, <1>6, ReportShape
    <2>2. PICK b \in Block, c \in Block :
             /\ b = blocks[s] /\ c = AfterReport(b, e)
             /\ c.lease # b.lease => e.kind = "assigned"
      BY <2>1, ReportIsBlock
    <2>3. blocks' = [blocks EXCEPT ![s] = c] /\ blocks \in [Sub -> Block \cup {NoBlock}]
      BY <1>0, <2>1, <2>2 DEF TypeOK
    <2>4. \A r \in Sub : blocks'[r] = NoBlock <=> blocks[r] = NoBlock
      BY <2>2, <2>3, Numbers
    <2>5. e.kind = "assigned" => TypeOf[s] # NoAgent
      <3>1. RoutedQueue(inbox) /\ Head(inbox) = inbox[1] /\ 1 \in 1 .. Len(inbox)
        BY <1>2, Taken DEF IInv, Routed
      <3> QED BY <2>1, <3>1 DEF RoutedQueue
    <2>6. LeasesRouted'
      <3>1. LeasesRouted
        BY DEF LeasesRouted, IInv, Routed
      <3>2. ASSUME NEW r \in Sub, blocks'[r] # NoBlock, blocks'[r].lease # NoLease
            PROVE  TypeOf[r] # NoAgent
        <4>1. CASE r = s
          <5>1. blocks[r] # NoBlock /\ c.lease # NoLease
            BY <2>2, <2>3, <3>2, <4>1, Numbers
          <5>2. CASE c.lease = b.lease
            BY <2>2, <3>1, <4>1, <5>1, <5>2 DEF LeasesRouted
          <5>3. CASE c.lease # b.lease
            BY <2>2, <2>5, <4>1, <5>3
          <5> QED BY <5>2, <5>3
        <4>2. CASE r # s
          BY <2>3, <3>1, <3>2, <4>2 DEF LeasesRouted
        <4> QED BY <4>1, <4>2
      <3> QED BY <3>2 DEF LeasesRouted
    <2> QED BY <1>3, <1>4, <2>4, <2>6 DEF Calmed
  <1> QED BY <1>5, <1>6

LEMMA AcceptedCalm ==
  ASSUME IInv, ApplyAccepted
  PROVE  Calmed
  <1>0. TypeOK
    BY DEF IInv
  <1>1. Turn({"accepted"}) /\ born' = born /\ turnedAway' = turnedAway
    BY DEF ApplyAccepted, client
  <1>2. PICK s \in Sub : s = Head(inbox).sub
    BY <1>0, <1>1, TurnTaken, EventFields
  <1>3. "writer" \in Task /\ inbox \in Seq(Event) /\ inbox # <<>>
        /\ Tail(inbox) \in Seq(Event)
    BY <1>0, <1>1, TurnTaken
  <1>4. CASE StageOf(s) # "validating"
    <2>1. NextTurn(<<>>) /\ blocks' = blocks
      BY <1>2, <1>4 DEF ApplyAccepted
    <2>2. inbox' = Tail(inbox) /\ Rests("writer")
      BY <1>0, <1>1, <2>1, NextTurnShape
    <2>3. Calm(inbox, inbox') /\ TodoCalm
      BY <1>3, <2>2, TailCalm, StandsCalm
    <2> QED BY <1>1, <2>1, <2>3, LedgerCalm DEF Calmed
  <1>5. CASE StageOf(s) = "validating"
    <2>1. /\ blocks' = [blocks EXCEPT ![s] = AfterVerdict(@, "accepted")]
          /\ Attempt("writer", s, blocks', Append(Tail(inbox), Item("accepted", s)))
      BY <1>2, <1>5 DEF ApplyAccepted
    <2>2. PICK b \in Block : b = blocks[s] /\ b.stage = "validating"
      BY <1>0, <1>5 DEF StageOf, TypeOK
    <2>3. PICK c \in Block : c.lease = b.lease /\ blocks' = [blocks EXCEPT ![s] = c]
      BY <2>1, <2>2, VerdictIsBlock
    <2>4. Item("accepted", s) \in Event /\ Item("accepted", s).kind = "accepted"
      BY EventsMade DEF SimpleKind, Item
    <2>5. PICK q \in Seq(Event) : q = Append(Tail(inbox), Item("accepted", s))
      <3>1. Append(Tail(inbox), Item("accepted", s)) \in Seq(Event)
        BY <1>3, <2>4
      <3> QED BY <3>1
    <2>6. PICK bs : bs = blocks'
      OBVIOUS
    <2>7. Attempt("writer", s, bs, q)
      BY <2>1, <2>5, <2>6
    <2>8. Calm(inbox, inbox')
      <3>1. Calm(inbox, Tail(inbox))
        BY <1>3, TailCalm
      <3>2. Calm(Tail(inbox), q)
        BY <1>3, <2>4, <2>5, AppendCalm DEF RoutedEvent
      <3>3. Calm(q, inbox')
        BY <1>0, <1>3, <2>7, AttemptCalm
      <3> QED BY <3>1, <3>2, <3>3 DEF Calm
    <2>9. TodoCalm
      BY <1>0, <1>3, <2>7, Attempted, StandsCalm
    <2>10. blocks \in [Sub -> Block \cup {NoBlock}]
      BY <1>0 DEF TypeOK
    <2>11. \A r \in Sub : blocks'[r] = NoBlock <=> blocks[r] = NoBlock
      BY <2>2, <2>3, <2>10, Numbers
    <2>12. LeasesRouted'
      <3>1. \A r \in Sub : blocks[r] # NoBlock /\ blocks[r].lease # NoLease
                               => TypeOf[r] # NoAgent
        BY DEF IInv, Routed
      <3> QED BY <2>2, <2>3, <2>10, <3>1, Numbers DEF LeasesRouted
    <2> QED BY <1>1, <2>8, <2>9, <2>11, <2>12 DEF Calmed
  <1> QED BY <1>4, <1>5

(* Taking a proposal gives the subproblem a block or turns it away.        *)
LEMMA ProposedCounts ==
  ASSUME IInv, TypeOK', ApplyProposed
  PROVE  Counted'
  <1>0. TypeOK /\ ProposedOnce /\ RoutedQueue(inbox) /\ LeasesRouted
    BY DEF IInv, Routed, LeasesRouted
  <1>1. Turn({"proposed"}) /\ born' = born
    BY DEF ApplyProposed, client
  <1>2. PICK s \in Sub : s = Head(inbox).sub
    BY <1>0, <1>1, TurnTaken, EventFields
  <1>3. /\ "writer" \in Task /\ inbox \in Seq(Event) /\ inbox # <<>>
        /\ Tail(inbox) \in Seq(Event) /\ Head(inbox).kind = "proposed"
        /\ Head(inbox) = inbox[1]
    BY <1>0, <1>1, TurnTaken, Taken
  <1>4. Proposal(inbox, 1, s)
    BY <1>2, <1>3 DEF Proposal
  <1>5. Mentions(inbox, s) /\ Told(s) /\ turnedAway[s] = 0
    <2>1. Mentions(inbox, s)
      BY <1>3, <1>4, TailMentions
    <2>2. turnedAway[s] \in Nat
      BY <1>0 DEF TypeOK
    <2> QED BY <1>0, <2>1, <2>2 DEF Told, ProposedOnce
  <1>6. CASE NextTurn(<<>>) /\ blocks' = blocks /\ turnedAway' = turnedAway
    <2>1. inbox' = Tail(inbox) /\ Rests("writer")
      BY <1>0, <1>1, <1>6, NextTurnShape
    <2>2. Calm(inbox, inbox') /\ TodoCalm
      BY <1>3, <2>1, TailCalm, StandsCalm
    <2>3. Calmed
      BY <1>1, <1>6, <2>2, LedgerCalm DEF Calmed
    <2> QED BY <2>3, CalmKeeps
  <1>7. CASE \/ /\ NextTurn(<<>>) /\ blocks[s] = NoBlock
                /\ blocks' = [blocks EXCEPT ![s] = ValidatingBlock]
                /\ turnedAway' = turnedAway
             \/ /\ NextTurn(<<Item("rejected", s)>>) /\ blocks[s] = NoBlock
                /\ blocks' = blocks
                /\ turnedAway' = [turnedAway EXCEPT ![s] = @ + 1]
    <2>1. Item("rejected", s) \in Event /\ Item("rejected", s).kind = "rejected"
      BY EventsMade DEF SimpleKind, Item
    <2>2. inbox' \in {Tail(inbox), Append(Tail(inbox), Item("rejected", s))}
          /\ Rests("writer")
      BY <1>0, <1>1, <1>7, <2>1, NextTurnShape
    <2>3. Calm(Tail(inbox), inbox')
      <3>1. CASE inbox' = Tail(inbox)
        BY <3>1 DEF Calm
      <3>2. CASE inbox' = Append(Tail(inbox), Item("rejected", s))
        BY <1>3, <2>1, <3>2, AppendCalm DEF RoutedEvent
      <3> QED BY <2>2, <3>1, <3>2
    <2>4. Calm(inbox, Tail(inbox)) /\ TodoCalm
      BY <1>3, <2>2, TailCalm, StandsCalm
    <2>5. Calm(inbox, inbox')
      BY <2>3, <2>4 DEF Calm
    <2>6. ~Mentions(inbox', s)
      <3>1. Single(inbox, s)
        BY <1>0, <1>7 DEF ProposedOnce
      <3>2. ~Mentions(Tail(inbox), s)
        BY <1>3, <1>4, <3>1, TailMentions
      <3> QED BY <2>3, <3>2 DEF Calm
    <2>7. /\ blocks \in [Sub -> Block \cup {NoBlock}] /\ turnedAway \in [Sub -> Nat]
          /\ ValidatingBlock \in Block /\ ValidatingBlock.lease = NoLease
      BY <1>0, FreshIsBlock DEF TypeOK
    <2>8. /\ \A r \in Sub \ {s} : blocks'[r] = blocks[r] /\ turnedAway'[r] = turnedAway[r]
          /\ \/ blocks'[s] = ValidatingBlock /\ turnedAway'[s] = 0
             \/ blocks'[s] = NoBlock /\ turnedAway'[s] = 1
      BY <1>5, <1>7, <2>7
    <2>9. \A r \in Sub : Told(r)' => Told(r)
      BY <1>5, <2>5, <2>8 DEF Told, Calm
    <2>10. \A t \in Task : \A r \in Sub : Listed(t, r)' => Listed(t, r)
      BY <2>4 DEF Listed, TodoCalm
    <2>11. LeasesRouted'
      BY <1>0, <2>7, <2>8 DEF LeasesRouted
    <2>12. RoutedQueue(inbox')
      BY <1>0, <2>5 DEF Calm
    <2>13. \A r \in Sub :
             /\ r > born' => ~Told(r)'
             /\ turnedAway'[r] <= 1
             /\ turnedAway'[r] > 0 => blocks'[r] = NoBlock /\ ~Mentions(inbox', r)
             /\ blocks'[r] = NoBlock => Single(inbox', r)
      <3>1. ASSUME NEW r \in Sub
            PROVE  /\ turnedAway'[r] <= 1
                   /\ turnedAway'[r] > 0 => blocks'[r] = NoBlock /\ ~Mentions(inbox', r)
                   /\ blocks'[r] = NoBlock => Single(inbox', r)
        <4>1. CASE r = s
          BY <1>0, <1>7, <2>5, <2>6, <2>8, <4>1 DEF ProposedOnce, Calm
        <4>2. CASE r # s
          BY <1>0, <2>5, <2>8, <4>2 DEF ProposedOnce, Calm
        <4> QED BY <4>1, <4>2
      <3> QED BY <1>0, <1>1, <2>9, <3>1 DEF ProposedOnce
    <2>14. \A t \in Task : \A r \in Sub : Listed(t, r)' => r <= born' /\ ~Told(r)'
      BY <1>0, <1>1, <2>9, <2>10 DEF ProposedOnce
    <2>15. \A t, u \in Task : \A r \in Sub : Listed(t, r)' /\ Listed(u, r)' => t = u
      BY <1>0, <2>10 DEF ProposedOnce
    <2>16. \A t \in Task : \A i, j \in 1 .. Len(chain'[t].todo) :
             chain'[t].todo[i] = chain'[t].todo[j] => i = j
      BY <1>0, <2>4 DEF ProposedOnce, TodoCalm
    <2> QED BY <2>11, <2>12, <2>13, <2>14, <2>15, <2>16 DEF Counted, ProposedOnce
  <1> QED BY <1>2, <1>6, <1>7 DEF ApplyProposed, CountRejection

(* Proposing s, which has a block or never came up, and has been struck    *)
(* off the candidates.                                                     *)
LEMMA ProposingCounts ==
  ASSUME IInv, TypeOK', NEW q \in Seq(Event), Calm(inbox, q), NEW s \in Sub,
         inbox' = Append(q, Item("proposed", s)),
         blocks' = blocks, turnedAway' = turnedAway, born' >= born,
         s <= born', blocks[s] # NoBlock \/ ~Told(s),
         \A t \in Task : \A r \in Sub :
            Listed(t, r)' => r <= born' /\ r # s /\ ~Told(r),
         \A t, u \in Task : \A r \in Sub : Listed(t, r)' /\ Listed(u, r)' => t = u,
         \A t \in Task : \A i, j \in 1 .. Len(chain'[t].todo) :
            chain'[t].todo[i] = chain'[t].todo[j] => i = j
  PROVE  Counted'
  <1> DEFINE e == Item("proposed", s)
  <1>0. /\ TypeOK /\ ProposedOnce /\ RoutedQueue(inbox) /\ LeasesRouted
        /\ born \in Nat /\ born' \in Nat
    BY DEF IInv, Routed, LeasesRouted, TypeOK
  <1>1. e \in Event /\ e.kind = "proposed" /\ e.sub = s /\ RoutedEvent(e)
    BY EventsMade DEF SimpleKind, Item, RoutedEvent
  <1> HIDE DEF e
  <1>2. inbox' = Append(q, e)
    BY DEF e
  <1>3. RoutedQueue(inbox') /\ LeasesRouted'
    BY <1>0, <1>1, <1>2, AppendRouted DEF Calm, LeasesRouted
  <1>4. \A r \in Sub : /\ Mentions(inbox', r) => Mentions(inbox, r) \/ r = s
                       /\ Single(inbox, r) /\ (r = s => ~Mentions(inbox, r))
                             => Single(inbox', r)
    <2> TAKE r \in Sub
    <2>1. /\ Mentions(inbox', r) <=> Mentions(q, r) \/ s = r
          /\ Single(q, r) /\ (s = r => ~Mentions(q, r)) => Single(inbox', r)
      BY <1>1, <1>2, AppendMentions
    <2>2. Mentions(q, r) => Mentions(inbox, r)
      BY DEF Calm
    <2>3. Single(inbox, r) => Single(q, r)
      BY DEF Calm
    <2> QED BY <2>1, <2>2, <2>3
  <1>5. \A r \in Sub : Told(r)' => Told(r) \/ r = s
    BY <1>4 DEF Told
  <1>6. ASSUME NEW r \in Sub
        PROVE  /\ r > born' => ~Told(r)'
               /\ turnedAway'[r] <= 1
               /\ turnedAway'[r] > 0 => blocks'[r] = NoBlock /\ ~Mentions(inbox', r)
               /\ blocks'[r] = NoBlock => Single(inbox', r)
    <2>0. r \in Nat /\ s \in Nat
      BY Numbers
    <2>1. r > born' => ~Told(r)'
      <3>1. ASSUME r > born'
            PROVE  r # s /\ r > born
        BY <1>0, <2>0, <3>1
      <3> QED BY <1>0, <1>5, <3>1 DEF ProposedOnce
    <2>2. turnedAway'[r] <= 1
      BY <1>0 DEF ProposedOnce
    <2>3. ASSUME turnedAway'[r] > 0
          PROVE  blocks'[r] = NoBlock /\ ~Mentions(inbox', r)
      <3>1. turnedAway[r] > 0 /\ blocks[r] = NoBlock /\ ~Mentions(inbox, r) /\ Told(r)
        BY <1>0, <2>3 DEF ProposedOnce, Told
      <3>2. r # s
        BY <3>1
      <3> QED BY <1>4, <3>1, <3>2
    <2>4. ASSUME blocks'[r] = NoBlock
          PROVE  Single(inbox', r)
      <3>1. blocks[r] = NoBlock /\ Single(inbox, r)
        BY <1>0, <2>4 DEF ProposedOnce
      <3>2. r = s => ~Mentions(inbox, r)
        BY <3>1 DEF Told
      <3> QED BY <1>4, <3>1, <3>2
    <2> QED BY <2>1, <2>2, <2>3, <2>4
  <1>7. \A t \in Task : \A r \in Sub : Listed(t, r)' => r <= born' /\ ~Told(r)'
    BY <1>5
  <1> QED BY <1>3, <1>6, <1>7 DEF Counted, ProposedOnce

(* The candidates of other chains came up no later than now. *)
LEMMA OthersListed ==
  ASSUME NEW t \in Task, Others(t), NEW u \in Task \ {t}, NEW r \in Sub
  PROVE  Listed(u, r)' <=> Listed(u, r)
  BY DEF Others, Listed

LEMMA DecomposedCounts ==
  ASSUME IInv, TypeOK', NEW t \in Task, Decomposed(t)
  PROVE  Counted'
  <1>0. TypeOK /\ born \in Nat /\ inbox \in Seq(Event)
    BY DEF IInv, TypeOK
  <1>1. blocks' = blocks /\ turnedAway' = turnedAway
    BY DEF Decomposed, ledger
  <1>2. PICK n \in 0 .. Fanout :
           /\ born + n <= MaxSub /\ born' = born + n
           /\ IF n = 0 THEN inbox' = inbox /\ Return(t)
              ELSE /\ inbox' = Append(inbox, Item("proposed", born + 1))
                   /\ Suspend(t, [Wait("judge", born + 1) EXCEPT
                                     !.todo = [i \in 1 .. n - 1 |-> born + 1 + i]])
    BY DEF Decomposed
  <1>3. n \in Nat /\ MaxSub \in Nat
    BY Numbers, ChainAssumption DEF ChainAssumption
  <1>4. CASE n = 0
    <2>1. inbox' = inbox /\ born' = born /\ TodoCalm
      BY <1>0, <1>2, <1>4, ReturnRests, StandsCalm
    <2>2. Calmed
      BY <1>1, <2>1, StillCalm
    <2> QED BY <2>2, CalmKeeps
  <1>5. CASE n # 0
    <2> DEFINE todo == [i \in 1 .. n - 1 |-> born + 1 + i]
    <2>0. PICK s \in Sub : s = born + 1
      BY <1>0, <1>2, <1>3, <1>5, Numbers
    <2>1. todo \in Seq(Sub)
      <3>1. \A i \in 1 .. n - 1 : born + 1 + i \in Sub
        BY <1>0, <1>2, <1>3, Numbers
      <3>2. n - 1 \in Nat
        BY <1>3, <1>5
      <3> QED BY <3>1, <3>2
    <2>2. PICK new \in Seq(Sub) : new = todo
      BY <2>1
    <2>3. Len(new) = n - 1 /\ \A i \in 1 .. n - 1 : new[i] = born + 1 + i
      BY <1>3, <1>5, <2>2
    <2>4. Suspend(t, [Wait("judge", s) EXCEPT !.todo = new])
      BY <1>2, <1>5, <2>0, <2>2
    <2>5. Stands(t, "judge", s, new)
      BY <1>0, <2>4, JudgeStands
    <2>6. Others(t) /\ chain'[t].todo = new
      BY <2>5 DEF Stands
    <2>7. inbox' = Append(inbox, Item("proposed", s)) /\ Calm(inbox, inbox)
      BY <1>2, <1>5, <2>0 DEF Calm
    <2>8. ~Told(s) /\ s <= born' /\ born' >= born /\ s \in Nat
      BY <1>0, <1>2, <1>3, <1>5, <2>0, Numbers DEF IInv, ProposedOnce
    <2>9. ASSUME NEW r \in Sub, Listed(t, r)'
          PROVE  r <= born' /\ r # s /\ r > born /\ ~Told(r)
      <3>1. PICK i \in 1 .. n - 1 : r = born + 1 + i
        BY <2>3, <2>6, <2>9 DEF Listed
      <3>2. r <= born' /\ r # s /\ r > born
        BY <1>0, <1>2, <1>3, <2>0, <3>1
      <3> QED BY <3>2 DEF IInv, ProposedOnce
    <2>10. ASSUME NEW u \in Task \ {t}, NEW r \in Sub, Listed(u, r)'
           PROVE  r <= born' /\ r # s /\ r <= born /\ ~Told(r) /\ Listed(u, r)
      <3>1. Listed(u, r)
        BY <2>6, <2>10, OthersListed
      <3>2. r <= born /\ ~Told(r)
        BY <3>1 DEF IInv, ProposedOnce
      <3>3. r \in Nat
        BY Numbers
      <3> QED BY <1>0, <1>2, <1>3, <2>0, <3>1, <3>2, <3>3
    <2>11. \A u \in Task : \A r \in Sub :
             Listed(u, r)' => r <= born' /\ r # s /\ ~Told(r)
      BY <2>9, <2>10
    <2>12. \A u, v \in Task : \A r \in Sub : Listed(u, r)' /\ Listed(v, r)' => u = v
      <3> SUFFICES ASSUME NEW u \in Task, NEW v \in Task, NEW r \in Sub,
                          Listed(u, r)', Listed(v, r)', u # v
                   PROVE  FALSE
        OBVIOUS
      <3>0. r \in Nat
        BY Numbers
      <3>1. CASE u = t
        BY <1>0, <2>9, <2>10, <3>0, <3>1
      <3>2. CASE v = t
        BY <1>0, <2>9, <2>10, <3>0, <3>2
      <3>3. CASE u # t /\ v # t
        BY <2>10, <3>3 DEF IInv, ProposedOnce
      <3> QED BY <3>1, <3>2, <3>3
    <2>13. \A u \in Task : \A i, j \in 1 .. Len(chain'[u].todo) :
             chain'[u].todo[i] = chain'[u].todo[j] => i = j
      <3> SUFFICES ASSUME NEW u \in Task, NEW i \in 1 .. Len(chain'[u].todo),
                          NEW j \in 1 .. Len(chain'[u].todo),
                          chain'[u].todo[i] = chain'[u].todo[j]
                   PROVE  i = j
        OBVIOUS
      <3>1. CASE u = t
        BY <1>0, <1>3, <2>3, <2>6, <3>1
      <3>2. CASE u # t
        BY <2>6, <3>2 DEF Others, IInv, ProposedOnce
      <3> QED BY <3>1, <3>2
    <2>14. PICK q \in Seq(Event) : q = inbox
      BY <1>0
    <2> QED BY <1>1, <2>7, <2>8, <2>11, <2>12, <2>13, <2>14, ProposingCounts
  <1> QED BY <1>4, <1>5

LEMMA JudgedCounts ==
  ASSUME IInv, TypeOK', NEW t \in Task, Judged(t)
  PROVE  Counted'
  <1>0. TypeOK /\ born \in Nat /\ inbox \in Seq(Event)
    BY DEF IInv, TypeOK
  <1>1. blocks' = blocks /\ born' = born /\ chain[t].pc = "judge"
    BY DEF Judged, At, ledger, client
  <1>2. PICK s \in Sub, todo \in Seq(Sub) : s = chain[t].sub /\ todo = chain[t].todo
    BY <1>0, <1>1 DEF IInv, ChainsApart, TypeOK, Chain
  <1>3. PICK verdict \in {"accepted", "rejected"} :
           /\ turnedAway' = turnedAway
           /\ IF todo = <<>>
              THEN inbox' = Append(inbox, Item(verdict, s)) /\ Return(t)
              ELSE /\ inbox' = Append(Append(inbox, Item(verdict, s)),
                                      Item("proposed", Head(todo)))
                   /\ Suspend(t, [Wait("judge", Head(todo)) EXCEPT !.todo = Tail(todo)])
    BY <1>2 DEF Judged, CountRejection
  <1>4. Item(verdict, s) \in Event /\ Item(verdict, s).kind = verdict
    BY EventsMade DEF SimpleKind, Item
  <1>5. CASE todo = <<>>
    <2>1. Calm(inbox, inbox')
      BY <1>0, <1>3, <1>4, <1>5, PlainCalm
    <2>2. TodoCalm
      BY <1>0, <1>3, <1>5, ReturnRests, StandsCalm
    <2>3. Calmed
      BY <1>1, <1>3, <2>1, <2>2, LedgerCalm DEF Calmed
    <2> QED BY <2>3, CalmKeeps
  <1>6. CASE todo # <<>>
    <2>1. PICK q \in Seq(Event) : q = Append(inbox, Item(verdict, s))
      <3>1. Append(inbox, Item(verdict, s)) \in Seq(Event)
        BY <1>0, <1>4
      <3> QED BY <3>1
    <2>2. Calm(inbox, q)
      BY <1>0, <1>4, <2>1, AppendCalm DEF RoutedEvent
    <2>3. /\ Head(todo) \in Sub /\ Tail(todo) \in Seq(Sub) /\ Head(todo) = todo[1]
          /\ Len(todo) \in Nat \ {0} /\ Len(Tail(todo)) = Len(todo) - 1
          /\ \A i \in 1 .. Len(Tail(todo)) :
                i + 1 \in 1 .. Len(todo) /\ Tail(todo)[i] = todo[i + 1]
      BY <1>6
    <2>4. PICK r0 \in Sub, rest \in Seq(Sub) : r0 = Head(todo) /\ rest = Tail(todo)
      BY <2>3
    <2>5. /\ r0 = todo[1] /\ 1 \in 1 .. Len(todo) /\ Len(todo) \in Nat \ {0}
          /\ Len(rest) = Len(todo) - 1
          /\ \A i \in 1 .. Len(rest) :
                i + 1 \in 1 .. Len(todo) /\ rest[i] = todo[i + 1]
      BY <2>3, <2>4
    <2>6. Stands(t, "judge", r0, rest)
      BY <1>0, <1>3, <1>6, <2>4, JudgeStands
    <2>7. Others(t) /\ chain'[t].todo = rest
      BY <2>6 DEF Stands
    <2>8. inbox' = Append(q, Item("proposed", r0))
      BY <1>3, <1>6, <2>1, <2>4
    <2>9. Listed(t, r0)
      BY <1>2, <2>5 DEF Listed
    <2>10. \A i, j \in 1 .. Len(todo) : todo[i] = todo[j] => i = j
      BY <1>2 DEF IInv, ProposedOnce
    <2>11. ASSUME NEW r \in Sub, Listed(t, r)'
           PROVE  Listed(t, r) /\ r # r0
      <3>1. PICK i \in 1 .. Len(rest) : rest[i] = r
        BY <2>7, <2>11 DEF Listed
      <3>2. i + 1 \in 1 .. Len(todo) /\ todo[i + 1] = r /\ i + 1 # 1
        BY <2>5, <3>1
      <3>3. r # r0
        BY <2>5, <2>10, <3>2
      <3> QED BY <1>2, <3>2, <3>3 DEF Listed
    <2>12. ASSUME NEW u \in Task, NEW r \in Sub, Listed(u, r)'
           PROVE  Listed(u, r) /\ r # r0
      <3>1. CASE u = t
        BY <2>11, <2>12, <3>1
      <3>2. CASE u # t
        <4>1. Listed(u, r)
          BY <2>7, <2>12, <3>2, OthersListed
        <4> QED BY <2>9, <3>2, <4>1 DEF IInv, ProposedOnce
      <3> QED BY <3>1, <3>2
    <2>13. ~Told(r0) /\ r0 <= born'
      BY <1>1, <2>9 DEF IInv, ProposedOnce
    <2>14. \A u \in Task : \A r \in Sub :
             Listed(u, r)' => r <= born' /\ r # r0 /\ ~Told(r)
      BY <1>1, <2>12 DEF IInv, ProposedOnce
    <2>15. \A u, v \in Task : \A r \in Sub : Listed(u, r)' /\ Listed(v, r)' => u = v
      BY <2>12 DEF IInv, ProposedOnce
    <2>16. \A u \in Task : \A i, j \in 1 .. Len(chain'[u].todo) :
             chain'[u].todo[i] = chain'[u].todo[j] => i = j
      <3> SUFFICES ASSUME NEW u \in Task, NEW i \in 1 .. Len(chain'[u].todo),
                          NEW j \in 1 .. Len(chain'[u].todo),
                          chain'[u].todo[i] = chain'[u].todo[j]
                   PROVE  i = j
        OBVIOUS
      <3>1. CASE u = t
        <4>1. i \in 1 .. Len(rest) /\ j \in 1 .. Len(rest) /\ rest[i] = rest[j]
          BY <2>7, <3>1
        <4>2. i + 1 = j + 1
          BY <2>5, <2>10, <4>1
        <4> QED BY <4>2
      <3>2. CASE u # t
        BY <2>7, <3>2 DEF Others, IInv, ProposedOnce
      <3> QED BY <3>1, <3>2
    <2>17. born' >= born
      BY <1>0, <1>1
    <2> QED BY <1>1, <1>3, <2>2, <2>8, <2>13, <2>14, <2>15, <2>16, <2>17,
               ProposingCounts
  <1> QED BY <1>5, <1>6

LEMMA RecoverCounts ==
  ASSUME IInv, TypeOK', Recover
  PROVE  Counted'
  <1> DEFINE t == "recovery"
  <1>0. TypeOK /\ t \in Task /\ t \in Walker /\ born \in Nat /\ inbox \in Seq(Event)
    BY DEF IInv, TypeOK, Task, Walker
  <1>1. blocks' = blocks /\ born' = born /\ turnedAway' = turnedAway
    BY DEF Recover, ledger, client
  <1>2. PICK s \in Pending(t) :
           \/ /\ StageOf(s) \in {"queued", "validating"}
              /\ inbox' = Append(inbox, Item("proposed", s))
              /\ Suspend(t, Wait("judge", s))
           \/ /\ StageOf(s) = "accepted"
              /\ Attempt(t, s, blocks, Append(inbox, Item("accepted", s)))
           \/ PublishLeaseExpired(t, s)
    BY DEF Recover
  <1>3. s \in Sub /\ s \in 0 .. MaxSub
    BY <1>0, Numbers DEF Pending, TypeOK
  <1> HIDE DEF t
  <1>4. CASE /\ StageOf(s) \in {"queued", "validating"}
             /\ inbox' = Append(inbox, Item("proposed", s))
             /\ Suspend(t, Wait("judge", s))
    <2>1. TodoCalm
      BY <1>0, <1>3, <1>4, WaitStands, StandsCalm DEF Pc
    <2>2. blocks[s] # NoBlock /\ Told(s)
      BY <1>4 DEF StageOf, Told
    <2>3. s <= born'
      BY <1>0, <1>1, <1>3, <2>2, Numbers DEF IInv, ProposedOnce
    <2>4. \A u \in Task : \A r \in Sub : Listed(u, r)' => Listed(u, r)
      BY <2>1 DEF Listed, TodoCalm
    <2>5. \A u \in Task : \A r \in Sub :
             Listed(u, r)' => r <= born' /\ r # s /\ ~Told(r)
      BY <1>1, <2>2, <2>4 DEF IInv, ProposedOnce
    <2>6. \A u, v \in Task : \A r \in Sub : Listed(u, r)' /\ Listed(v, r)' => u = v
      BY <2>4 DEF IInv, ProposedOnce
    <2>7. \A u \in Task : \A i, j \in 1 .. Len(chain'[u].todo) :
             chain'[u].todo[i] = chain'[u].todo[j] => i = j
      BY <2>1 DEF IInv, ProposedOnce, TodoCalm
    <2>8. PICK q \in Seq(Event) : q = inbox
      BY <1>0
    <2>9. Calm(inbox, q) /\ born' >= born
      BY <1>0, <1>1, <2>8 DEF Calm
    <2> QED BY <1>1, <1>3, <1>4, <2>2, <2>3, <2>5, <2>6, <2>7, <2>8, <2>9,
               ProposingCounts
  <1>5. CASE Attempt(t, s, blocks, Append(inbox, Item("accepted", s)))
    <2>1. Item("accepted", s) \in Event /\ Item("accepted", s).kind = "accepted"
      BY <1>3, EventsMade DEF SimpleKind, Item
    <2>2. PICK q \in Seq(Event) : q = Append(inbox, Item("accepted", s))
      <3>1. Append(inbox, Item("accepted", s)) \in Seq(Event)
        BY <1>0, <2>1
      <3> QED BY <3>1
    <2>3. PICK bs : bs = blocks
      OBVIOUS
    <2>4. Attempt(t, s, bs, q)
      BY <1>5, <2>2, <2>3
    <2>5. Calm(inbox, q) /\ Calm(q, inbox')
      BY <1>0, <1>3, <2>1, <2>2, <2>4, AppendCalm, AttemptCalm DEF RoutedEvent
    <2>6. Calm(inbox, inbox')
      BY <2>5 DEF Calm
    <2>7. TodoCalm
      BY <1>0, <1>3, <2>4, Attempted, StandsCalm
    <2>8. Calmed
      BY <1>1, <2>6, <2>7, LedgerCalm DEF Calmed
    <2> QED BY <2>8, CalmKeeps
  <1>6. CASE PublishLeaseExpired(t, s)
    <2>1. Calmed
      BY <1>0, <1>1, <1>3, <1>6, ExpiredCalm
    <2> QED BY <2>1, CalmKeeps
  <1> QED BY <1>2, <1>4, <1>5, <1>6

(* A crash empties the queue and forgets every count and candidate. *)
LEMMA CrashKeeps ==
  ASSUME IInv, Crash
  PROVE  IInv'
  <1>1. /\ TypeOK' /\ phase' = "recovering" /\ inbox' = <<>>
        /\ blocks' = blocks /\ born' = born
        /\ \A t \in Task : /\ chain'[t].pc \in {"idle", "turn"}
                           /\ t # "recovery" => chain'[t].pc = "idle"
                           /\ chain'[t].todo = <<>>
        /\ scan'["reaper"] = NoScan
        /\ \A s \in Sub : /\ attempts'[s] = 0 /\ assigned'[s] = NoAgent
                          /\ turnedAway'[s] = 0
    BY CrashStep
  <1>2. \A t \in Task : \A s \in Sub : ~Busy(t, s)' /\ ~Executing(t, s)'
    BY <1>1 DEF Busy, Executing
  <1>3. ChainsApart'
    BY <1>1 DEF ChainsApart, Task
  <1>4. StagesFit'
    <2>1. <<>> \in Seq({"assigned", "in_progress"})
      OBVIOUS
    <2> QED BY <1>1, <1>2, <2>1 DEF StagesFit, NoScan
  <1>5. Supervised'
    BY <1>1, <1>2 DEF Supervised, OutcomesAttributed, NoStaleSupervision
  <1>6. Len(inbox') = 0 /\ 1 .. Len(inbox') = {}
    BY <1>1
  <1>7. Routed'
    BY <1>1, <1>2, <1>6 DEF Routed, RoutedQueue, IInv
  <1>8. \A s \in Sub : Told(s)' => Told(s)
    BY <1>1, <1>6 DEF Told, Mentions
  <1>9. \A t \in Task : 1 .. Len(chain'[t].todo) = {}
    BY <1>1
  <1>10. ProposedOnce'
    BY <1>1, <1>6, <1>8, <1>9 DEF ProposedOnce, Listed, Single, IInv
  <1> QED BY <1>1, <1>3, <1>4, <1>5, <1>7, <1>10 DEF IInv

-----------------------------------------------------------------------------
(* The invariant is inductive. *)

LEMMA Initially == Init => IInv
  <1> SUFFICES ASSUME Init
               PROVE  IInv
    OBVIOUS
  <1> USE DEF Init
  <1>1. \A t \in Task : chain[t] \in Chain /\ chain[t].pc = "idle"
                        /\ chain[t].todo = <<>>
    BY IdleIsChain
  <1>2. \A t \in Task : \A s \in Sub : ~Busy(t, s) /\ ~Executing(t, s)
    BY <1>1 DEF Busy, Executing
  <1>3. NoScan \in [stages : Seq(Stage), left : SUBSET Sub]
    <2>1. <<>> \in Seq(Stage)
      OBVIOUS
    <2> QED BY <2>1 DEF NoScan
  <1>4. Fresh("closed") \in Circuit
    <2>1. <<>> \in Seq(BOOLEAN)
      OBVIOUS
    <2> QED BY <2>1 DEF Fresh, Circuit, CircuitState
  <1>5. TypeOK
    <2>1. inbox \in Seq(Event) /\ leases \in Nat /\ expired \in 0 .. leases
      OBVIOUS
    <2>2. born \in 0 .. MaxSub /\ attempts \in [Sub -> 0 .. MaxRetries]
          /\ turnedAway \in [Sub -> Nat]
      BY Numbers
    <2>3. chain \in [Task -> Chain]
      BY <1>1
    <2> QED BY <1>3, <1>4, <2>1, <2>2, <2>3 DEF TypeOK
  <1>6. ChainsApart
    BY <1>1 DEF ChainsApart, Task
  <1>7. StagesFit
    <2>1. <<>> \in Seq({"assigned", "in_progress"})
      OBVIOUS
    <2> QED BY <1>2, <2>1 DEF StagesFit, NoScan
  <1>8. 1 .. Len(inbox) = {} /\ \A t \in Task : 1 .. Len(chain[t].todo) = {}
    BY <1>1
  <1>9. Routed
    BY <1>2, <1>8 DEF Routed, RoutedQueue
  <1>10. Supervised
    BY <1>2 DEF Supervised, OutcomesAttributed, NoStaleSupervision
  <1>11. ProposedOnce
    BY <1>8 DEF ProposedOnce, Told, Listed, Mentions, Single
  <1> QED BY <1>5, <1>6, <1>7, <1>9, <1>10, <1>11 DEF IInv

(* The two halves of the argument, put together. *)
LEMMA StepKeeps ==
  ASSUME IInv, TypeOK', NEW t \in Task, Step(t), Counted'
  PROVE  IInv'
  <1>1. ChainsApart' /\ StagesFit' /\ Supervised'
    BY ApartKept, FitKept, SupervisedKept
  <1>2. Routed'
    BY FitKept DEF Counted, LeasesRouted, Routed
  <1> QED BY <1>1, <1>2 DEF Counted, IInv

LEMMA CalmStepKeeps ==
  ASSUME IInv, TypeOK', NEW t \in Task, Step(t), Calmed
  PROVE  IInv'
  BY CalmKeeps, StepKeeps

LEMMA StillKeeps ==
  ASSUME IInv, Start \/ LeaseRunsOut \/ UNCHANGED vars
  PROVE  IInv'
  <1>1. /\ TypeOK'
        /\ inbox' = inbox /\ blocks' = blocks /\ chain' = chain /\ scan' = scan
        /\ attempts' = attempts /\ assigned' = assigned
        /\ phase' = phase \/ Start
    BY StartStep
  <1>2. Calmed
    BY OutsideCalm
  <1>3. Counted'
    BY <1>1, <1>2, CalmKeeps
  <1>4. \A t \in Task : \A s \in Sub : /\ Busy(t, s)' <=> Busy(t, s)
                                       /\ Executing(t, s)' <=> Executing(t, s)
                                       /\ Fits(t, s)' <=> Fits(t, s)
    BY <1>1 DEF Busy, Executing, Fits, StageOf
  <1>5. ChainsApart'
    <2>1. CASE phase' = phase
      BY <1>1, <2>1 DEF IInv, ChainsApart
    <2>2. CASE Start
      <3>1. phase' = "up" /\ chain["recovery"].pc = "idle"
        BY <2>2 DEF Start, At
      <3> QED BY <1>1, <3>1 DEF IInv, ChainsApart
    <2> QED BY <1>1, <2>1, <2>2
  <1>6. StagesFit'
    BY <1>1, <1>4 DEF IInv, StagesFit, StageOf
  <1>7. Routed'
    BY <1>3, <1>4 DEF IInv, Routed, Counted, LeasesRouted
  <1>8. Supervised'
    BY <1>1, <1>4 DEF IInv, Supervised, OutcomesAttributed, NoStaleSupervision
  <1> QED BY <1>1, <1>3, <1>5, <1>6, <1>7, <1>8 DEF Counted, IInv

LEMMA Inductive ==
  ASSUME IInv, [Next]_vars
  PROVE  IInv'
  <1>1. ASSUME NEW t \in Task, Resume(t)
        PROVE  IInv'
    <2>1. CASE WakeUp(t)
      BY <2>1, WakeUpStep, WakeUpCalm, CalmStepKeeps
    <2>2. CASE WorkerCompletes(t)
      BY <2>2, CompletesStep, CompletesCalm, CalmStepKeeps
    <2>3. CASE WorkerFails(t)
      BY <2>3, FailsStep, FailsCalm, CalmStepKeeps
    <2>4. CASE Decomposed(t)
      BY <2>4, DecomposedStep, DecomposedCounts, StepKeeps
    <2>5. CASE Judged(t)
      BY <2>5, JudgedStep, JudgedCounts, StepKeeps
    <2> QED BY <1>1, <2>1, <2>2, <2>3, <2>4, <2>5 DEF Resume
  <1>2. ASSUME NEW t \in Task, Heartbeat(t)
        PROVE  IInv'
    BY <1>2, HeartbeatStep, HeartbeatCalm, CalmStepKeeps
  <1>3. CASE WriterTurn
    <2>0. "writer" \in Task
      BY DEF Task
    <2>1. CASE ApplyProposed
      BY <2>0, <2>1, ProposedStep, ProposedCounts, StepKeeps
    <2>2. CASE ApplyAccepted
      BY <2>0, <2>2, AcceptedStep, AcceptedCalm, CalmStepKeeps
    <2>3. CASE ApplyReport
      BY <2>0, <2>3, ReportStep, ReportCalm, CalmStepKeeps
    <2> QED BY <1>3, <2>1, <2>2, <2>3 DEF WriterTurn
  <1>4. CASE Walk
    <2>0. "reaper" \in Task /\ "recovery" \in Task
      BY DEF Task
    <2>1. ASSUME NEW t \in Walker, NextStage(t)
          PROVE  IInv'
      <3>1. t \in Task
        BY <2>0 DEF Walker
      <3> QED BY <2>1, <3>1, NextStageStep, OutsideCalm, CalmStepKeeps
    <2>2. CASE Poll
      BY <2>0, <2>2, PollStep, OutsideCalm, CalmStepKeeps
    <2>3. CASE Reap
      BY <2>0, <2>3, ReapStep, ReapCalm, CalmStepKeeps
    <2>4. CASE Recover
      BY <2>0, <2>4, RecoverStep, RecoverCounts, StepKeeps
    <2> QED BY <1>4, <2>1, <2>2, <2>3, <2>4 DEF Walk, Walker
  <1>5. CASE Submit
    <2>0. "client" \in Task
      BY DEF Task
    <2> QED BY <1>5, <2>0, SubmitStep, OutsideCalm, CalmStepKeeps
  <1>6. CASE Start \/ LeaseRunsOut \/ UNCHANGED vars
    BY <1>6, StillKeeps
  <1>7. CASE Crash
    BY <1>7, CrashKeeps
  <1> QED BY <1>1, <1>2, <1>3, <1>4, <1>5, <1>6, <1>7 DEF Next

(* Every reachable state of the supply chain satisfies the invariant.      *)
THEOREM ChainInvariant == Spec => []IInv
  <1>1. Init => IInv
    BY Initially
  <1>2. IInv /\ [Next]_vars => IInv'
    BY Inductive
  <1> QED BY <1>1, <1>2, PTL DEF Spec

(* The queue holds well-formed events, the ledger well-formed blocks, the  *)
(* Supervisor's counters stay within max_retries, and no lease runs out    *)
(* that was not handed out, whatever the sizes.                            *)
THEOREM ChainTypes == Spec => []TypeOK
  <1>1. IInv => TypeOK
    BY DEF IInv
  <1> QED BY <1>1, ChainInvariant, PTL

(* No two tasks ever work on the same subproblem, across retries, leases   *)
(* that run out, re-planning and restarts (coordinator.py,                 *)
(* _attempt_assignment, which never looks at the stage of the block).      *)
THEOREM OneChainAlways == Spec => []OneChainPerSubproblem
  <1>1. ASSUME IInv, NEW t \in Task, NEW u \in Task, NEW s \in Sub,
               Busy(t, s), Busy(u, s)
        PROVE  t = u
    <2>1. Fits(t, s) /\ Fits(u, s)
      BY <1>1 DEF IInv, StagesFit
    <2>2. chain[t].pc # "idle" /\ chain[u].pc # "idle"
      BY <1>1 DEF Busy
    <2>3. Active(t) /\ Active(u)
      BY <1>1, <2>2, Awake DEF IInv
    <2> QED BY <2>1, <2>3 DEF Fits, Active, Past
  <1>2. ASSUME IInv, NEW s \in Sub
        PROVE  Cardinality({t \in Task : Busy(t, s)}) <= 1
    <2> DEFINE B == {t \in Task : Busy(t, s)}
    <2>1. CASE B = {}
      BY <2>1, FS_EmptySet
    <2>2. CASE B # {}
      <3>1. PICK t \in Task : Busy(t, s)
        BY <2>2
      <3>2. B = {t}
        BY <1>1, <1>2, <3>1
      <3>3. Cardinality({t}) = 1
        BY FS_Singleton
      <3> QED BY <3>2, <3>3
    <2> QED BY <2>1, <2>2
  <1>3. IInv => OneChainPerSubproblem
    BY <1>2 DEF OneChainPerSubproblem
  <1> QED BY <1>3, ChainInvariant, PTL

(* Work runs only past the Gatekeeper: what executes has an admitted       *)
(* block, neither rejected nor still waiting for its verdict               *)
(* (coordinator.py ignores a verdict without a block index).               *)
THEOREM GatedAlways == Spec => []GatedExecution
  <1>1. ASSUME IInv, NEW t \in Task, NEW s \in Sub, Executing(t, s)
        PROVE  StageOf(s) \notin {"none", "queued", "validating", "rejected"}
    <2>1. Busy(t, s)
      BY <1>1 DEF Executing, Busy
    <2>2. Fits(t, s)
      BY <1>1, <2>1 DEF IInv, StagesFit
    <2> QED BY <2>2 DEF Fits, Past
  <1>2. IInv => GatedExecution
    BY <1>1 DEF GatedExecution
  <1> QED BY <1>2, ChainInvariant, PTL

(* The Supervisor knows the type of everything that executes, so a         *)
(* worker's outcome reaches the right circuit (pipeline.py, the order in   *)
(* which the agents subscribe).                                            *)
THEOREM OutcomesAttributedAlways == Spec => []OutcomesAttributed
  <1>1. IInv => OutcomesAttributed
    BY DEF IInv, Supervised
  <1> QED BY <1>1, ChainInvariant, PTL

(* The Supervisor's maps do not leak: an entry belongs to a subproblem a   *)
(* chain still works on or is about to retry (supervisor.py, eviction in   *)
(* handle_completed and on escalation).                                    *)
THEOREM SupervisionCurrent == Spec => []NoStaleSupervision
  <1>1. IInv => NoStaleSupervision
    BY DEF IInv, Supervised
  <1> QED BY <1>1, ChainInvariant, PTL

(* No subproblem is counted twice towards the end of the run, by a         *)
(* terminal block and by a rejection for the budget, or by two rejections  *)
(* (pipeline.py, _on_subproblem_rejected and wait_until_terminal).         *)
THEOREM CountedOnceAlways == Spec => []CountedOnce
  <1>1. ASSUME IInv, NEW s \in Sub
        PROVE  turnedAway[s] + (IF s \in Terminal THEN 1 ELSE 0) <= 1
    <2>1. turnedAway[s] \in Nat
      BY <1>1 DEF IInv, TypeOK
    <2>2. turnedAway[s] <= 1 /\ (turnedAway[s] > 0 => blocks[s] = NoBlock)
      BY <1>1 DEF IInv, ProposedOnce
    <2>3. blocks[s] = NoBlock => s \notin Terminal
      BY DEF Terminal, StageOf, TerminalStages
    <2> QED BY <2>1, <2>2, <2>3
  <1>2. IInv => CountedOnce
    BY <1>1 DEF CountedOnce
  <1> QED BY <1>2, ChainInvariant, PTL
=============================================================================
