----------------------- MODULE LedgerRecorder_proofs -----------------------
(***************************************************************************)
(* What holds of the Ledger Recorder for every set of subproblems, roots,  *)
(* budgets, agents, leases and results, and for an inbox of any length.    *)
(***************************************************************************)
EXTENDS LedgerRecorder, FiniteSetTheorems, TLAPS

-----------------------------------------------------------------------------
(* The block operators of BlockLifecycle map blocks to blocks.             *)

LEMMA FreshBlocks == QueuedBlock \in Block /\ ValidatingBlock \in Block
  BY DEF QueuedBlock, ValidatingBlock, Block, Stage

LEMMA LateIsBlock ==
  ASSUME NEW b \in Block
  PROVE  LateEvent(b) \in Block
  BY DEF LateEvent, Block

LEMMA VerdictIsBlock ==
  ASSUME NEW b \in Block, NEW st \in Stage
  PROVE  AfterVerdict(b, st) \in Block
  BY DEF AfterVerdict, Block

LEMMA AssignedIsBlock ==
  ASSUME NEW b \in Block, NEW a \in Agent, NEW l \in Lease
  PROVE  AfterAssigned(b, a, l) \in Block
  BY DEF AfterAssigned, Block, Stage

LEMMA HeartbeatIsBlock ==
  ASSUME NEW b \in Block
  PROVE  AfterHeartbeat(b) \in Block
  BY DEF AfterHeartbeat, Block, Stage

LEMMA CompletedIsBlock ==
  ASSUME NEW b \in Block, NEW x \in Result
  PROVE  /\ AfterCompleted(b, x) \in Block
         /\ CompletedPrefix(b, x) \subseteq Block
  <1>1. AfterHeartbeat(b) \in Block
    BY HeartbeatIsBlock
  <1>2. \A y \in Block : [y EXCEPT !.stage = "done", !.result = x] \in Block
    BY DEF Block, Stage
  <1>3. \A y \in Block : [y EXCEPT !.stage = "verifying", !.result = x] \in Block
    BY DEF Block, Stage
  <1> QED
    BY <1>1, <1>2, <1>3, LateIsBlock DEF AfterCompleted, CompletedPrefix

LEMMA RetriableIsBlock ==
  ASSUME NEW b \in Block
  PROVE  AfterRetriable(b) \in Block
  <1>1. [b EXCEPT !.lastError = TRUE] \in Block
    BY DEF Block
  <1>2. [b EXCEPT !.stage = "retrying", !.lastError = TRUE, !.retriable = "yes"]
          \in Block
    BY DEF Block, Stage
  <1> QED
    BY <1>1, <1>2, LateIsBlock DEF AfterRetriable

LEMMA FinalFailureIsBlock ==
  ASSUME NEW b \in Block
  PROVE  AfterFinalFailure(b) \in Block
  <1>1. [b EXCEPT !.stage = "failed", !.retriable = "no"] \in Block
    BY DEF Block, Stage
  <1> QED
    BY <1>1, LateIsBlock DEF AfterFinalFailure

-----------------------------------------------------------------------------
(* What the head of the inbox carries.                                     *)

LEMMA ItemFields ==
  ASSUME NEW e \in Item
  PROVE  /\ e.kind = "submitted" => e.root \in Root /\ e.cap \in Cap
         /\ e.kind \in {"proposed", "accepted", "rejected", "heartbeat",
                        "unroutable", "lease_expired", "assigned", "completed",
                        "failed"} => e.sub \in Sub
         /\ e.kind = "assigned" => e.agent \in Agent /\ e.lease \in Lease
         /\ e.kind = "completed" => e.result \in Result
         /\ e.kind = "failed" => e.retriable \in BOOLEAN
  BY DEF Item, Event, Stop

LEMMA ItemsMade ==
  ASSUME NEW s \in Sub
  PROVE  /\ <<[kind |-> "rejected", sub |-> s]>> \in Seq(Item)
         /\ <<[kind |-> "accepted", sub |-> s]>> \in Seq(Item)
  <1>1. [kind |-> "rejected", sub |-> s] \in Item
    BY DEF Item, Event
  <1>2. [kind |-> "accepted", sub |-> s] \in Item
    BY DEF Item, Event
  <1>3. \A x \in Item : <<x>> \in Seq(Item)
    OBVIOUS
  <1> QED
    BY <1>1, <1>2, <1>3

(* TypeOK' in two halves: what the frame of a turn touches, and the rest.  *)
FrameTyped ==
  /\ inbox' \in Seq(Item)
  /\ writer' \in {"running", "stopped"}
  /\ stopRequested' \in BOOLEAN
  /\ lost' \in [Root -> Nat]

LedgerTyped ==
  /\ blocks' \in [Sub -> Block \cup {NoBlock}]
  /\ index' \in [Stage -> SUBSET Sub]
  /\ errors' \in BOOLEAN
  /\ problem' \in SUBSET Root
  /\ cap' \in [Root -> Nat]
  /\ saved' \in [Root -> Nat]
  /\ consumed' \in [Root -> Nat]

LEMMA TwoHalves ==
  ASSUME FrameTyped, LedgerTyped
  PROVE  TypeOK'
  BY DEF FrameTyped, LedgerTyped, TypeOK

LEMMA TurnType ==
  ASSUME TypeOK, NEW kind, NEW published \in Seq(Item), Turn(kind, published)
  PROVE  /\ FrameTyped
         /\ Head(inbox) \in Item
         /\ Head(inbox).kind = kind
  <1>1. Head(inbox) \in Item /\ Tail(inbox) \in Seq(Item)
    BY DEF TypeOK, Turn
  <1>2. inbox' \in Seq(Item)
    BY <1>1 DEF Turn
  <1> QED
    BY <1>1, <1>2 DEF Turn, TypeOK, FrameTyped

(* A turn that publishes nothing.                                          *)
LEMMA QuietTurnType ==
  ASSUME TypeOK, NEW kind, Turn(kind, <<>>)
  PROVE  /\ FrameTyped
         /\ Head(inbox) \in Item
         /\ Head(inbox).kind = kind
  <1>1. <<>> \in Seq(Item)
    OBVIOUS
  <1> QED
    BY <1>1, TurnType

LEMMA WriteType ==
  ASSUME TypeOK, NEW s \in Sub, NEW b \in Block, Write(s, b)
  PROVE  /\ blocks' \in [Sub -> Block \cup {NoBlock}]
         /\ index' \in [Stage -> SUBSET Sub]
  BY DEF TypeOK, Write

LEMMA WriteOnlyType ==
  ASSUME TypeOK, NEW s \in Sub, NEW b \in Block, NEW illegal \in BOOLEAN,
         WriteOnly(s, b, illegal)
  PROVE  LedgerTyped
  BY WriteType DEF TypeOK, WriteOnly, LedgerTyped

LEMMA IgnoreType ==
  ASSUME TypeOK, Ignore \/ Unknown
  PROVE  LedgerTyped
  BY DEF TypeOK, Ignore, Unknown, LedgerTyped

LEMMA EnsureProblemType ==
  ASSUME TypeOK, NEW r \in Root, EnsureProblem(r)
  PROVE  /\ EffectiveCap(r) \in Nat
         /\ problem' \in SUBSET Root
         /\ cap' \in [Root -> Nat]
  BY RecorderAssumption DEF TypeOK, EnsureProblem, WriteProblem, EffectiveCap

LEMMA IndexType ==
  ASSUME NEW bs
  PROVE  IndexOf(bs) \in [Stage -> SUBSET Sub]
  BY DEF IndexOf

-----------------------------------------------------------------------------
(* Every step keeps the types.                                             *)

LEMMA TypeInductive ==
  ASSUME TypeOK, [Next]_vars
  PROVE  TypeOK'
  <1>1. ASSUME NEW i \in Event, Deliver(i)
        PROVE  TypeOK'
    <2>1. i \in Item
      BY DEF Item
    <2> QED
      BY <1>1, <2>1 DEF TypeOK, Deliver, disk
  <1>2. ASSUME RequestStop
        PROVE  TypeOK'
    <2>1. Stop \in Item
      BY DEF Item
    <2> QED
      BY <1>2, <2>1 DEF TypeOK, RequestStop, disk
  <1>3. ASSUME Start
        PROVE  TypeOK'
    BY <1>3 DEF TypeOK, Start, disk
  <1> DEFINE e == Head(inbox)
             s == e.sub
  (* Most handlers ignore or reject the item, or write one block.          *)
  <1>4. ASSUME NEW kind, Turn(kind, <<>>), Ignore \/ Unknown
        PROVE  TypeOK'
    BY <1>4, QuietTurnType, IgnoreType, TwoHalves
  <1>5. ASSUME NEW kind, Turn(kind, <<>>), s \in Sub, NEW b \in Block,
               NEW illegal \in BOOLEAN, WriteOnly(s, b, illegal)
        PROVE  TypeOK'
    <2>1. LedgerTyped
      BY <1>5, WriteOnlyType
    <2> QED
      BY <1>5, <2>1, QuietTurnType, TwoHalves
  <1>6. ASSUME NEW kind, Turn(kind, <<>>),
               kind \in {"proposed", "accepted", "rejected", "heartbeat",
                         "unroutable", "lease_expired", "assigned", "completed",
                         "failed"}
        PROVE  e \in Item /\ s \in Sub /\ e.kind = kind
    <2>1. e \in Item /\ e.kind = kind
      BY <1>6, QuietTurnType
    <2> QED
      BY <1>6, <2>1, ItemFields
  <1>7. ASSUME s \in Sub, blocks[s] # NoBlock
        PROVE  blocks[s] \in Block
    BY <1>7 DEF TypeOK
  <1>8. ASSUME ApplyStop
        PROVE  TypeOK'
    BY <1>8, <1>4 DEF ApplyStop
  <1>9. ASSUME ApplyProblemSubmitted
        PROVE  TypeOK'
    <2>1. Turn("submitted", <<>>)
      BY <1>9 DEF ApplyProblemSubmitted
    <2>2. FrameTyped /\ e \in Item /\ e.kind = "submitted"
      BY <2>1, QuietTurnType
    <2>3. e.root \in Root /\ e.cap \in Nat
      BY <2>2, ItemFields, RecorderAssumption
    <2>4. CASE e.root \in problem
      BY <1>9, <2>1, <2>4, <1>4 DEF ApplyProblemSubmitted
    <2>5. CASE e.root \notin problem
      <3>1. /\ WriteProblem(e.root, e.cap)
            /\ saved' = [saved EXCEPT ![e.root] = 0]
            /\ UNCHANGED <<blocks, index, consumed, errors>>
        BY <1>9, <2>5 DEF ApplyProblemSubmitted
      <3> HIDE DEF e
      <3>2. LedgerTyped
        BY <2>3, <3>1 DEF TypeOK, WriteProblem, LedgerTyped
      <3> QED
        BY <2>2, <3>2, TwoHalves
    <2> QED
      BY <2>4, <2>5
  <1>10. ASSUME ApplyProposedAgain
         PROVE  TypeOK'
    <2> DEFINE b == [blocks[s] EXCEPT !.stage = "validating"]
    <2>1. Turn("proposed", <<>>) /\ blocks[s] # NoBlock
          /\ (WriteOnly(s, b, FALSE) \/ Ignore)
      BY <1>10 DEF ApplyProposedAgain
    <2>2. s \in Sub /\ blocks[s] \in Block
      BY <2>1, <1>6, <1>7
    <2>3. b \in Block
      BY <2>2 DEF Block, Stage
    <2> HIDE DEF b, s
    <2> QED
      BY <2>1, <2>2, <2>3, <1>4, <1>5
  <1>11. ASSUME ApplyProposed
         PROVE  TypeOK'
    <2> DEFINE r == RootOf[s]
    <2>1. /\ Turn("proposed", <<>>)
          /\ EnsureProblem(r)
          /\ Write(s, ValidatingBlock)
          /\ consumed' = [consumed EXCEPT ![r] = @ + 1]
          /\ PersistConsumed(r)
          /\ UNCHANGED errors
      BY <1>11 DEF ApplyProposed
    <2>2. s \in Sub /\ r \in Root
      BY <2>1, <1>6, RecorderAssumption
    <2>3. FrameTyped
      BY <2>1, QuietTurnType
    <2> HIDE DEF r, s
    <2>4. blocks' \in [Sub -> Block \cup {NoBlock}] /\ index' \in [Stage -> SUBSET Sub]
      BY <2>1, <2>2, WriteType, FreshBlocks
    <2>5. problem' \in SUBSET Root /\ cap' \in [Root -> Nat]
      BY <2>1, <2>2, EnsureProblemType
    <2>6. consumed' \in [Root -> Nat] /\ saved' \in [Root -> Nat]
      BY <2>1, <2>2 DEF TypeOK, PersistConsumed
    <2>7. LedgerTyped
      BY <2>1, <2>4, <2>5, <2>6 DEF TypeOK, LedgerTyped
    <2> QED
      BY <2>3, <2>7, TwoHalves
  <1>12. ASSUME ApplyProposedOverBudget
         PROVE  TypeOK'
    <2> DEFINE r == RootOf[s]
               again == <<[kind |-> "rejected", sub |-> s]>>
    <2>1. /\ inbox # <<>> /\ e.kind = "proposed"
          /\ Turn("proposed", again)
          /\ EnsureProblem(r)
          /\ UNCHANGED <<blocks, index, saved, consumed, errors>>
      BY <1>12 DEF ApplyProposedOverBudget
    <2>2. e \in Item
      BY <2>1 DEF TypeOK
    <2>3. s \in Sub /\ r \in Root
      BY <2>1, <2>2, ItemFields, RecorderAssumption
    <2>4. again \in Seq(Item)
      BY <2>3, ItemsMade
    <2> HIDE DEF again, r, s
    <2>5. problem' \in SUBSET Root /\ cap' \in [Root -> Nat]
      BY <2>1, <2>3, EnsureProblemType
    <2>6. FrameTyped
      BY <2>1, <2>4, TurnType
    <2>7. LedgerTyped
      BY <2>1, <2>5 DEF TypeOK, LedgerTyped
    <2> QED
      BY <2>6, <2>7, TwoHalves
  <1>13. ASSUME s \in Sub, StageOf(s) = "validating", NEW st \in Stage
         PROVE  AfterVerdict(blocks[s], st) \in Block
    <2>1. blocks[s] # NoBlock
      BY <1>13 DEF StageOf
    <2> QED
      BY <1>13, <2>1, <1>7, VerdictIsBlock
  <1>14. ASSUME ApplyAccepted
         PROVE  TypeOK'
    <2>1. inbox # <<>> /\ e.kind = "accepted"
      BY <1>14 DEF ApplyAccepted
    <2>2. e \in Item
      BY <2>1 DEF TypeOK
    <2>3. s \in Sub
      BY <2>1, <2>2, ItemFields
    <2>4. CASE StageOf(s) = "validating"
      <3> DEFINE b == AfterVerdict(blocks[s], "accepted")
                 again == <<[kind |-> "accepted", sub |-> s]>>
      <3>1. "accepted" \in Stage
        BY DEF Stage
      <3>2. b \in Block
        BY <2>3, <2>4, <3>1, <1>13
      <3>3. again \in Seq(Item)
        BY <2>3, ItemsMade
      <3>4. Turn("accepted", again) /\ WriteOnly(s, b, FALSE)
        BY <1>14, <2>4 DEF ApplyAccepted
      <3> HIDE DEF b, again, s
      <3>5. LedgerTyped
        BY <2>3, <3>2, <3>4, WriteOnlyType
      <3> QED
        BY <3>3, <3>4, <3>5, TurnType, TwoHalves
    <2>5. CASE StageOf(s) # "validating"
      BY <1>14, <2>5, <1>4 DEF ApplyAccepted
    <2> QED
      BY <2>4, <2>5
  <1>15. ASSUME ApplyRejected
         PROVE  TypeOK'
    <2>1. Turn("rejected", <<>>)
      BY <1>15 DEF ApplyRejected
    <2>2. s \in Sub
      BY <2>1, <1>6
    <2>3. CASE StageOf(s) = "validating"
      <3> DEFINE b == AfterVerdict(blocks[s], "rejected")
      <3>1. "rejected" \in Stage
        BY DEF Stage
      <3>2. b \in Block
        BY <2>2, <2>3, <3>1, <1>13
      <3>3. WriteOnly(s, b, FALSE)
        BY <1>15, <2>3 DEF ApplyRejected
      <3> HIDE DEF b, s
      <3> QED
        BY <2>1, <2>2, <3>2, <3>3, <1>5
    <2>4. CASE StageOf(s) # "validating"
      BY <1>15, <2>1, <2>4, <1>4 DEF ApplyRejected
    <2> QED
      BY <2>3, <2>4
  <1>16. ASSUME ApplyAssigned
         PROVE  TypeOK'
    <2>1. Turn("assigned", <<>>)
      BY <1>16 DEF ApplyAssigned
    <2>2. e \in Item /\ s \in Sub /\ e.kind = "assigned"
      BY <2>1, <1>6
    <2>3. e.agent \in Agent /\ e.lease \in Lease
      BY <2>2, ItemFields
    <2>4. CASE blocks[s] = NoBlock
      BY <1>16, <2>1, <2>4, <1>4 DEF ApplyAssigned
    <2>5. CASE blocks[s] # NoBlock
      <3> DEFINE b == AfterAssigned(blocks[s], e.agent, e.lease)
                 illegal == ~CanTransition(blocks[s], "assigned")
      <3>1. b \in Block
        BY <2>2, <2>3, <2>5, <1>7, AssignedIsBlock
      <3>2. WriteOnly(s, b, illegal) /\ illegal \in BOOLEAN
        BY <1>16, <2>5 DEF ApplyAssigned
      <3> HIDE DEF b, illegal, s
      <3> QED
        BY <2>1, <2>2, <3>1, <3>2, <1>5
    <2> QED
      BY <2>4, <2>5
  <1>17. ASSUME ApplyHeartbeat
         PROVE  TypeOK'
    <2>1. Turn("heartbeat", <<>>)
      BY <1>17 DEF ApplyHeartbeat
    <2>2. s \in Sub
      BY <2>1, <1>6
    <2>3. CASE blocks[s] = NoBlock
      BY <1>17, <2>1, <2>3, <1>4 DEF ApplyHeartbeat
    <2>4. CASE blocks[s] # NoBlock
      <3> DEFINE b == AfterHeartbeat(blocks[s])
      <3>1. b \in Block
        BY <2>2, <2>4, <1>7, HeartbeatIsBlock
      <3>2. WriteOnly(s, b, FALSE)
        BY <1>17, <2>4 DEF ApplyHeartbeat
      <3> HIDE DEF b, s
      <3> QED
        BY <2>1, <2>2, <3>1, <3>2, <1>5
    <2> QED
      BY <2>3, <2>4
  <1>18. ASSUME ApplyCompleted
         PROVE  TypeOK'
    <2>1. Turn("completed", <<>>)
      BY <1>18 DEF ApplyCompleted
    <2>2. e \in Item /\ s \in Sub /\ e.kind = "completed"
      BY <2>1, <1>6
    <2>3. e.result \in Result
      BY <2>2, ItemFields
    <2>4. CASE blocks[s] = NoBlock
      BY <1>18, <2>1, <2>4, <1>4 DEF ApplyCompleted
    <2>5. CASE blocks[s] # NoBlock
      <3> DEFINE b == AfterCompleted(blocks[s], e.result)
                 illegal == LateCompletion(blocks[s])
      <3>1. b \in Block
        BY <2>2, <2>3, <2>5, <1>7, CompletedIsBlock
      <3>2. WriteOnly(s, b, illegal)
        BY <1>18, <2>5 DEF ApplyCompleted
      <3>3. illegal \in BOOLEAN
        BY DEF LateCompletion
      <3> HIDE DEF b, illegal, s
      <3> QED
        BY <2>1, <2>2, <3>1, <3>2, <3>3, <1>5
    <2> QED
      BY <2>4, <2>5
  <1>19. ASSUME NEW kind, Turn(kind, <<>>), s \in Sub, blocks[s] # NoBlock,
                \/ WriteOnly(s, AfterRetriable(blocks[s]), LateRetriable(blocks[s]))
                \/ WriteOnly(s, AfterFinalFailure(blocks[s]), LateFinalFailure(blocks[s]))
         PROVE  TypeOK'
    <2> DEFINE b == AfterRetriable(blocks[s])
               c == AfterFinalFailure(blocks[s])
               illegal == LateRetriable(blocks[s])
               illegalFinal == LateFinalFailure(blocks[s])
    <2>1. b \in Block /\ c \in Block
      BY <1>19, <1>7, RetriableIsBlock, FinalFailureIsBlock
    <2>2. illegal \in BOOLEAN /\ illegalFinal \in BOOLEAN
      BY DEF LateRetriable, LateFinalFailure
    <2>3. WriteOnly(s, b, illegal) \/ WriteOnly(s, c, illegalFinal)
      BY <1>19
    <2> HIDE DEF b, c, illegal, illegalFinal, s
    <2> QED
      BY <1>19, <2>1, <2>2, <2>3, <1>5
  <1>20. ASSUME ApplyFailed
         PROVE  TypeOK'
    <2>1. Turn("failed", <<>>)
      BY <1>20 DEF ApplyFailed
    <2>2. s \in Sub
      BY <2>1, <1>6
    <2>3. CASE blocks[s] = NoBlock
      BY <1>20, <2>1, <2>3, <1>4 DEF ApplyFailed
    <2>4. CASE blocks[s] # NoBlock
      <3>1. \/ WriteOnly(s, AfterRetriable(blocks[s]), LateRetriable(blocks[s]))
            \/ WriteOnly(s, AfterFinalFailure(blocks[s]), LateFinalFailure(blocks[s]))
        BY <1>20, <2>4 DEF ApplyFailed
      <3> QED
        BY <2>1, <2>2, <2>4, <3>1, <1>19
    <2> QED
      BY <2>3, <2>4
  <1>21. ASSUME ApplyUnroutable
         PROVE  TypeOK'
    <2>1. Turn("unroutable", <<>>)
      BY <1>21 DEF ApplyUnroutable
    <2>2. s \in Sub
      BY <2>1, <1>6
    <2>3. CASE blocks[s] = NoBlock
      BY <1>21, <2>1, <2>3, <1>4 DEF ApplyUnroutable
    <2>4. CASE blocks[s] # NoBlock
      <3>1. WriteOnly(s, AfterFinalFailure(blocks[s]), LateFinalFailure(blocks[s]))
        BY <1>21, <2>4 DEF ApplyUnroutable
      <3> QED
        BY <2>1, <2>2, <2>4, <3>1, <1>19
    <2> QED
      BY <2>3, <2>4
  <1>22. ASSUME ApplyLeaseExpired
         PROVE  TypeOK'
    <2>1. Turn("lease_expired", <<>>)
      BY <1>22 DEF ApplyLeaseExpired
    <2>2. s \in Sub
      BY <2>1, <1>6
    <2>3. CASE blocks[s] = NoBlock
      BY <1>22, <2>1, <2>3, <1>4 DEF ApplyLeaseExpired
    <2>4. CASE blocks[s] # NoBlock
      <3>1. WriteOnly(s, AfterRetriable(blocks[s]), LateRetriable(blocks[s]))
        BY <1>22, <2>4 DEF ApplyLeaseExpired
      <3> QED
        BY <2>1, <2>2, <2>4, <3>1, <1>19
    <2> QED
      BY <2>3, <2>4
  <1>23. ASSUME Reboot, blocks' \in [Sub -> Block \cup {NoBlock}],
                problem' \in SUBSET Root, cap' \in [Root -> Nat],
                lost' \in [Root -> Nat]
         PROVE  TypeOK'
    <2>1. index' \in [Stage -> SUBSET Sub]
      BY <1>23, IndexType DEF Reboot
    <2>2. errors' \in BOOLEAN
      BY <1>23 DEF Reboot
    <2>3. inbox' \in Seq(Item) /\ consumed' \in [Root -> Nat]
          /\ saved' \in [Root -> Nat]
      BY <1>23 DEF Reboot, TypeOK
    <2>4. writer' \in {"running", "stopped"} /\ stopRequested' \in BOOLEAN
      BY <1>23 DEF Reboot
    <2> QED
      BY <1>23, <2>1, <2>2, <2>3, <2>4 DEF TypeOK
  <1>24. ASSUME Crash
         PROVE  TypeOK'
    BY <1>24, <1>23 DEF Crash, TypeOK
  <1>25. ASSUME CrashInProposed
         PROVE  TypeOK'
    <2> DEFINE r == RootOf[s]
    <2>1. /\ inbox # <<>> /\ e.kind = "proposed"
          /\ EnsureProblem(r)
          /\ \/ UNCHANGED <<blocks, lost>>
             \/ /\ \E b \in {QueuedBlock, ValidatingBlock} :
                        blocks' = [blocks EXCEPT ![s] = b]
                /\ lost' = [lost EXCEPT ![r] = @ + 1]
          /\ Reboot
      BY <1>25 DEF CrashInProposed
    <2>2. e \in Item
      BY <2>1 DEF TypeOK
    <2>3. s \in Sub /\ r \in Root
      BY <2>1, <2>2, ItemFields, RecorderAssumption
    <2> HIDE DEF r, s
    <2>4. problem' \in SUBSET Root /\ cap' \in [Root -> Nat]
      BY <2>1, <2>3, EnsureProblemType
    <2>5. blocks' \in [Sub -> Block \cup {NoBlock}] /\ lost' \in [Root -> Nat]
      <3>1. CASE UNCHANGED <<blocks, lost>>
        BY <3>1 DEF TypeOK
      <3>2. ASSUME NEW b \in {QueuedBlock, ValidatingBlock},
                   blocks' = [blocks EXCEPT ![s] = b],
                   lost' = [lost EXCEPT ![r] = @ + 1]
            PROVE  blocks' \in [Sub -> Block \cup {NoBlock}] /\ lost' \in [Root -> Nat]
        <4>1. b \in Block
          BY <3>2, FreshBlocks
        <4> QED
          BY <2>3, <3>2, <4>1 DEF TypeOK
      <3> QED
        BY <2>1, <3>1, <3>2
    <2> QED
      BY <2>1, <2>4, <2>5, <1>23
  <1>26. ASSUME CrashInCompleted
         PROVE  TypeOK'
    <2>1. /\ inbox # <<>> /\ e.kind = "completed"
          /\ blocks[s] # NoBlock
          /\ \E b \in CompletedPrefix(blocks[s], e.result) :
                 blocks' = [blocks EXCEPT ![s] = b]
          /\ Reboot
          /\ UNCHANGED <<problem, cap, lost>>
      BY <1>26 DEF CrashInCompleted
    <2>2. e \in Item
      BY <2>1 DEF TypeOK
    <2>3. s \in Sub /\ e.result \in Result
      BY <2>1, <2>2, ItemFields
    <2>4. CompletedPrefix(blocks[s], e.result) \subseteq Block
      BY <2>1, <2>3, <1>7, CompletedIsBlock
    <2> HIDE DEF s
    <2>5. blocks' \in [Sub -> Block \cup {NoBlock}]
      BY <2>1, <2>4 DEF TypeOK
    <2>6. problem' \in SUBSET Root /\ cap' \in [Root -> Nat]
          /\ lost' \in [Root -> Nat]
      BY <2>1 DEF TypeOK
    <2> QED
      BY <2>1, <2>5, <2>6, <1>23
  <1>27. ASSUME UNCHANGED vars
         PROVE  TypeOK'
    BY <1>27 DEF vars, memory, disk, TypeOK
  <1> QED
    BY <1>1, <1>2, <1>3, <1>8, <1>9, <1>10, <1>11, <1>12, <1>14, <1>15, <1>16,
       <1>17, <1>18, <1>20, <1>21, <1>22, <1>24, <1>25, <1>26, <1>27
       DEF Next, WriterStep, CrashStep

(* In every state the recorder can reach, each variable has its type.      *)
THEOREM TypeCorrect == Spec => []TypeOK
  <1>1. ASSUME Init
        PROVE  TypeOK
    <2>1. errors \in BOOLEAN /\ stopRequested \in BOOLEAN
      BY <1>1 DEF Init
    <2>2. writer \in {"running", "stopped"} /\ inbox \in Seq(Item)
      BY <1>1 DEF Init
    <2>3. index \in [Stage -> SUBSET Sub] /\ problem \in SUBSET Root
          /\ blocks \in [Sub -> Block \cup {NoBlock}]
      BY <1>1 DEF Init
    <2>4. cap \in [Root -> Nat] /\ saved \in [Root -> Nat]
          /\ consumed \in [Root -> Nat] /\ lost \in [Root -> Nat]
      BY <1>1 DEF Init
    <2> QED
      BY <2>1, <2>2, <2>3, <2>4 DEF TypeOK
  <1> QED
    BY <1>1, TypeInductive, PTL DEF Spec

-----------------------------------------------------------------------------
(* What a step does to the ledger: it leaves every block alone, writes the *)
(* first block of one subproblem, or moves one block the way a single      *)
(* handler does, cut short by a crash or not.                              *)

BlockMove(b, c) ==
  \/ b.stage = "queued" /\ c = [b EXCEPT !.stage = "validating"]
  \/ b.stage = "validating" /\ \E st \in {"accepted", "rejected"} : c = AfterVerdict(b, st)
  \/ \E a \in Agent, l \in Lease : c = AfterAssigned(b, a, l)
  \/ c = AfterHeartbeat(b)
  \/ \E x \in Result : c = AfterCompleted(b, x) \/ c \in CompletedPrefix(b, x)
  \/ c = AfterRetriable(b)
  \/ c = AfterFinalFailure(b)

Moved(s) ==
  /\ blocks[s] \in Block
  /\ \E c \in Block : BlockMove(blocks[s], c) /\ blocks' = [blocks EXCEPT ![s] = c]

Written(s) ==
  /\ blocks[s] = NoBlock
  /\ \E b \in {QueuedBlock, ValidatingBlock} : blocks' = [blocks EXCEPT ![s] = b]

LEMMA MoveStep ==
  ASSUME TypeOK, [Next]_vars
  PROVE  \/ UNCHANGED blocks
         \/ \E s \in Sub : Moved(s) \/ Written(s)
  <1> DEFINE e == Head(inbox)
             s == e.sub
             Goal == \/ UNCHANGED blocks
                     \/ \E u \in Sub : Moved(u) \/ Written(u)
  <1>1. ASSUME inbox # <<>>
        PROVE  /\ e \in Item
               /\ e.kind \in {"proposed", "accepted", "rejected", "heartbeat",
                              "unroutable", "lease_expired", "assigned", "completed",
                              "failed"} => s \in Sub
               /\ s \in Sub /\ blocks[s] # NoBlock => blocks[s] \in Block
    <2>1. e \in Item
      BY <1>1 DEF TypeOK
    <2>2. s \in Sub /\ blocks[s] # NoBlock => blocks[s] \in Block
      BY DEF TypeOK
    <2> QED
      BY <2>1, <2>2, ItemFields
  <1>2. ASSUME s \in Sub, blocks[s] \in Block, NEW c \in Block,
               BlockMove(blocks[s], c), blocks' = [blocks EXCEPT ![s] = c]
        PROVE  Goal
    <2> HIDE DEF s
    <2> QED
      BY <1>2 DEF Moved
  <1>3. ASSUME ApplyStop \/ ApplyProblemSubmitted \/ ApplyProposedOverBudget
        PROVE  Goal
    BY <1>3 DEF ApplyStop, ApplyProblemSubmitted, ApplyProposedOverBudget, Ignore
  <1>4. ASSUME ApplyProposedAgain
        PROVE  Goal
    <2> DEFINE c == [blocks[s] EXCEPT !.stage = "validating"]
    <2>1. inbox # <<>> /\ e.kind = "proposed" /\ blocks[s] # NoBlock
      BY <1>4 DEF ApplyProposedAgain, Turn
    <2>2. s \in Sub /\ blocks[s] \in Block
      BY <2>1, <1>1
    <2>3. CASE StageOf(s) = "queued"
      <3>1. blocks[s].stage = "queued"
        BY <2>1, <2>3 DEF StageOf
      <3>2. c \in Block
        BY <2>2 DEF Block, Stage
      <3>3. blocks' = [blocks EXCEPT ![s] = c]
        BY <1>4, <2>3 DEF ApplyProposedAgain, WriteOnly, Write
      <3>4. BlockMove(blocks[s], c)
        BY <3>1 DEF BlockMove
      <3> QED
        BY <2>2, <3>2, <3>3, <3>4, <1>2
    <2>4. CASE StageOf(s) # "queued"
      BY <1>4, <2>4 DEF ApplyProposedAgain, Ignore
    <2> QED
      BY <2>3, <2>4
  <1>5. ASSUME ApplyProposed
        PROVE  Goal
    <2>1. inbox # <<>> /\ e.kind = "proposed" /\ blocks[s] = NoBlock
          /\ blocks' = [blocks EXCEPT ![s] = ValidatingBlock]
      BY <1>5 DEF ApplyProposed, Turn, Write
    <2>2. s \in Sub
      BY <2>1, <1>1
    <2> QED
      BY <2>1, <2>2 DEF Written
  <1>6. ASSUME ApplyAccepted
        PROVE  Goal
    <2>1. inbox # <<>> /\ e.kind = "accepted"
      BY <1>6 DEF ApplyAccepted
    <2>2. CASE StageOf(s) = "validating"
      <3> DEFINE c == AfterVerdict(blocks[s], "accepted")
      <3>1. blocks[s] # NoBlock /\ blocks[s].stage = "validating"
        BY <2>2 DEF StageOf
      <3>2. s \in Sub /\ blocks[s] \in Block
        BY <2>1, <3>1, <1>1
      <3>3. c \in Block
        BY <3>2, VerdictIsBlock DEF Stage
      <3>4. blocks' = [blocks EXCEPT ![s] = c]
        BY <1>6, <2>2 DEF ApplyAccepted, WriteOnly, Write
      <3>5. BlockMove(blocks[s], c)
        BY <3>1 DEF BlockMove
      <3> QED
        BY <3>2, <3>3, <3>4, <3>5, <1>2
    <2>3. CASE StageOf(s) # "validating"
      BY <1>6, <2>3 DEF ApplyAccepted, Ignore
    <2> QED
      BY <2>2, <2>3
  <1>7. ASSUME ApplyRejected
        PROVE  Goal
    <2>1. inbox # <<>> /\ e.kind = "rejected"
      BY <1>7 DEF ApplyRejected, Turn
    <2>2. CASE StageOf(s) = "validating"
      <3> DEFINE c == AfterVerdict(blocks[s], "rejected")
      <3>1. blocks[s] # NoBlock /\ blocks[s].stage = "validating"
        BY <2>2 DEF StageOf
      <3>2. s \in Sub /\ blocks[s] \in Block
        BY <2>1, <3>1, <1>1
      <3>3. c \in Block
        BY <3>2, VerdictIsBlock DEF Stage
      <3>4. blocks' = [blocks EXCEPT ![s] = c]
        BY <1>7, <2>2 DEF ApplyRejected, WriteOnly, Write
      <3>5. BlockMove(blocks[s], c)
        BY <3>1 DEF BlockMove
      <3> QED
        BY <3>2, <3>3, <3>4, <3>5, <1>2
    <2>3. CASE StageOf(s) # "validating"
      BY <1>7, <2>3 DEF ApplyRejected, Ignore
    <2> QED
      BY <2>2, <2>3
  <1>8. ASSUME ApplyAssigned
        PROVE  Goal
    <2>1. inbox # <<>> /\ e.kind = "assigned"
      BY <1>8 DEF ApplyAssigned, Turn
    <2>2. s \in Sub /\ e.agent \in Agent /\ e.lease \in Lease
      BY <2>1, <1>1, ItemFields
    <2>3. CASE blocks[s] = NoBlock
      BY <1>8, <2>3 DEF ApplyAssigned, Unknown
    <2>4. CASE blocks[s] # NoBlock
      <3> DEFINE c == AfterAssigned(blocks[s], e.agent, e.lease)
      <3>1. blocks[s] \in Block
        BY <2>1, <2>2, <2>4, <1>1
      <3>2. c \in Block
        BY <2>2, <3>1, AssignedIsBlock
      <3>3. blocks' = [blocks EXCEPT ![s] = c]
        BY <1>8, <2>4 DEF ApplyAssigned, WriteOnly, Write
      <3>4. BlockMove(blocks[s], c)
        BY <2>2 DEF BlockMove
      <3> QED
        BY <2>2, <3>1, <3>2, <3>3, <3>4, <1>2
    <2> QED
      BY <2>3, <2>4
  <1>9. ASSUME ApplyHeartbeat
        PROVE  Goal
    <2>1. inbox # <<>> /\ e.kind = "heartbeat"
      BY <1>9 DEF ApplyHeartbeat, Turn
    <2>2. CASE blocks[s] = NoBlock
      BY <1>9, <2>2 DEF ApplyHeartbeat, Ignore
    <2>3. CASE blocks[s] # NoBlock
      <3> DEFINE c == AfterHeartbeat(blocks[s])
      <3>1. s \in Sub /\ blocks[s] \in Block
        BY <2>1, <2>3, <1>1
      <3>2. c \in Block
        BY <3>1, HeartbeatIsBlock
      <3>3. blocks' = [blocks EXCEPT ![s] = c]
        BY <1>9, <2>3 DEF ApplyHeartbeat, WriteOnly, Write
      <3>4. BlockMove(blocks[s], c)
        BY DEF BlockMove
      <3> QED
        BY <3>1, <3>2, <3>3, <3>4, <1>2
    <2> QED
      BY <2>2, <2>3
  <1>10. ASSUME ApplyCompleted
         PROVE  Goal
    <2>1. inbox # <<>> /\ e.kind = "completed"
      BY <1>10 DEF ApplyCompleted, Turn
    <2>2. s \in Sub /\ e.result \in Result
      BY <2>1, <1>1, ItemFields
    <2>3. CASE blocks[s] = NoBlock
      BY <1>10, <2>3 DEF ApplyCompleted, Unknown
    <2>4. CASE blocks[s] # NoBlock
      <3> DEFINE c == AfterCompleted(blocks[s], e.result)
      <3>1. blocks[s] \in Block
        BY <2>1, <2>2, <2>4, <1>1
      <3>2. c \in Block
        BY <2>2, <3>1, CompletedIsBlock
      <3>3. blocks' = [blocks EXCEPT ![s] = c]
        BY <1>10, <2>4 DEF ApplyCompleted, WriteOnly, Write
      <3>4. BlockMove(blocks[s], c)
        BY <2>2 DEF BlockMove
      <3> QED
        BY <2>2, <3>1, <3>2, <3>3, <3>4, <1>2
    <2> QED
      BY <2>3, <2>4
  <1>11. ASSUME s \in Sub, blocks[s] \in Block,
                \/ WriteOnly(s, AfterRetriable(blocks[s]), LateRetriable(blocks[s]))
                \/ WriteOnly(s, AfterFinalFailure(blocks[s]), LateFinalFailure(blocks[s]))
         PROVE  Goal
    <2> DEFINE b == AfterRetriable(blocks[s])
               c == AfterFinalFailure(blocks[s])
    <2>1. b \in Block /\ BlockMove(blocks[s], b)
      BY <1>11, RetriableIsBlock DEF BlockMove
    <2>2. c \in Block /\ BlockMove(blocks[s], c)
      BY <1>11, FinalFailureIsBlock DEF BlockMove
    <2>3. blocks' = [blocks EXCEPT ![s] = b] \/ blocks' = [blocks EXCEPT ![s] = c]
      BY <1>11 DEF WriteOnly, Write
    <2> HIDE DEF b, c, Goal
    <2> QED
      BY <1>11, <2>1, <2>2, <2>3, <1>2
  <1>12. ASSUME ApplyFailed \/ ApplyUnroutable \/ ApplyLeaseExpired
         PROVE  Goal
    <2>1. inbox # <<>> /\ e.kind \in {"failed", "unroutable", "lease_expired"}
      BY <1>12 DEF ApplyFailed, ApplyUnroutable, ApplyLeaseExpired, Turn
    <2>2. s \in Sub
      BY <2>1, <1>1
    <2>3. CASE blocks[s] = NoBlock
      BY <1>12, <2>3 DEF ApplyFailed, ApplyUnroutable, ApplyLeaseExpired, Unknown
    <2>4. CASE blocks[s] # NoBlock
      <3>1. blocks[s] \in Block
        BY <2>1, <2>2, <2>4, <1>1
      <3>2. \/ WriteOnly(s, AfterRetriable(blocks[s]), LateRetriable(blocks[s]))
            \/ WriteOnly(s, AfterFinalFailure(blocks[s]), LateFinalFailure(blocks[s]))
        BY <1>12, <2>4 DEF ApplyFailed, ApplyUnroutable, ApplyLeaseExpired
      <3> QED
        BY <2>2, <3>1, <3>2, <1>11
    <2> QED
      BY <2>3, <2>4
  <1>13. ASSUME CrashInProposed
         PROVE  Goal
    <2>1. inbox # <<>> /\ e.kind = "proposed" /\ blocks[s] = NoBlock
          /\ \/ UNCHANGED blocks
             \/ \E b \in {QueuedBlock, ValidatingBlock} : blocks' = [blocks EXCEPT ![s] = b]
      BY <1>13 DEF CrashInProposed
    <2>2. s \in Sub
      BY <2>1, <1>1
    <2> HIDE DEF s
    <2> QED
      BY <2>1, <2>2 DEF Written
  <1>14. ASSUME CrashInCompleted
         PROVE  Goal
    <2>1. inbox # <<>> /\ e.kind = "completed" /\ blocks[s] # NoBlock
      BY <1>14 DEF CrashInCompleted
    <2>2. PICK c \in CompletedPrefix(blocks[s], e.result) : blocks' = [blocks EXCEPT ![s] = c]
      BY <1>14 DEF CrashInCompleted
    <2>3. s \in Sub /\ blocks[s] \in Block /\ e.result \in Result
      BY <2>1, <1>1, ItemFields
    <2>4. c \in Block
      BY <2>2, <2>3, CompletedIsBlock
    <2>5. BlockMove(blocks[s], c)
      BY <2>2, <2>3 DEF BlockMove
    <2> QED
      BY <2>2, <2>3, <2>4, <2>5, <1>2
  <1>15. ASSUME NEW i \in Event, Deliver(i)
         PROVE  UNCHANGED blocks
    BY <1>15 DEF Deliver, disk
  <1>16. ASSUME RequestStop \/ Start \/ Crash \/ UNCHANGED vars
         PROVE  UNCHANGED blocks
    BY <1>16 DEF RequestStop, Start, Crash, vars, disk
  <1> QED
    BY <1>3, <1>4, <1>5, <1>6, <1>7, <1>8, <1>9, <1>10, <1>12, <1>13, <1>14,
       <1>15, <1>16 DEF Next, WriterStep, CrashStep

-----------------------------------------------------------------------------
(* The budget.                                                             *)

LEMMA FreshNotNull == QueuedBlock # NoBlock /\ ValidatingBlock # NoBlock
  BY FreshBlocks, RecorderAssumption

LEMMA BlocksFinite ==
  ASSUME NEW r
  PROVE  IsFiniteSet(BlocksOf(r)) /\ Cardinality(BlocksOf(r)) \in Nat
  <1>1. BlocksOf(r) \in SUBSET Sub
    BY DEF BlocksOf
  <1>2. IsFiniteSet(BlocksOf(r))
    BY <1>1, FS_Subset, RecorderAssumption
  <1> QED
    BY <1>2, FS_CardinalityType

(* A block that is moved was counted before.                               *)
LEMMA MovedKeeps ==
  ASSUME TypeOK, NEW s \in Sub, Moved(s) \/ UNCHANGED blocks, NEW r
  PROVE  BlocksOf(r)' = BlocksOf(r)
  <1>1. CASE UNCHANGED blocks
    BY <1>1 DEF BlocksOf
  <1>2. CASE Moved(s)
    <2>1. PICK c \in Block : blocks' = [blocks EXCEPT ![s] = c]
      BY <1>2 DEF Moved
    <2>2. blocks[s] # NoBlock /\ c # NoBlock
      BY <1>2, RecorderAssumption DEF Moved
    <2>3. \A u \in Sub : blocks'[u] # NoBlock <=> blocks[u] # NoBlock
      BY <2>1, <2>2 DEF TypeOK
    <2> QED
      BY <2>3 DEF BlocksOf
  <1> QED
    BY <1>1, <1>2

(* A first block adds one to its own root and nothing to any other.        *)
LEMMA WrittenCounts ==
  ASSUME TypeOK, NEW s \in Sub, Written(s), NEW r \in Root
  PROVE  Cardinality(BlocksOf(r)') =
           IF r = RootOf[s] THEN Cardinality(BlocksOf(r)) + 1 ELSE Cardinality(BlocksOf(r))
  <1>1. blocks[s] = NoBlock /\ blocks'[s] # NoBlock
        /\ \A u \in Sub \ {s} : blocks'[u] = blocks[u]
    BY FreshNotNull DEF Written, TypeOK
  <1>2. CASE r = RootOf[s]
    <2>1. BlocksOf(r)' = BlocksOf(r) \cup {s} /\ s \notin BlocksOf(r)
      BY <1>1, <1>2 DEF BlocksOf
    <2> QED
      BY <1>2, <2>1, BlocksFinite, FS_AddElement
  <1>3. CASE r # RootOf[s]
    <2>1. BlocksOf(r)' = BlocksOf(r)
      BY <1>1, <1>3 DEF BlocksOf
    <2> QED
      BY <1>3, <2>1
  <1> QED
    BY <1>2, <1>3

(* A handler that saves a block which exists writes no first block.        *)
LEMMA WriteKeeps ==
  ASSUME TypeOK, [Next]_vars, NEW s, NEW b, blocks[s] # NoBlock,
         blocks' = [blocks EXCEPT ![s] = b], NEW r
  PROVE  BlocksOf(r)' = BlocksOf(r)
  <1>1. ASSUME NEW u \in Sub, Written(u)
        PROVE  FALSE
    <2>1. blocks[u] = NoBlock /\ blocks'[u] # NoBlock
      BY <1>1, FreshNotNull DEF Written, TypeOK
    <2>2. u # s
      BY <2>1
    <2>3. blocks'[u] = blocks[u]
      BY <2>2 DEF TypeOK
    <2> QED
      BY <2>1, <2>3
  <1>2. CASE UNCHANGED blocks
    BY <1>2 DEF BlocksOf
  <1>3. ASSUME NEW u \in Sub, Moved(u)
        PROVE  BlocksOf(r)' = BlocksOf(r)
    BY <1>3, MovedKeeps
  <1> QED
    BY <1>1, <1>2, <1>3, MoveStep

(* A root whose problem block exists keeps its budget.                     *)
CapsKept == \A r \in problem : r \in problem' /\ cap'[r] = cap[r]

LEMMA EnsureKeepsCaps ==
  ASSUME TypeOK, NEW r \in Root, EnsureProblem(r)
  PROVE  /\ CapsKept
         /\ r \in problem'
         /\ cap'[r] = EffectiveCap(r)
         /\ \A q \in Root \ {r} : (q \in problem' <=> q \in problem) /\ cap'[q] = cap[q]
  BY DEF TypeOK, EnsureProblem, WriteProblem, EffectiveCap, CapsKept

(* A step that writes no first block, and one that does.                   *)
Uncounted ==
  /\ \A r \in Root : BlocksOf(r)' = BlocksOf(r)
  /\ CapsKept
  /\ \A r \in Root : saved'[r] = saved[r]
  /\ \A r \in Root : consumed'[r] = consumed[r]
  /\ UNCHANGED lost

Counted(s) ==
  /\ Written(s)
  /\ Reserved(RootOf[s]) = 1
  /\ EnsureProblem(RootOf[s])
  /\ \/ /\ consumed' = [consumed EXCEPT ![RootOf[s]] = @ + 1]
        /\ saved' = [saved EXCEPT ![RootOf[s]] = consumed'[RootOf[s]]]
        /\ UNCHANGED lost
     \/ /\ consumed' = saved /\ saved' = saved
        /\ lost' = [lost EXCEPT ![RootOf[s]] = @ + 1]

LEMMA CountStep ==
  ASSUME TypeOK, BudgetAccounted, [Next]_vars
  PROVE  Uncounted \/ \E s \in Sub : Counted(s)
  <1> DEFINE e == Head(inbox)
             s == e.sub
  <1>1. \A r \in Root : saved[r] = consumed[r]
    BY DEF BudgetAccounted
  <1>2. ASSUME UNCHANGED <<blocks, problem, cap, saved, lost>>,
               consumed' \in {consumed, saved}
        PROVE  Uncounted
    BY <1>1, <1>2 DEF Uncounted, CapsKept, BlocksOf
  <1>3. ASSUME NEW u, NEW b, NEW illegal, blocks[u] # NoBlock,
               WriteOnly(u, b, illegal), UNCHANGED lost
        PROVE  Uncounted
    <2>1. blocks' = [blocks EXCEPT ![u] = b]
          /\ UNCHANGED <<problem, cap, saved, consumed>>
      BY <1>3 DEF WriteOnly, Write
    <2>2. \A r \in Root : BlocksOf(r)' = BlocksOf(r)
      BY <1>3, <2>1, WriteKeeps
    <2> QED
      BY <1>3, <2>1, <2>2 DEF Uncounted, CapsKept
  <1>4. ASSUME Ignore \/ Unknown, UNCHANGED lost
        PROVE  Uncounted
    BY <1>2, <1>4 DEF Ignore, Unknown
  <1>5. ASSUME NEW i \in Event, Deliver(i)
        PROVE  Uncounted
    BY <1>2, <1>5 DEF Deliver, disk
  <1>6. ASSUME RequestStop \/ Start \/ UNCHANGED vars
        PROVE  Uncounted
    BY <1>2, <1>6 DEF RequestStop, Start, vars, memory, disk
  <1>7. ASSUME ApplyStop
        PROVE  Uncounted
    BY <1>4, <1>7 DEF ApplyStop, Turn
  <1>8. ASSUME ApplyProblemSubmitted
        PROVE  Uncounted
    <2>1. UNCHANGED lost
      BY <1>8 DEF ApplyProblemSubmitted, Turn
    <2>2. CASE e.root \in problem
      BY <1>4, <1>8, <2>1, <2>2 DEF ApplyProblemSubmitted
    <2>3. CASE e.root \notin problem
      <3>1. /\ WriteProblem(e.root, e.cap)
            /\ saved' = [saved EXCEPT ![e.root] = 0]
            /\ UNCHANGED <<blocks, index, consumed, errors>>
        BY <1>8, <2>3 DEF ApplyProblemSubmitted
      <3> HIDE DEF e
      <3>2. \A r \in Root : saved'[r] = saved[r]
        BY <1>1, <2>3, <3>1 DEF TypeOK, BudgetAccounted
      <3>3. CapsKept
        BY <2>3, <3>1 DEF CapsKept, WriteProblem, TypeOK
      <3> QED
        BY <2>1, <3>1, <3>2, <3>3 DEF Uncounted, BlocksOf
    <2> QED
      BY <2>2, <2>3
  <1>9. ASSUME ApplyProposedAgain
        PROVE  Uncounted
    <2>1. UNCHANGED lost /\ blocks[s] # NoBlock
      BY <1>9 DEF ApplyProposedAgain, Turn
    <2>2. \/ WriteOnly(s, [blocks[s] EXCEPT !.stage = "validating"], FALSE)
          \/ Ignore
      BY <1>9 DEF ApplyProposedAgain
    <2> HIDE DEF s
    <2> QED
      BY <1>3, <1>4, <2>1, <2>2
  <1>10. ASSUME inbox # <<>>, e.kind = "proposed"
         PROVE  s \in Sub /\ RootOf[s] \in Root
    <2>1. e \in Item
      BY <1>10 DEF TypeOK
    <2> QED
      BY <1>10, <2>1, ItemFields, RecorderAssumption
  <1>11. ASSUME ApplyProposed
         PROVE  s \in Sub /\ Counted(s)
    <2>1. inbox # <<>> /\ e.kind = "proposed" /\ UNCHANGED lost
      BY <1>11 DEF ApplyProposed, Turn
    <2> QED
      BY <1>10, <1>11, <2>1
         DEF ApplyProposed, Counted, Written, Write, PersistConsumed
  <1>12. ASSUME ApplyProposedOverBudget
         PROVE  Uncounted
    <2>1. inbox # <<>> /\ e.kind = "proposed" /\ EnsureProblem(RootOf[s])
          /\ UNCHANGED <<blocks, index, saved, consumed, errors>> /\ UNCHANGED lost
      BY <1>12 DEF ApplyProposedOverBudget, Turn
    <2>2. CapsKept
      BY <1>10, <2>1, EnsureKeepsCaps
    <2> QED
      BY <2>1, <2>2 DEF Uncounted, BlocksOf
  <1>13. ASSUME ApplyAccepted \/ ApplyRejected
         PROVE  Uncounted
    <2>1. UNCHANGED lost
      BY <1>13 DEF ApplyAccepted, ApplyRejected, Turn
    <2>2. \/ Ignore
          \/ /\ StageOf(s) = "validating"
             /\ \/ WriteOnly(s, AfterVerdict(blocks[s], "accepted"), FALSE)
                \/ WriteOnly(s, AfterVerdict(blocks[s], "rejected"), FALSE)
      BY <1>13 DEF ApplyAccepted, ApplyRejected
    <2>3. StageOf(s) = "validating" => blocks[s] # NoBlock
      BY DEF StageOf
    <2> HIDE DEF s
    <2> QED
      BY <1>3, <1>4, <2>1, <2>2, <2>3
  (* The six reports about work: an unknown id, or a write to its block.   *)
  <1>14. ASSUME \/ ApplyAssigned \/ ApplyHeartbeat \/ ApplyCompleted
                \/ ApplyFailed \/ ApplyUnroutable \/ ApplyLeaseExpired
         PROVE  Uncounted
    <2>1. UNCHANGED lost
      BY <1>14 DEF ApplyAssigned, ApplyHeartbeat, ApplyCompleted, ApplyFailed,
                   ApplyUnroutable, ApplyLeaseExpired, Turn
    <2>2. \/ Ignore \/ Unknown
          \/ /\ blocks[s] # NoBlock
             /\ \/ WriteOnly(s, AfterAssigned(blocks[s], e.agent, e.lease),
                             ~CanTransition(blocks[s], "assigned"))
                \/ WriteOnly(s, AfterHeartbeat(blocks[s]), FALSE)
                \/ WriteOnly(s, AfterCompleted(blocks[s], e.result),
                             LateCompletion(blocks[s]))
                \/ WriteOnly(s, AfterRetriable(blocks[s]), LateRetriable(blocks[s]))
                \/ WriteOnly(s, AfterFinalFailure(blocks[s]),
                             LateFinalFailure(blocks[s]))
      BY <1>14 DEF ApplyAssigned, ApplyHeartbeat, ApplyCompleted, ApplyFailed,
                   ApplyUnroutable, ApplyLeaseExpired
    <2> HIDE DEF s, e
    <2> QED
      BY <1>3, <1>4, <2>1, <2>2
  <1>15. ASSUME Crash
         PROVE  Uncounted
    BY <1>2, <1>15 DEF Crash, Reboot
  <1>16. ASSUME CrashInProposed
         PROVE  Uncounted \/ (s \in Sub /\ Counted(s))
    <2>1. /\ inbox # <<>> /\ e.kind = "proposed" /\ blocks[s] = NoBlock
          /\ EnsureProblem(RootOf[s])
          /\ consumed' = saved /\ saved' = saved
          /\ \/ UNCHANGED <<blocks, lost>>
             \/ /\ Reserved(RootOf[s]) = 1
                /\ \E b \in {QueuedBlock, ValidatingBlock} :
                       blocks' = [blocks EXCEPT ![s] = b]
                /\ lost' = [lost EXCEPT ![RootOf[s]] = @ + 1]
      BY <1>16 DEF CrashInProposed, Reboot
    <2>2. s \in Sub /\ RootOf[s] \in Root
      BY <1>10, <2>1
    <2> HIDE DEF s
    <2>3. CASE UNCHANGED <<blocks, lost>>
      <3>1. CapsKept
        BY <2>1, <2>2, EnsureKeepsCaps
      <3> QED
        BY <1>1, <2>1, <2>3, <3>1 DEF Uncounted, BlocksOf
    <2>4. CASE ~UNCHANGED <<blocks, lost>>
      BY <2>1, <2>2, <2>4 DEF Counted, Written
    <2> QED
      BY <2>3, <2>4
  <1>17. ASSUME CrashInCompleted
         PROVE  Uncounted
    <2>1. /\ blocks[s] # NoBlock
          /\ \E b : blocks' = [blocks EXCEPT ![s] = b]
          /\ UNCHANGED <<problem, cap, lost>>
          /\ consumed' = saved /\ saved' = saved
      BY <1>17 DEF CrashInCompleted, Reboot
    <2> HIDE DEF s
    <2>2. \A r \in Root : BlocksOf(r)' = BlocksOf(r)
      BY <2>1, WriteKeeps
    <2> QED
      BY <1>1, <2>1, <2>2 DEF Uncounted, CapsKept
  <1> QED
    BY <1>5, <1>6, <1>7, <1>8, <1>9, <1>11, <1>12, <1>13, <1>14, <1>15, <1>16,
       <1>17 DEF Next, WriterStep, CrashStep

LEMMA BudgetInductive ==
  ASSUME TypeOK, TypeOK', BudgetAccounted, [Next]_vars
  PROVE  BudgetAccounted'
  <1>1. ASSUME Uncounted, NEW r \in Root
        PROVE  /\ saved'[r] = consumed'[r]
               /\ Cardinality(BlocksOf(r)') = consumed'[r] + lost'[r]
               /\ consumed'[r] <= cap'[r]
               /\ r \notin problem' => consumed'[r] = 0
    <2>1. /\ BlocksOf(r)' = BlocksOf(r) /\ saved'[r] = saved[r]
          /\ consumed'[r] = consumed[r] /\ lost'[r] = lost[r]
          /\ r \in problem => r \in problem' /\ cap'[r] = cap[r]
      BY <1>1 DEF Uncounted, CapsKept
    <2>2. cap'[r] \in Nat
      BY DEF TypeOK
    <2> QED
      BY <2>1, <2>2 DEF BudgetAccounted
  <1>2. ASSUME NEW s \in Sub, Counted(s), NEW r \in Root
        PROVE  /\ saved'[r] = consumed'[r]
               /\ Cardinality(BlocksOf(r)') = consumed'[r] + lost'[r]
               /\ consumed'[r] <= cap'[r]
               /\ r \notin problem' => consumed'[r] = 0
    <2> DEFINE q == RootOf[s]
    <2>1. q \in Root
      BY RecorderAssumption
    <2>2. /\ q \in problem' /\ cap'[q] = EffectiveCap(q)
          /\ \A p \in Root \ {q} : (p \in problem' <=> p \in problem) /\ cap'[p] = cap[p]
      BY <1>2, <2>1, EnsureKeepsCaps DEF Counted
    <2>3. consumed[q] < EffectiveCap(q)
      BY <1>2 DEF Counted, Reserved
    <2>4. Cardinality(BlocksOf(r)') =
            IF r = q THEN Cardinality(BlocksOf(r)) + 1 ELSE Cardinality(BlocksOf(r))
      BY <1>2, WrittenCounts DEF Counted
    <2>5. /\ saved[r] = consumed[r] /\ consumed[r] \in Nat /\ lost[r] \in Nat
          /\ cap[r] \in Nat /\ Cardinality(BlocksOf(r)) = consumed[r] + lost[r]
          /\ consumed[r] <= cap[r] /\ (r \notin problem => consumed[r] = 0)
      BY DEF BudgetAccounted, TypeOK
    <2>6. \/ /\ consumed' = [consumed EXCEPT ![q] = @ + 1]
             /\ saved' = [saved EXCEPT ![q] = consumed'[q]]
             /\ lost' = lost
          \/ /\ consumed' = saved /\ saved' = saved
             /\ lost' = [lost EXCEPT ![q] = @ + 1]
      BY <1>2 DEF Counted
    <2>7. \/ /\ consumed'[r] = (IF r = q THEN consumed[r] + 1 ELSE consumed[r])
             /\ saved'[r] = consumed'[r] /\ lost'[r] = lost[r]
          \/ /\ consumed'[r] = consumed[r] /\ saved'[r] = consumed[r]
             /\ lost'[r] = (IF r = q THEN lost[r] + 1 ELSE lost[r])
      BY <2>1, <2>5, <2>6 DEF TypeOK
    <2>8. EffectiveCap(q) \in Nat
      BY <2>1, RecorderAssumption DEF EffectiveCap, TypeOK
    <2> HIDE DEF q
    <2>9. CASE r = q
      BY <2>2, <2>3, <2>4, <2>5, <2>7, <2>8, <2>9
    <2>10. CASE r # q
      BY <2>2, <2>4, <2>5, <2>7, <2>10
    <2> QED
      BY <2>9, <2>10
  <1> QED
    BY <1>1, <1>2, CountStep DEF BudgetAccounted

LEMMA BudgetInitially ==
  ASSUME Init
  PROVE  BudgetAccounted
  <1>1. ASSUME NEW r \in Root
        PROVE  Cardinality(BlocksOf(r)) = 0
    <2>1. BlocksOf(r) = {}
      BY DEF Init, BlocksOf
    <2> QED
      BY <2>1, FS_EmptySet
  <1> QED
    BY <1>1 DEF Init, BudgetAccounted

(* Every block is counted once, in memory and on disk, apart from those    *)
(* whose count a crash lost (recorder.py, _apply_subproblem_proposed).     *)
THEOREM BudgetAccountedAlways == Spec => []BudgetAccounted
  <1> QED
    BY BudgetInitially, TypeCorrect, BudgetInductive, PTL DEF Spec

(* No root ever has more blocks than its budget and the crashes that hit   *)
(* the window between add_block and the persisted count allow.             *)
THEOREM BudgetRespectedAlways == Spec => []BudgetRespected
  <1>1. TypeOK /\ BudgetAccounted => BudgetRespected
    BY DEF BudgetAccounted, BudgetRespected, TypeOK
  <1> QED
    BY <1>1, TypeCorrect, BudgetAccountedAlways, PTL

-----------------------------------------------------------------------------
(* The status index.                                                       *)

(* Saving block b for s and moving s in the index keeps the two in step.   *)
LEMMA WriteInLockstep ==
  ASSUME TypeOK, IndexInLockstep, NEW s \in Sub, NEW b \in Block, Write(s, b)
  PROVE  IndexInLockstep'
  <1>1. b.stage \in Stage /\ b # NoBlock
    BY RecorderAssumption DEF Block
  <1>2. ASSUME NEW st \in Stage
        PROVE  index'[st] = {u \in Sub : blocks'[u] # NoBlock /\ blocks'[u].stage = st}
    <2>1. index[st] = {u \in Sub : blocks[u] # NoBlock /\ blocks[u].stage = st}
      BY DEF IndexInLockstep, IndexOf
    <2>2. \A u \in Sub : blocks'[u] = (IF u = s THEN b ELSE blocks[u])
      BY DEF Write, TypeOK
    <2>3. StageOf(s) = st <=> blocks[s] # NoBlock /\ blocks[s].stage = st
      BY DEF StageOf, Stage
    <2>4. index'[st] = IF st = b.stage THEN index[st] \cup {s}
                       ELSE IF st = StageOf(s) THEN index[st] \ {s} ELSE index[st]
      BY DEF Write
    <2>5. CASE st = b.stage
      BY <1>1, <2>1, <2>2, <2>4, <2>5
    <2>6. CASE st # b.stage
      BY <1>1, <2>1, <2>2, <2>3, <2>4, <2>6
    <2> QED
      BY <2>5, <2>6
  <1>3. index' = [st \in Stage |-> index'[st]]
    BY DEF Write
  <1> QED
    BY <1>2, <1>3 DEF IndexInLockstep, IndexOf

LEMMA SavedIsBlock ==
  ASSUME TypeOK, TypeOK', [Next]_vars, NEW s \in Sub, NEW b,
         blocks[s] # NoBlock, blocks' = [blocks EXCEPT ![s] = b]
  PROVE  b \in Block
  <1>1. blocks'[s] = b /\ b \in Block \cup {NoBlock}
    BY DEF TypeOK
  <1>2. ASSUME NEW u \in Sub, Written(u)
        PROVE  b # NoBlock
    <2>1. blocks[u] = NoBlock /\ blocks'[u] # NoBlock
      BY <1>2, FreshNotNull DEF Written, TypeOK
    <2> QED
      BY <2>1 DEF TypeOK
  <1>3. ASSUME NEW u \in Sub, Moved(u)
        PROVE  b # NoBlock
    BY <1>1, <1>3, RecorderAssumption DEF Moved, TypeOK
  <1> QED
    BY <1>1, <1>2, <1>3, MoveStep

LEMMA IndexInductive ==
  ASSUME TypeOK, TypeOK', IndexInLockstep, [Next]_vars
  PROVE  IndexInLockstep'
  <1> DEFINE e == Head(inbox)
             s == e.sub
  <1>1. ASSUME UNCHANGED <<blocks, index>>
        PROVE  IndexInLockstep'
    BY <1>1 DEF IndexInLockstep, IndexOf
  <1>2. ASSUME index' = IndexOf(blocks')
        PROVE  IndexInLockstep'
    BY <1>2 DEF IndexInLockstep, IndexOf
  <1>3. ASSUME inbox # <<>>, e.kind \in {"proposed", "accepted", "rejected", "heartbeat",
                        "unroutable", "lease_expired", "assigned", "completed", "failed"}
        PROVE  s \in Sub
    <2>1. e \in Item
      BY <1>3 DEF TypeOK
    <2> QED
      BY <1>3, <2>1, ItemFields
  <1>4. ASSUME s \in Sub, blocks[s] # NoBlock, NEW b, NEW illegal, WriteOnly(s, b, illegal)
        PROVE  IndexInLockstep'
    <2> HIDE DEF s
    <2>1. Write(s, b) /\ blocks' = [blocks EXCEPT ![s] = b]
      BY <1>4 DEF WriteOnly, Write
    <2>2. b \in Block
      BY <1>4, <2>1, SavedIsBlock
    <2> QED
      BY <1>4, <2>1, <2>2, WriteInLockstep
  <1>5. ASSUME Ignore \/ Unknown
        PROVE  IndexInLockstep'
    BY <1>1, <1>5 DEF Ignore, Unknown
  <1>6. ASSUME \/ \E i \in Event : Deliver(i)
               \/ RequestStop \/ Start \/ UNCHANGED vars
        PROVE  IndexInLockstep'
    BY <1>1, <1>6 DEF Deliver, RequestStop, Start, vars, memory, disk
  <1>7. ASSUME CrashStep
        PROVE  IndexInLockstep'
    BY <1>2, <1>7 DEF CrashStep, Crash, CrashInProposed, CrashInCompleted, Reboot
  <1>8. ASSUME ApplyStop \/ ApplyProblemSubmitted \/ ApplyProposedOverBudget
        PROVE  IndexInLockstep'
    BY <1>1, <1>5, <1>8 DEF ApplyStop, ApplyProblemSubmitted, ApplyProposedOverBudget, Ignore
  <1>9. ASSUME ApplyProposed
        PROVE  IndexInLockstep'
    <2>1. inbox # <<>> /\ e.kind = "proposed" /\ Write(s, ValidatingBlock)
      BY <1>9 DEF ApplyProposed, Turn
    <2>2. s \in Sub
      BY <1>3, <2>1
    <2> QED
      BY <2>1, <2>2, FreshBlocks, WriteInLockstep
  <1>10. ASSUME ApplyProposedAgain \/ ApplyAccepted \/ ApplyRejected
         PROVE  IndexInLockstep'
    <2>1. s \in Sub
      BY <1>3, <1>10 DEF ApplyProposedAgain, ApplyAccepted, ApplyRejected, Turn
    <2>2. \/ Ignore
          \/ /\ blocks[s] # NoBlock
             /\ WriteOnly(s, [blocks[s] EXCEPT !.stage = "validating"], FALSE)
          \/ /\ StageOf(s) = "validating"
             /\ \/ WriteOnly(s, AfterVerdict(blocks[s], "accepted"), FALSE)
                \/ WriteOnly(s, AfterVerdict(blocks[s], "rejected"), FALSE)
      BY <1>10 DEF ApplyProposedAgain, ApplyAccepted, ApplyRejected
    <2>3. StageOf(s) = "validating" => blocks[s] # NoBlock
      BY DEF StageOf
    <2> QED
      BY <1>4, <1>5, <2>1, <2>2, <2>3
  <1>11. ASSUME \/ ApplyAssigned \/ ApplyHeartbeat \/ ApplyCompleted
                \/ ApplyFailed \/ ApplyUnroutable \/ ApplyLeaseExpired
         PROVE  IndexInLockstep'
    <2>1. s \in Sub
      BY <1>3, <1>11 DEF ApplyAssigned, ApplyHeartbeat, ApplyCompleted, ApplyFailed,
                         ApplyUnroutable, ApplyLeaseExpired, Turn
    <2>2. \/ Ignore \/ Unknown
          \/ /\ blocks[s] # NoBlock
             /\ \/ WriteOnly(s, AfterAssigned(blocks[s], e.agent, e.lease),
                             ~CanTransition(blocks[s], "assigned"))
                \/ WriteOnly(s, AfterHeartbeat(blocks[s]), FALSE)
                \/ WriteOnly(s, AfterCompleted(blocks[s], e.result),
                             LateCompletion(blocks[s]))
                \/ WriteOnly(s, AfterRetriable(blocks[s]), LateRetriable(blocks[s]))
                \/ WriteOnly(s, AfterFinalFailure(blocks[s]),
                             LateFinalFailure(blocks[s]))
      BY <1>11 DEF ApplyAssigned, ApplyHeartbeat, ApplyCompleted, ApplyFailed,
                   ApplyUnroutable, ApplyLeaseExpired
    <2> QED
      BY <1>4, <1>5, <2>1, <2>2
  <1> QED
    BY <1>6, <1>7, <1>8, <1>9, <1>10, <1>11 DEF Next, WriterStep

(* Whatever is delivered and whenever the process dies, the index the      *)
(* Coordinator, the Reaper and recovery read agrees with the blocks.       *)
THEOREM IndexCorrect == Spec => []IndexInLockstep
  <1>1. Init => IndexInLockstep
    BY DEF Init, IndexInLockstep, IndexOf
  <1> QED
    BY <1>1, TypeCorrect, IndexInductive, PTL DEF Spec

-----------------------------------------------------------------------------
(* What the fields of a block say about each other.                        *)

(* ResultOnlyWhenVerified and TroubleIsCurrent, of one block.              *)
BlockSound(b) ==
  /\ b.result # NoResult => b.stage \in {"verifying", "done", "failed"}
  /\ b.stage \in {"verifying", "done"} => b.result # NoResult
  /\ b.retriable = "yes" <=> b.stage = "retrying"
  /\ b.lastError => b.stage \in {"retrying", "failed"}

LEMMA LateSound ==
  ASSUME NEW b \in Block, BlockSound(b)
  PROVE  BlockSound(LateEvent(b))
  BY DEF Block, BlockSound, LateEvent

(* Where a block can go from each stage, as CanTransition has it.          *)
LEMMA Sources ==
  ASSUME NEW b \in Block
  PROVE  /\ CanTransition(b, "assigned") => b.stage \in {"accepted", "retrying"}
         /\ CanTransition(b, "verifying") => b.stage = "in_progress"
         /\ CanTransition(b, "retrying") => b.stage \in {"assigned", "in_progress"}
         /\ CanTransition(b, "failed")
              => b.stage \in {"accepted", "assigned", "in_progress", "verifying", "retrying"}
  BY DEF Block, Stage, CanTransition, AllowedTransitions

LEMMA StartedFrom ==
  ASSUME NEW b \in Block
  PROVE  /\ AfterHeartbeat(b) \in Block
         /\ AfterHeartbeat(b).stage = "in_progress" => b.stage \in {"assigned", "in_progress"}
         /\ AfterHeartbeat(b).result = b.result
         /\ AfterHeartbeat(b).lastError = b.lastError
         /\ AfterHeartbeat(b).retriable = b.retriable
         /\ AfterHeartbeat(b).agent = b.agent /\ AfterHeartbeat(b).lease = b.lease
  BY HeartbeatIsBlock DEF AfterHeartbeat, Block

(* The moves of a block, one disjunct per effect: nothing but breadcrumbs, *)
(* or one change of stage with the fields it may write.                    *)
LEMMA Effects ==
  ASSUME NEW b \in Block, NEW c \in Block, BlockMove(b, c)
  PROVE  \/ c \in {b, LateEvent(b)}
         \/ b.stage = "queued" /\ c = [b EXCEPT !.stage = "validating"]
         \/ /\ b.stage = "validating"
            /\ \E st \in {"accepted", "rejected"} : c = [b EXCEPT !.stage = st]
         \/ /\ b.stage \in {"accepted", "retrying"}
            /\ \E a \in Agent, l \in Lease :
                 c = [b EXCEPT !.stage = "assigned", !.agent = a, !.lease = l,
                               !.lastError = FALSE, !.retriable = "unset"]
         \/ b.stage = "assigned" /\ c = [b EXCEPT !.stage = "in_progress"]
         \/ /\ b.stage \in {"assigned", "in_progress"}
            /\ \E x \in Result, st \in {"verifying", "done"} :
                 c = [b EXCEPT !.stage = st, !.result = x]
         \/ b.stage = "retrying" /\ c = [b EXCEPT !.lastError = TRUE]
         \/ /\ b.stage \in {"assigned", "in_progress"}
            /\ c = [b EXCEPT !.stage = "retrying", !.lastError = TRUE, !.retriable = "yes"]
         \/ /\ b.stage \in {"accepted", "assigned", "in_progress", "verifying", "retrying"}
            /\ c = [b EXCEPT !.stage = "failed", !.retriable = "no"]
  <1>1. CASE b.stage = "queued" /\ c = [b EXCEPT !.stage = "validating"]
    BY <1>1
  <1>2. CASE b.stage = "validating" /\ \E st \in {"accepted", "rejected"} : c = AfterVerdict(b, st)
    BY <1>2 DEF AfterVerdict
  <1>3. CASE \E a \in Agent, l \in Lease : c = AfterAssigned(b, a, l)
    BY <1>3, Sources DEF AfterAssigned
  <1>4. CASE c = AfterHeartbeat(b)
    BY <1>4 DEF AfterHeartbeat
  <1>5. ASSUME NEW x \in Result, c = AfterCompleted(b, x) \/ c \in CompletedPrefix(b, x)
        PROVE  \/ c \in {b, LateEvent(b)}
               \/ b.stage = "assigned" /\ c = [b EXCEPT !.stage = "in_progress"]
               \/ /\ b.stage \in {"assigned", "in_progress"}
                  /\ \E st \in {"verifying", "done"} : c = [b EXCEPT !.stage = st, !.result = x]
    <2>1. CASE ~CanTransition(AfterHeartbeat(b), "verifying")
      BY <1>5, <2>1 DEF AfterCompleted, CompletedPrefix
    <2>2. CASE CanTransition(AfterHeartbeat(b), "verifying")
      <3>1. b.stage \in {"assigned", "in_progress"}
        BY <2>2, StartedFrom, Sources
      <3>2. \A st : [AfterHeartbeat(b) EXCEPT !.stage = st, !.result = x]
                      = [b EXCEPT !.stage = st, !.result = x]
        BY DEF AfterHeartbeat, Block
      <3>3. c \in {AfterHeartbeat(b),
                   [AfterHeartbeat(b) EXCEPT !.stage = "verifying", !.result = x],
                   [AfterHeartbeat(b) EXCEPT !.stage = "done", !.result = x]}
        BY <1>5, <2>2 DEF AfterCompleted, CompletedPrefix
      <3>4. CASE c = AfterHeartbeat(b)
        BY <3>4 DEF AfterHeartbeat
      <3>5. CASE c = [AfterHeartbeat(b) EXCEPT !.stage = "verifying", !.result = x]
        BY <3>1, <3>2, <3>5
      <3>6. CASE c = [AfterHeartbeat(b) EXCEPT !.stage = "done", !.result = x]
        BY <3>1, <3>2, <3>6
      <3> QED
        BY <3>3, <3>4, <3>5, <3>6
    <2> QED
      BY <2>1, <2>2
  <1>6. CASE c = AfterRetriable(b)
    BY <1>6, Sources DEF AfterRetriable
  <1>7. CASE c = AfterFinalFailure(b)
    BY <1>7, Sources DEF AfterFinalFailure
  <1> QED
    BY <1>1, <1>2, <1>3, <1>4, <1>5, <1>6, <1>7 DEF BlockMove

LEMMA MoveSound ==
  ASSUME NEW b \in Block, NEW c \in Block, BlockMove(b, c), BlockSound(b)
  PROVE  BlockSound(c)
  <1>1. CASE c \in {b, LateEvent(b)}
    BY <1>1, LateSound
  <1>2. CASE b.stage = "queued" /\ c = [b EXCEPT !.stage = "validating"]
    BY <1>2 DEF BlockSound, Block
  <1>3. CASE /\ b.stage = "validating"
             /\ \E st \in {"accepted", "rejected"} : c = [b EXCEPT !.stage = st]
    BY <1>3 DEF BlockSound, Block
  <1>4. CASE /\ b.stage \in {"accepted", "retrying"}
             /\ \E a \in Agent, l \in Lease :
                  c = [b EXCEPT !.stage = "assigned", !.agent = a, !.lease = l,
                                !.lastError = FALSE, !.retriable = "unset"]
    BY <1>4 DEF BlockSound, Block
  <1>5. CASE b.stage = "assigned" /\ c = [b EXCEPT !.stage = "in_progress"]
    BY <1>5 DEF BlockSound, Block
  <1>6. CASE /\ b.stage \in {"assigned", "in_progress"}
             /\ \E x \in Result, st \in {"verifying", "done"} :
                  c = [b EXCEPT !.stage = st, !.result = x]
    BY <1>6, NullAssumption DEF BlockSound, Block
  <1>7. CASE b.stage = "retrying" /\ c = [b EXCEPT !.lastError = TRUE]
    BY <1>7 DEF BlockSound, Block
  <1>8. CASE /\ b.stage \in {"assigned", "in_progress"}
             /\ c = [b EXCEPT !.stage = "retrying", !.lastError = TRUE, !.retriable = "yes"]
    BY <1>8 DEF BlockSound, Block
  <1>9. CASE /\ b.stage \in {"accepted", "assigned", "in_progress", "verifying", "retrying"}
             /\ c = [b EXCEPT !.stage = "failed", !.retriable = "no"]
    BY <1>9 DEF BlockSound, Block
  <1> QED
    BY <1>1, <1>2, <1>3, <1>4, <1>5, <1>6, <1>7, <1>8, <1>9, Effects

AllSound == \A s \in Sub : blocks[s] # NoBlock => BlockSound(blocks[s])

LEMMA SoundInductive ==
  ASSUME TypeOK, AllSound, [Next]_vars
  PROVE  AllSound'
  <1>1. CASE UNCHANGED blocks
    BY <1>1 DEF AllSound
  <1>2. ASSUME NEW s \in Sub, Moved(s)
        PROVE  AllSound'
    <2>1. blocks[s] \in Block /\ blocks[s] # NoBlock
      BY <1>2, RecorderAssumption DEF Moved
    <2>2. PICK c \in Block : BlockMove(blocks[s], c) /\ blocks' = [blocks EXCEPT ![s] = c]
      BY <1>2 DEF Moved
    <2>3. BlockSound(c)
      BY <2>1, <2>2, MoveSound DEF AllSound
    <2>4. \A u \in Sub : blocks'[u] = (IF u = s THEN c ELSE blocks[u])
      BY <2>2 DEF TypeOK
    <2> QED
      BY <2>3, <2>4 DEF AllSound
  <1>3. ASSUME NEW s \in Sub, Written(s)
        PROVE  AllSound'
    <2>1. BlockSound(QueuedBlock) /\ BlockSound(ValidatingBlock)
      BY DEF BlockSound, QueuedBlock, ValidatingBlock
    <2>2. PICK c \in {QueuedBlock, ValidatingBlock} : blocks' = [blocks EXCEPT ![s] = c]
      BY <1>3 DEF Written
    <2>3. \A u \in Sub : blocks'[u] = (IF u = s THEN c ELSE blocks[u])
      BY <2>2 DEF TypeOK
    <2> QED
      BY <2>1, <2>2, <2>3 DEF AllSound
  <1> QED
    BY <1>1, <1>2, <1>3, MoveStep

LEMMA SoundAlways == Spec => []AllSound
  <1>1. Init => AllSound
    BY DEF Init, AllSound
  <1> QED
    BY <1>1, TypeCorrect, SoundInductive, PTL DEF Spec

(* A DONE block has a result, and no block has one that was not verified.  *)
THEOREM ResultsVerified == Spec => []ResultOnlyWhenVerified
  <1>1. AllSound => ResultOnlyWhenVerified
    BY DEF AllSound, BlockSound, ResultOnlyWhenVerified
  <1> QED
    BY <1>1, SoundAlways, PTL

(* Nobody who looks for blocks in trouble finds an attempt that is over.   *)
THEOREM TroubleCurrent == Spec => []TroubleIsCurrent
  <1>1. AllSound => TroubleIsCurrent
    BY DEF AllSound, BlockSound, TroubleIsCurrent
  <1> QED
    BY <1>1, SoundAlways, PTL

-----------------------------------------------------------------------------
(* What a step may never do.                                               *)

LEMMA FinishedStep ==
  ASSUME TypeOK, [Next]_vars
  PROVE  FinishedBlockKept
  <1> SUFFICES ASSUME NEW s \in Sub, blocks[s] # NoBlock,
                      blocks[s].stage \in TerminalStages
               PROVE  blocks'[s] \in {blocks[s], LateEvent(blocks[s])}
    BY DEF FinishedBlockKept
  <1>1. CASE UNCHANGED blocks
    BY <1>1
  <1>2. ASSUME NEW u \in Sub, Moved(u)
        PROVE  blocks'[s] \in {blocks[s], LateEvent(blocks[s])}
    <2>1. PICK c \in Block : BlockMove(blocks[u], c) /\ blocks' = [blocks EXCEPT ![u] = c]
      BY <1>2 DEF Moved
    <2>2. CASE u = s
      <3>1. blocks[s] \in Block /\ blocks'[s] = c
        BY <1>2, <2>1, <2>2 DEF Moved, TypeOK
      <3>2. c \in {blocks[s], LateEvent(blocks[s])}
        BY <2>1, <2>2, <3>1, Effects DEF TerminalStages
      <3> QED
        BY <3>1, <3>2
    <2>3. CASE u # s
      BY <2>1, <2>3 DEF TypeOK
    <2> QED
      BY <2>2, <2>3
  <1>3. ASSUME NEW u \in Sub, Written(u)
        PROVE  blocks'[s] = blocks[s]
    BY <1>3 DEF Written, TypeOK
  <1> QED
    BY <1>1, <1>2, <1>3, MoveStep

(* A finished block is final: late, duplicate and out-of-order reports     *)
(* only leave breadcrumbs (recorder.py, _record_late_event).               *)
THEOREM OutcomeFinal == Spec => OutcomeIsFinal
  <1>1. TypeOK /\ [Next]_vars => [FinishedBlockKept]_vars
    BY FinishedStep
  <1> QED
    BY <1>1, TypeCorrect, PTL DEF Spec, OutcomeIsFinal

LEMMA OwnerMove ==
  ASSUME NEW b \in Block, NEW c \in Block, BlockMove(b, c),
         <<c.agent, c.lease>> # <<b.agent, b.lease>>
  PROVE  b.stage \in {"accepted", "retrying"} /\ c.stage = "assigned"
  <1>1. ASSUME c.agent = b.agent, c.lease = b.lease
        PROVE  FALSE
    BY <1>1
  <1>2. CASE c \in {b, LateEvent(b)}
    BY <1>1, <1>2 DEF LateEvent, Block
  <1>3. CASE b.stage = "queued" /\ c = [b EXCEPT !.stage = "validating"]
    BY <1>1, <1>3 DEF Block
  <1>4. CASE /\ b.stage = "validating"
             /\ \E st \in {"accepted", "rejected"} : c = [b EXCEPT !.stage = st]
    BY <1>1, <1>4 DEF Block
  <1>5. CASE /\ b.stage \in {"accepted", "retrying"}
             /\ \E a \in Agent, l \in Lease :
                  c = [b EXCEPT !.stage = "assigned", !.agent = a, !.lease = l,
                                !.lastError = FALSE, !.retriable = "unset"]
    BY <1>5 DEF Block
  <1>6. CASE b.stage = "assigned" /\ c = [b EXCEPT !.stage = "in_progress"]
    BY <1>1, <1>6 DEF Block
  <1>7. CASE /\ b.stage \in {"assigned", "in_progress"}
             /\ \E x \in Result, st \in {"verifying", "done"} :
                  c = [b EXCEPT !.stage = st, !.result = x]
    BY <1>1, <1>7 DEF Block
  <1>8. CASE b.stage = "retrying" /\ c = [b EXCEPT !.lastError = TRUE]
    BY <1>1, <1>8 DEF Block
  <1>9. CASE /\ b.stage \in {"assigned", "in_progress"}
             /\ c = [b EXCEPT !.stage = "retrying", !.lastError = TRUE, !.retriable = "yes"]
    BY <1>1, <1>9 DEF Block
  <1>10. CASE /\ b.stage \in {"accepted", "assigned", "in_progress", "verifying", "retrying"}
              /\ c = [b EXCEPT !.stage = "failed", !.retriable = "no"]
    BY <1>1, <1>10 DEF Block
  <1> QED
    BY <1>2, <1>3, <1>4, <1>5, <1>6, <1>7, <1>8, <1>9, <1>10, Effects

LEMMA OwnerStep ==
  ASSUME TypeOK, [Next]_vars
  PROVE  OwnerKept
  <1> SUFFICES ASSUME NEW s \in Sub, blocks[s] # NoBlock,
                      <<blocks'[s].agent, blocks'[s].lease>>
                        # <<blocks[s].agent, blocks[s].lease>>
               PROVE  /\ blocks[s].stage \in {"accepted", "retrying"}
                      /\ blocks'[s].stage = "assigned"
    BY DEF OwnerKept
  <1>1. blocks'[s] # blocks[s]
    OBVIOUS
  <1>2. ASSUME NEW u \in Sub, Moved(u)
        PROVE  /\ blocks[s].stage \in {"accepted", "retrying"}
               /\ blocks'[s].stage = "assigned"
    <2>1. PICK c \in Block : BlockMove(blocks[u], c) /\ blocks' = [blocks EXCEPT ![u] = c]
      BY <1>2 DEF Moved
    <2>2. u = s
      BY <1>1, <2>1 DEF TypeOK
    <2>3. blocks[s] \in Block /\ blocks'[s] = c /\ BlockMove(blocks[s], c)
      BY <1>2, <2>1, <2>2 DEF Moved, TypeOK
    <2> QED
      BY <2>3, OwnerMove
  <1>3. ASSUME NEW u \in Sub, Written(u)
        PROVE  FALSE
    BY <1>1, <1>3 DEF Written, TypeOK
  <1>4. CASE UNCHANGED blocks
    BY <1>1, <1>4
  <1> QED
    BY <1>2, <1>3, <1>4, MoveStep

(* The agent and lease the Reaper trusts change only when an assignment is *)
(* legal (recorder.py, _can_transition before the fields are written).     *)
THEOREM OwnerCorrect == Spec => OwnerChangesOnAssignment
  <1>1. TypeOK /\ [Next]_vars => [OwnerKept]_vars
    BY OwnerStep
  <1> QED
    BY <1>1, TypeCorrect, PTL DEF Spec, OwnerChangesOnAssignment

LEMMA ExitStep ==
  ASSUME [Next]_vars
  PROVE  ExitDrained
  <1> SUFFICES ASSUME writer = "running", writer' = "stopped"
               PROVE  inbox' = <<>>
    BY DEF ExitDrained
  <1>1. ASSUME NEW kind, NEW published, Turn(kind, published)
        PROVE  inbox' = <<>>
    BY <1>1 DEF Turn, Exit
  <1>2. CASE WriterStep
    BY <1>1, <1>2
       DEF WriterStep, ApplyStop, ApplyProblemSubmitted, ApplyProposedAgain, ApplyProposed,
           ApplyProposedOverBudget, ApplyAccepted, ApplyRejected, ApplyAssigned,
           ApplyHeartbeat, ApplyCompleted, ApplyFailed, ApplyUnroutable, ApplyLeaseExpired
  <1>3. CASE CrashStep
    BY <1>3 DEF CrashStep, Crash, CrashInProposed, CrashInCompleted, Reboot
  <1>4. CASE \/ \E i \in Event : Deliver(i)
             \/ RequestStop \/ Start \/ UNCHANGED vars
    BY <1>4 DEF Deliver, RequestStop, Start, vars, memory
  <1> QED
    BY <1>2, <1>3, <1>4 DEF Next

(* The writer loop never leaves an item behind (recorder.py, stop).        *)
THEOREM StopDrainsAlways == Spec => StopDrains
  <1>1. [Next]_vars => [ExitDrained]_vars
    BY ExitStep
  <1> QED
    BY <1>1, PTL DEF Spec, StopDrains

-----------------------------------------------------------------------------
(* The ledger keeps the promise of SubproblemPromise.                      *)

(* What the promise sees of one block.                                     *)
PhaseFor(b) ==
  CASE b.stage \in {"queued", "validating"} -> "proposed"
    [] b.stage = "rejected" -> "declined"
    [] b.stage = "done" -> "succeeded"
    [] b.stage = "failed" -> "failed"
    [] OTHER -> "open"

OutcomeFor(b) == IF b.stage = "done" THEN b.result ELSE NoResult

LEMMA SeenOfBlock ==
  ASSUME NEW s \in Sub
  PROVE  /\ blocks[s] = NoBlock => PhaseOf(s) = "unknown" /\ OutcomeOf(s) = NoResult
         /\ blocks[s] \in Block => /\ PhaseOf(s) = PhaseFor(blocks[s])
                                   /\ OutcomeOf(s) = OutcomeFor(blocks[s])
  <1>1. CASE blocks[s] = NoBlock
    BY <1>1, RecorderAssumption DEF PhaseOf, OutcomeOf, StageOf
  <1>2. CASE blocks[s] \in Block
    <2>1. StageOf(s) = blocks[s].stage /\ blocks[s].stage \in Stage
      BY <1>2, RecorderAssumption DEF StageOf, Block
    <2>2. StageOf(s) # "none"
      BY <2>1 DEF Stage
    <2> QED
      BY <1>2, <2>1, <2>2, RecorderAssumption DEF PhaseOf, OutcomeOf, PhaseFor, OutcomeFor, Stage
  <1> QED
    BY <1>1, <1>2, RecorderAssumption

(* A move of one block is a step of the promise for its subproblem.        *)
LEMMA MovePromise ==
  ASSUME NEW b \in Block, NEW c \in Block, BlockMove(b, c)
  PROVE  \/ PhaseFor(c) = PhaseFor(b) /\ OutcomeFor(c) = OutcomeFor(b)
         \/ /\ PhaseFor(b) = "proposed" /\ PhaseFor(c) \in {"open", "declined"}
            /\ OutcomeFor(c) = OutcomeFor(b)
         \/ /\ PhaseFor(b) = "open" /\ PhaseFor(c) = "succeeded"
            /\ OutcomeFor(c) \in Result
         \/ /\ PhaseFor(b) = "open" /\ PhaseFor(c) = "failed"
            /\ OutcomeFor(c) = OutcomeFor(b)
  <1>1. CASE c \in {b, LateEvent(b)}
    <2>1. c.stage = b.stage /\ c.result = b.result
      BY <1>1 DEF LateEvent, Block
    <2> QED
      BY <2>1 DEF PhaseFor, OutcomeFor
  <1>2. CASE b.stage = "queued" /\ c = [b EXCEPT !.stage = "validating"]
    BY <1>2 DEF PhaseFor, OutcomeFor, Block
  <1>3. CASE /\ b.stage = "validating"
             /\ \E st \in {"accepted", "rejected"} : c = [b EXCEPT !.stage = st]
    BY <1>3 DEF PhaseFor, OutcomeFor, Block
  <1>4. CASE /\ b.stage \in {"accepted", "retrying"}
             /\ \E a \in Agent, l \in Lease :
                  c = [b EXCEPT !.stage = "assigned", !.agent = a, !.lease = l,
                                !.lastError = FALSE, !.retriable = "unset"]
    BY <1>4 DEF PhaseFor, OutcomeFor, Block
  <1>5. CASE b.stage = "assigned" /\ c = [b EXCEPT !.stage = "in_progress"]
    BY <1>5 DEF PhaseFor, OutcomeFor, Block
  <1>6. CASE /\ b.stage \in {"assigned", "in_progress"}
             /\ \E x \in Result, st \in {"verifying", "done"} :
                  c = [b EXCEPT !.stage = st, !.result = x]
    BY <1>6 DEF PhaseFor, OutcomeFor, Block
  <1>7. CASE b.stage = "retrying" /\ c = [b EXCEPT !.lastError = TRUE]
    BY <1>7 DEF PhaseFor, OutcomeFor, Block
  <1>8. CASE /\ b.stage \in {"assigned", "in_progress"}
             /\ c = [b EXCEPT !.stage = "retrying", !.lastError = TRUE, !.retriable = "yes"]
    BY <1>8 DEF PhaseFor, OutcomeFor, Block
  <1>9. CASE /\ b.stage \in {"accepted", "assigned", "in_progress", "verifying", "retrying"}
             /\ c = [b EXCEPT !.stage = "failed", !.retriable = "no"]
    BY <1>9 DEF PhaseFor, OutcomeFor, Block
  <1> QED
    BY <1>1, <1>2, <1>3, <1>4, <1>5, <1>6, <1>7, <1>8, <1>9, Effects

phases == [s \in Sub |-> PhaseOf(s)]
outcomes == [s \in Sub |-> OutcomeOf(s)]

LEMMA PromiseStep ==
  ASSUME TypeOK, TypeOK', [Next]_vars
  PROVE  [Promise!Next]_(Promise!vars)
  <1>1. CASE UNCHANGED blocks
    BY <1>1 DEF Promise!vars, PhaseOf, OutcomeOf, StageOf
  (* Only what the promise sees of one subproblem can change.              *)
  <1>2. ASSUME NEW s \in Sub, NEW c \in Block, blocks' = [blocks EXCEPT ![s] = c]
        PROVE  /\ phases' = [phases EXCEPT ![s] = PhaseFor(c)]
               /\ outcomes' = [outcomes EXCEPT ![s] = OutcomeFor(c)]
    <2>1. blocks'[s] = c /\ \A u \in Sub \ {s} : blocks'[u] = blocks[u]
      BY <1>2 DEF TypeOK
    <2>2. PhaseOf(s)' = PhaseFor(c) /\ OutcomeOf(s)' = OutcomeFor(c)
      <3>1. CASE c.stage \in Stage
        BY <2>1, <3>1, RecorderAssumption
           DEF PhaseOf, OutcomeOf, StageOf, PhaseFor, OutcomeFor, Stage
      <3> QED
        BY <3>1 DEF Block
    <2>3. \A u \in Sub \ {s} : PhaseOf(u)' = PhaseOf(u) /\ OutcomeOf(u)' = OutcomeOf(u)
      BY <2>1 DEF PhaseOf, OutcomeOf, StageOf
    <2> QED
      BY <2>2, <2>3 DEF phases, outcomes
  <1>3. ASSUME NEW s \in Sub, Moved(s)
        PROVE  [Promise!Next]_(Promise!vars)
    <2>1. PICK c \in Block : BlockMove(blocks[s], c) /\ blocks' = [blocks EXCEPT ![s] = c]
      BY <1>3 DEF Moved
    <2>2. phases[s] = PhaseFor(blocks[s]) /\ outcomes[s] = OutcomeFor(blocks[s])
      BY <1>3, SeenOfBlock DEF Moved, phases, outcomes
    <2>3. /\ phases' = [phases EXCEPT ![s] = PhaseFor(c)]
          /\ outcomes' = [outcomes EXCEPT ![s] = OutcomeFor(c)]
      BY <1>2, <2>1
    <2>4. \/ phases' = phases /\ outcomes' = outcomes
          \/ /\ phases[s] = "proposed" /\ outcomes' = outcomes
             /\ \/ phases' = [phases EXCEPT ![s] = "open"]
                \/ phases' = [phases EXCEPT ![s] = "declined"]
          \/ /\ phases[s] = "open" /\ phases' = [phases EXCEPT ![s] = "succeeded"]
             /\ \E x \in Result : outcomes' = [outcomes EXCEPT ![s] = x]
          \/ /\ phases[s] = "open" /\ phases' = [phases EXCEPT ![s] = "failed"]
             /\ outcomes' = outcomes
      <3>1. blocks[s] \in Block
        BY <1>3 DEF Moved
      <3>2. [phases EXCEPT ![s] = phases[s]] = phases
            /\ [outcomes EXCEPT ![s] = outcomes[s]] = outcomes
        BY DEF phases, outcomes
      <3> QED
        BY <2>1, <2>2, <2>3, <3>1, <3>2, MovePromise
    <2> QED
      BY <2>4 DEF Promise!Next, Promise!Propose, Promise!Admit, Promise!Decline,
                  Promise!Succeed, Promise!Fail, Promise!vars, phases, outcomes
  <1>4. ASSUME NEW s \in Sub, Written(s)
        PROVE  [Promise!Next]_(Promise!vars)
    <2>1. PICK c \in {QueuedBlock, ValidatingBlock} : blocks' = [blocks EXCEPT ![s] = c]
      BY <1>4 DEF Written
    <2>2. c \in Block /\ PhaseFor(c) = "proposed" /\ OutcomeFor(c) = NoResult
      <3>1. c.stage \in {"queued", "validating"}
        BY <2>1 DEF QueuedBlock, ValidatingBlock
      <3> QED
        BY <2>1, <3>1, FreshBlocks DEF PhaseFor, OutcomeFor
    <2>3. phases[s] = "unknown" /\ outcomes[s] = NoResult
      BY <1>4, SeenOfBlock DEF Written, phases, outcomes
    <2>4. phases' = [phases EXCEPT ![s] = "proposed"] /\ outcomes' = outcomes
      <3>1. [outcomes EXCEPT ![s] = outcomes[s]] = outcomes
        BY DEF outcomes
      <3>2. /\ phases' = [phases EXCEPT ![s] = PhaseFor(c)]
            /\ outcomes' = [outcomes EXCEPT ![s] = OutcomeFor(c)]
        <4>1. s \in Sub /\ c \in Block
          BY <2>2
        <4> QED
          BY <1>2, <2>1, <4>1
      <3>3. PhaseFor(c) = "proposed" /\ OutcomeFor(c) = outcomes[s]
        BY <2>2, <2>3
      <3>4. phases' = [phases EXCEPT ![s] = "proposed"]
        BY <3>2, <3>3
      <3>5. outcomes' = outcomes
        BY <3>1, <3>2, <3>3
      <3> QED
        BY <3>4, <3>5
    <2> QED
      BY <2>3, <2>4 DEF Promise!Next, Promise!Propose, phases, outcomes
  <1> QED
    BY <1>1, <1>3, <1>4, MoveStep

LEMMA PromiseInit ==
  ASSUME Init
  PROVE  Promise!Init
  BY DEF Init, Promise!Init, PhaseOf, OutcomeOf, StageOf

(* The recorder implements SubproblemPromise: every subproblem is proposed *)
(* once, admitted or declined once, and ends at most once.                 *)
THEOREM PromiseKept == Spec => KeepsPromise
  <1> QED
    BY PromiseInit, PromiseStep, TypeCorrect, PTL DEF Spec, KeepsPromise, Promise!Spec

==============================================================================
