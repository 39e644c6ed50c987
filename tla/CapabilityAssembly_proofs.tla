---------------------- MODULE CapabilityAssembly_proofs ----------------------
(***************************************************************************)
(* What holds of a capability assembly for any number of inputs' stages,   *)
(* any number of handlers at work beside each other, any number of stops   *)
(* of the Gateway and of clients that give up.                             *)
(***************************************************************************)
EXTENDS CapabilityAssembly, SequenceTheorems, TLAPS

HandlerPc == {"free", "lookup", "claim", "claiming", "start", "scope", "effect",
              "receipt", "record", "append", "reconcile", "reconciled", "close"}

(* A handler that has read a checkpoint; that has started a slice itself;  *)
(* that has not asked for the effect yet; that has.                        *)
ReadPc   == HandlerPc \ {"free", "lookup", "claim"}
BeforePc == {"scope", "effect"}
AfterPc  == {"receipt", "record", "append"}
OwnPc    == BeforePc \cup AfterPc

Closing == [op : Operation, start : 0..Total, end : 0..Total]
Outcome  == [slice : Slice, ref : Nat \ {0}]

HandlerState(n) == [pc : HandlerPc, op : Operation \cup {NoSlice}, at : 0..n,
                    valid : BOOLEAN]

(* The line of advances as one checkpoint shows it: k advances are closed, *)
(* and the one that is open, if any, takes the assembly from k to k + 1.   *)
OnLine(cp) ==
  /\ \A i \in DOMAIN cp.done : cp.done[i] = [op |-> i - 1, start |-> i - 1, end |-> i]
  /\ cp.active = NoAdvance => cp.completed = Len(cp.done) /\ cp.started = NoSlice
  /\ cp.active # NoAdvance =>
       /\ Len(cp.done) < Total
       /\ cp.active = [op |-> Len(cp.done), start |-> Len(cp.done),
                       target |-> Len(cp.done) + 1]
       /\ \/ cp.completed = Len(cp.done) /\ cp.started \in {NoSlice, Len(cp.done)}
          \/ cp.completed = Len(cp.done) + 1 /\ cp.started = NoSlice

Counted(cp) ==
  /\ cp.stages = IF cp.completed <= InputSlices THEN cp.completed ELSE InputSlices
  /\ cp.resumed = cp.completed - cp.stages
  /\ cp.last = cp.completed - 1
  /\ cp.completed = Total <=> cp.status = "ready_to_use"

Sound(cp) == cp \in Checkpoint /\ OnLine(cp) /\ Counted(cp)

(* A history that grew only by what advance writes.                        *)
Written(hist) ==
  /\ hist \in Seq(Checkpoint)
  /\ hist # <<>> => hist[1] = Admitted
  /\ \A r \in 1..Len(hist) : Sound(hist[r])
  /\ \A r \in 2..Len(hist) : Follows(hist[r - 1], hist[r], r - 1)

Last(hist) == hist[Len(hist)]

(* The newest checkpoint has gone beyond slice s, or is the one in it.     *)
Fenced(s, hist) == s < Last(hist).completed \/ s = Last(hist).started

(* What a handler knows of the checkpoint it holds.                        *)
Knows(x, cp) ==
  /\ x.pc = "claiming" => cp.active = NoAdvance /\ ~Settled(cp, x.op)
  /\ x.pc = "start" => /\ cp.active # NoAdvance /\ cp.started = NoSlice
                       /\ cp.completed = Len(cp.done)
  /\ x.pc \in OwnPc \cup {"reconcile", "reconciled"} => cp.started # NoSlice
  /\ x.pc = "close" => /\ cp.active # NoAdvance /\ cp.started = NoSlice
                       /\ cp.completed = Len(cp.done) + 1

Fits(x, hist, eff, rt) ==
  /\ x.pc # "free" => /\ x.op \in Operation /\ hist # <<>>
                      /\ x.op <= Last(hist).completed
                      /\ x.op = Dispatch => rt
  /\ x.pc \in ReadPc => x.at \in 1..Len(hist) /\ Knows(x, hist[x.at])
  /\ x.pc \in OwnPc \cup {"reconcile", "reconciled"} => Fenced(hist[x.at].started, hist)
  /\ x.pc \in BeforePc => eff[hist[x.at].started] = 0
  /\ x.pc \in AfterPc \cup {"reconciled"} => eff[hist[x.at].started] = 1

(* No slice is in the hands of two handlers.                               *)
Apart(hs, hist) ==
  \A g, h \in Handler : g # h /\ hs[g].pc \in OwnPc /\ hs[h].pc \in OwnPc
    => hist[hs[g].at].started # hist[hs[h].at].started

Paid(eff, hist) ==
  \A s \in Slice :
    /\ eff[s] \in {0, 1}
    /\ eff[s] = 1 => hist # <<>> /\ Fenced(s, hist)
    /\ hist # <<>> /\ s < Last(hist).completed => eff[s] = 1

RowsPaid(rows, eff) == \A row \in rows : eff[row.slice] = 1

(* Nothing of the dispatch is written before the Runtime was restarted.    *)
Restarts(hist, rt) ==
  hist # <<>> =>
    /\ Last(hist).active.op = Dispatch => rt
    /\ Last(hist).completed > Dispatch => rt

ClientKnows(c, hist) ==
  /\ c.pc # "idle" => hist # <<>>
  /\ hist # <<>> => c.seen <= Last(hist).completed

IInv ==
  /\ TypeOK
  /\ Written(history)
  /\ \A h \in Handler : Fits(handlers[h], history, effects, runtime)
  /\ Apart(handlers, history)
  /\ Paid(effects, history)
  /\ RowsPaid(receipts \cup readbacks, effects)
  /\ restarted => runtime
  /\ Restarts(history, runtime)
  /\ ClientKnows(client, history)

-----------------------------------------------------------------------------
(* What a history keeps of an earlier one.                                 *)
Later(hist, new) ==
  /\ Len(hist) <= Len(new)
  /\ \A r \in 1..Len(hist) : new[r] = hist[r]
  /\ hist # <<>> => /\ new # <<>> /\ Last(hist).completed <= Last(new).completed
                    /\ \A s \in Slice : Fenced(s, hist) => Fenced(s, new)

(* How an answer leaves the client.                                        *)
Answered == {client} \cup {[client EXCEPT !.pc = pc, !.by = NoHandler] : pc \in {"idle", "answered"}}
(* A handler that goes on at pc with the checkpoint of revision r.         *)
Moved(x, pc, r) == [x EXCEPT !.pc = pc, !.at = r]
-----------------------------------------------------------------------------
(* The operators.                                                          *)
LEMMA Constants == /\ InputSlices \in Nat \ {0} /\ Total = InputSlices + 3
                   /\ Total \in Nat /\ Slice = 0..(Total - 1) /\ Operation = Slice
                   /\ Dispatch = Total - 2 /\ Dispatch \in Slice /\ Readback = Total - 1
                   /\ NoSlice \notin Slice /\ NoSlice = -1
                   /\ MaxFaults \in Nat /\ NoHandler \notin Handler
  BY AssemblyAssumption DEF AssemblyAssumption, Total, Slice, Operation, Dispatch,
     Readback, NoSlice

LEMMA CheckpointFields ==
  ASSUME NEW cp \in Checkpoint
  PROVE  /\ cp.completed \in 0..Total /\ cp.completed \in Int
         /\ cp.done \in Seq(Closing) /\ Len(cp.done) \in Nat
         /\ DOMAIN cp.done = 1..Len(cp.done)
         /\ cp.outcomes \in Seq(Outcome)
         /\ cp.active \in Advance \cup {NoAdvance}
         /\ cp.started \in Slice \cup {NoSlice}
  <1>1. cp.done \in Seq(Closing) /\ cp.outcomes \in Seq(Outcome)
    BY DEF Checkpoint, Closing, Outcome
  <1>2. Len(cp.done) \in Nat /\ DOMAIN cp.done = 1..Len(cp.done)
    BY <1>1
  <1>3. /\ cp.completed \in 0..Total /\ cp.active \in Advance \cup {NoAdvance}
        /\ cp.started \in Slice \cup {NoSlice}
    BY DEF Checkpoint
  <1> QED BY <1>1, <1>2, <1>3, Constants

(* A field of a record may take any value of its set.                      *)
LEMMA RecordExcept ==
  ASSUME NEW A, NEW B, NEW C, NEW D, NEW E, NEW F, NEW G, NEW H, NEW I,
         NEW r \in [status : A, completed : B, stages : C, resumed : D, active : E,
                    started : F, last : G, done : H, outcomes : I]
  PROVE  LET R == [status : A, completed : B, stages : C, resumed : D, active : E,
                   started : F, last : G, done : H, outcomes : I]
         IN
         /\ \A v \in A : [r EXCEPT !.status = v] \in R
         /\ \A v \in B : [r EXCEPT !.completed = v] \in R
         /\ \A v \in C : [r EXCEPT !.stages = v] \in R
         /\ \A v \in D : [r EXCEPT !.resumed = v] \in R
         /\ \A v \in E : [r EXCEPT !.active = v] \in R
         /\ \A v \in F : [r EXCEPT !.started = v] \in R
         /\ \A v \in G : [r EXCEPT !.last = v] \in R
         /\ \A v \in H : [r EXCEPT !.done = v] \in R
         /\ \A v \in I : [r EXCEPT !.outcomes = v] \in R
  OBVIOUS

LEMMA CheckpointExcept ==
  ASSUME NEW cp \in Checkpoint
  PROVE
    /\ \A v \in {"admitted", "advancing", "ready_to_use"} : [cp EXCEPT !.status = v] \in Checkpoint
    /\ \A v \in 0..Total : [cp EXCEPT !.completed = v] \in Checkpoint
    /\ \A v \in 0..InputSlices : [cp EXCEPT !.stages = v] \in Checkpoint
    /\ \A v \in 0..3 : [cp EXCEPT !.resumed = v] \in Checkpoint
    /\ \A v \in Advance \cup {NoAdvance} : [cp EXCEPT !.active = v] \in Checkpoint
    /\ \A v \in Slice \cup {NoSlice} : [cp EXCEPT !.started = v] \in Checkpoint
    /\ \A v \in Slice \cup {NoSlice} : [cp EXCEPT !.last = v] \in Checkpoint
    /\ \A v \in Seq(Closing) : [cp EXCEPT !.done = v] \in Checkpoint
    /\ \A v \in Seq(Outcome) : [cp EXCEPT !.outcomes = v] \in Checkpoint
  <1>1. Checkpoint = [status : {"admitted", "advancing", "ready_to_use"},
                      completed : 0..Total, stages : 0..InputSlices, resumed : 0..3,
                      active : Advance \cup {NoAdvance}, started : Slice \cup {NoSlice},
                      last : Slice \cup {NoSlice}, done : Seq(Closing), outcomes : Seq(Outcome)]
    BY DEF Checkpoint, Closing, Outcome
  <1> QED BY <1>1, RecordExcept

LEMMA ActiveIsNot ==
  ASSUME NEW n \in Nat
  PROVE  [op |-> n, start |-> n, target |-> n + 1] # NoAdvance
  <1>1. [op |-> n, start |-> n, target |-> n + 1].op # NoAdvance.op
    BY Constants DEF NoAdvance
  <1> QED BY <1>1

(* What a reader demands of one checkpoint holds of a sound one.           *)
LEMMA SoundHasShape ==
  ASSUME NEW cp, Sound(cp)
  PROVE  Shape(cp)
  <1> USE CheckpointFields, Constants DEF Sound
  <1>1. cp.completed = cp.stages + cp.resumed
    BY DEF Counted, Checkpoint
  <1>2. cp.active # NoAdvance => cp.completed \in cp.active.start..cp.active.target
    BY DEF OnLine
  <1>3. cp.started # NoSlice => cp.active # NoAdvance /\ cp.started = cp.completed
    BY DEF OnLine
  <1> QED BY <1>1, <1>2, <1>3 DEF Shape, Counted

LEMMA SettledOnLine ==
  ASSUME NEW cp, Sound(cp), NEW op \in Operation
  PROVE  Settled(cp, op) <=> op < Len(cp.done)
  <1> USE CheckpointFields, Constants DEF Sound
  <1>1. ASSUME Settled(cp, op)
        PROVE  op < Len(cp.done)
    <2>1. PICK i \in DOMAIN cp.done : cp.done[i].op = op
      BY <1>1 DEF Settled
    <2>2. cp.done[i] = [op |-> i - 1, start |-> i - 1, end |-> i]
      BY <2>1 DEF OnLine
    <2> QED BY <2>1, <2>2
  <1>2. ASSUME op < Len(cp.done)
        PROVE  Settled(cp, op)
    <2>1. op + 1 \in DOMAIN cp.done
      BY <1>2
    <2>2. cp.done[op + 1] = [op |-> (op + 1) - 1, start |-> (op + 1) - 1, end |-> op + 1]
      BY <2>1 DEF OnLine
    <2>3. cp.done[op + 1].op = op
      BY <2>2
    <2> QED BY <2>1, <2>3 DEF Settled
  <1> QED BY <1>1, <1>2

LEMMA AdmittedIsSound == Sound(Admitted)
  <1> USE Constants
  <1>1. Admitted \in Checkpoint
    <2>1. <<>> \in Seq(Closing) /\ <<>> \in Seq(Outcome)
      OBVIOUS
    <2> QED BY <2>1 DEF Admitted, Checkpoint, Closing, Outcome
  <1>2. OnLine(Admitted)
    BY DEF OnLine, Admitted
  <1>3. Counted(Admitted)
    BY DEF Counted, Admitted, NoSlice
  <1> QED BY <1>1, <1>2, <1>3 DEF Sound

(* The claim of an operation that is not settled, by a client that has not *)
(* seen more than the assembly has done.                                   *)
LEMMA ClaimedIsSound ==
  ASSUME NEW cp, Sound(cp), NEW op \in Operation, NEW ref,
         cp.active = NoAdvance, ~Settled(cp, op), op <= cp.completed
  PROVE  LET new == Claimed(cp, op)
         IN  /\ Sound(new) /\ Follows(cp, new, ref)
             /\ new.active # NoAdvance /\ new.started = NoSlice
             /\ new.completed = cp.completed /\ new.completed = Len(new.done)
             /\ new.active.op = op
  <1> DEFINE new == Claimed(cp, op)
             k == Len(cp.done)
  <1> USE CheckpointFields, Constants
  <1>1. /\ cp \in Checkpoint /\ k \in Nat /\ cp.completed = k /\ op = k /\ k < Total
        /\ cp.started = NoSlice
    <2>1. cp \in Checkpoint /\ k \in Nat /\ cp.completed = k /\ cp.started = NoSlice
      BY DEF Sound, OnLine
    <2>2. ~(op < k) /\ op \in 0..(Total - 1)
      BY SettledOnLine
    <2> QED BY <2>1, <2>2
  <1>2. TargetFrom(cp.completed) = k + 1
    BY <1>1 DEF TargetFrom
  <1>3. /\ new.active = [op |-> k, start |-> k, target |-> k + 1]
        /\ new.status = "advancing" /\ new.started = NoSlice /\ new.completed = k
        /\ new.done = cp.done /\ new.outcomes = cp.outcomes /\ new.stages = cp.stages
        /\ new.resumed = cp.resumed /\ new.last = cp.last
    BY <1>1, <1>2 DEF Claimed, Checkpoint
  <1>4. new.active \in Advance /\ new.active # NoAdvance
    BY <1>1, <1>3, ActiveIsNot DEF Advance
  <1>5. new \in Checkpoint
    <2> DEFINE active == [op |-> op, start |-> cp.completed,
                          target |-> TargetFrom(cp.completed)]
               status == IF cp.completed = Total THEN "ready_to_use" ELSE "advancing"
               marked == [cp EXCEPT !.status = status]
    <2>1. active \in Advance
      BY <1>1, <1>2, <1>3, <1>4
    <2>2. marked \in Checkpoint
      BY <1>1, CheckpointExcept
    <2>3. new = [marked EXCEPT !.active = active]
      BY <1>1 DEF Claimed, Checkpoint
    <2> HIDE DEF active, marked, new
    <2>4. [marked EXCEPT !.active = active] \in Checkpoint
      BY <2>1, <2>2, CheckpointExcept
    <2> QED BY <2>3, <2>4
  <1>6. OnLine(new)
    BY <1>1, <1>3, <1>4 DEF Sound, OnLine
  <1>7. Counted(new)
    BY <1>1, <1>3 DEF Sound, Counted
  <1>8. Claims(cp, new)
    BY <1>1, <1>2, <1>3, <1>4 DEF Claims, SameLogs
  <1>9. Follows(cp, new, ref)
    BY <1>1, <1>3, <1>8 DEF Follows, SameAuthorities
  <1> QED BY <1>1, <1>3, <1>4, <1>5, <1>6, <1>7, <1>9 DEF Sound

LEMMA StartedIsSound ==
  ASSUME NEW cp, Sound(cp), NEW ref,
         cp.active # NoAdvance, cp.started = NoSlice, cp.completed = Len(cp.done)
  PROVE  LET new == Started(cp)
         IN  /\ Sound(new) /\ Follows(cp, new, ref)
             /\ new.started = cp.completed /\ new.started \in Slice
             /\ new.active = cp.active /\ new.completed = cp.completed
  <1> DEFINE new == Started(cp)
  <1> USE CheckpointFields, Constants
  <1>1. cp \in Checkpoint /\ cp.completed \in Slice
    BY DEF Sound, OnLine
  <1>2. /\ new.started = cp.completed /\ new.active = cp.active
        /\ new.completed = cp.completed /\ new.done = cp.done
        /\ new.outcomes = cp.outcomes /\ new.stages = cp.stages
        /\ new.resumed = cp.resumed /\ new.last = cp.last /\ new.status = cp.status
    BY <1>1 DEF Started, Checkpoint
  <1>3. new \in Checkpoint
    BY <1>1 DEF Started, Checkpoint
  <1>4. OnLine(new)
    BY <1>1, <1>2 DEF Sound, OnLine
  <1>5. Counted(new)
    BY <1>1, <1>2 DEF Sound, Counted
  <1>6. Follows(cp, new, ref)
    BY <1>1, <1>2 DEF Follows, Begins, SameLogs, SameAuthorities
  <1> QED BY <1>1, <1>2, <1>3, <1>4, <1>5, <1>6 DEF Sound

(* The slice that was started is done; its outcome is noted when it was    *)
(* reconciled.                                                             *)
LEMMA CompletedIsSound ==
  ASSUME NEW cp, Sound(cp), NEW ref \in Nat \ {0}, cp.started # NoSlice,
         NEW outcomes \in {cp.outcomes, Append(cp.outcomes, [slice |-> cp.started, ref |-> ref])}
  PROVE  LET new == Completed(cp, outcomes)
         IN  /\ Sound(new) /\ Follows(cp, new, ref)
             /\ new.active # NoAdvance /\ new.started = NoSlice
             /\ new.active = cp.active /\ new.completed = cp.completed + 1
             /\ new.completed = Len(new.done) + 1
             /\ cp.completed = cp.started /\ cp.active.op = cp.started
  <1> DEFINE new == Completed(cp, outcomes)
             k == Len(cp.done)
  <1> USE CheckpointFields, Constants
  <1>1. /\ cp \in Checkpoint /\ k \in Nat /\ k < Total /\ cp.completed = k
        /\ cp.started = k /\ cp.active # NoAdvance
        /\ cp.active = [op |-> k, start |-> k, target |-> k + 1]
    BY DEF Sound, OnLine
  <1>2. outcomes \in Seq(Outcome)
    <2>1. [slice |-> cp.started, ref |-> ref] \in Outcome
      BY <1>1 DEF Outcome
    <2>2. Append(cp.outcomes, [slice |-> cp.started, ref |-> ref]) \in Seq(Outcome)
      BY <1>1, <2>1, AppendProperties
    <2> QED BY <1>1, <2>2
  <1>3. /\ new.completed = k + 1 /\ new.started = NoSlice /\ new.active = cp.active
        /\ new.done = cp.done /\ new.outcomes = outcomes /\ new.last = k
        /\ new.stages = (IF k < InputSlices THEN cp.stages + 1 ELSE cp.stages)
        /\ new.resumed = (IF k < InputSlices THEN cp.resumed ELSE cp.resumed + 1)
        /\ new.status = (IF k = Readback THEN "ready_to_use" ELSE "advancing")
    BY <1>1 DEF Completed, Checkpoint, IsInput
  <1>4. Counted(new)
    <2>1. /\ cp.stages = IF k <= InputSlices THEN k ELSE InputSlices
          /\ cp.resumed = k - cp.stages
      BY <1>1 DEF Sound, Counted
    <2>2. new.stages = IF k + 1 <= InputSlices THEN k + 1 ELSE InputSlices
      BY <1>1, <1>3, <2>1
    <2>3. new.resumed = (k + 1) - new.stages
      <3>1. cp.stages \in Int /\ cp.resumed \in Int
        BY <1>1 DEF Checkpoint
      <3>2. CASE k < InputSlices
        BY <1>1, <1>3, <2>1, <3>1, <3>2
      <3>3. CASE ~(k < InputSlices)
        BY <1>1, <1>3, <2>1, <3>1, <3>3
      <3> QED BY <3>2, <3>3
    <2>4. k + 1 = Total <=> new.status = "ready_to_use"
      BY <1>1, <1>3
    <2>5. new.last = (k + 1) - 1
      BY <1>1, <1>3
    <2> HIDE DEF new
    <2> QED BY <1>3, <2>2, <2>3, <2>4, <2>5 DEF Counted
  <1>5. new \in Checkpoint
    <2> DEFINE stages == IF IsInput(cp.started) THEN cp.stages + 1 ELSE cp.stages
               resumed == IF IsInput(cp.started) THEN cp.resumed ELSE cp.resumed + 1
               status == IF cp.started = Readback THEN "ready_to_use" ELSE "advancing"
               c1 == [cp EXCEPT !.completed = cp.completed + 1]
               c2 == [c1 EXCEPT !.stages = stages]
               c3 == [c2 EXCEPT !.resumed = resumed]
               c4 == [c3 EXCEPT !.started = NoSlice]
               c5 == [c4 EXCEPT !.last = cp.started]
               c6 == [c5 EXCEPT !.outcomes = outcomes]
               c7 == [c6 EXCEPT !.status = status]
    <2>1. stages \in 0..InputSlices /\ resumed \in 0..3
      <3>1. new.stages = stages /\ new.resumed = resumed
        BY <1>1 DEF Completed, Checkpoint
      <3>2. /\ new.stages = IF k + 1 <= InputSlices THEN k + 1 ELSE InputSlices
            /\ new.resumed = (k + 1) - new.stages
        <4> HIDE DEF new
        <4> QED BY <1>3, <1>4 DEF Counted
      <3> HIDE DEF new, stages, resumed, k
      <3>3. k \in Nat /\ k < InputSlices + 3 /\ InputSlices \in Nat
        BY <1>1
      <3>4. CASE k + 1 <= InputSlices
        <4>1. stages = k + 1 /\ resumed = 0
          BY <3>1, <3>2, <3>3, <3>4
        <4> QED BY <3>3, <3>4, <4>1
      <3>5. CASE ~(k + 1 <= InputSlices)
        <4>1. stages = InputSlices /\ resumed = (k + 1) - InputSlices
          BY <3>1, <3>2, <3>5
        <4> QED BY <3>3, <3>5, <4>1
      <3> QED BY <3>4, <3>5
    <2>2. status \in {"admitted", "advancing", "ready_to_use"}
      OBVIOUS
    <2>3. new = c7
      BY <1>1 DEF Completed, Checkpoint
    <2> HIDE DEF stages, resumed, status, new
    <2>4. c1 \in Checkpoint
      <3>1. cp.completed + 1 \in 0..Total
        BY <1>1
      <3> QED BY <1>1, <3>1, CheckpointExcept
    <2> HIDE DEF c1
    <2>5. c2 \in Checkpoint
      BY <2>1, <2>4, CheckpointExcept
    <2> HIDE DEF c2
    <2>6. c3 \in Checkpoint
      BY <2>1, <2>5, CheckpointExcept
    <2> HIDE DEF c3
    <2>7. c4 \in Checkpoint
      BY <2>6, CheckpointExcept
    <2> HIDE DEF c4
    <2>8. c5 \in Checkpoint
      BY <1>1, <2>7, CheckpointExcept
    <2> HIDE DEF c5
    <2>9. c6 \in Checkpoint
      BY <1>2, <2>8, CheckpointExcept
    <2> HIDE DEF c6
    <2>10. c7 \in Checkpoint
      BY <2>2, <2>9, CheckpointExcept
    <2> QED BY <2>3, <2>10
  <1>6. OnLine(new)
    BY <1>1, <1>3 DEF Sound, OnLine
  <1>7. Completes(cp, new, ref)
    BY <1>1, <1>3 DEF Completes, IsInput
  <1>8. Follows(cp, new, ref)
    BY <1>1, <1>3, <1>7 DEF Follows
  <1> QED BY <1>1, <1>3, <1>4, <1>5, <1>6, <1>8 DEF Sound

LEMMA ClosedIsSound ==
  ASSUME NEW cp, Sound(cp), NEW ref, cp.active # NoAdvance, cp.started = NoSlice,
         cp.completed = Len(cp.done) + 1
  PROVE  LET new == Closed(cp)
         IN  /\ Sound(new) /\ Follows(cp, new, ref)
             /\ new.active = NoAdvance /\ new.started = NoSlice
             /\ new.completed = cp.completed
  <1> DEFINE new == Closed(cp)
             k == Len(cp.done)
             entry == [op |-> cp.active.op, start |-> cp.active.start, end |-> cp.completed]
  <1> USE CheckpointFields, Constants
  <1>1. /\ cp \in Checkpoint /\ k \in Nat /\ k < Total
        /\ cp.active = [op |-> k, start |-> k, target |-> k + 1]
    BY DEF Sound, OnLine
  <1>2. entry = [op |-> k, start |-> k, end |-> k + 1] /\ entry \in Closing
    BY <1>1 DEF Closing
  <1>3. /\ Append(cp.done, entry) \in Seq(Closing)
        /\ Len(Append(cp.done, entry)) = k + 1
        /\ \A i \in 1..k : Append(cp.done, entry)[i] = cp.done[i]
        /\ Append(cp.done, entry)[k + 1] = entry
    BY <1>1, <1>2, AppendProperties
  <1>4. /\ new.active = NoAdvance /\ new.started = NoSlice /\ new.completed = k + 1
        /\ new.done = Append(cp.done, entry) /\ new.outcomes = cp.outcomes
        /\ new.stages = cp.stages /\ new.resumed = cp.resumed /\ new.last = cp.last
        /\ new.status = (IF cp.completed = Total THEN "ready_to_use" ELSE "advancing")
    BY <1>1 DEF Closed, Checkpoint
  <1>5. new \in Checkpoint
    <2> DEFINE status == IF cp.completed = Total THEN "ready_to_use" ELSE "advancing"
               done == Append(cp.done, entry)
               c1 == [cp EXCEPT !.status = status]
               c2 == [c1 EXCEPT !.active = NoAdvance]
               c3 == [c2 EXCEPT !.done = done]
    <2>1. done \in Seq(Closing)
      BY <1>3
    <2>2. new = c3
      BY <1>1 DEF Closed, Checkpoint
    <2> HIDE DEF done, new
    <2>3. c1 \in Checkpoint
      BY <1>1, CheckpointExcept
    <2> HIDE DEF c1
    <2>4. c2 \in Checkpoint
      BY <2>3, CheckpointExcept
    <2> HIDE DEF c2
    <2>5. c3 \in Checkpoint
      BY <2>1, <2>4, CheckpointExcept
    <2> QED BY <2>2, <2>5
  <1>6. OnLine(new)
    <2>1. DOMAIN new.done = 1..(k + 1) /\ Len(new.done) = k + 1
      BY <1>1, <1>3, <1>4
    <2>2. ASSUME NEW i \in 1..(k + 1)
          PROVE  new.done[i] = [op |-> i - 1, start |-> i - 1, end |-> i]
      <3>1. CASE i = k + 1
        BY <1>1, <1>2, <1>3, <1>4, <3>1
      <3>2. CASE i \in 1..k
        BY <1>1, <1>3, <1>4, <3>2 DEF Sound, OnLine
      <3> QED BY <1>1, <3>1, <3>2
    <2> QED BY <1>1, <1>4, <2>1, <2>2 DEF OnLine
  <1>7. Counted(new)
    BY <1>1, <1>4 DEF Sound, Counted
  <1>8. Closes(cp, new)
    BY <1>4 DEF Closes
  <1>9. Follows(cp, new, ref)
    BY <1>4, <1>8 DEF Follows, SameAuthorities
  <1> QED BY <1>4, <1>5, <1>6, <1>7, <1>9 DEF Sound
-----------------------------------------------------------------------------
(* The history.                                                            *)
LEMMA WrittenTypes ==
  ASSUME NEW hist, Written(hist)
  PROVE  /\ Len(hist) \in Nat /\ DOMAIN hist = 1..Len(hist)
         /\ \A r \in 1..Len(hist) : hist[r] \in Checkpoint /\ Sound(hist[r])
         /\ hist # <<>> => /\ Len(hist) \in 1..Len(hist)
                           /\ Last(hist) \in Checkpoint /\ Sound(Last(hist))
  <1>1. hist \in Seq(Checkpoint)
    BY DEF Written
  <1>2. Len(hist) \in Nat /\ DOMAIN hist = 1..Len(hist)
    BY <1>1
  <1>3. \A r \in 1..Len(hist) : hist[r] \in Checkpoint /\ Sound(hist[r])
    BY DEF Written, Sound
  <1>4. hist # <<>> => Len(hist) \in 1..Len(hist)
    BY <1>1
  <1> QED BY <1>2, <1>3, <1>4 DEF Last

LEMMA WrittenIsReadable ==
  ASSUME Written(history), history # <<>>
  PROVE  Readable
  <1>1. Len(history) \in Nat /\ DOMAIN history = 1..Len(history)
    BY WrittenTypes
  <1>2. history[1].completed = 0 /\ history[1].status = "admitted"
    BY DEF Written, Admitted
  <1>3. ASSUME NEW r \in DOMAIN history
        PROVE  /\ Shape(history[r])
               /\ r > 1 => Follows(history[r - 1], history[r], r - 1)
    <2>1. Shape(history[r])
      BY <1>1, WrittenTypes, SoundHasShape
    <2>2. r > 1 => r \in 2..Len(history)
      BY <1>1
    <2> QED BY <2>1, <2>2 DEF Written
  <1> QED BY <1>2, <1>3 DEF Readable

LEMMA AdmittedIsWritten ==
  /\ Written(<<Admitted>>) /\ Last(<<Admitted>>) = Admitted /\ Len(<<Admitted>>) = 1
  <1>1. <<Admitted>> \in Seq(Checkpoint) /\ Len(<<Admitted>>) = 1 /\ <<Admitted>>[1] = Admitted
    BY AdmittedIsSound DEF Sound
  <1> QED BY <1>1, AdmittedIsSound DEF Written, Last

(* A sound checkpoint that follows the newest one.                         *)
LEMMA WrittenGrows ==
  ASSUME NEW hist, Written(hist), hist # <<>>, NEW new, Sound(new),
         Follows(Last(hist), new, Len(hist))
  PROVE  /\ Written(Append(hist, new))
         /\ Len(Append(hist, new)) = Len(hist) + 1 /\ Append(hist, new) # <<>>
         /\ Last(Append(hist, new)) = new
         /\ \A r \in 1..Len(hist) : Append(hist, new)[r] = hist[r]
  <1> DEFINE h2 == Append(hist, new)
  <1>1. /\ h2 \in Seq(Checkpoint) /\ Len(h2) = Len(hist) + 1 /\ h2 # <<>>
        /\ \A r \in 1..Len(hist) : h2[r] = hist[r]
        /\ h2[Len(hist) + 1] = new
    BY AppendProperties DEF Written, Sound
  <1>2. Len(hist) \in Nat \ {0}
    BY WrittenTypes
  <1> HIDE DEF h2
  <1>3. Last(h2) = new
    BY <1>1 DEF Last
  <1>4. h2[1] = Admitted
    BY <1>1, <1>2 DEF Written
  <1>5. \A r \in 1..Len(h2) : Sound(h2[r])
    BY <1>1, <1>2 DEF Written
  <1>6. ASSUME NEW r \in 2..Len(h2)
        PROVE  Follows(h2[r - 1], h2[r], r - 1)
    <2>1. CASE r \in 2..Len(hist)
      <3>1. h2[r - 1] = hist[r - 1] /\ h2[r] = hist[r]
        BY <1>1, <1>2, <2>1
      <3> QED BY <3>1, <2>1 DEF Written
    <2>2. CASE r = Len(hist) + 1
      <3>1. h2[r - 1] = Last(hist) /\ h2[r] = new /\ r - 1 = Len(hist)
        BY <1>1, <1>2, <2>2 DEF Last
      <3> QED BY <3>1
    <2> QED BY <1>1, <1>2, <2>1, <2>2
  <1>7. Written(h2)
    BY <1>1, <1>4, <1>5, <1>6 DEF Written
  <1> QED BY <1>1, <1>3, <1>7 DEF h2

LEMMA SameIsLater ==
  ASSUME NEW hist, Written(hist)
  PROVE  Later(hist, hist)
  <1>1. hist # <<>> => Last(hist).completed \in Int
    BY WrittenTypes, CheckpointFields
  <1> QED BY <1>1, WrittenTypes DEF Later

(* What is written does not go back, and a started slice stays fenced.     *)
LEMMA GrownIsLater ==
  ASSUME NEW hist, Written(hist), hist # <<>>, NEW new, Sound(new),
         Follows(Last(hist), new, Len(hist)),
         Last(hist).completed <= new.completed,
         \/ Last(hist).started = NoSlice \/ new.started = Last(hist).started
         \/ Last(hist).started < new.completed
  PROVE  Later(hist, Append(hist, new))
  <1> DEFINE h2 == Append(hist, new)
  <1>1. /\ Len(h2) = Len(hist) + 1 /\ h2 # <<>> /\ Last(h2) = new
        /\ \A r \in 1..Len(hist) : h2[r] = hist[r] /\ Len(hist) \in Nat
    BY WrittenGrows, WrittenTypes
  <1>2. /\ Last(hist).completed \in Int /\ new.completed \in Int
        /\ Last(hist).started \in Slice \cup {NoSlice}
    BY WrittenTypes, CheckpointFields DEF Sound
  <1> HIDE DEF h2
  <1>3. ASSUME NEW s \in Slice, Fenced(s, hist)
        PROVE  Fenced(s, h2)
    <2>1. s \in Int /\ s # NoSlice
      BY Constants
    <2> QED BY <1>1, <1>2, <1>3, <2>1 DEF Fenced
  <1>4. Len(hist) <= Len(h2)
    BY <1>1, WrittenTypes
  <1> QED BY <1>1, <1>3, <1>4 DEF Later, h2
-----------------------------------------------------------------------------
(* The handlers.                                                           *)
LEMMA FreeFits ==
  ASSUME NEW hist, NEW eff, NEW rt, NEW n \in Nat
  PROVE  Free \in HandlerState(n) /\ Fits(Free, hist, eff, rt) /\ Free.pc \notin OwnPc
  BY DEF Free, HandlerState, HandlerPc, Fits, ReadPc, OwnPc, BeforePc, AfterPc

LEMMA PcKinds ==
  /\ OwnPc \cup {"reconcile", "reconciled"} \subseteq ReadPc
  /\ BeforePc \subseteq OwnPc /\ AfterPc \subseteq OwnPc /\ BeforePc \cap AfterPc = {}
  /\ ReadPc \subseteq HandlerPc \ {"free"}
  BY DEF ReadPc, OwnPc, BeforePc, AfterPc, HandlerPc

(* What a handler knows survives what the others write, and the effects of *)
(* slices that are not in its hands.                                       *)
LEMMA FitsLater ==
  ASSUME NEW hist, Written(hist), NEW hist2, Later(hist, hist2), Written(hist2),
         NEW n \in Nat, NEW x \in HandlerState(n), NEW eff, NEW eff2, NEW rt, Fits(x, hist, eff, rt),
         x.pc \in OwnPc \cup {"reconciled"} =>
           eff2[hist[x.at].started] = eff[hist[x.at].started]
  PROVE  Fits(x, hist2, eff2, rt)
  <1>1. x.pc # "free" => /\ x.op \in Operation /\ hist2 # <<>>
                         /\ x.op <= Last(hist2).completed
                         /\ x.op = Dispatch => rt
    <2>1. hist # <<>> => Last(hist).completed \in Int /\ Last(hist2).completed \in Int
      BY WrittenTypes, CheckpointFields DEF Later
    <2> QED BY <2>1, Constants DEF Fits, Later
  <1>2. x.pc \in ReadPc => /\ x.at \in 1..Len(hist) /\ x.at \in 1..Len(hist2)
                           /\ hist2[x.at] = hist[x.at]
                           /\ Knows(x, hist[x.at])
    BY WrittenTypes DEF Fits, Later
  <1>3. x.pc \in OwnPc \cup {"reconcile", "reconciled"} =>
          Fenced(hist2[x.at].started, hist2)
    <2> SUFFICES ASSUME x.pc \in OwnPc \cup {"reconcile", "reconciled"}
                 PROVE  Fenced(hist2[x.at].started, hist2)
      OBVIOUS
    <2>1. x.pc \in ReadPc /\ x.pc # "free"
      BY PcKinds
    <2>2. hist[x.at].started \in Slice
      <3>1. hist[x.at].started # NoSlice
        BY <1>2, <2>1 DEF Knows
      <3>2. hist[x.at].started \in Slice \cup {NoSlice}
        BY <1>2, <2>1, WrittenTypes, CheckpointFields
      <3> QED BY <3>1, <3>2
    <2>3. Fenced(hist[x.at].started, hist) /\ hist # <<>>
      BY <2>1 DEF Fits
    <2> QED BY <1>2, <2>1, <2>2, <2>3 DEF Later
  <1>4. x.pc \in BeforePc => eff2[hist2[x.at].started] = 0
    BY <1>2, PcKinds DEF Fits
  <1>5. x.pc \in AfterPc \cup {"reconciled"} => eff2[hist2[x.at].started] = 1
    BY <1>2, PcKinds DEF Fits
  <1> QED BY <1>1, <1>2, <1>3, <1>4, <1>5 DEF Fits

(* One handler moves, with what it writes and the client it answers; what  *)
(* it has to show for the invariant to hold afterwards.                    *)
LEMMA StepKeeps ==
  ASSUME IInv, NEW h \in Handler, handlers[h].pc # "free",
         NEW y \in HandlerState(Len(history')), handlers' = [handlers EXCEPT ![h] = y],
         Written(history'), Later(history, history'),
         effects' \in [Slice -> {0, 1}],
         \A s \in Slice :
           \/ effects'[s] = effects[s]
           \/ effects'[s] = 1 /\ handlers[h].pc \in OwnPc /\ s = At(h).started,
         \A s \in Slice : s < Last(history').completed => effects'[s] = 1,
         Fits(y, history', effects', runtime),
         y.pc \in OwnPc =>
           \A g \in Handler \ {h} : handlers[g].pc \in OwnPc =>
             history[handlers[g].at].started # history'[y.at].started,
         client' \in Answered,
         receipts' \subseteq Rows, readbacks' \subseteq Rows,
         RowsPaid(receipts' \cup readbacks', effects'),
         Restarts(history', runtime),
         UNCHANGED <<demo, faults>>
  PROVE  IInv'
  <1>1. /\ Written(history) /\ history # <<>> /\ history' # <<>>
        /\ Len(history) \in Nat /\ Len(history') \in Nat /\ Len(history) <= Len(history')
        /\ handlers \in [Handler -> HandlerState(Len(history))]
        /\ effects \in [Slice -> {0, 1}]
    <2>1. Written(history) /\ history # <<>>
      BY DEF IInv, Fits
    <2>2. handlers \in [Handler -> HandlerState(Len(history))]
      BY DEF IInv, TypeOK, HandlerState, HandlerPc
    <2>3. effects \in [Slice -> {0, 1}]
      BY DEF IInv, TypeOK, Paid
    <2> QED BY <2>1, <2>2, <2>3, WrittenTypes DEF Later
  <1>2. handlers' \in [Handler -> HandlerState(Len(history'))]
    <2>1. ASSUME NEW g \in Handler
          PROVE  handlers[g] \in HandlerState(Len(history'))
      BY <1>1 DEF HandlerState
    <2> QED BY <1>1, <2>1
  <1>3. client' \in [pc : {"idle", "driving", "waiting", "answered"}, seen : 0..Total,
                     by : Handler \cup {NoHandler}]
    <2> DEFINE C == [pc : {"idle", "driving", "waiting", "answered"}, seen : 0..Total,
                     by : Handler \cup {NoHandler}]
    <2>1. client \in C
      BY DEF IInv, TypeOK
    <2>2. ASSUME NEW pc \in {"idle", "answered"}
          PROVE  [client EXCEPT !.pc = pc, !.by = NoHandler] \in C
      BY <2>1
    <2>3. \/ client' = client
          \/ \E pc \in {"idle", "answered"} :
               client' = [client EXCEPT !.pc = pc, !.by = NoHandler]
      BY DEF Answered
    <2> HIDE DEF C
    <2>4. client' \in C
      BY <2>1, <2>2, <2>3
    <2> QED BY <2>4 DEF C
  <1>4. TypeOK'
    <2>1. history' \in Seq(Checkpoint)
      BY DEF Written
    <2>2. effects' \in [Slice -> Nat]
      OBVIOUS
    <2>3. restarted' \in BOOLEAN /\ runtime' \in BOOLEAN /\ faults' \in 0..MaxFaults
      BY DEF IInv, TypeOK, demo
    <2> QED BY <1>2, <1>3, <2>1, <2>2, <2>3 DEF TypeOK, HandlerState, HandlerPc
  <1>5. ASSUME NEW g \in Handler \ {h}, handlers[g].pc \in OwnPc \cup {"reconciled"}
        PROVE  /\ history'[handlers[g].at].started = history[handlers[g].at].started
               /\ history[handlers[g].at].started \in Slice
    <2>1. Fits(handlers[g], history, effects, runtime) /\ handlers[g].pc \in ReadPc
      BY <1>5, PcKinds DEF IInv
    <2>2. handlers[g].at \in 1..Len(history) /\ Knows(handlers[g], history[handlers[g].at])
      BY <2>1 DEF Fits
    <2>3. /\ history[handlers[g].at].started # NoSlice
          /\ history'[handlers[g].at] = history[handlers[g].at]
          /\ history[handlers[g].at].started \in Slice \cup {NoSlice}
      BY <1>1, <1>5, <2>2, WrittenTypes, CheckpointFields DEF Knows, Later
    <2> QED BY <2>3
  <1>6. \A g \in Handler : Fits(handlers'[g], history', effects', runtime')
    <2>1. handlers'[h] = y /\ runtime' = runtime
      BY <1>1 DEF demo
    <2>2. ASSUME NEW g \in Handler \ {h}
          PROVE  Fits(handlers[g], history', effects', runtime)
      <3>1. handlers[g].pc \in OwnPc \cup {"reconciled"} =>
              effects'[history[handlers[g].at].started] = effects[history[handlers[g].at].started]
        <4> SUFFICES ASSUME handlers[g].pc \in OwnPc \cup {"reconciled"}
                     PROVE  effects'[history[handlers[g].at].started]
                              = effects[history[handlers[g].at].started]
          OBVIOUS
        <4> DEFINE s == history[handlers[g].at].started
        <4>1. s \in Slice
          BY <1>5
        <4>2. CASE handlers[g].pc = "reconciled"
          <5>1. effects[s] = 1
            BY <4>2 DEF IInv, Fits
          <5> QED BY <4>1, <5>1
        <4>3. CASE handlers[g].pc \in OwnPc /\ handlers[h].pc \in OwnPc
          <5>1. s # At(h).started
            BY <4>3 DEF IInv, Apart, At
          <5> QED BY <4>1, <5>1
        <4> QED BY <4>1, <4>2, <4>3
      <3>2. Fits(handlers[g], history, effects, runtime)
        BY DEF IInv
      <3>3. handlers[g] \in HandlerState(Len(history))
        BY <1>1
      <3> QED BY <1>1, <3>1, <3>2, <3>3, FitsLater
    <2> QED BY <1>1, <2>1, <2>2
  <1>7. Apart(handlers', history')
    <2> SUFFICES ASSUME NEW f \in Handler, NEW g \in Handler, f # g,
                        handlers'[f].pc \in OwnPc, handlers'[g].pc \in OwnPc
                 PROVE  history'[handlers'[f].at].started # history'[handlers'[g].at].started
      BY DEF Apart
    <2>1. CASE f # h /\ g # h
      <3>1. handlers'[f] = handlers[f] /\ handlers'[g] = handlers[g]
        BY <1>1, <2>1
      <3>2. history[handlers[f].at].started # history[handlers[g].at].started
        BY <3>1 DEF IInv, Apart
      <3> QED BY <1>5, <2>1, <3>1, <3>2
    <2>2. CASE f = h
      <3>1. handlers'[f] = y /\ handlers'[g] = handlers[g]
        BY <1>1, <2>2
      <3>2. history[handlers[g].at].started # history'[y.at].started
        BY <2>2, <3>1
      <3> QED BY <1>5, <2>2, <3>1, <3>2
    <2>3. CASE g = h
      <3>1. handlers'[g] = y /\ handlers'[f] = handlers[f]
        BY <1>1, <2>3
      <3>2. history[handlers[f].at].started # history'[y.at].started
        BY <2>3, <3>1
      <3> QED BY <1>5, <2>3, <3>1, <3>2
    <2> QED BY <2>1, <2>2, <2>3
  <1>8. Paid(effects', history')
    <2> SUFFICES ASSUME NEW s \in Slice
                 PROVE  /\ effects'[s] \in {0, 1}
                        /\ effects'[s] = 1 => Fenced(s, history')
      BY <1>1 DEF Paid
    <2>1. ASSUME effects'[s] = 1
          PROVE  Fenced(s, history')
      <3>1. CASE effects[s] = 1
        BY <1>1, <3>1 DEF IInv, Paid, Later
      <3>2. CASE effects[s] # 1
        <4>1. handlers[h].pc \in OwnPc /\ s = At(h).started
          BY <2>1, <3>2
        <4>2. Fenced(s, history)
          BY <4>1 DEF IInv, Fits, At
        <4> QED BY <1>1, <4>2 DEF Later
      <3> QED BY <3>1, <3>2
    <2> QED BY <2>1
  <1>9. ClientKnows(client', history')
    <2>1. client'.seen = client.seen
      BY DEF Answered, IInv, TypeOK
    <2>2. client.seen <= Last(history).completed /\ client.seen \in Int
      BY <1>1 DEF IInv, ClientKnows, TypeOK
    <2>3. Last(history).completed <= Last(history').completed
      BY <1>1 DEF Later
    <2>4. Last(history).completed \in Int /\ Last(history').completed \in Int
      BY <1>1, WrittenTypes, CheckpointFields
    <2> QED BY <1>1, <2>1, <2>2, <2>3, <2>4 DEF ClientKnows
  <1>10. (restarted' => runtime') /\ Restarts(history', runtime')
    BY DEF IInv, demo
  <1> QED BY <1>4, <1>6, <1>7, <1>8, <1>9, <1>10 DEF IInv

LEMMA InvTypes ==
  ASSUME IInv
  PROVE  /\ Written(history) /\ Len(history) \in Nat
         /\ handlers \in [Handler -> HandlerState(Len(history))]
         /\ effects \in [Slice -> {0, 1}] /\ \A s \in Slice : effects[s] \in {0, 1}
         /\ receipts \subseteq Rows /\ readbacks \subseteq Rows
         /\ RowsPaid(receipts \cup readbacks, effects)
  <1>1. Written(history) /\ Len(history) \in Nat
    BY WrittenTypes DEF IInv
  <1>2. handlers \in [Handler -> HandlerState(Len(history))]
    BY DEF IInv, TypeOK, HandlerState, HandlerPc
  <1>3. effects \in [Slice -> {0, 1}]
    BY DEF IInv, TypeOK, Paid
  <1> QED BY <1>1, <1>2, <1>3 DEF IInv, TypeOK

(* What a handler at work may rely on.                                     *)
LEMMA AtWork ==
  ASSUME IInv, NEW h \in Handler, handlers[h].pc # "free"
  PROVE  /\ history # <<>> /\ Latest \in Checkpoint /\ Sound(Latest)
         /\ Len(history) \in 1..Len(history)
         /\ handlers[h].op \in Operation /\ handlers[h].op <= Latest.completed
         /\ handlers[h].op = Dispatch => runtime
         /\ handlers[h].pc \in ReadPc =>
              /\ handlers[h].at \in 1..Len(history) /\ At(h) \in Checkpoint /\ Sound(At(h))
              /\ Knows(handlers[h], At(h))
         /\ handlers[h].pc \in OwnPc \cup {"reconcile", "reconciled"} =>
              /\ At(h).started \in Slice /\ At(h).active.op \in Operation
              /\ Fenced(At(h).started, history)
  <1>1. Fits(handlers[h], history, effects, runtime)
    BY DEF IInv
  <1>2. history # <<>>
    BY <1>1 DEF Fits
  <1>3. Latest \in Checkpoint /\ Sound(Latest) /\ Len(history) \in 1..Len(history)
    BY <1>2, InvTypes, WrittenTypes DEF Latest, Last
  <1>4. handlers[h].pc \in ReadPc =>
              /\ handlers[h].at \in 1..Len(history) /\ At(h) \in Checkpoint /\ Sound(At(h))
              /\ Knows(handlers[h], At(h))
    BY <1>1, InvTypes, WrittenTypes DEF Fits, At
  <1>5. ASSUME handlers[h].pc \in OwnPc \cup {"reconcile", "reconciled"}
        PROVE  /\ At(h).started \in Slice /\ At(h).active.op \in Operation
               /\ Fenced(At(h).started, history)
    <2>1. At(h) \in Checkpoint /\ Sound(At(h)) /\ At(h).started # NoSlice
      BY <1>4, <1>5, PcKinds DEF Knows
    <2>2. At(h).started \in Slice
      BY <2>1, CheckpointFields
    <2>3. At(h).active.op \in Operation
      BY <2>1, CheckpointFields, Constants DEF Sound, OnLine
    <2> QED BY <1>1, <1>5, <2>2, <2>3 DEF Fits, At
  <1> QED BY <1>1, <1>2, <1>3, <1>4, <1>5 DEF Fits, Latest, Last

(* A step that leaves the history and the effects alone.                   *)
LEMMA QuietKeeps ==
  ASSUME IInv, NEW h \in Handler, handlers[h].pc # "free",
         NEW y \in HandlerState(Len(history)), handlers' = [handlers EXCEPT ![h] = y],
         Fits(y, history, effects, runtime),
         y.pc \in OwnPc => handlers[h].pc \in OwnPc /\ y.at = handlers[h].at,
         client' \in Answered,
         receipts' \subseteq Rows, readbacks' \subseteq Rows,
         RowsPaid(receipts' \cup readbacks', effects),
         UNCHANGED <<history, effects, demo, faults>>
  PROVE  IInv'
  <1>1. /\ Written(history) /\ effects \in [Slice -> {0, 1}]
        /\ history # <<>> /\ Restarts(history, runtime)
    BY InvTypes, AtWork DEF IInv
  <1>2. Later(history, history)
    BY <1>1, SameIsLater
  <1>3. \A s \in Slice : s < Last(history).completed => effects[s] = 1
    BY <1>1 DEF IInv, Paid
  <1>4. y.pc \in OwnPc =>
           \A g \in Handler \ {h} : handlers[g].pc \in OwnPc =>
             history[handlers[g].at].started # history[y.at].started
    BY DEF IInv, Apart
  <1> QED BY <1>1, <1>2, <1>3, <1>4, StepKeeps

LEMMA Refused ==
  ASSUME IInv, NEW h \in Handler, Refuse(h) \/ Reply(h)
  PROVE  handlers' = [handlers EXCEPT ![h] = Free] /\ client' \in Answered
  BY DEF Refuse, Reply, Answer, Answered

LEMMA RefusedKeeps ==
  ASSUME IInv, NEW h \in Handler, handlers[h].pc # "free", Refuse(h) \/ Reply(h),
         UNCHANGED <<history, tables, effects, demo, faults>>
  PROVE  IInv'
  <1>1. handlers' = [handlers EXCEPT ![h] = Free] /\ client' \in Answered
    BY Refused
  <1>2. /\ receipts' \subseteq Rows /\ readbacks' \subseteq Rows
        /\ RowsPaid(receipts' \cup readbacks', effects)
    BY InvTypes DEF tables
  <1> QED BY <1>1, <1>2, FreeFits, QuietKeeps, InvTypes

LEMMA MovedFits ==
  ASSUME NEW n \in Nat, NEW m \in Nat, n <= m, NEW x \in HandlerState(n),
         NEW pc \in HandlerPc, NEW r \in 0..m
  PROVE  /\ Moved(x, pc, r) \in HandlerState(m)
         /\ Moved(x, pc, r).pc = pc /\ Moved(x, pc, r).at = r /\ Moved(x, pc, r).op = x.op
  <1> DEFINE x1 == [x EXCEPT !.pc = pc]
  <1>1. x \in HandlerState(m)
    <2>1. 0..n \subseteq 0..m
      OBVIOUS
    <2> QED BY <2>1 DEF HandlerState
  <1>2. x1 \in HandlerState(m)
    BY <1>1 DEF HandlerState
  <1>3. Moved(x, pc, r) = [x1 EXCEPT !.at = r]
    BY <1>1 DEF HandlerState, Moved
  <1>4. Moved(x, pc, r).pc = pc /\ Moved(x, pc, r).at = r /\ Moved(x, pc, r).op = x.op
    BY <1>1 DEF HandlerState, Moved
  <1> HIDE DEF x1
  <1>5. [x1 EXCEPT !.at = r] \in HandlerState(m)
    BY <1>2 DEF HandlerState
  <1> QED BY <1>3, <1>4, <1>5

LEMMA Gone ==
  ASSUME IInv, NEW h \in Handler, NEW pc, NEW r, Go(h, pc, r)
  PROVE  /\ handlers' = [handlers EXCEPT ![h] = Moved(handlers[h], pc, r)]
         /\ client' \in Answered
  <1>1. handlers \in [Handler -> HandlerState(Len(history))]
    BY InvTypes
  <1> QED BY <1>1 DEF Go, Moved, Answered

LEMMA GoneKeeps ==
  ASSUME IInv, NEW h \in Handler, handlers[h].pc # "free",
         NEW pc \in HandlerPc, NEW r \in 0..Len(history), Go(h, pc, r),
         Fits(Moved(handlers[h], pc, r), history, effects, runtime),
         pc \in OwnPc => handlers[h].pc \in OwnPc /\ r = handlers[h].at,
         receipts' \subseteq Rows, readbacks' \subseteq Rows,
         RowsPaid(receipts' \cup readbacks', effects),
         UNCHANGED <<history, effects, demo, faults>>
  PROVE  IInv'
  <1>1. Len(history) \in Nat /\ Len(history) <= Len(history)
        /\ handlers[h] \in HandlerState(Len(history))
    BY InvTypes
  <1>2. /\ Moved(handlers[h], pc, r) \in HandlerState(Len(history))
        /\ Moved(handlers[h], pc, r).pc = pc /\ Moved(handlers[h], pc, r).at = r
    BY <1>1, MovedFits
  <1> QED BY <1>1, <1>2, Gone, QuietKeeps

(* A step that writes: the history grows by one checkpoint.                *)
LEMMA WriteKeeps ==
  ASSUME IInv, NEW h \in Handler, handlers[h].pc # "free",
         NEW new, Sound(new), Follows(Latest, new, Len(history)),
         history' = Append(history, new),
         Latest.completed <= new.completed,
         \/ Latest.started = NoSlice \/ new.started = Latest.started
         \/ Latest.started < new.completed,
         \A s \in Slice : s < new.completed => effects[s] = 1,
         new.active.op = Dispatch => runtime, new.completed > Dispatch => runtime,
         NEW y \in HandlerState(Len(history) + 1), handlers' = [handlers EXCEPT ![h] = y],
         Fits(y, history', effects, runtime),
         y.pc \in OwnPc =>
           \A g \in Handler \ {h} : handlers[g].pc \in OwnPc =>
             history[handlers[g].at].started # history'[y.at].started,
         client' \in Answered, UNCHANGED <<tables, effects, demo, faults>>
  PROVE  IInv'
  <1>1. /\ Written(history) /\ history # <<>> /\ Latest = Last(history)
        /\ effects \in [Slice -> {0, 1}]
    BY InvTypes, AtWork DEF Latest, Last
  <1>2. /\ Written(history') /\ Len(history') = Len(history) + 1 /\ Last(history') = new
    BY <1>1, WrittenGrows
  <1>3. Later(history, history')
    BY <1>1, GrownIsLater
  <1>4. Restarts(history', runtime)
    BY <1>2 DEF Restarts
  <1>5. /\ receipts' \subseteq Rows /\ readbacks' \subseteq Rows
        /\ RowsPaid(receipts' \cup readbacks', effects)
    BY InvTypes DEF tables
  <1> QED BY <1>1, <1>2, <1>3, <1>4, <1>5, StepKeeps
-----------------------------------------------------------------------------
(* The steps of advance, one by one.                                       *)
LEMMA TablesKept ==
  ASSUME IInv, UNCHANGED tables
  PROVE  /\ receipts' \subseteq Rows /\ readbacks' \subseteq Rows
         /\ RowsPaid(receipts' \cup readbacks', effects)
  BY InvTypes DEF tables

LEMMA MovedHas ==
  ASSUME IInv, NEW h \in Handler, NEW pc \in HandlerPc, NEW r \in 0..Len(history)
  PROVE  /\ Moved(handlers[h], pc, r).pc = pc /\ Moved(handlers[h], pc, r).at = r
         /\ Moved(handlers[h], pc, r).op = handlers[h].op
  <1>1. Len(history) \in Nat /\ Len(history) <= Len(history)
        /\ handlers[h] \in HandlerState(Len(history))
    BY InvTypes
  <1> QED BY <1>1, MovedFits

LEMMA LookupKeeps ==
  ASSUME IInv, NEW h \in Handler, Lookup(h)
  PROVE  IInv'
  <1>1. handlers[h].pc # "free" /\ UNCHANGED <<history, tables, effects, demo, faults>>
    BY DEF Lookup
  <1>2. CASE Refuse(h) \/ Reply(h)
    BY <1>1, <1>2, RefusedKeeps
  <1>3. CASE Go(h, "claim", 0)
    <2>1. "claim" \in HandlerPc /\ "claim" \notin OwnPc /\ 0 \in 0..Len(history)
      BY InvTypes DEF HandlerPc, OwnPc, BeforePc, AfterPc
    <2>2. Fits(Moved(handlers[h], "claim", 0), history, effects, runtime)
      BY <1>1, <2>1, MovedHas, AtWork DEF Fits, ReadPc, OwnPc, BeforePc, AfterPc, Latest, Last
    <2> QED BY <1>1, <1>3, <2>1, <2>2, TablesKept, GoneKeeps
  <1> QED BY <1>2, <1>3 DEF Lookup

LEMMA ClaimKeeps ==
  ASSUME IInv, NEW h \in Handler, Claim(h)
  PROVE  IInv'
  <1>1. handlers[h].pc # "free" /\ UNCHANGED <<history, tables, effects, demo, faults>>
    BY DEF Claim
  <1>2. /\ Len(history) \in 0..Len(history) /\ Latest = history[Len(history)]
        /\ Latest \in Checkpoint /\ Sound(Latest) /\ history # <<>>
        /\ Len(history) \in 1..Len(history)
    BY <1>1, AtWork, InvTypes DEF Latest
  <1>3. CASE Refuse(h)
    BY <1>1, <1>3, RefusedKeeps
  <1>4. CASE Latest.active # NoAdvance /\ Go(h, Phase(Latest), Len(history))
    <2> DEFINE y == Moved(handlers[h], Phase(Latest), Len(history))
    <2>1. Phase(Latest) \in {"reconcile", "start", "close"}
      BY DEF Phase
    <2>2. Phase(Latest) \in HandlerPc /\ Phase(Latest) \notin OwnPc /\ Phase(Latest) \in ReadPc
      BY <2>1 DEF HandlerPc, OwnPc, BeforePc, AfterPc, ReadPc
    <2>3. y.pc = Phase(Latest) /\ y.at = Len(history) /\ y.op = handlers[h].op
      BY <1>2, <2>2, MovedHas
    <2>4. Knows(y, Latest)
      <3>1. Latest.started # NoSlice => Phase(Latest) = "reconcile"
        BY DEF Phase
      <3>2. Latest.started = NoSlice /\ Latest.completed = Len(Latest.done) => Phase(Latest) = "start"
        BY <1>2, <1>4, CheckpointFields DEF Phase, Sound, OnLine
      <3>3. Latest.started = NoSlice /\ Latest.completed = Len(Latest.done) + 1 => Phase(Latest) = "close"
        BY <1>2, <1>4, CheckpointFields DEF Phase, Sound, OnLine
      <3>4. Latest.completed = Len(Latest.done) \/ Latest.completed = Len(Latest.done) + 1
        BY <1>2, <1>4 DEF Sound, OnLine
      <3> HIDE DEF y
      <3> QED BY <1>4, <2>3, <3>1, <3>2, <3>3, <3>4 DEF Knows, OwnPc, BeforePc, AfterPc
    <2>5. Latest.started # NoSlice => Fenced(Latest.started, history)
      BY DEF Fenced, Latest, Last
    <2>6. Fits(y, history, effects, runtime)
      <3>1. y.pc = "reconcile" => Latest.started # NoSlice
        BY <2>3 DEF Phase
      <3>2. y.pc \notin OwnPc /\ y.pc \notin BeforePc /\ y.pc \notin AfterPc /\ y.pc # "reconciled"
        BY <2>1, <2>3 DEF OwnPc, BeforePc, AfterPc
      <3> HIDE DEF y
      <3> QED BY <1>1, <1>2, <2>3, <2>4, <2>5, <3>1, <3>2, AtWork DEF Fits, Latest, Last
    <2> QED BY <1>1, <1>2, <1>4, <2>2, <2>6, TablesKept, GoneKeeps
  <1>5. CASE /\ Latest.active = NoAdvance /\ ~Settled(Latest, handlers[h].op)
             /\ Go(h, "claiming", Len(history))
    <2> DEFINE y == Moved(handlers[h], "claiming", Len(history))
    <2>1. /\ "claiming" \in HandlerPc /\ "claiming" \notin OwnPc /\ "claiming" \notin BeforePc
          /\ "claiming" \notin AfterPc
      BY DEF HandlerPc, OwnPc, BeforePc, AfterPc
    <2>2. y.pc = "claiming" /\ y.at = Len(history) /\ y.op = handlers[h].op
      BY <1>2, <2>1, MovedHas
    <2> HIDE DEF y
    <2>3. Knows(y, Latest)
      BY <1>5, <2>1, <2>2 DEF Knows
    <2>4. Fits(y, history, effects, runtime)
      BY <1>1, <1>2, <2>1, <2>2, <2>3, AtWork DEF Fits, Latest, Last
    <2> QED BY <1>1, <1>2, <1>5, <2>1, <2>4, TablesKept, GoneKeeps DEF y
  <1> QED BY <1>3, <1>4, <1>5 DEF Claim

(* Write either refuses or appends above the newest checkpoint.            *)
LEMMA WroteOrRefused ==
  ASSUME IInv, NEW h \in Handler, NEW new, NEW pc \in HandlerPc, handlers[h].pc \in ReadPc,
         Write(h, new, pc)
  PROVE  \/ Refuse(h) /\ UNCHANGED history
         \/ /\ handlers[h].at = Len(history) /\ At(h) = Latest
            /\ history' = Append(history, new)
            /\ handlers' = [handlers EXCEPT ![h] = Moved(handlers[h], pc, Len(history) + 1)]
            /\ client' \in Answered
            /\ Moved(handlers[h], pc, Len(history) + 1) \in HandlerState(Len(history) + 1)
            /\ Moved(handlers[h], pc, Len(history) + 1).pc = pc
            /\ Moved(handlers[h], pc, Len(history) + 1).at = Len(history) + 1
            /\ Moved(handlers[h], pc, Len(history) + 1).op = handlers[h].op
  <1>1. CASE Len(history) # handlers[h].at
    BY <1>1 DEF Write
  <1>2. CASE Len(history) = handlers[h].at
    <2>1. history' = Append(history, new) /\ Go(h, pc, Len(history) + 1)
      BY <1>2 DEF Write
    <2>2. handlers[h] \in HandlerState(Len(history)) /\ Len(history) \in Nat
      BY InvTypes
    <2>3. /\ Len(history) + 1 \in Nat /\ Len(history) <= Len(history) + 1
          /\ Len(history) + 1 \in 0..(Len(history) + 1)
      BY <2>2
    <2> QED BY <1>2, <2>1, <2>2, <2>3, Gone, MovedFits DEF At, Latest
  <1> QED BY <1>1, <1>2

(* What is paid stays paid when nothing more counts as done.               *)
LEMMA PaidSoFar ==
  ASSUME IInv, history # <<>>
  PROVE  /\ \A s \in Slice : s < Latest.completed => effects[s] = 1
         /\ Latest.active.op = Dispatch => runtime
         /\ Latest.completed > Dispatch => runtime
         /\ Latest.completed \in Int /\ Latest.completed <= Latest.completed
  <1>1. Latest.completed \in Int
    BY InvTypes, WrittenTypes, CheckpointFields DEF Latest, Last
  <1> QED BY <1>1 DEF IInv, Paid, Restarts, Latest, Last

LEMMA WriteClaimKeeps ==
  ASSUME IInv, NEW h \in Handler, WriteClaim(h)
  PROVE  IInv'
  <1> DEFINE new == Claimed(At(h), handlers[h].op)
             y == Moved(handlers[h], "start", Len(history) + 1)
  <1>1. /\ handlers[h].pc = "claiming" /\ handlers[h].pc # "free" /\ handlers[h].pc \in ReadPc
        /\ "start" \in HandlerPc
        /\ UNCHANGED <<tables, effects, demo, faults>> /\ Write(h, new, "start")
    BY DEF WriteClaim, ReadPc, HandlerPc
  <1>2. CASE Refuse(h) /\ UNCHANGED history
    BY <1>1, <1>2, RefusedKeeps
  <1>3. CASE /\ handlers[h].at = Len(history) /\ At(h) = Latest
             /\ history' = Append(history, new)
             /\ handlers' = [handlers EXCEPT ![h] = y] /\ client' \in Answered
             /\ y \in HandlerState(Len(history) + 1)
             /\ y.pc = "start" /\ y.at = Len(history) + 1 /\ y.op = handlers[h].op
    <2> HIDE DEF y
    <2>1. /\ history # <<>> /\ Sound(Latest) /\ Latest \in Checkpoint
          /\ handlers[h].op \in Operation /\ handlers[h].op <= Latest.completed
          /\ handlers[h].op = Dispatch => runtime
          /\ Latest.active = NoAdvance /\ ~Settled(Latest, handlers[h].op)
      BY <1>1, <1>3, AtWork DEF Knows
    <2>2. /\ Sound(new) /\ Follows(Latest, new, Len(history))
          /\ new.active # NoAdvance /\ new.started = NoSlice
          /\ new.completed = Latest.completed /\ new.completed = Len(new.done)
          /\ new.active.op = handlers[h].op
      BY <1>3, <2>1, ClaimedIsSound
    <2>3. Latest.started = NoSlice
      BY <2>1 DEF Sound, OnLine
    <2> HIDE DEF new
    <2>4. /\ Len(history') = Len(history) + 1 /\ history' # <<>> /\ Last(history') = new
          /\ Len(history) \in Nat
      BY <1>3, <2>1, <2>2, WrittenGrows, InvTypes DEF Latest, Last
    <2>5. Fits(y, history', effects, runtime)
      <3>1. y.at \in 1..Len(history') /\ history'[y.at] = new
        BY <1>3, <2>4 DEF Last
      <3>2. Knows(y, new)
        BY <1>3, <2>2 DEF Knows, OwnPc, BeforePc, AfterPc
      <3> QED BY <1>3, <2>1, <2>2, <2>4, <3>1, <3>2 DEF Fits, OwnPc, BeforePc, AfterPc
    <2>6. y.pc \notin OwnPc
      BY <1>3 DEF OwnPc, BeforePc, AfterPc
    <2> QED BY <1>1, <1>3, <2>1, <2>2, <2>3, <2>5, <2>6, PaidSoFar, WriteKeeps
  <1>4. \/ Refuse(h) /\ UNCHANGED history
        \/ /\ handlers[h].at = Len(history) /\ At(h) = Latest
           /\ history' = Append(history, new)
           /\ handlers' = [handlers EXCEPT ![h] = y] /\ client' \in Answered
           /\ y \in HandlerState(Len(history) + 1)
           /\ y.pc = "start" /\ y.at = Len(history) + 1 /\ y.op = handlers[h].op
    <2> HIDE DEF new
    <2> QED BY <1>1, WroteOrRefused
  <1> QED BY <1>2, <1>3, <1>4

LEMMA StartKeeps ==
  ASSUME IInv, NEW h \in Handler, Start(h)
  PROVE  IInv'
  <1> DEFINE new == Started(At(h))
             pc == IF IsInput(At(h).completed) THEN "scope" ELSE "effect"
             y == Moved(handlers[h], pc, Len(history) + 1)
  <1>1. /\ handlers[h].pc = "start" /\ handlers[h].pc # "free" /\ handlers[h].pc \in ReadPc
        /\ pc \in HandlerPc /\ pc \in BeforePc
        /\ UNCHANGED <<tables, effects, demo, faults>> /\ Write(h, new, pc)
    BY DEF Start, ReadPc, HandlerPc, BeforePc
  <1>2. CASE Refuse(h) /\ UNCHANGED history
    BY <1>1, <1>2, RefusedKeeps
  <1>3. CASE /\ handlers[h].at = Len(history) /\ At(h) = Latest
             /\ history' = Append(history, new)
             /\ handlers' = [handlers EXCEPT ![h] = y] /\ client' \in Answered
             /\ y \in HandlerState(Len(history) + 1)
             /\ y.pc = pc /\ y.at = Len(history) + 1 /\ y.op = handlers[h].op
    <2> HIDE DEF y, pc
    <2>1. /\ history # <<>> /\ Sound(Latest) /\ Latest \in Checkpoint
          /\ handlers[h].op \in Operation /\ handlers[h].op <= Latest.completed
          /\ handlers[h].op = Dispatch => runtime
          /\ Latest.active # NoAdvance /\ Latest.started = NoSlice
          /\ Latest.completed = Len(Latest.done)
      BY <1>1, <1>3, AtWork DEF Knows
    <2>2. /\ Sound(new) /\ Follows(Latest, new, Len(history))
          /\ new.started = Latest.completed /\ new.started \in Slice
          /\ new.active = Latest.active /\ new.completed = Latest.completed
      BY <1>3, <2>1, StartedIsSound
    <2> HIDE DEF new
    <2>3. /\ Len(history') = Len(history) + 1 /\ history' # <<>> /\ Last(history') = new
          /\ Len(history) \in Nat
      BY <1>3, <2>1, <2>2, WrittenGrows, InvTypes DEF Latest, Last
    <2>4. y.at \in 1..Len(history') /\ history'[y.at] = new
      BY <1>3, <2>3 DEF Last
    <2>5. effects[new.started] = 0
      <3>1. ~Fenced(new.started, history)
        <4>1. ~(new.started < Latest.completed) /\ new.started # Latest.started
          BY <2>1, <2>2, Constants
        <4> QED BY <4>1 DEF Fenced, Latest, Last
      <3> QED BY <2>2, <3>1, InvTypes DEF IInv, Paid
    <2>6. Fits(y, history', effects, runtime)
      <3>1. Knows(y, new)
        BY <1>1, <1>3, <2>2, Constants DEF Knows, BeforePc
      <3>2. Fenced(new.started, history')
        BY <2>3 DEF Fenced
      <3>3. y.pc \notin AfterPc \cup {"reconciled"}
        BY <1>1, <1>3 DEF BeforePc, AfterPc
      <3> QED BY <1>3, <2>1, <2>2, <2>3, <2>4, <2>5, <3>1, <3>2, <3>3 DEF Fits
    <2>7. ASSUME NEW g \in Handler \ {h}, handlers[g].pc \in OwnPc
          PROVE  history[handlers[g].at].started # history'[y.at].started
      <3>1. Fenced(At(g).started, history) /\ At(g).started \in Slice
        BY <2>7, PcKinds, AtWork
      <3>2. At(g).started < Latest.completed
        BY <2>1, <3>1, Constants DEF Fenced, Latest, Last
      <3>3. At(g).started # new.started
        BY <2>2, <3>2, <3>1, Constants
      <3> QED BY <2>4, <3>3 DEF At
    <2> QED BY <1>1, <1>3, <2>1, <2>2, <2>6, <2>7, PaidSoFar, WriteKeeps
  <1>4. \/ Refuse(h) /\ UNCHANGED history
        \/ /\ handlers[h].at = Len(history) /\ At(h) = Latest
           /\ history' = Append(history, new)
           /\ handlers' = [handlers EXCEPT ![h] = y] /\ client' \in Answered
           /\ y \in HandlerState(Len(history) + 1)
           /\ y.pc = pc /\ y.at = Len(history) + 1 /\ y.op = handlers[h].op
    <2> HIDE DEF new, pc
    <2> QED BY <1>1, WroteOrRefused
  <1> QED BY <1>2, <1>3, <1>4

(* A slice is completed by the handler that ran it, or from what was       *)
(* recorded of it: either way its effect has been paid for.                *)
LEMMA CompletedKeeps ==
  ASSUME IInv, NEW h \in Handler, handlers[h].pc \in {"append", "reconciled"},
         NEW outcomes \in {At(h).outcomes,
                          Append(At(h).outcomes, [slice |-> At(h).started,
                                                  ref |-> handlers[h].at])},
         Write(h, Completed(At(h), outcomes), "close"),
         UNCHANGED <<tables, effects, demo, faults>>
  PROVE  IInv'
  <1> DEFINE new == Completed(At(h), outcomes)
             y == Moved(handlers[h], "close", Len(history) + 1)
  <1>1. /\ handlers[h].pc # "free" /\ handlers[h].pc \in ReadPc /\ "close" \in HandlerPc
        /\ handlers[h].pc \in OwnPc \cup {"reconcile", "reconciled"}
        /\ handlers[h].pc \in AfterPc \cup {"reconciled"}
    BY DEF ReadPc, HandlerPc, OwnPc, AfterPc
  <1>2. CASE Refuse(h) /\ UNCHANGED history
    BY <1>1, <1>2, RefusedKeeps
  <1>3. CASE /\ handlers[h].at = Len(history) /\ At(h) = Latest
             /\ history' = Append(history, new)
             /\ handlers' = [handlers EXCEPT ![h] = y] /\ client' \in Answered
             /\ y \in HandlerState(Len(history) + 1)
             /\ y.pc = "close" /\ y.at = Len(history) + 1 /\ y.op = handlers[h].op
    <2> HIDE DEF y
    <2>1. /\ history # <<>> /\ Sound(Latest) /\ Latest \in Checkpoint
          /\ handlers[h].op \in Operation /\ handlers[h].op <= Latest.completed
          /\ handlers[h].op = Dispatch => runtime
          /\ Latest.started \in Slice /\ Latest.started # NoSlice
      BY <1>1, <1>3, AtWork, Constants
    <2>2. Len(history) \in Nat \ {0}
      BY <2>1, InvTypes, AtWork, <1>1
    <2>3. /\ Sound(new) /\ Follows(Latest, new, Len(history))
          /\ new.active # NoAdvance /\ new.started = NoSlice
          /\ new.active = Latest.active /\ new.completed = Latest.completed + 1
          /\ new.completed = Len(new.done) + 1
          /\ Latest.completed = Latest.started /\ Latest.active.op = Latest.started
      <3>1. /\ new = Completed(Latest, outcomes)
            /\ outcomes \in {Latest.outcomes,
                             Append(Latest.outcomes, [slice |-> Latest.started,
                                                      ref |-> Len(history)])}
        BY <1>3
      <3> HIDE DEF new
      <3> QED BY <2>1, <2>2, <3>1, CompletedIsSound
    <2> HIDE DEF new
    <2>4. /\ Len(history') = Len(history) + 1 /\ history' # <<>> /\ Last(history') = new
      BY <1>3, <2>1, <2>3, WrittenGrows, InvTypes DEF Latest, Last
    <2>5. effects[Latest.started] = 1
      BY <1>1, <1>3 DEF IInv, Fits, At
    <2>6. \A s \in Slice : s < new.completed => effects[s] = 1
      <3> SUFFICES ASSUME NEW s \in Slice, s < Latest.completed + 1
                   PROVE  effects[s] = 1
        BY <2>3
      <3>1. s < Latest.completed \/ s = Latest.started
        BY <2>1, <2>3, Constants
      <3> QED BY <2>1, <2>5, <3>1, PaidSoFar
    <2>7. /\ new.active.op = Dispatch => runtime
          /\ new.completed > Dispatch => runtime
      BY <2>1, <2>3, PaidSoFar, Constants
    <2>8. /\ Latest.completed <= new.completed /\ Latest.started < new.completed
          /\ Latest.completed \in Int
      BY <2>1, <2>3, Constants
    <2>9. Fits(y, history', effects, runtime)
      <3>1. y.at \in 1..Len(history') /\ history'[y.at] = new
        BY <1>3, <2>2, <2>4 DEF Last
      <3>2. Knows(y, new)
        BY <1>3, <2>3 DEF Knows, OwnPc, BeforePc, AfterPc
      <3>3. handlers[h].op <= new.completed
        BY <2>1, <2>3, <2>8, Constants
      <3> QED BY <1>3, <2>1, <2>4, <3>1, <3>2, <3>3 DEF Fits, OwnPc, BeforePc, AfterPc
    <2>10. y.pc \notin OwnPc
      BY <1>3 DEF OwnPc, BeforePc, AfterPc
    <2> QED BY <1>1, <1>3, <2>1, <2>3, <2>6, <2>7, <2>8, <2>9, <2>10, WriteKeeps
  <1>4. \/ Refuse(h) /\ UNCHANGED history
        \/ /\ handlers[h].at = Len(history) /\ At(h) = Latest
           /\ history' = Append(history, new)
           /\ handlers' = [handlers EXCEPT ![h] = y] /\ client' \in Answered
           /\ y \in HandlerState(Len(history) + 1)
           /\ y.pc = "close" /\ y.at = Len(history) + 1 /\ y.op = handlers[h].op
    <2> HIDE DEF new
    <2>1. Write(h, new, "close")
      BY DEF new
    <2> QED BY <1>1, <2>1, WroteOrRefused
  <1> QED BY <1>2, <1>3, <1>4

LEMMA AppendSliceKeeps ==
  ASSUME IInv, NEW h \in Handler, AppendSlice(h)
  PROVE  IInv'
  <1>1. /\ handlers[h].pc \in {"append", "reconciled"}
        /\ Write(h, Completed(At(h), At(h).outcomes), "close")
        /\ UNCHANGED <<tables, effects, demo, faults>>
    BY DEF AppendSlice
  <1> QED BY <1>1, CompletedKeeps

LEMMA AppendReconciledKeeps ==
  ASSUME IInv, NEW h \in Handler, AppendReconciled(h)
  PROVE  IInv'
  <1> DEFINE outcomes == Append(At(h).outcomes, [slice |-> At(h).started,
                                                 ref |-> handlers[h].at])
  <1>1. /\ handlers[h].pc \in {"append", "reconciled"}
        /\ Write(h, Completed(At(h), outcomes), "close")
        /\ UNCHANGED <<tables, effects, demo, faults>>
    BY DEF AppendReconciled
  <1> QED BY <1>1, CompletedKeeps

LEMMA CloseKeeps ==
  ASSUME IInv, NEW h \in Handler, Close(h)
  PROVE  IInv'
  <1> DEFINE new == Closed(At(h))
  <1>1. /\ handlers[h].pc = "close" /\ handlers[h].pc # "free" /\ handlers[h].pc \in ReadPc
        /\ UNCHANGED <<tables, effects, demo, faults>>
    BY DEF Close, ReadPc, HandlerPc
  <1>2. CASE Refuse(h) /\ UNCHANGED history
    BY <1>1, <1>2, RefusedKeeps
  <1>3. CASE /\ handlers[h].at = Len(history) /\ history' = Append(history, new) /\ Reply(h)
    <2>1. /\ history # <<>> /\ Sound(Latest) /\ Latest \in Checkpoint /\ At(h) = Latest
          /\ Latest.active # NoAdvance /\ Latest.started = NoSlice
          /\ Latest.completed = Len(Latest.done) + 1
      BY <1>1, <1>3, AtWork DEF Knows, At, Latest
    <2>2. /\ Sound(new) /\ Follows(Latest, new, Len(history))
          /\ new.active = NoAdvance /\ new.started = NoSlice
          /\ new.completed = Latest.completed
      BY <2>1, ClosedIsSound
    <2> HIDE DEF new
    <2>3. new.active.op # Dispatch
      BY <2>2, Constants DEF NoAdvance
    <2>4. handlers' = [handlers EXCEPT ![h] = Free] /\ client' \in Answered
      BY <1>3, Refused
    <2>5. /\ Free \in HandlerState(Len(history) + 1) /\ Free.pc \notin OwnPc
          /\ Fits(Free, history', effects, runtime)
      BY FreeFits, InvTypes
    <2> QED BY <1>1, <1>3, <2>1, <2>2, <2>3, <2>4, <2>5, PaidSoFar, WriteKeeps
  <1> QED BY <1>1, <1>2, <1>3 DEF Close

LEMMA ScopeKeeps ==
  ASSUME IInv, NEW h \in Handler, Scope(h)
  PROVE  IInv'
  <1>1. /\ handlers[h].pc = "scope" /\ handlers[h].pc # "free"
        /\ handlers[h].pc \in OwnPc /\ handlers[h].pc \in BeforePc
        /\ UNCHANGED <<history, tables, effects, demo, faults>>
        /\ "effect" \in HandlerPc /\ "effect" \in BeforePc
    BY DEF Scope, OwnPc, BeforePc, HandlerPc
  <1>2. CASE Refuse(h)
    BY <1>1, <1>2, RefusedKeeps
  <1>3. CASE Go(h, "effect", handlers[h].at)
    <2> DEFINE y == Moved(handlers[h], "effect", handlers[h].at)
    <2>1. handlers[h].at \in 0..Len(history)
      BY InvTypes DEF HandlerState
    <2>2. y.pc = "effect" /\ y.at = handlers[h].at /\ y.op = handlers[h].op
      BY <1>1, <2>1, MovedHas
    <2>3. /\ handlers[h].at \in 1..Len(history) /\ Knows(handlers[h], At(h))
          /\ Fits(handlers[h], history, effects, runtime)
      BY <1>1, PcKinds, AtWork DEF IInv
    <2> HIDE DEF y
    <2>4. Knows(y, At(h))
      BY <1>1, <2>2, <2>3 DEF Knows, OwnPc, BeforePc, AfterPc
    <2>5. Fits(y, history, effects, runtime)
      BY <1>1, <2>2, <2>3, <2>4, PcKinds DEF Fits, At, AfterPc
    <2> QED BY <1>1, <1>3, <2>1, <2>5, TablesKept, GoneKeeps DEF y
  <1> QED BY <1>2, <1>3 DEF Scope

LEMMA RowIs ==
  ASSUME IInv, NEW h \in Handler, handlers[h].pc \in OwnPc \cup {"reconcile"}, NEW valid \in BOOLEAN
  PROVE  /\ Row(h, valid) \in Rows /\ Row(h, valid).slice = At(h).started
         /\ [Row(h, valid) EXCEPT !.ref = Len(history)].slice = At(h).started
         /\ handlers[h].at \in 1..Len(history)
  <1>1. /\ At(h).started \in Slice /\ At(h).active.op \in Operation
        /\ handlers[h].at \in 1..Len(history) /\ Len(history) \in Nat
    BY PcKinds, AtWork, InvTypes
  <1>2. handlers[h].at \in Nat \ {0}
    BY <1>1
  <1> QED BY <1>1, <1>2 DEF Row, Rows

LEMMA ReceiptKeeps ==
  ASSUME IInv, NEW h \in Handler, Receipt(h)
  PROVE  IInv'
  <1>1. /\ handlers[h].pc = "receipt" /\ handlers[h].pc # "free"
        /\ handlers[h].pc \in OwnPc /\ handlers[h].pc \in AfterPc
        /\ receipts' = receipts \cup {Row(h, handlers[h].valid)}
        /\ UNCHANGED <<history, readbacks, effects, demo, faults>>
        /\ "record" \in HandlerPc /\ "record" \in AfterPc /\ "record" \in OwnPc
    BY DEF Receipt, OwnPc, AfterPc, HandlerPc
  <1>2. /\ receipts' \subseteq Rows /\ readbacks' \subseteq Rows
        /\ RowsPaid(receipts' \cup readbacks', effects)
    <2>1. handlers[h].valid \in BOOLEAN
      BY InvTypes DEF HandlerState
    <2>2. effects[At(h).started] = 1
      BY <1>1 DEF IInv, Fits, At
    <2> QED BY <1>1, <2>1, <2>2, RowIs, InvTypes DEF RowsPaid
  <1>3. CASE Refuse(h)
    BY <1>1, <1>2, <1>3, Refused, FreeFits, QuietKeeps, InvTypes
  <1>4. CASE Go(h, "record", handlers[h].at)
    <2> DEFINE y == Moved(handlers[h], "record", handlers[h].at)
    <2>1. handlers[h].at \in 0..Len(history)
      BY InvTypes DEF HandlerState
    <2>2. y.pc = "record" /\ y.at = handlers[h].at /\ y.op = handlers[h].op
      BY <1>1, <2>1, MovedHas
    <2>3. /\ handlers[h].at \in 1..Len(history) /\ Knows(handlers[h], At(h))
          /\ Fits(handlers[h], history, effects, runtime)
      BY <1>1, PcKinds, AtWork DEF IInv
    <2> HIDE DEF y
    <2>4. Knows(y, At(h))
      BY <1>1, <2>2, <2>3 DEF Knows, OwnPc, BeforePc, AfterPc
    <2>5. Fits(y, history, effects, runtime)
      BY <1>1, <2>2, <2>3, <2>4, PcKinds DEF Fits, At, BeforePc
    <2> QED BY <1>1, <1>2, <1>4, <2>1, <2>5, GoneKeeps DEF y
  <1> QED BY <1>3, <1>4 DEF Receipt

LEMMA RecordKeeps ==
  ASSUME IInv, NEW h \in Handler, Record(h)
  PROVE  IInv'
  <1>1. /\ handlers[h].pc = "record" /\ handlers[h].pc # "free"
        /\ handlers[h].pc \in OwnPc /\ handlers[h].pc \in AfterPc
        /\ UNCHANGED <<history, receipts, effects, demo, faults>>
        /\ "append" \in HandlerPc /\ "append" \in AfterPc /\ "append" \in OwnPc
    BY DEF Record, OwnPc, AfterPc, HandlerPc
  <1>2. CASE UNCHANGED readbacks /\ Refuse(h)
    BY <1>1, <1>2, RefusedKeeps DEF tables
  <1>3. CASE readbacks' = readbacks \cup {Row(h, TRUE)} /\ Go(h, "append", handlers[h].at)
    <2> DEFINE y == Moved(handlers[h], "append", handlers[h].at)
    <2>1. handlers[h].at \in 0..Len(history)
      BY InvTypes DEF HandlerState
    <2>2. y.pc = "append" /\ y.at = handlers[h].at /\ y.op = handlers[h].op
      BY <1>1, <2>1, MovedHas
    <2>3. /\ handlers[h].at \in 1..Len(history) /\ Knows(handlers[h], At(h))
          /\ Fits(handlers[h], history, effects, runtime)
      BY <1>1, PcKinds, AtWork DEF IInv
    <2>4. /\ receipts' \subseteq Rows /\ readbacks' \subseteq Rows
          /\ RowsPaid(receipts' \cup readbacks', effects)
      <3>1. effects[At(h).started] = 1
        BY <1>1 DEF IInv, Fits, At
      <3>2. Row(h, TRUE) \in Rows /\ Row(h, TRUE).slice = At(h).started
        BY <1>1, RowIs
      <3> QED BY <1>1, <1>3, <3>1, <3>2, InvTypes DEF RowsPaid
    <2> HIDE DEF y
    <2>5. Knows(y, At(h))
      BY <1>1, <2>2, <2>3 DEF Knows, OwnPc, BeforePc, AfterPc
    <2>6. Fits(y, history, effects, runtime)
      BY <1>1, <2>2, <2>3, <2>5, PcKinds DEF Fits, At, BeforePc
    <2> QED BY <1>1, <1>3, <2>1, <2>4, <2>6, GoneKeeps DEF y
  <1> QED BY <1>2, <1>3 DEF Record

LEMMA ReconcileKeeps ==
  ASSUME IInv, NEW h \in Handler, Reconcile(h)
  PROVE  IInv'
  <1>1. /\ handlers[h].pc = "reconcile" /\ handlers[h].pc # "free"
        /\ handlers[h].pc \in OwnPc \cup {"reconcile"}
        /\ UNCHANGED <<history, tables, effects, demo, faults>>
        /\ "reconciled" \in HandlerPc /\ "reconciled" \notin OwnPc
    BY DEF Reconcile, OwnPc, BeforePc, AfterPc, HandlerPc
  <1>2. CASE Refuse(h)
    BY <1>1, <1>2, RefusedKeeps
  <1>3. CASE /\ [Row(h, TRUE) EXCEPT !.ref = Len(history)] \in Recorded
             /\ Go(h, "reconciled", handlers[h].at)
    <2> DEFINE y == Moved(handlers[h], "reconciled", handlers[h].at)
    <2>1. handlers[h].at \in 0..Len(history)
      BY InvTypes DEF HandlerState
    <2>2. y.pc = "reconciled" /\ y.at = handlers[h].at /\ y.op = handlers[h].op
      BY <1>1, <2>1, MovedHas
    <2>3. /\ handlers[h].at \in 1..Len(history) /\ Knows(handlers[h], At(h))
          /\ Fits(handlers[h], history, effects, runtime)
      BY <1>1, PcKinds, AtWork DEF IInv
    <2>4. effects[At(h).started] = 1
      <3>1. [Row(h, TRUE) EXCEPT !.ref = Len(history)].slice = At(h).started
        BY <1>1, RowIs
      <3>2. [Row(h, TRUE) EXCEPT !.ref = Len(history)] \in receipts \cup readbacks
        BY <1>3 DEF Recorded
      <3> QED BY <3>1, <3>2, InvTypes DEF RowsPaid
    <2> HIDE DEF y
    <2>5. Knows(y, At(h))
      BY <1>1, <2>2, <2>3 DEF Knows, OwnPc, BeforePc, AfterPc
    <2>6. Fits(y, history, effects, runtime)
      BY <1>1, <2>2, <2>3, <2>4, <2>5, PcKinds DEF Fits, At, BeforePc
    <2> QED BY <1>1, <1>3, <2>1, <2>6, TablesKept, GoneKeeps DEF y
  <1> QED BY <1>2, <1>3 DEF Reconcile

(* The effect is asked for: nobody asked for it before, and from now on no *)
(* handler will ask again.                                                 *)
LEMMA EffectKeeps ==
  ASSUME IInv, NEW h \in Handler, Effect(h)
  PROVE  IInv'
  <1> DEFINE s == At(h).started
  <1>1. /\ handlers[h].pc = "effect" /\ handlers[h].pc # "free"
        /\ handlers[h].pc \in OwnPc /\ handlers[h].pc \in BeforePc
        /\ effects' = [effects EXCEPT ![s] = effects[s] + 1]
        /\ UNCHANGED <<history, tables, demo, faults>>
    BY DEF Effect, OwnPc, BeforePc
  <1>2. /\ s \in Slice /\ effects[s] = 0 /\ effects \in [Slice -> {0, 1}]
        /\ history # <<>> /\ Written(history)
    BY <1>1, AtWork, InvTypes DEF IInv, Fits, At
  <1> HIDE DEF s
  <1>3. /\ effects' \in [Slice -> {0, 1}] /\ effects'[s] = 1
        /\ \A t \in Slice : effects'[t] = effects[t] \/ (effects'[t] = 1 /\ t = s)
    BY <1>1, <1>2
  <1>4. \A t \in Slice : t < Last(history).completed => effects'[t] = 1
    BY <1>2, <1>3 DEF IInv, Paid
  <1>5. /\ receipts' \subseteq Rows /\ readbacks' \subseteq Rows
        /\ RowsPaid(receipts' \cup readbacks', effects')
    <2>1. RowsPaid(receipts \cup readbacks, effects) /\ receipts' = receipts /\ readbacks' = readbacks
      BY <1>1, InvTypes DEF tables
    <2>2. \A row \in receipts \cup readbacks : row.slice \in Slice
      BY InvTypes DEF Rows
    <2> QED BY <1>3, <2>1, <2>2, InvTypes DEF RowsPaid
  <1>6. Later(history, history) /\ Restarts(history, runtime)
    BY <1>2, SameIsLater DEF IInv
  <1>7. /\ handlers \in [Handler -> HandlerState(Len(history))] /\ Len(history) \in Nat
        /\ handlers[h].at \in 1..Len(history) /\ Knows(handlers[h], At(h))
        /\ Fits(handlers[h], history, effects, runtime)
    BY <1>1, PcKinds, AtWork, InvTypes DEF IInv
  <1>8. ASSUME NEW y \in HandlerState(Len(history)), handlers' = [handlers EXCEPT ![h] = y],
               y = Free \/ (y.pc \in AfterPc /\ y.at = handlers[h].at /\ y.op = handlers[h].op),
               client' \in Answered
        PROVE  IInv'
    <2>1. Fits(y, history, effects', runtime)
      <3>1. CASE y = Free
        BY <3>1, FreeFits, <1>7
      <3>2. CASE y.pc \in AfterPc /\ y.at = handlers[h].at /\ y.op = handlers[h].op
        <4>1. Knows(y, At(h)) /\ y.pc \in OwnPc /\ y.pc \notin BeforePc
          BY <3>2, <1>1, <1>7 DEF Knows, OwnPc, BeforePc, AfterPc
        <4>2. effects'[history[y.at].started] = 1
          BY <1>3, <3>2 DEF At, s
        <4> QED BY <1>1, <1>7, <3>2, <4>1, <4>2, PcKinds DEF Fits, At
      <3> QED BY <1>8, <3>1, <3>2
    <2>2. y.pc \in OwnPc =>
           \A g \in Handler \ {h} : handlers[g].pc \in OwnPc =>
             history[handlers[g].at].started # history[y.at].started
      <3>1. CASE y = Free
        BY <3>1, FreeFits, <1>7
      <3>2. CASE y.at = handlers[h].at
        BY <1>1, <3>2 DEF IInv, Apart
      <3> QED BY <1>8, <3>1, <3>2
    <2>3. \A t \in Slice :
           \/ effects'[t] = effects[t]
           \/ effects'[t] = 1 /\ handlers[h].pc \in OwnPc /\ t = At(h).started
      BY <1>1, <1>3 DEF s
    <2> QED BY <1>1, <1>2, <1>3, <1>4, <1>5, <1>6, <1>8, <2>1, <2>2, <2>3, StepKeeps
  <1>9. CASE Refuse(h)
    BY <1>7, <1>8, <1>9, Refused, FreeFits
  <1>10. CASE ~IsInput(At(h).started) /\ Go(h, "record", handlers[h].at)
    <2> DEFINE y == Moved(handlers[h], "record", handlers[h].at)
    <2>1. /\ handlers[h].at \in 0..Len(history) /\ "record" \in HandlerPc /\ "record" \in AfterPc
          /\ Len(history) <= Len(history) /\ handlers[h] \in HandlerState(Len(history))
      BY <1>7 DEF HandlerPc, AfterPc
    <2>2. /\ y.pc = "record" /\ y.at = handlers[h].at /\ y.op = handlers[h].op
          /\ y \in HandlerState(Len(history))
      BY <1>7, <2>1, MovedFits
    <2>3. handlers' = [handlers EXCEPT ![h] = y] /\ client' \in Answered
      BY <1>10, Gone
    <2> HIDE DEF y
    <2> QED BY <1>8, <2>1, <2>2, <2>3
  <1>11. ASSUME NEW valid \in BOOLEAN, UNCHANGED client,
                handlers' = [handlers EXCEPT ![h].pc = "receipt", ![h].valid = valid]
         PROVE  IInv'
    <2> DEFINE x == handlers[h]
               y == [x EXCEPT !.pc = "receipt", !.valid = valid]
    <2>1. x \in HandlerState(Len(history)) /\ "receipt" \in HandlerPc
      BY <1>7 DEF HandlerPc
    <2>2. handlers' = [handlers EXCEPT ![h] = y]
      BY <1>7, <1>11
    <2>3. client' \in Answered
      BY <1>11 DEF Answered
    <2> HIDE DEF x
    <2>4. y \in HandlerState(Len(history)) /\ y.pc = "receipt" /\ y.at = x.at /\ y.op = x.op
      BY <2>1 DEF HandlerState
    <2> HIDE DEF y
    <2>5. y.pc \in AfterPc
      BY <2>4 DEF AfterPc
    <2> QED BY <1>8, <2>2, <2>3, <2>4, <2>5 DEF x
  <1> QED BY <1>9, <1>10, <1>11 DEF Effect

LEMMA StepsKeep ==
  ASSUME IInv, NEW h \in Handler, Step(h)
  PROVE  IInv'
  BY LookupKeeps, ClaimKeeps, WriteClaimKeeps, StartKeeps, ScopeKeeps, EffectKeeps,
     ReceiptKeeps, RecordKeeps, AppendSliceKeeps, ReconcileKeeps, AppendReconciledKeeps,
     CloseKeeps DEF Step
-----------------------------------------------------------------------------
(* The client and the faults.                                              *)
ClientState == [pc : {"idle", "driving", "waiting", "answered"}, seen : 0..Total,
                by : Handler \cup {NoHandler}]

LEMMA IdleIsState == Idle \in ClientState /\ Idle.pc = "idle" /\ Idle.seen = 0
  BY Constants DEF Idle, ClientState

LEMMA DrivingIsState ==
  ASSUME NEW c \in ClientState, NEW n \in 0..Total
  PROVE  /\ [c EXCEPT !.pc = "driving", !.seen = n] \in ClientState
         /\ [c EXCEPT !.pc = "driving", !.seen = n].seen = n
  <1> DEFINE c1 == [c EXCEPT !.pc = "driving"]
  <1>1. c1 \in ClientState
    BY DEF ClientState
  <1>2. [c EXCEPT !.pc = "driving", !.seen = n] = [c1 EXCEPT !.seen = n]
    BY DEF ClientState
  <1> HIDE DEF c1
  <1>3. [c1 EXCEPT !.seen = n] \in ClientState /\ [c1 EXCEPT !.seen = n].seen = n
    BY <1>1 DEF ClientState
  <1> QED BY <1>2, <1>3

(* Steps of the client alone.                                              *)
LEMMA ClientKeeps ==
  ASSUME IInv, client' \in ClientState, ClientKnows(client', history),
         UNCHANGED <<history, tables, effects, handlers>>,
         restarted' \in BOOLEAN, runtime' \in BOOLEAN,
         restarted' => runtime', runtime => runtime', faults' \in 0..MaxFaults
  PROVE  IInv'
  <1>1. TypeOK'
    BY DEF IInv, TypeOK, tables, ClientState
  <1>2. /\ Written(history') /\ Apart(handlers', history') /\ Paid(effects', history')
        /\ ClientKnows(client', history')
    BY DEF IInv
  <1>3. ASSUME NEW h \in Handler
        PROVE  Fits(handlers'[h], history', effects', runtime')
    <2>1. Fits(handlers[h], history, effects, runtime)
      BY DEF IInv
    <2>2. Fits(handlers[h], history, effects, runtime')
      BY <2>1 DEF Fits
    <2> QED BY <2>2
  <1>4. RowsPaid(receipts' \cup readbacks', effects')
    BY DEF IInv, tables
  <1>5. Restarts(history', runtime')
    BY DEF IInv, Restarts
  <1> QED BY <1>1, <1>2, <1>3, <1>4, <1>5 DEF IInv

LEMMA IdleKnows ==
  ASSUME IInv
  PROVE  Idle \in ClientState /\ ClientKnows(Idle, history)
  <1>1. history # <<>> => Last(history).completed \in 0..Total
    BY InvTypes, WrittenTypes, CheckpointFields
  <1> QED BY <1>1, IdleIsState, Constants DEF ClientKnows

(* The first submission: nobody is at work yet.                            *)
LEMMA AdmissionKeeps ==
  ASSUME IInv, Run, history = <<>>, history' = <<Admitted>>
  PROVE  IInv'
  <1>1. /\ client' = [Idle EXCEPT !.pc = "driving", !.seen = Last(history').completed]
        /\ restarted' = FALSE /\ UNCHANGED <<tables, effects, handlers, runtime, faults>>
    BY DEF Run, Last
  <1>2. Written(history') /\ Last(history') = Admitted /\ Len(history') = 1 /\ history' # <<>>
    BY AdmittedIsWritten
  <1>3. Admitted.completed = 0 /\ Admitted.active.op = NoSlice /\ Admitted.started = NoSlice
    BY DEF Admitted, NoAdvance
  <1>4. ASSUME NEW h \in Handler
        PROVE  handlers[h].pc = "free"
    BY DEF IInv, Fits
  <1>5. Len(history) = 0
    OBVIOUS
  <1>6. client' \in ClientState /\ client'.seen = 0
    <2>1. client' = [Idle EXCEPT !.pc = "driving", !.seen = 0]
      BY <1>1, <1>2, <1>3
    <2>2. 0 \in 0..Total
      BY Constants
    <2> QED BY <2>1, <2>2, IdleIsState, DrivingIsState
  <1>7. TypeOK'
    <2>1. handlers \in [Handler -> HandlerState(0)]
      BY <1>5, InvTypes
    <2>2. 0..0 \subseteq 0..1
      OBVIOUS
    <2>3. handlers' \in [Handler -> HandlerState(Len(history'))]
      BY <1>1, <1>2, <2>1, <2>2 DEF HandlerState
    <2>4. history' \in Seq(Checkpoint)
      BY <1>2 DEF Written
    <2> QED BY <1>1, <1>6, <2>3, <2>4 DEF IInv, TypeOK, tables, ClientState, HandlerState, HandlerPc
  <1>8. \A h \in Handler : Fits(handlers'[h], history', effects', runtime')
    BY <1>1, <1>4 DEF Fits, ReadPc, OwnPc, BeforePc, AfterPc
  <1>9. Apart(handlers', history')
    BY <1>1, <1>4 DEF Apart, OwnPc, BeforePc, AfterPc
  <1>10. Paid(effects', history')
    BY <1>1, <1>2, <1>3, Constants DEF IInv, Paid
  <1>11. RowsPaid(receipts' \cup readbacks', effects')
    BY <1>1 DEF IInv, tables
  <1>12. Restarts(history', runtime')
    BY <1>2, <1>3, Constants DEF Restarts
  <1>13. ClientKnows(client', history')
    BY <1>2, <1>3, <1>6 DEF ClientKnows
  <1> QED BY <1>1, <1>2, <1>7, <1>8, <1>9, <1>10, <1>11, <1>12, <1>13 DEF IInv

LEMMA DrivingKnows ==
  ASSUME IInv, history # <<>>, NEW c \in ClientState
  PROVE  /\ [c EXCEPT !.pc = "driving", !.seen = Latest.completed] \in ClientState
         /\ ClientKnows([c EXCEPT !.pc = "driving", !.seen = Latest.completed], history)
  <1> DEFINE n == Latest.completed
  <1>1. n \in 0..Total /\ n = Last(history).completed /\ n \in Int
    BY InvTypes, WrittenTypes, CheckpointFields DEF Latest, Last
  <1> HIDE DEF n
  <1>2. /\ [c EXCEPT !.pc = "driving", !.seen = n] \in ClientState
        /\ [c EXCEPT !.pc = "driving", !.seen = n].seen = n
    BY <1>1, DrivingIsState
  <1>3. ClientKnows([c EXCEPT !.pc = "driving", !.seen = n], history)
    BY <1>1, <1>2 DEF ClientKnows
  <1> QED BY <1>2, <1>3 DEF n

LEMMA PostKeeps ==
  ASSUME IInv, NEW h \in Handler, Post(h)
  PROVE  IInv'
  <1> DEFINE y == [Free EXCEPT !.pc = "lookup", !.op = client.seen]
  <1>1. /\ client.pc = "driving" /\ client.seen < Total /\ ~AtBoundary(client.seen)
        /\ handlers' = [handlers EXCEPT ![h] = y]
        /\ client' = [client EXCEPT !.pc = "waiting", !.by = h]
        /\ UNCHANGED <<history, tables, effects, demo, faults>>
    BY DEF Post
  <1>2. /\ client \in ClientState /\ client.seen \in 0..Total /\ history # <<>>
        /\ client.seen <= Last(history).completed
    BY <1>1 DEF IInv, TypeOK, ClientState, ClientKnows
  <1>3. client.seen \in Operation
    BY <1>1, <1>2, Constants
  <1>4. /\ y \in HandlerState(Len(history)) /\ y.pc = "lookup" /\ y.op = client.seen
        /\ y.pc \notin ReadPc
    <2> DEFINE x == [Free EXCEPT !.pc = "lookup"]
    <2>1. Free \in HandlerState(Len(history))
      BY FreeFits, InvTypes
    <2>2. x \in HandlerState(Len(history)) /\ x.pc = "lookup"
      BY <2>1 DEF HandlerState, HandlerPc
    <2>3. y = [x EXCEPT !.op = client.seen]
      BY <2>1 DEF HandlerState
    <2> HIDE DEF x, y
    <2>4. [x EXCEPT !.op = client.seen] \in HandlerState(Len(history))
      BY <1>3, <2>2 DEF HandlerState
    <2>5. y.pc = "lookup" /\ y.op = client.seen
      BY <2>2, <2>3 DEF HandlerState
    <2> QED BY <2>3, <2>4, <2>5 DEF ReadPc, HandlerPc
  <1> HIDE DEF y
  <1>6. Fits(y, history, effects, runtime)
    <2>1. client.seen = Dispatch => runtime
      BY <1>1 DEF AtBoundary, IInv
    <2> QED BY <1>2, <1>3, <1>4, <2>1, PcKinds DEF Fits
  <1>7. client' \in ClientState /\ client'.seen = client.seen
    BY <1>1, <1>2 DEF ClientState
  <1>8. TypeOK'
    <2>1. handlers' \in [Handler -> HandlerState(Len(history))]
      BY <1>1, <1>4, InvTypes
    <2> QED BY <1>1, <1>7, <2>1 DEF IInv, TypeOK, tables, demo, ClientState, HandlerState, HandlerPc
  <1>9. \A g \in Handler : Fits(handlers'[g], history', effects', runtime')
    BY <1>1, <1>6, InvTypes DEF IInv, demo
  <1>10. Apart(handlers', history')
    <2>1. y.pc \notin OwnPc
      BY <1>4, PcKinds
    <2> QED BY <1>1, <2>1, InvTypes DEF IInv, Apart
  <1>11. ClientKnows(client', history')
    BY <1>1, <1>2, <1>7 DEF ClientKnows
  <1> QED BY <1>1, <1>8, <1>9, <1>10, <1>11 DEF IInv, tables, demo

LEMMA DriveKeeps ==
  ASSUME IInv, Drive
  PROVE  IInv'
  <1>1. restarted \in BOOLEAN /\ runtime \in BOOLEAN /\ faults \in 0..MaxFaults
        /\ (restarted => runtime) /\ client \in ClientState
    BY DEF IInv, TypeOK, ClientState
  <1>2. CASE Run
    <2>1. CASE history = <<>> /\ history' = <<Admitted>>
      BY <1>2, <2>1, AdmissionKeeps
    <2>2. CASE Readable /\ UNCHANGED history
      <3>1. history # <<>>
        BY <2>2 DEF Readable
      <3>2. client' = [Idle EXCEPT !.pc = "driving", !.seen = Latest.completed]
        BY <1>2, <2>2 DEF Run, Latest
      <3>3. /\ restarted' = FALSE /\ runtime' = runtime /\ faults' = faults
            /\ UNCHANGED <<history, tables, effects, handlers>>
        BY <1>2, <2>2 DEF Run
      <3> QED BY <1>1, <3>1, <3>2, <3>3, IdleIsState, DrivingKnows, ClientKeeps
    <2> QED BY <1>2, <2>1, <2>2 DEF Run
  <1>3. CASE Resume
    <2>1. history # <<>> /\ client' = [Idle EXCEPT !.pc = "driving", !.seen = Latest.completed]
      BY <1>3 DEF Resume, Readable
    <2>2. UNCHANGED <<history, tables, effects, handlers, restarted, runtime, faults>>
      BY <1>3 DEF Resume, demo
    <2> QED BY <1>1, <2>1, <2>2, IdleIsState, DrivingKnows, ClientKeeps
  <1>4. CASE RestartRuntime
    <2>1. /\ restarted' = TRUE /\ runtime' = TRUE
          /\ UNCHANGED <<history, tables, effects, handlers, client, faults>>
      BY <1>4 DEF RestartRuntime
    <2>2. ClientKnows(client', history)
      BY <2>1 DEF IInv
    <2> QED BY <1>1, <2>1, <2>2, ClientKeeps
  <1>5. CASE \E h \in Handler : Post(h)
    BY <1>5, PostKeeps
  <1>6. CASE Poll
    <2>1. /\ history # <<>> /\ UNCHANGED <<history, tables, effects, handlers, restarted, runtime, faults>>
          /\ client' \in {[client EXCEPT !.pc = "driving", !.seen = Latest.completed], Idle}
      BY <1>6 DEF Poll, Readable, demo
    <2>2. client' \in ClientState /\ ClientKnows(client', history)
      BY <1>1, <2>1, IdleKnows, DrivingKnows
    <2> QED BY <1>1, <2>1, <2>2, ClientKeeps
  <1>7. CASE Finish
    <2>1. client' = Idle /\ UNCHANGED <<history, tables, effects, handlers, restarted, runtime, faults>>
      BY <1>7 DEF Finish, demo
    <2> QED BY <1>1, <2>1, IdleKnows, ClientKeeps
  <1> QED BY <1>2, <1>3, <1>4, <1>5, <1>6, <1>7 DEF Drive

LEMMA GiveUpKeeps ==
  ASSUME IInv, GiveUp
  PROVE  IInv'
  <1>1. /\ client' = Idle /\ faults' \in 0..MaxFaults
        /\ UNCHANGED <<history, tables, effects, handlers, restarted, runtime>>
    BY Constants DEF GiveUp, demo, IInv, TypeOK
  <1> QED BY <1>1, IdleKnows, ClientKeeps DEF IInv, TypeOK

(* All handlers end; what is in the database stays.                        *)
LEMMA StopKeeps ==
  ASSUME IInv, Stop
  PROVE  IInv'
  <1>1. /\ handlers' = [h \in Handler |-> Free] /\ client' \in {Idle, client}
        /\ faults' \in 0..MaxFaults /\ UNCHANGED <<history, tables, effects, demo>>
    BY Constants DEF Stop, IInv, TypeOK
  <1>2. client' \in ClientState /\ ClientKnows(client', history)
    BY <1>1, IdleKnows DEF IInv, TypeOK, ClientState
  <1>3. handlers' \in [Handler -> HandlerState(Len(history))]
    BY <1>1, FreeFits, InvTypes
  <1>4. TypeOK'
    BY <1>1, <1>2, <1>3 DEF IInv, TypeOK, tables, demo, ClientState, HandlerState, HandlerPc
  <1>5. \A h \in Handler : Fits(handlers'[h], history', effects', runtime') /\ handlers'[h].pc \notin OwnPc
    BY <1>1, FreeFits, InvTypes
  <1>6. Apart(handlers', history')
    BY <1>5 DEF Apart
  <1> QED BY <1>1, <1>2, <1>4, <1>5, <1>6 DEF IInv, tables, demo
-----------------------------------------------------------------------------
(* The theorems.                                                           *)
LEMMA InitHolds == Init => IInv
  <1> SUFFICES ASSUME Init PROVE IInv
    OBVIOUS
  <1> USE DEF Init
  <1>1. Len(history) = 0 /\ history \in Seq(Checkpoint)
    OBVIOUS
  <1>2. \A h \in Handler : handlers[h] = Free
    OBVIOUS
  <1>3. handlers \in [Handler -> HandlerState(0)]
    BY FreeFits
  <1>4. TypeOK
    BY <1>1, <1>3, IdleIsState, Constants DEF TypeOK, ClientState, HandlerState, HandlerPc
  <1>5. Written(history)
    BY <1>1 DEF Written
  <1>6. \A h \in Handler : Fits(handlers[h], history, effects, runtime)
    BY <1>2, FreeFits
  <1>7. Apart(handlers, history)
    BY <1>2, FreeFits DEF Apart
  <1>8. Paid(effects, history) /\ RowsPaid(receipts \cup readbacks, effects)
    BY DEF Paid, RowsPaid
  <1>9. Restarts(history, runtime) /\ ClientKnows(client, history)
    BY DEF Restarts, ClientKnows, Idle
  <1> QED BY <1>4, <1>5, <1>6, <1>7, <1>8, <1>9 DEF IInv

LEMMA NextKeeps == IInv /\ [Next]_vars => IInv'
  <1> SUFFICES ASSUME IInv, [Next]_vars PROVE IInv'
    OBVIOUS
  <1>1. CASE Drive
    BY <1>1, DriveKeeps
  <1>2. CASE \E h \in Handler : Step(h)
    BY <1>2, StepsKeep
  <1>3. CASE GiveUp
    BY <1>3, GiveUpKeeps
  <1>4. CASE Stop
    BY <1>4, StopKeeps
  <1>5. CASE UNCHANGED vars
    <2>1. UNCHANGED <<history, tables, effects, handlers, client, restarted, runtime, faults>>
      BY <1>5 DEF vars, demo
    <2> QED BY <2>1, ClientKeeps DEF IInv, TypeOK, ClientState
  <1> QED BY <1>1, <1>2, <1>3, <1>4, <1>5 DEF Next

(* What a handler, a client and the tables know of the history holds in    *)
(* every state of an assembly.                                             *)
THEOREM AssemblyInvariant == Spec => []IInv
  BY InitHolds, NextKeeps, PTL DEF Spec

(* Every variable keeps its type, so that no counter of a checkpoint       *)
(* passes the number of its slices.                                        *)
THEOREM AssemblyTypes == Spec => []TypeOK
  <1>1. IInv => TypeOK
    BY DEF IInv
  <1> QED BY <1>1, AssemblyInvariant, PTL

(* The effect of a slice is asked for at most once, and exactly once when  *)
(* the slice counts as done (_mark_next_slice_started, the fence of        *)
(* advance).                                                               *)
THEOREM EffectsOnce == Spec => []SliceOnce
  <1>1. IInv => SliceOnce
    <2> SUFFICES ASSUME IInv, NEW s \in Slice
                 PROVE  /\ effects[s] <= 1
                        /\ history # <<>> /\ s < Latest.completed => effects[s] = 1
      BY DEF SliceOnce
    <2>1. effects[s] \in {0, 1}
      BY InvTypes
    <2> QED BY <2>1 DEF IInv, Paid, Latest, Last
  <1> QED BY <1>1, AssemblyInvariant, PTL

(* Whatever advance writes, every later reader accepts (_validate_history).*)
THEOREM HistoryStaysReadable == Spec => []HistoryMonotone
  <1>1. IInv => HistoryMonotone
    BY WrittenIsReadable DEF IInv, HistoryMonotone
  <1> QED BY <1>1, AssemblyInvariant, PTL

(* The operation named after k slices takes the assembly from k to k + 1   *)
(* (advance, _drive).                                                      *)
THEOREM AdvancesFormOneLine == Spec => []OneLine
  <1>1. IInv => OneLine
    <2> SUFFICES ASSUME IInv, history # <<>>
                 PROVE  /\ \A i \in DOMAIN Latest.done :
                             Latest.done[i] = [op |-> i - 1, start |-> i - 1, end |-> i]
                        /\ Latest.active # NoAdvance => Latest.active.start = Len(Latest.done)
      BY DEF OneLine
    <2>1. Sound(Latest)
      BY InvTypes, WrittenTypes DEF Latest, Last
    <2> QED BY <2>1 DEF Sound, OnLine
  <1> QED BY <1>1, AssemblyInvariant, PTL

(* The resume is dispatched only to a Runtime that was restarted           *)
(* (_apply_controlled_restart).                                            *)
THEOREM RestartedBeforeDispatch == Spec => []RestartBeforeDispatch
  <1>1. IInv => RestartBeforeDispatch
    <2> SUFFICES ASSUME IInv, effects[Dispatch] > 0
                 PROVE  runtime
      BY DEF RestartBeforeDispatch
    <2>1. Dispatch \in Slice /\ effects[Dispatch] = 1
      BY InvTypes, Constants
    <2>2. history # <<>> /\ Fenced(Dispatch, history)
      BY <2>1 DEF IInv, Paid
    <2>3. Last(history) \in Checkpoint /\ Sound(Last(history)) /\ Restarts(history, runtime)
      BY <2>2, InvTypes, WrittenTypes DEF IInv
    <2>4. CASE Dispatch < Last(history).completed
      BY <2>2, <2>3, <2>4, CheckpointFields, Constants DEF Restarts
    <2>5. CASE Dispatch = Last(history).started
      <3>1. Last(history).active.op = Dispatch
        BY <2>1, <2>3, <2>5, CheckpointFields, Constants DEF Sound, OnLine
      <3> QED BY <2>2, <2>3, <3>1 DEF Restarts
    <2> QED BY <2>2, <2>4, <2>5 DEF Fenced
  <1> QED BY <1>1, AssemblyInvariant, PTL
=============================================================================
