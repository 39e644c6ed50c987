------------------------- MODULE CapabilityAssembly -------------------------
(***************************************************************************)
(* One capability assembly: its checkpoint history in the Gateway's        *)
(* database, the handlers of POST .../advances that move it forward one    *)
(* slice at a time, and the operator's demo client that asks for them.     *)
(*                                                                         *)
(* The first InputSlices slices are paid stages of the three inputs; the   *)
(* last three authorize, dispatch and read back a resume.  A handler holds *)
(* no lock: it reads the history, writes with a compare-and-swap on the    *)
(* revision, and awaits the effect in between.  A client that times out    *)
(* leaves its handler running; a stop of the Gateway ends all of them.     *)
(*                                                                         *)
(* An authority's content is abstracted to whether the controller accepts  *)
(* it.  The Gateway's reconciliation port answers with what was recorded   *)
(* and never authorizes a retry, so that branch of the controller has no   *)
(* action here.                                                            *)
(***************************************************************************)
EXTENDS Integers, Sequences

CONSTANTS Handler,      (* concurrent requests to advance                  *)
          NoHandler,    (* the client waits for none of them               *)
          InputSlices,  (* stages of all inputs: 21 in the code            *)
          MaxFaults     (* bound: stops of the Gateway, requests given up  *)

ASSUME AssemblyAssumption ==
  /\ NoHandler \notin Handler
  /\ InputSlices \in Nat \ {0}
  /\ MaxFaults \in Nat

VARIABLES
  history,    (* capability_assembly_checkpoints, by revision              *)
  receipts,   (* capability_assembly_effect_receipts                       *)
  readbacks,  (* capability_assembly_terminal_readbacks                    *)
  effects,    (* how often the effect of each slice was asked for          *)
  handlers,   (* the handlers of advance                                   *)
  client,     (* the demo client                                           *)
  restarted,  (* controlled_restart_completed in the client's state file   *)
  runtime,    (* the Runtime was restarted                                 *)
  faults      (* faults so far                                             *)

tables == <<receipts, readbacks>>
demo   == <<restarted, runtime>>
vars   == <<history, tables, effects, handlers, client, demo, faults>>

Total     == InputSlices + 3
Authorize == InputSlices
Dispatch  == InputSlices + 1
Readback  == InputSlices + 2
Slice     == 0..(Total - 1)
NoSlice   == -1
IsInput(s) == s < InputSlices

(* The client names an operation after the slices completed when it asks.  *)
Operation == Slice

NoAdvance == [op |-> NoSlice, start |-> 0, target |-> 0]

Advance == [op : Operation, start : 0..Total, target : 0..Total]

Checkpoint == [status    : {"admitted", "advancing", "ready_to_use"},
               completed : 0..Total,
               stages    : 0..InputSlices,
               resumed   : 0..3,
               active    : Advance \cup {NoAdvance},
               started   : Slice \cup {NoSlice},
               last      : Slice \cup {NoSlice},
               done      : Seq([op : Operation, start : 0..Total, end : 0..Total]),
               outcomes  : Seq([slice : Slice, ref : Nat \ {0}])]

Admitted == [status |-> "admitted", completed |-> 0, stages |-> 0, resumed |-> 0,
             active |-> NoAdvance, started |-> NoSlice, last |-> NoSlice,
             done |-> <<>>, outcomes |-> <<>>]

Latest == history[Len(history)]

(***************************************************************************)
(* What a reader demands of a history.                                     *)
(***************************************************************************)
TargetFrom(completed) == IF completed < Total THEN completed + 1 ELSE Total

Shape(cp) ==
  /\ cp.completed = cp.stages + cp.resumed
  /\ cp.completed = Total <=> cp.status = "ready_to_use"
  /\ cp.active # NoAdvance => cp.completed \in cp.active.start..cp.active.target
  /\ cp.started # NoSlice => cp.active # NoAdvance /\ cp.started = cp.completed
  /\ cp.last = cp.completed - 1

SameLogs(a, b) == a.done = b.done /\ a.outcomes = b.outcomes

SameAuthorities(a, b) ==
  a.stages = b.stages /\ a.resumed = b.resumed /\ a.last = b.last

Claims(a, b) ==
  /\ a.active = NoAdvance /\ b.active # NoAdvance
  /\ SameLogs(a, b)
  /\ a.started = NoSlice /\ b.started = NoSlice
  /\ b.active.start = a.completed /\ b.active.target = TargetFrom(a.completed)

Begins(a, b) ==
  /\ a.active # NoAdvance /\ b.active = a.active
  /\ SameLogs(a, b)
  /\ a.started = NoSlice /\ b.started = a.completed

Closes(a, b) ==
  /\ a.active # NoAdvance /\ b.active = NoAdvance
  /\ a.started = NoSlice /\ b.started = NoSlice
  /\ a.outcomes = b.outcomes
  /\ b.done = Append(a.done, [op |-> a.active.op, start |-> a.active.start,
                              end |-> a.completed])

Completes(a, b, ref) ==
  /\ a.active # NoAdvance /\ b.active = a.active
  /\ a.done = b.done
  /\ b.completed <= a.active.target
  /\ a.started = a.completed /\ b.started = NoSlice
  /\ b.last = a.completed
  /\ b.outcomes \in {a.outcomes, Append(a.outcomes, [slice |-> a.started, ref |-> ref])}
  /\ IF IsInput(a.completed)
     THEN b.stages = a.stages + 1 /\ b.resumed = a.resumed
     ELSE b.resumed = a.resumed + 1 /\ b.stages = a.stages

Follows(a, b, ref) ==
  \/ /\ b.completed = a.completed /\ SameAuthorities(a, b)
     /\ Claims(a, b) \/ Begins(a, b) \/ Closes(a, b)
  \/ b.completed = a.completed + 1 /\ Completes(a, b, ref)

Readable ==
  /\ history # <<>>
  /\ history[1].completed = 0 /\ history[1].status = "admitted"
  /\ \A r \in DOMAIN history :
       /\ Shape(history[r])
       /\ r > 1 => Follows(history[r - 1], history[r], r - 1)

(***************************************************************************)
(* Handlers: the answers they give and the checkpoints they write.         *)
(***************************************************************************)
Free == [pc |-> "free", op |-> NoSlice, at |-> 0, valid |-> FALSE]

At(h) == history[handlers[h].at]

Go(h, pc, revision) ==
  /\ handlers' = [handlers EXCEPT ![h].pc = pc, ![h].at = revision]
  /\ UNCHANGED client

Answer(h, pc) ==
  /\ handlers' = [handlers EXCEPT ![h] = Free]
  /\ client' = IF client.by = h THEN [client EXCEPT !.pc = pc, !.by = NoHandler]
               ELSE client

Refuse(h) == Answer(h, "idle")
Reply(h)  == Answer(h, "answered")

(* Another operation's advance is not active, and whether this one has its *)
(* receipt.                                                                *)
Bound(cp, op) == cp.active # NoAdvance => cp.active.op = op

(* Faulty: only the last receipt is compared.                              *)
SettledLast(cp, op) == cp.done # <<>> /\ cp.done[Len(cp.done)].op = op

Settled(cp, op) == \E i \in DOMAIN cp.done : cp.done[i].op = op

Phase(cp) == IF cp.started # NoSlice THEN "reconcile"
             ELSE IF cp.completed < cp.active.target THEN "start" ELSE "close"

(* Faulty: the revision is not compared.                                   *)
WriteUnfenced(h, checkpoint, pc) ==
  /\ history' = Append(history, checkpoint)
  /\ Go(h, pc, handlers[h].at + 1)

(* A checkpoint is written only above the revision its handler read; whoever *)
(* is late gives up.                                                       *)
Write(h, checkpoint, pc) ==
  IF Len(history) = handlers[h].at
  THEN /\ history' = Append(history, checkpoint)
       /\ Go(h, pc, handlers[h].at + 1)
  ELSE Refuse(h) /\ UNCHANGED history

Claimed(cp, op) ==
  [cp EXCEPT !.status = IF cp.completed = Total THEN "ready_to_use" ELSE "advancing",
             !.active = [op |-> op, start |-> cp.completed,
                         target |-> TargetFrom(cp.completed)]]

Started(cp) == [cp EXCEPT !.started = cp.completed]

(* Faulty: the finished slice stays started.                               *)
CompletedStarted(cp, outcomes) ==
  [cp EXCEPT !.completed = cp.completed + 1,
             !.stages = IF IsInput(cp.started) THEN cp.stages + 1 ELSE cp.stages,
             !.resumed = IF IsInput(cp.started) THEN cp.resumed ELSE cp.resumed + 1,
             !.last = cp.started,
             !.outcomes = outcomes,
             !.status = IF cp.started = Readback THEN "ready_to_use" ELSE "advancing"]

Completed(cp, outcomes) ==
  [cp EXCEPT !.completed = cp.completed + 1,
             !.stages = IF IsInput(cp.started) THEN cp.stages + 1 ELSE cp.stages,
             !.resumed = IF IsInput(cp.started) THEN cp.resumed ELSE cp.resumed + 1,
             !.started = NoSlice,
             !.last = cp.started,
             !.outcomes = outcomes,
             !.status = IF cp.started = Readback THEN "ready_to_use" ELSE "advancing"]

Closed(cp) ==
  [cp EXCEPT !.status = IF cp.completed = Total THEN "ready_to_use" ELSE "advancing",
             !.active = NoAdvance,
             !.done = Append(cp.done, [op |-> cp.active.op, start |-> cp.active.start,
                                       end |-> cp.completed])]

(* The row that a table of read-backs keeps for the slice a handler runs.  *)
Row(h, valid) == [op |-> At(h).active.op, slice |-> At(h).started,
                  ref |-> handlers[h].at, valid |-> valid]

(***************************************************************************)
(* The steps of advance: each reads or writes the database once.           *)
(***************************************************************************)
Lookup(h) ==
  /\ handlers[h].pc = "lookup"
  /\ IF ~Readable \/ ~Bound(Latest, handlers[h].op) THEN Refuse(h)
     ELSE IF Settled(Latest, handlers[h].op) THEN Reply(h)
     ELSE Go(h, "claim", 0)
  /\ UNCHANGED <<history, tables, effects, demo, faults>>

(* The claim reads again: the advance may have been claimed, or finished,  *)
(* since.                                                                  *)
Claim(h) ==
  /\ handlers[h].pc = "claim"
  /\ IF ~Readable \/ ~Bound(Latest, handlers[h].op) THEN Refuse(h)
     ELSE IF Latest.active # NoAdvance THEN Go(h, Phase(Latest), Len(history))
     ELSE IF Settled(Latest, handlers[h].op) THEN Refuse(h)
     ELSE Go(h, "claiming", Len(history))
  /\ UNCHANGED <<history, tables, effects, demo, faults>>

WriteClaim(h) ==
  /\ handlers[h].pc = "claiming"
  /\ Write(h, Claimed(At(h), handlers[h].op), "start")
  /\ UNCHANGED <<tables, effects, demo, faults>>

Start(h) ==
  /\ handlers[h].pc = "start"
  /\ Write(h, Started(At(h)), IF IsInput(At(h).completed) THEN "scope" ELSE "effect")
  /\ UNCHANGED <<tables, effects, demo, faults>>

(* The request of an input's stage names the checkpoint that started it.   *)
Scope(h) ==
  /\ handlers[h].pc = "scope"
  /\ IF Readable /\ Len(history) = handlers[h].at
     THEN Go(h, "effect", handlers[h].at)
     ELSE Refuse(h)
  /\ UNCHANGED <<history, tables, effects, demo, faults>>

(* The effect is awaited.  It fails, or returns an authority which the     *)
(* controller accepts or refuses; that of an input's stage is recorded     *)
(* first, whatever the controller will think of it.                        *)
Effect(h) ==
  LET s == At(h).started
  IN  /\ handlers[h].pc = "effect"
      /\ effects' = [effects EXCEPT ![s] = effects[s] + 1]
      /\ \/ /\ IsInput(s)
            /\ \E valid \in BOOLEAN :
                 handlers' = [handlers EXCEPT ![h].pc = "receipt", ![h].valid = valid]
            /\ UNCHANGED client
         \/ ~IsInput(s) /\ Go(h, "record", handlers[h].at)
         \/ Refuse(h)
      /\ UNCHANGED <<history, tables, demo, faults>>

Receipt(h) ==
  /\ handlers[h].pc = "receipt"
  /\ receipts' = receipts \cup {Row(h, handlers[h].valid)}
  /\ IF handlers[h].valid THEN Go(h, "record", handlers[h].at) ELSE Refuse(h)
  /\ UNCHANGED <<history, readbacks, effects, demo, faults>>

Record(h) ==
  /\ handlers[h].pc = "record"
  /\ IF Readable /\ Len(history) = handlers[h].at
     THEN readbacks' = readbacks \cup {Row(h, TRUE)} /\ Go(h, "append", handlers[h].at)
     ELSE UNCHANGED readbacks /\ Refuse(h)
  /\ UNCHANGED <<history, receipts, effects, demo, faults>>

AppendSlice(h) ==
  /\ handlers[h].pc = "append"
  /\ Write(h, Completed(At(h), At(h).outcomes), "close")
  /\ UNCHANGED <<tables, effects, demo, faults>>

(* Faulty: the receipts of the adapters are not consulted.                 *)
ReadbacksOnly == readbacks

Recorded == receipts \cup readbacks

(* The slice was started by a handler that is gone or still at work: only  *)
(* what was recorded under the newest checkpoint completes it.             *)
Reconcile(h) ==
  /\ handlers[h].pc = "reconcile"
  /\ IF /\ Readable
        /\ [Row(h, TRUE) EXCEPT !.ref = Len(history)] \in Recorded
     THEN Go(h, "reconciled", handlers[h].at)
     ELSE Refuse(h)
  /\ UNCHANGED <<history, tables, effects, demo, faults>>

AppendReconciled(h) ==
  LET outcome == [slice |-> At(h).started, ref |-> handlers[h].at]
  IN  /\ handlers[h].pc = "reconciled"
      /\ Write(h, Completed(At(h), Append(At(h).outcomes, outcome)), "close")
      /\ UNCHANGED <<tables, effects, demo, faults>>

Close(h) ==
  /\ handlers[h].pc = "close"
  /\ IF Len(history) = handlers[h].at
     THEN history' = Append(history, Closed(At(h))) /\ Reply(h)
     ELSE UNCHANGED history /\ Refuse(h)
  /\ UNCHANGED <<tables, effects, demo, faults>>

Step(h) ==
  \/ Lookup(h) \/ Claim(h) \/ WriteClaim(h) \/ Start(h) \/ Scope(h) \/ Effect(h)
  \/ Receipt(h) \/ Record(h) \/ AppendSlice(h)
  \/ Reconcile(h) \/ AppendReconciled(h) \/ Close(h)

(***************************************************************************)
(* The demo client.                                                        *)
(***************************************************************************)
Idle == [pc |-> "idle", seen |-> 0, by |-> NoHandler]

(* run: the submission is admitted once, and the state file starts anew     *)
(* each time.                                                              *)
Run ==
  /\ client.pc = "idle"
  /\ \/ history = <<>> /\ history' = <<Admitted>>
     \/ Readable /\ UNCHANGED history
  /\ client' = [Idle EXCEPT !.pc = "driving", !.seen = history'[Len(history')].completed]
  /\ restarted' = FALSE
  /\ UNCHANGED <<tables, effects, handlers, runtime, faults>>

Resume ==
  /\ client.pc = "idle" /\ Readable
  /\ client' = [Idle EXCEPT !.pc = "driving", !.seen = Latest.completed]
  /\ UNCHANGED <<history, tables, effects, handlers, demo, faults>>

(* Faulty: the boundary is looked for one slice later.                     *)
PastBoundary(seen) == ~restarted /\ seen = Dispatch + 1

(* The slice completed last authorized the resume.                         *)
AtBoundary(seen) == ~restarted /\ seen = Dispatch

BoundaryMissed(seen) == ~restarted /\ seen > Dispatch

RestartRuntime ==
  /\ client.pc = "driving" /\ AtBoundary(client.seen)
  /\ restarted' = TRUE /\ runtime' = TRUE
  /\ UNCHANGED <<history, tables, effects, handlers, client, faults>>

(* Faulty: the operation is named after the slice it will have completed.  *)
PostNext(h) ==
  /\ client.pc = "driving" /\ client.seen < Total
  /\ ~AtBoundary(client.seen) /\ ~BoundaryMissed(client.seen)
  /\ handlers[h].pc = "free"
  /\ handlers' = [handlers EXCEPT ![h] = [Free EXCEPT !.pc = "lookup",
                                                     !.op = client.seen + 1]]
  /\ client' = [client EXCEPT !.pc = "waiting", !.by = h]
  /\ UNCHANGED <<history, tables, effects, demo, faults>>

Post(h) ==
  /\ client.pc = "driving" /\ client.seen < Total
  /\ ~AtBoundary(client.seen) /\ ~BoundaryMissed(client.seen)
  /\ handlers[h].pc = "free"
  /\ handlers' = [handlers EXCEPT ![h] = [Free EXCEPT !.pc = "lookup", !.op = client.seen]]
  /\ client' = [client EXCEPT !.pc = "waiting", !.by = h]
  /\ UNCHANGED <<history, tables, effects, demo, faults>>

(* After a receipt the client reads the checkpoint: one slice of progress  *)
(* at most.                                                                *)
Poll ==
  /\ client.pc = "answered" /\ Readable
  /\ client' = IF Latest.completed \in client.seen..(client.seen + 1)
               THEN [client EXCEPT !.pc = "driving", !.seen = Latest.completed]
               ELSE Idle
  /\ UNCHANGED <<history, tables, effects, handlers, demo, faults>>

(* The evidence is read, or the client stops at a boundary it has missed.  *)
Finish ==
  /\ client.pc = "driving"
  /\ client.seen = Total \/ BoundaryMissed(client.seen)
  /\ client' = Idle
  /\ UNCHANGED <<history, tables, effects, handlers, demo, faults>>

Drive == Run \/ Resume \/ RestartRuntime \/ (\E h \in Handler : Post(h)) \/ Poll \/ Finish

(***************************************************************************)
(* Faults.                                                                 *)
(***************************************************************************)
GiveUp ==
  /\ client.pc # "idle" /\ faults < MaxFaults
  /\ client' = Idle
  /\ faults' = faults + 1
  /\ UNCHANGED <<history, tables, effects, handlers, demo>>

Stop ==
  /\ faults < MaxFaults
  /\ \E h \in Handler : handlers[h].pc # "free"
  /\ handlers' = [h \in Handler |-> Free]
  /\ client' = IF client.pc = "waiting" THEN Idle ELSE client
  /\ faults' = faults + 1
  /\ UNCHANGED <<history, tables, effects, demo>>

Init ==
  /\ history = <<>> /\ receipts = {} /\ readbacks = {}
  /\ effects = [s \in Slice |-> 0]
  /\ handlers = [h \in Handler |-> Free]
  /\ client = Idle
  /\ restarted = FALSE /\ runtime = FALSE
  /\ faults = 0

Next == Drive \/ (\E h \in Handler : Step(h)) \/ GiveUp \/ Stop

(* A running handler and a running client go on; the operator starts a     *)
(* client that has stopped.  Faults are not owed.                          *)
Fairness == WF_vars(Drive) /\ \A h \in Handler : WF_vars(Step(h))

Spec == Init /\ [][Next]_vars /\ Fairness
-----------------------------------------------------------------------------
Rows == [op : Operation, slice : Slice, ref : Nat \ {0}, valid : BOOLEAN]

(* Every variable has its type.                                            *)
TypeOK ==
  /\ history \in Seq(Checkpoint)
  /\ receipts \subseteq Rows /\ readbacks \subseteq Rows
  /\ effects \in [Slice -> Nat]
  /\ handlers \in [Handler ->
       [pc : {"free", "lookup", "claim", "claiming", "start", "scope", "effect",
              "receipt", "record", "append", "reconcile", "reconciled", "close"},
        op : Operation \cup {NoSlice}, at : 0..Len(history), valid : BOOLEAN]]
  /\ client \in [pc : {"idle", "driving", "waiting", "answered"}, seen : 0..Total,
                 by : Handler \cup {NoHandler}]
  /\ restarted \in BOOLEAN /\ runtime \in BOOLEAN
  /\ faults \in 0..MaxFaults

(* The paid effect of a slice is asked for at most once, whatever stops,   *)
(* times out or runs beside it, and exactly once when it counts as done    *)
(* (the started slice as a fence, capability_assembly_controller.py:395).  *)
SliceOnce ==
  \A s \in Slice :
    /\ effects[s] <= 1
    /\ history # <<>> /\ s < Latest.completed => effects[s] = 1

(* What advance writes, by whichever path and in whatever company, is a    *)
(* history that every later call accepts: a refusal would end the assembly *)
(* (_validate_history).                                                    *)
HistoryMonotone == history # <<>> => Readable

(* The advances form one line: the operation named after k slices takes    *)
(* the assembly from k to k + 1, also when several handlers and a          *)
(* restarted client ask for it (advance, _drive).                          *)
OneLine ==
  history # <<>> =>
    /\ \A i \in DOMAIN Latest.done : Latest.done[i] = [op |-> i - 1, start |-> i - 1, end |-> i]
    /\ Latest.active # NoAdvance => Latest.active.start = Len(Latest.done)

(* The resume is dispatched to a Runtime that was restarted after it was   *)
(* authorized, however often the client was started anew                   *)
(* (_apply_controlled_restart).                                            *)
RestartBeforeDispatch == effects[Dispatch] > 0 => runtime

(* A slice whose effect was accepted and recorded is completed, whoever    *)
(* stopped after that: its receipt replaces the handler that is gone       *)
(* (_reconcile_started_slice).  The exception: whoever calls run instead   *)
(* of resume beyond the restart boundary loses the record of the restart.  *)
ReceiptCompletes ==
  \A s \in Slice :
    (\E row \in receipts \cup readbacks : row.slice = s /\ row.valid)
      ~> (history # <<>> /\ (Latest.completed > s \/ BoundaryMissed(Latest.completed)))

(* An advance that has done its slice is closed, so that the operator can  *)
(* resume the assembly (advance, _drive).                                  *)
AdvanceCloses ==
  (/\ history # <<>> /\ Latest.active # NoAdvance
   /\ Latest.completed = Latest.active.target /\ Latest.completed < Total)
    ~> (history # <<>> /\ Latest.active = NoAdvance)
=============================================================================
