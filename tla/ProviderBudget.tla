--------------------------- MODULE ProviderBudget ---------------------------
(***************************************************************************)
(* The provider budget proxy of one command context: it books the worst    *)
(* case of every model call in SQLite before the call leaves, settles the  *)
(* call when its usage is known, and reports what was spent.               *)
(*                                                                         *)
(* The proxy is one asyncio process: a handler runs without interruption   *)
(* between two awaits, so an action is what runs between them.  Handlers   *)
(* of create (plain, background, streamed), read, cancel and finalize      *)
(* interleave; the process may stop at any await and start again.          *)
(*                                                                         *)
(* A command is either a Codex resume, whose runtime asks for one final    *)
(* settlement of all calls, or a benchmark, whose calls are settled at the *)
(* Gateway one by one.  One unit of money is one output token; a usage is  *)
(* its cost, 0 when the proxy cannot use what the provider reports.        *)
(***************************************************************************)
EXTENDS Integers, FiniteSets

CONSTANTS Call,       (* the calls clients may make: one create each        *)
          Request,    (* distinct request payloads                          *)
          Poller,     (* concurrent read and cancel requests                *)
          Mode,       (* the kinds of command: "resume", "benchmark"        *)
          Kind,       (* the kinds of create: "plain", "background", "stream" *)
          Cost,       (* the costs the provider may report                  *)
          Ceiling,    (* the run's ceiling                                  *)
          MaxCalls,   (* maximum_provider_calls of the policy               *)
          Input,      (* the worst-case input cost of a request             *)
          MaxOutput,  (* maximum_output_tokens_per_call                     *)
          Expires,    (* when the context expires                           *)
          MaxFaults   (* bound: crashes, failed posts and abandoned waits   *)

ASSUME ProviderAssumption ==
  /\ IsFiniteSet(Call)
  /\ Mode \subseteq {"resume", "benchmark"}
  /\ Kind \subseteq {"plain", "background", "stream"}
  /\ Cost \subseteq Nat \ {0}
  /\ Ceiling \in Nat /\ MaxCalls \in Nat /\ MaxFaults \in Nat
  /\ Input \in Nat /\ MaxOutput \in Nat /\ Expires \in Nat

VARIABLES
  mode,      (* which kind of command the context belongs to               *)
  now,       (* the clock                                                  *)
  rows,      (* provider_call_reservations                                 *)
  usage,     (* provider_call_usage: call -> cost, NoUsage for no row      *)
  claim,     (* provider_finalization                                      *)
  creates,   (* the create handler of each call                            *)
  polls,     (* the read or cancel handler of each poller                  *)
  settling,  (* what the finalize handler is posting, NoReport if nothing  *)
  provider,  (* the provider's side of each call                           *)
  billed,    (* Gateway: benchmark calls with a settlement                 *)
  reported,  (* Gateway: the command's provider settlement                 *)
  closed,    (* Gateway: the command's budget reservation is closed        *)
  result,    (* Gateway: the command has a result                          *)
  runtime,   (* how far the command's execution is                         *)
  faults     (* faults so far                                              *)

table   == <<rows, usage, claim>>
work    == <<creates, polls, settling>>
gateway == <<billed, reported, closed, result>>
vars    == <<mode, now, table, work, provider, gateway, runtime, faults>>

NoRequest == "no request"
NoCall    == "no call"
NoUsage   == -1
NoReport  == [costs |-> [c \in Call |-> NoUsage], at |-> 0]
NoClaim   == [report |-> NoReport, state |-> "none"]

Row == [state : {"free", "reserved", "settled", "ambiguous"},
        request : Request \cup {NoRequest}, reserved : Nat, consumed : Nat,
        attached : BOOLEAN]
FreeRow == [state |-> "free", request |-> NoRequest, reserved |-> 0,
            consumed |-> 0, attached |-> FALSE]
(* A report adds the calls up and names them; what a call cost never       *)
(* changes, so the calls and their costs stand for the sums.               *)
Report  == [costs : [Call -> Nat \cup {NoUsage}], at : 0..Expires]
Claim   == [report : Report, state : {"none", "pending", "settled"}]
Reply   == [status : {"none", "running", "completed", "failed", "cancelled"},
            cost : Cost \cup {0}]
Silent  == [status |-> "none", cost |-> 0]

(* "lost" is a create whose process stopped, whose stream never started, or *)
(* that ended by an exception it does not catch.                           *)
Live   == {"calling", "opened", "streaming"}
Create == [stage : {"idle", "counting", "posting", "done", "refused", "failed",
                    "lost"} \cup Live,
           request : Request \cup {NoRequest}, kind : Kind \cup {"none"}]
Unsent == [stage |-> "idle", request |-> NoRequest, kind |-> "none"]
Poll   == [stage : {"idle", "asked", "replied", "posting"},
           op : {"none", "read", "cancel"}, call : Call \cup {NoCall}, reply : Reply]
NoPoll == [stage |-> "idle", op |-> "none", call |-> NoCall, reply |-> Silent]

TypeOK ==
  /\ mode \in Mode /\ now \in 0..Expires
  /\ rows \in [Call -> Row] /\ usage \in [Call -> Nat \cup {NoUsage}]
  /\ claim \in Claim
  /\ creates \in [Call -> Create] /\ polls \in [Poller -> Poll]
  /\ settling \in Report /\ provider \in [Call -> Reply]
  /\ billed \subseteq Call /\ reported \in Report
  /\ closed \in BOOLEAN /\ result \in BOOLEAN
  /\ runtime \in {"idle", "running", "asking", "waiting", "settling",
                  "recording", "done"}
  /\ faults \in 0..MaxFaults

Init ==
  /\ mode \in Mode /\ now = 0
  /\ rows = [c \in Call |-> FreeRow] /\ usage = [c \in Call |-> NoUsage]
  /\ claim = NoClaim
  /\ creates = [c \in Call |-> Unsent] /\ polls = [p \in Poller |-> NoPoll]
  /\ settling = NoReport /\ provider = [c \in Call |-> Silent]
  /\ billed = {} /\ reported = NoReport /\ closed = FALSE /\ result = FALSE
  /\ runtime = "idle" /\ faults = 0

-----------------------------------------------------------------------------
(* The reservation table.  Every operation is one SQLite transaction.      *)

Least(S) == CHOOSE x \in S : \A y \in S : x <= y
(* The sum of a function to Nat: the number of units its arguments hold.   *)
SumOf(f) == Cardinality(UNION {{x} \X (1..f[x]) : x \in DOMAIN f})

(* Faulty: a reservation in flight holds nothing of the budget. *)
BookedWhenKnown(c) == rows[c].consumed
Booked(c) == IF rows[c].state = "reserved" THEN rows[c].reserved ELSE rows[c].consumed
Total     == SumOf([c \in Call |-> Booked(c)])
Placed    == {c \in Call : rows[c].state # "free"}

(* The Gateway's preflight: a resume whose reservation is closed has no    *)
(* authority any more, a benchmark context is only checked for its expiry. *)
Authorized == now < Expires /\ (mode = "benchmark" \/ ~closed)

Output == Least({Ceiling - Total - Input, MaxOutput})

(* Faulty: does not look for the payload among the calls it has. *)
ReserveAgain(c) ==
  /\ rows[c].state = "free"
  /\ Cardinality(Placed) < MaxCalls
  /\ Total + Input + Output <= Ceiling
  /\ rows' = [rows EXCEPT ![c] =
       [FreeRow EXCEPT !.state = "reserved", !.request = creates[c].request,
                       !.reserved = Input + Output]]

Reserve(c) ==
  /\ rows[c].state = "free"
  /\ Cardinality(Placed) < MaxCalls
  /\ Total + Input + Output <= Ceiling
  /\ \A d \in Placed : rows[d].request # creates[c].request
  /\ rows' = [rows EXCEPT ![c] =
       [FreeRow EXCEPT !.state = "reserved", !.request = creates[c].request,
                       !.reserved = Input + Output]]

Active(c) == rows[c].state = "reserved" /\ rows[c].attached

(* Faulty: settles a row whatever its state. *)
ForfeitAgain(c) ==
  /\ rows' = [rows EXCEPT ![c].state = "ambiguous", ![c].consumed = rows[c].reserved]
  /\ UNCHANGED usage

(* settle with ambiguous=True: the whole reservation is consumed.  A row   *)
(* that is not reserved any more refuses, and the handler raises.          *)
Forfeit(c) ==
  /\ rows' = IF rows[c].state # "reserved" THEN rows
             ELSE [rows EXCEPT ![c].state = "ambiguous", ![c].consumed = rows[c].reserved]
  /\ UNCHANGED usage

(* Faulty: books what is refunded instead of what is spent. *)
RecordUsageRefund(c, cost) ==
  /\ rows[c].state = "reserved" /\ cost <= rows[c].reserved
  /\ rows' = [rows EXCEPT ![c].state = "settled", ![c].consumed = cost - rows[c].reserved]
  /\ usage' = [usage EXCEPT ![c] = cost]

RecordUsage(c, cost) ==
  /\ rows[c].state = "reserved" /\ cost <= rows[c].reserved
  /\ rows' = [rows EXCEPT ![c].state = "settled", ![c].consumed = cost]
  /\ usage' = [usage EXCEPT ![c] = cost]

(* _settle_terminal up to its only await: a completed answer with a usage  *)
(* within the reservation, before the context expires.                     *)
Usable(c, reply) ==
  /\ reply.status = "completed" /\ reply.cost # 0
  /\ reply.cost <= rows[c].reserved /\ now < Expires

-----------------------------------------------------------------------------
(* create and create_stream.                                               *)

Stage(c, to)  == creates' = [creates EXCEPT ![c].stage = to]

(* The first authority check and the token count: two awaits before the    *)
(* reservation.  A client sends requests while the command's process runs. *)
Send(c, q, k) ==
  /\ runtime = "running" /\ creates[c] = Unsent /\ Authorized
  /\ creates' = [creates EXCEPT ![c] = [stage |-> "counting", request |-> q, kind |-> k]]
  /\ UNCHANGED <<mode, now, table, polls, settling, provider, gateway, runtime, faults>>

(* The second check answers; the projection, the output limit and the      *)
(* reservation follow without an await.                                    *)
Admit(c) ==
  /\ creates[c].stage = "counting" /\ Authorized
  /\ Output \in 1..MaxOutput /\ Reserve(c)
  /\ creates' = [creates EXCEPT ![c].stage = "calling", ![c].request = NoRequest]
  /\ UNCHANGED <<mode, now, usage, claim, polls, settling, provider,
                 gateway, runtime, faults>>

(* Anything before the reservation fails: no authority, no tokens counted, *)
(* no budget for one output token, too many calls, a payload used before.  *)
Refuse(c) ==
  /\ creates[c].stage = "counting"
  /\ creates' = [creates EXCEPT ![c] = [Unsent EXCEPT !.stage = "refused"]]
  /\ UNCHANGED <<mode, now, table, polls, settling, provider, gateway, runtime, faults>>

(* A background answer is queued or in progress: the response id is        *)
(* attached to the row, which stays reserved until somebody reads it.      *)
AttachResponse(c) ==
  /\ creates[c].stage = "calling" /\ creates[c].kind = "background"
  /\ provider[c].status # "none"
  /\ rows[c].state = "reserved" /\ ~rows[c].attached
  /\ rows' = [rows EXCEPT ![c].attached = TRUE]
  /\ Stage(c, "done")
  /\ UNCHANGED <<mode, now, usage, claim, polls, settling, provider,
                 gateway, runtime, faults>>

(* The terminal answer, or the terminal event of a stream.  A benchmark's  *)
(* call goes on to the Gateway before the client sees it.                  *)
AfterUsage == IF mode = "benchmark" THEN "posting" ELSE "done"

Terminal(c) ==
  /\ \/ creates[c].stage = "calling" /\ creates[c].kind # "stream"
     \/ creates[c].stage = "streaming"
  /\ provider[c].status = "completed"
  /\ \/ Usable(c, provider[c]) /\ RecordUsage(c, provider[c].cost) /\ Stage(c, AfterUsage)
     \/ ~Usable(c, provider[c]) /\ Forfeit(c) /\ Stage(c, "failed")
  /\ UNCHANGED <<mode, now, claim, polls, settling, provider, gateway,
                 runtime, faults>>

(* Faulty: an exception of the transport leaves the row as it is. *)
CallFailsQuietly(c) ==
  /\ creates[c].stage \in {"calling", "streaming"}
  /\ Stage(c, "failed")
  /\ UNCHANGED <<mode, now, table, polls, settling, provider, gateway, runtime, faults>>

(* The transport raises, times out, or the answer is not a completed one;  *)
(* a stream ends without its terminal event or its client leaves.          *)
CallFails(c) ==
  /\ creates[c].stage \in {"calling", "streaming"}
  /\ Forfeit(c) /\ Stage(c, "failed")
  /\ UNCHANGED <<mode, now, claim, polls, settling, provider, gateway,
                 runtime, faults>>

OpenStream(c) ==
  /\ creates[c].stage = "calling" /\ creates[c].kind = "stream"
  /\ provider[c].status # "none"
  /\ Stage(c, "opened")
  /\ UNCHANGED <<mode, now, table, polls, settling, provider, gateway, runtime, faults>>

(* The server starts to iterate the body.                                  *)
StartStream(c) ==
  /\ creates[c].stage = "opened"
  /\ Stage(c, "streaming")
  /\ UNCHANGED <<mode, now, table, polls, settling, provider, gateway, runtime, faults>>

(* What nobody catches: create catches the transport's exceptions and the  *)
(* unusable answers only, so a cancelled handler, an event stream that     *)
(* cannot be read or a receipt that cannot be written leaves the row as it *)
(* is.  So does a body the server never starts to iterate; once it does,   *)
(* the finally clause settles the row.                                     *)
LoseHandler(c) ==
  /\ creates[c].stage \in {"calling", "opened"} /\ faults < MaxFaults
  /\ Stage(c, "lost") /\ faults' = faults + 1
  /\ UNCHANGED <<mode, now, table, polls, settling, provider, gateway, runtime>>

-----------------------------------------------------------------------------
(* A benchmark call's own settlement at the Gateway.                       *)

(* delivered: the request reached the Gateway; answered: its answer came   *)
(* back.  A closed reservation takes no new settlement.                    *)
Fits(c) == SumOf([d \in billed \cup {c} |-> usage[d]]) <= Ceiling
Bill(c, delivered, answered) ==
  /\ billed' = IF delivered /\ ~closed /\ Fits(c) THEN billed \cup {c} ELSE billed
  /\ faults < MaxFaults \/ (delivered /\ answered)
  /\ faults' = IF delivered /\ answered THEN faults ELSE faults + 1
Accepted(c, delivered, answered) == delivered /\ answered /\ c \in billed'

(* When the post fails the handler forfeits the row, which is settled by   *)
(* now: the client is answered with the table's refusal.                   *)
PostCreate(c, delivered, answered) ==
  /\ creates[c].stage = "posting"
  /\ Bill(c, delivered, answered)
  /\ \/ /\ Accepted(c, delivered, answered) /\ Stage(c, "done")
        /\ UNCHANGED <<rows, usage>>
     \/ ~Accepted(c, delivered, answered) /\ Forfeit(c) /\ Stage(c, "failed")
  /\ UNCHANGED <<mode, now, claim, polls, settling, provider, reported, closed,
                 result, runtime>>

PostRead(p, delivered, answered) ==
  /\ polls[p].stage = "posting"
  /\ Bill(polls[p].call, delivered, answered)
  /\ IF Accepted(polls[p].call, delivered, answered) THEN UNCHANGED <<rows, usage>>
     ELSE Forfeit(polls[p].call)
  /\ polls' = [polls EXCEPT ![p] = NoPoll]
  /\ UNCHANGED <<mode, now, claim, creates, settling, provider, reported, closed,
                 result, runtime>>

-----------------------------------------------------------------------------
(* read and cancel.                                                        *)

(* A client knows a response id from the answer of a background create or  *)
(* from the first events of a stream.                                      *)
Known(c) == \/ rows[c].attached
            \/ creates[c].kind = "stream" /\ creates[c].stage \in {"streaming", "done"}

Ask(p, op, c) ==
  /\ runtime = "running" /\ polls[p] = NoPoll /\ Known(c) /\ Authorized
  /\ polls' = [polls EXCEPT ![p] = [stage |-> "asked", op |-> op, call |-> c,
                                    reply |-> Silent]]
  /\ UNCHANGED <<mode, now, table, creates, settling, provider, gateway, runtime, faults>>

(* The provider executes the request; its answer travels back.  A cancel   *)
(* stops a running response.                                               *)
Serve(p) ==
  LET c    == polls[p].call
      stop == polls[p].op = "cancel" /\ provider[c].status = "running"
  IN /\ polls[p].stage = "asked"
     /\ provider' = IF stop THEN [provider EXCEPT ![c].status = "cancelled"] ELSE provider
     /\ polls' = [polls EXCEPT ![p].stage = "replied", ![p].reply = provider'[c]]
     /\ UNCHANGED <<mode, now, table, creates, settling, gateway, runtime, faults>>

(* The answer is lost and the handler raises: nothing is booked.           *)
LoseAnswer(p) ==
  /\ polls[p].stage \in {"asked", "replied"}
  /\ polls' = [polls EXCEPT ![p] = NoPoll]
  /\ UNCHANGED <<mode, now, table, creates, settling, provider, gateway, runtime, faults>>

(* Faulty: books whatever the answer of the read reports. *)
FinishReadTrusting(p) ==
  LET c == polls[p].call  reply == polls[p].reply
  IN /\ polls[p].stage = "replied" /\ polls[p].op = "read"
     /\ IF Active(c) THEN RecordUsage(c, reply.cost) ELSE UNCHANGED <<rows, usage>>
     /\ polls' = [polls EXCEPT ![p] = NoPoll]
     /\ UNCHANGED <<mode, now, claim, creates, settling, provider, gateway, runtime, faults>>

(* The row is looked up only now, after the provider's answer.             *)
FinishRead(p) ==
  LET c == polls[p].call  reply == polls[p].reply
  IN /\ polls[p].stage = "replied" /\ polls[p].op = "read"
     /\ \/ ~Active(c) /\ polls' = [polls EXCEPT ![p] = NoPoll] /\ UNCHANGED <<rows, usage>>
        \/ /\ Active(c) /\ Usable(c, reply) /\ RecordUsage(c, reply.cost)
           /\ polls' = IF mode = "benchmark" THEN [polls EXCEPT ![p].stage = "posting"]
                                             ELSE [polls EXCEPT ![p] = NoPoll]
        \/ Active(c) /\ ~Usable(c, reply) /\ Forfeit(c) /\ polls' = [polls EXCEPT ![p] = NoPoll]
     /\ UNCHANGED <<mode, now, claim, creates, settling, provider, gateway,
                    runtime, faults>>

FinishCancel(p) ==
  LET c == polls[p].call
  IN /\ polls[p].stage = "replied" /\ polls[p].op = "cancel"
     /\ IF Active(c) THEN Forfeit(c) ELSE UNCHANGED <<rows, usage>>
     /\ polls' = [polls EXCEPT ![p] = NoPoll]
     /\ UNCHANGED <<mode, now, claim, creates, settling, provider, gateway, runtime, faults>>

-----------------------------------------------------------------------------
(* finalize: one report of all the calls of a resume.                      *)

UsageRows   == {c \in Call : usage[c] # NoUsage}
Aggregable  == /\ \A c \in Call : rows[c].state \notin {"reserved", "ambiguous"}
               /\ UsageRows # {} /\ Cardinality(UsageRows) = Cardinality(Placed)
Aggregate   == [costs |-> usage, at |-> now]
Affordable  == SumOf([c \in UsageRows |-> usage[c]]) <= Ceiling
(* Faulty: a later report replaces the claim. *)
ClaimAnything == TRUE
Claimable   == claim = NoClaim \/ claim.report = Aggregate

(* Under the lock, aggregation and claim run without an await.  The report *)
(* carries the time of this very request.  The authority is checked before *)
(* the lock is taken; the model checks it when the lock is held, so that a *)
(* request never waits for the lock with an authority that has passed.     *)
Finalize ==
  /\ runtime = "asking" /\ mode = "resume" /\ settling = NoReport
  /\ Authorized /\ Aggregable /\ Affordable /\ Claimable
  /\ \/ /\ claim.state = "settled" /\ runtime' = "settling"
        /\ UNCHANGED <<claim, settling>>
     \/ /\ claim.state # "settled" /\ runtime' = "waiting"
        /\ claim' = [report |-> Aggregate, state |-> "pending"]
        /\ settling' = Aggregate
  /\ UNCHANGED <<mode, now, rows, usage, creates, polls, provider, gateway, faults>>

RefuseFinalize ==
  /\ runtime = "asking" /\ mode = "resume" /\ settling = NoReport
  /\ ~(Authorized /\ Aggregable /\ Affordable /\ Claimable)
  /\ runtime' = "idle"
  /\ UNCHANGED <<mode, now, table, work, provider, gateway, faults>>

(* The Gateway keeps the first report and replays only an identical one.   *)
PostReport(delivered, answered) ==
  LET kept == IF delivered /\ reported = NoReport THEN settling ELSE reported
      ok   == delivered /\ answered /\ kept = settling
  IN /\ settling # NoReport
     /\ faults < MaxFaults \/ (delivered /\ answered)
     /\ faults' = IF delivered /\ answered THEN faults ELSE faults + 1
     /\ reported' = kept /\ settling' = NoReport
     /\ claim' = IF ok /\ claim.report = settling THEN [claim EXCEPT !.state = "settled"]
                                                  ELSE claim
     /\ runtime' = IF runtime # "waiting" THEN runtime
                   ELSE IF ok THEN "settling" ELSE "idle"
     /\ UNCHANGED <<mode, now, rows, usage, creates, polls, provider, billed,
                    closed, result>>

-----------------------------------------------------------------------------
(* The command's execution.                                                *)

Execute ==
  /\ runtime = "idle" /\ ~result /\ Authorized /\ ~closed
  /\ runtime' = "running"
  /\ UNCHANGED <<mode, now, table, work, provider, gateway, faults>>

ProcessEnds ==
  /\ runtime = "running" /\ runtime' = "asking"
  /\ UNCHANGED <<mode, now, table, work, provider, gateway, faults>>

(* The Gateway sums the benchmark's settlements and closes the reservation. *)
CloseBenchmark ==
  /\ runtime = "asking" /\ mode = "benchmark"
  /\ IF billed # {} THEN closed' = TRUE /\ runtime' = "recording"
                    ELSE runtime' = "idle" /\ UNCHANGED closed
  /\ UNCHANGED <<mode, now, table, work, provider, billed, reported, result, faults>>

SettleCost ==
  /\ runtime = "settling"
  /\ IF reported # NoReport /\ (closed \/ now < Expires)
     THEN closed' = TRUE /\ runtime' = "recording"
     ELSE runtime' = "idle" /\ UNCHANGED closed
  /\ UNCHANGED <<mode, now, table, work, provider, billed, reported, result, faults>>

RecordResult ==
  /\ runtime = "recording" /\ (mode = "benchmark" \/ reported # NoReport)
  /\ result' = TRUE /\ runtime' = "done"
  /\ UNCHANGED <<mode, now, table, work, provider, billed, reported, closed, faults>>

(* The runtime stops, or gives up on a request; it may execute again.      *)
RuntimeStops ==
  /\ runtime \notin {"idle", "done"} /\ faults < MaxFaults
  /\ runtime' = "idle" /\ faults' = faults + 1
  /\ UNCHANGED <<mode, now, table, work, provider, gateway>>

-----------------------------------------------------------------------------
(* The provider, the clock, and the proxy process.                         *)

Accept(c) ==
  /\ creates[c].stage = "calling" /\ provider[c] = Silent
  /\ provider' = [provider EXCEPT ![c].status = "running"]
  /\ UNCHANGED <<mode, now, table, work, gateway, runtime, faults>>

Answer(c) ==
  /\ provider[c].status = "running"
  /\ \/ \E cost \in Cost \cup {0} :
          provider' = [provider EXCEPT ![c] = [status |-> "completed", cost |-> cost]]
     \/ provider' = [provider EXCEPT ![c].status = "failed"]
  /\ UNCHANGED <<mode, now, table, work, gateway, runtime, faults>>

Tick ==
  /\ now < Expires /\ now' = now + 1
  /\ UNCHANGED <<mode, table, work, provider, gateway, runtime, faults>>

Crash ==
  /\ faults < MaxFaults /\ faults' = faults + 1
  /\ creates' = [c \in Call |->
       IF creates[c].stage \in Live \cup {"counting", "posting"}
       THEN [creates[c] EXCEPT !.stage = "lost"] ELSE creates[c]]
  /\ polls' = [p \in Poller |-> NoPoll] /\ settling' = NoReport
  /\ runtime' = IF runtime = "waiting" THEN "idle" ELSE runtime
  /\ UNCHANGED <<mode, now, table, provider, gateway>>

Creating == \E c \in Call :
  \/ \E q \in Request, k \in Kind : Send(c, q, k)
  \/ Admit(c) \/ Refuse(c) \/ AttachResponse(c) \/ Terminal(c) \/ CallFails(c)
  \/ OpenStream(c) \/ StartStream(c) \/ LoseHandler(c)
  \/ \E delivered, answered \in BOOLEAN : PostCreate(c, delivered, answered)
Polling == \E p \in Poller :
  \/ \E op \in {"read", "cancel"}, c \in Call : Ask(p, op, c)
  \/ Serve(p) \/ LoseAnswer(p) \/ FinishRead(p) \/ FinishCancel(p)
  \/ \E delivered, answered \in BOOLEAN : PostRead(p, delivered, answered)
Settling == \/ Finalize \/ RefuseFinalize \/ CloseBenchmark \/ SettleCost \/ RecordResult
            \/ \E delivered, answered \in BOOLEAN : PostReport(delivered, answered)
Running  == Execute \/ ProcessEnds \/ RuntimeStops
Outside  == Tick \/ Crash \/ \E c \in Call : Accept(c) \/ Answer(c)

Next == Creating \/ Polling \/ Settling \/ Running \/ Outside
Spec == Init /\ [][Next]_vars

-----------------------------------------------------------------------------
(* What all calls hold of the budget never exceeds the ceiling, however    *)
(* creates, reads, cancels and crashes interleave (service.py:247-267,     *)
(* repository.py:77-107).                                                  *)
BudgetHeld == Total <= Ceiling

(* No more calls are placed than the policy allows, and no payload is paid *)
(* for twice, also after a crash (repository.py:90-106).                   *)
PaidOnce ==
  /\ Cardinality(Placed) <= MaxCalls
  /\ \A c, d \in Placed : c # d => rows[c].request # rows[d].request

(* A call stands in the budget with the cost of the response the provider  *)
(* completed, and then it has a usage receipt, or with its whole           *)
(* reservation.                                                            *)
BookedIsTrueOrWhole == \A c \in Call :
  /\ usage[c] # NoUsage <=> rows[c].state = "settled"
  /\ rows[c].state = "settled" =>
       /\ provider[c].status = "completed"
       /\ usage[c] = provider[c].cost /\ rows[c].consumed = usage[c]
  /\ rows[c].state = "ambiguous" => rows[c].consumed = rows[c].reserved

(* A row stays reserved only while a handler of its call runs, while it is *)
(* attached to a background response, or when its handler was lost: every  *)
(* other way out of create settles it.                                     *)
EveryReservationOwned == \A c \in Call :
  rows[c].state = "reserved" => creates[c].stage \in Live \cup {"lost"} \/ rows[c].attached

(* The Gateway's report is the one the proxy claimed first, whatever was   *)
(* lost, repeated or started again; it is about settled calls and their    *)
(* true cost, and neither a cost nor a result is recorded without it.      *)
ReportIsClaimed ==
  /\ reported # NoReport =>
       /\ reported = claim.report
       /\ \A c \in Call : reported.costs[c] # NoUsage =>
            rows[c].state = "settled" /\ reported.costs[c] = usage[c]
  /\ claim.state = "settled" => reported = claim.report
  /\ mode = "resume" /\ (closed \/ result) => reported # NoReport

(* The table implements an account: no amount is booked beyond what is     *)
(* left, and a charged or forfeited call never changes again.              *)
Account == INSTANCE BudgetAccount WITH
  state  <- [c \in Call |-> rows[c].state],
  booked <- [c \in Call |-> Booked(c)]
AccountSpec == Account!Spec

(* test_service.py:391 expects the answer of the first finalize from the   *)
(* second.  So finalize is not refused when the calls it aggregates are    *)
(* those of the claim, for the cost claimed.                               *)
FinalizeRepeats ==
  [][RefuseFinalize => \/ ~Authorized \/ ~Aggregable
                       \/ claim.report.costs # usage]_vars

(* provider-budget-proxy.md:47: a settlement failure consumes the full     *)
(* reservation.                                                            *)
FailureForfeits == \A c \in Call :
  creates[c].stage = "failed" => rows[c].consumed = rows[c].reserved
=============================================================================
