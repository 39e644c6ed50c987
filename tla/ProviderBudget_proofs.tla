------------------------ MODULE ProviderBudget_proofs ------------------------
(***************************************************************************)
(* What holds of the provider budget for any number of calls, payloads and *)
(* pollers, any ceiling and prices, and any number of crashes.             *)
(***************************************************************************)
EXTENDS ProviderBudget, FiniteSetTheorems, TLAPS

LEMMA Constants ==
  /\ IsFiniteSet(Call) /\ Mode \subseteq {"resume", "benchmark"}
  /\ Kind \subseteq {"plain", "background", "stream"}
  /\ Cost \subseteq Nat \ {0} /\ Ceiling \in Nat /\ MaxCalls \in Nat
  /\ MaxFaults \in Nat /\ Input \in Nat /\ MaxOutput \in Nat /\ Expires \in Nat
  BY ProviderAssumption DEF ProviderAssumption

(* ------------------------------- sums ---------------------------------- *)

(* The units one call holds, and those of all calls.                       *)
Held(x, n) == {x} \X (1..n)
Units(f)   == UNION {Held(x, f[x]) : x \in DOMAIN f}

LEMMA HeldCount ==
  ASSUME NEW x, NEW n \in Nat
  PROVE  IsFiniteSet(Held(x, n)) /\ Cardinality(Held(x, n)) = n
  <1>1. IsFiniteSet({x}) /\ Cardinality({x}) = 1
    BY FS_Singleton
  <1>2. IsFiniteSet(1..n) /\ Cardinality(1..n) = n
    BY FS_Interval
  <1>3. /\ IsFiniteSet({x} \X (1..n))
        /\ Cardinality({x} \X (1..n)) = Cardinality({x}) * Cardinality(1..n)
    BY <1>1, <1>2, FS_Product
  <1> QED BY <1>1, <1>2, <1>3 DEF Held

LEMMA UnitsFinite ==
  ASSUME NEW f \in [Call -> Nat]
  PROVE  IsFiniteSet(Units(f))
  <1> DEFINE piles == {Held(x, f[x]) : x \in Call}
             pile  == [x \in Call |-> Held(x, f[x])]
  <1>1. pile \in Surjection(Call, piles)
    BY DEF Surjection
  <1>2. IsFiniteSet(piles)
    BY <1>1, Constants, FS_Surjection
  <1>3. \A T \in piles : IsFiniteSet(T)
    BY HeldCount
  <1>4. IsFiniteSet(UNION piles)
    BY <1>2, <1>3, FS_UNION
  <1> QED BY <1>4 DEF Units

(* A sum of naturals is a natural.                                         *)
LEMMA SumNat ==
  ASSUME NEW f \in [Call -> Nat]
  PROVE  SumOf(f) \in Nat /\ SumOf(f) = Cardinality(Units(f))
  BY UnitsFinite, FS_CardinalityType DEF SumOf, Units, Held

LEMMA UnitsMember ==
  ASSUME NEW f \in [Call -> Nat], NEW x \in Call, NEW n
  PROVE  <<x, n>> \in Units(f) <=> n \in 1..f[x]
  BY DEF Units, Held

(* Changing what one call holds changes the sum by the difference.         *)
LEMMA SumChange ==
  ASSUME NEW f \in [Call -> Nat], NEW c \in Call, NEW n \in Nat
  PROVE  SumOf([f EXCEPT ![c] = n]) = SumOf(f) - f[c] + n
  <1> DEFINE g    == [f EXCEPT ![c] = n]
             rest == Units(f) \ Held(c, f[c])
  <1>1. g \in [Call -> Nat] /\ f[c] \in Nat
    OBVIOUS
  <1>2. Units(f) \cap Held(c, f[c]) = Held(c, f[c])
    BY DEF Units, Held
  <1>3. IsFiniteSet(rest) /\ Cardinality(rest) = Cardinality(Units(f)) - f[c]
    <2>1. IsFiniteSet(Units(f))
      BY UnitsFinite
    <2>2. /\ IsFiniteSet(rest)
          /\ Cardinality(rest)
               = Cardinality(Units(f)) - Cardinality(Units(f) \cap Held(c, f[c]))
      BY <2>1, FS_Difference
    <2>3. Cardinality(Held(c, f[c])) = f[c]
      BY <1>1, HeldCount
    <2> QED BY <1>2, <2>2, <2>3
  <1>4. Units(g) = rest \cup Held(c, n) /\ rest \cap Held(c, n) = {}
    BY DEF Units, Held
  <1>5. Cardinality(Units(g)) = Cardinality(rest) + n - Cardinality({})
    <2>1. IsFiniteSet(Held(c, n)) /\ Cardinality(Held(c, n)) = n
      BY HeldCount
    <2>2. Cardinality(rest \cup Held(c, n))
            = Cardinality(rest) + Cardinality(Held(c, n)) - Cardinality(rest \cap Held(c, n))
      BY <1>3, <2>1, FS_Union
    <2> QED BY <1>4, <2>1, <2>2
  <1>6. Cardinality(rest) \in Nat /\ Cardinality({}) = 0
    BY <1>3, FS_CardinalityType, FS_EmptySet
  <1> HIDE DEF g, rest
  <1>7. SumOf(g) = SumOf(f) - f[c] + n
    BY <1>1, <1>3, <1>5, <1>6, SumNat
  <1> QED BY <1>7 DEF g

LEMMA SumZero == SumOf([c \in Call |-> 0]) = 0
  <1>1. Units([c \in Call |-> 0]) = {}
    BY DEF Units, Held
  <1>2. [c \in Call |-> 0] \in [Call -> Nat]
    OBVIOUS
  <1> QED BY <1>1, <1>2, SumNat, FS_EmptySet

(* ------------------------------- typing -------------------------------- *)

Stages == {"idle", "counting", "posting", "done", "refused", "failed", "lost"} \cup Live

LEMMA StageTyped ==
  ASSUME creates \in [Call -> Create], NEW c \in Call, NEW to \in Stages
  PROVE  [creates EXCEPT ![c].stage = to] \in [Call -> Create]
  <1>1. [creates[c] EXCEPT !.stage = to] \in Create
    BY DEF Create, Stages
  <1> QED BY <1>1

LEMMA UnsentTyped ==
  ASSUME NEW to \in Stages
  PROVE  [Unsent EXCEPT !.stage = to] \in Create /\ Unsent \in Create
  BY DEF Create, Unsent, Stages

LEMMA SilentTyped == Silent \in Reply
  BY DEF Silent, Reply

LEMMA NoPollTyped == NoPoll \in Poll
  BY SilentTyped DEF NoPoll, Poll

LEMMA FreeTyped == FreeRow \in Row
  BY DEF FreeRow, Row

LEMMA NoReportTyped == NoReport \in Report
  BY Constants DEF NoReport, Report, NoUsage

LEMMA ForfeitTyped ==
  ASSUME rows \in [Call -> Row], NEW c \in Call, Forfeit(c)
  PROVE  rows' \in [Call -> Row]
  <1>1. CASE rows' = rows
    BY <1>1
  <1>2. CASE rows' = [rows EXCEPT ![c].state = "ambiguous", ![c].consumed = rows[c].reserved]
    <2>1. [rows[c] EXCEPT !.state = "ambiguous", !.consumed = rows[c].reserved] \in Row
      BY DEF Row
    <2>2. rows' = [rows EXCEPT ![c] =
             [rows[c] EXCEPT !.state = "ambiguous", !.consumed = rows[c].reserved]]
      BY <1>2
    <2> QED BY <2>1, <2>2
  <1> QED BY <1>1, <1>2 DEF Forfeit

LEMMA RecordTyped ==
  ASSUME rows \in [Call -> Row], usage \in [Call -> Nat \cup {NoUsage}],
         NEW c \in Call, NEW cost \in Nat, RecordUsage(c, cost)
  PROVE  rows' \in [Call -> Row] /\ usage' \in [Call -> Nat \cup {NoUsage}]
  <1>1. [rows[c] EXCEPT !.state = "settled", !.consumed = cost] \in Row
    BY DEF Row
  <1>2. rows' = [rows EXCEPT ![c] = [rows[c] EXCEPT !.state = "settled", !.consumed = cost]]
    BY DEF RecordUsage
  <1>3. usage' = [usage EXCEPT ![c] = cost]
    BY DEF RecordUsage
  <1> QED BY <1>1, <1>2, <1>3

LEMMA ReserveTyped ==
  ASSUME rows \in [Call -> Row], creates \in [Call -> Create], NEW c \in Call,
         Output \in 1..MaxOutput, Reserve(c)
  PROVE  rows' \in [Call -> Row]
  <1>1. Input + Output \in Nat
    BY Constants
  <1>2. creates[c].request \in Request \cup {NoRequest}
    BY DEF Create
  <1>3. [FreeRow EXCEPT !.state = "reserved", !.request = creates[c].request,
                        !.reserved = Input + Output] \in Row
    BY <1>1, <1>2 DEF FreeRow, Row
  <1>4. rows' = [rows EXCEPT ![c] =
          [FreeRow EXCEPT !.state = "reserved", !.request = creates[c].request,
                          !.reserved = Input + Output]]
    BY DEF Reserve
  <1> QED BY <1>3, <1>4

(* A pending read or cancel is about a call, and a completed answer it     *)
(* carries is still what the provider says.                                *)
PollTrue(po, pr) ==
  po.stage # "idle" =>
    /\ po.call \in Call
    /\ po.stage = "replied" /\ po.reply.status = "completed" => pr[po.call] = po.reply
PollsTrue == \A p \in Poller : PollTrue(polls[p], provider)

Typed == TypeOK /\ PollsTrue

LEMMA TypedInit == Init => Typed
  <1>1. ASSUME Init PROVE TypeOK
    <2>1. rows \in [Call -> Row]
      BY <1>1, FreeTyped DEF Init
    <2>2. creates \in [Call -> Create]
      BY <1>1, UnsentTyped DEF Init, Stages
    <2>3. polls \in [Poller -> Poll]
      BY <1>1, NoPollTyped DEF Init
    <2>4. provider \in [Call -> Reply]
      BY <1>1, SilentTyped DEF Init
    <2>5. settling \in Report /\ reported \in Report /\ claim \in Claim
      BY <1>1, NoReportTyped DEF Init, NoClaim, Claim
    <2>6. usage \in [Call -> Nat \cup {NoUsage}] /\ now \in 0..Expires /\ faults \in 0..MaxFaults
      BY <1>1, Constants DEF Init
    <2> QED BY <1>1, <2>1, <2>2, <2>3, <2>4, <2>5, <2>6 DEF Init, TypeOK
  <1>2. ASSUME Init PROVE PollsTrue
    BY <1>2 DEF Init, PollsTrue, PollTrue, NoPoll
  <1> QED BY <1>1, <1>2 DEF Typed

(* The create handlers. *)

LEMMA CreatesStep ==
  ASSUME Typed, creates' \in [Call -> Create], rows' \in [Call -> Row],
         usage' \in [Call -> Nat \cup {NoUsage}], faults' \in 0..MaxFaults,
         billed' \subseteq Call,
         UNCHANGED <<mode, now, claim, polls, settling, provider, reported, closed,
                     result, runtime>>
  PROVE  Typed'
  BY DEF Typed, TypeOK, PollsTrue

LEMMA CreateMoves ==
  ASSUME Typed, NEW c \in Call
  PROVE  /\ \A q \in Request, k \in Kind : Send(c, q, k) => Typed'
         /\ Admit(c) => Typed'
         /\ Refuse(c) => Typed'
         /\ AttachResponse(c) => Typed'
  <1> USE DEF gateway, table, work
  <1>0. /\ creates \in [Call -> Create] /\ rows \in [Call -> Row]
        /\ usage \in [Call -> Nat \cup {NoUsage}] /\ faults \in 0..MaxFaults
        /\ billed \subseteq Call
    BY DEF Typed, TypeOK
  <1>1. ASSUME NEW q \in Request, NEW k \in Kind, Send(c, q, k) PROVE Typed'
    <2>1. [stage |-> "counting", request |-> q, kind |-> k] \in Create
      BY Constants DEF Create
    <2>2. creates' \in [Call -> Create]
      BY <1>0, <1>1, <2>1 DEF Send
    <2> QED BY <1>0, <1>1, <2>2, CreatesStep DEF Send
  <1>2. ASSUME Admit(c) PROVE Typed'
    <2>1. rows' \in [Call -> Row]
      BY <1>0, <1>2, ReserveTyped DEF Admit
    <2>2. [creates[c] EXCEPT !.stage = "calling", !.request = NoRequest] \in Create
      BY <1>0 DEF Create, Live
    <2>3. creates' = [creates EXCEPT ![c] =
            [creates[c] EXCEPT !.stage = "calling", !.request = NoRequest]]
      BY <1>2 DEF Admit
    <2>4. creates' \in [Call -> Create]
      BY <1>0, <2>2, <2>3
    <2> QED BY <1>0, <1>2, <2>1, <2>4, CreatesStep DEF Admit
  <1>3. ASSUME Refuse(c) PROVE Typed'
    <2>1. creates' \in [Call -> Create]
      BY <1>0, <1>3, UnsentTyped DEF Refuse, Stages
    <2> QED BY <1>0, <1>3, <2>1, CreatesStep DEF Refuse
  <1>4. ASSUME AttachResponse(c) PROVE Typed'
    <2>1. creates' \in [Call -> Create]
      BY <1>0, <1>4, StageTyped DEF AttachResponse, Stage, Stages
    <2>2. [rows[c] EXCEPT !.attached = TRUE] \in Row
      BY <1>0 DEF Row
    <2>3. rows' = [rows EXCEPT ![c] = [rows[c] EXCEPT !.attached = TRUE]]
      BY <1>4 DEF AttachResponse
    <2>4. rows' \in [Call -> Row]
      BY <1>0, <2>2, <2>3
    <2> QED BY <1>0, <1>4, <2>1, <2>4, CreatesStep DEF AttachResponse
  <1> QED BY <1>1, <1>2, <1>3, <1>4

LEMMA CreateEnds ==
  ASSUME Typed, NEW c \in Call
  PROVE  /\ Terminal(c) => Typed'
         /\ CallFails(c) => Typed'
         /\ OpenStream(c) => Typed'
         /\ StartStream(c) => Typed'
         /\ LoseHandler(c) => Typed'
         /\ \A d, a \in BOOLEAN : PostCreate(c, d, a) => Typed'
  <1> USE DEF gateway, table, work
  <1>0. /\ creates \in [Call -> Create] /\ rows \in [Call -> Row]
        /\ usage \in [Call -> Nat \cup {NoUsage}] /\ faults \in 0..MaxFaults
        /\ billed \subseteq Call /\ mode \in Mode /\ provider \in [Call -> Reply]
    BY DEF Typed, TypeOK
  <1>c. provider[c].cost \in Nat
    <2>1. provider[c] \in Reply
      BY <1>0
    <2>2. provider[c].cost \in Cost \cup {0}
      BY <2>1 DEF Reply
    <2>3. \A x \in Cost \cup {0} : x \in Nat
      BY Constants
    <2> QED BY <2>2, <2>3
  <1>s. ASSUME NEW to \in Stages, Stage(c, to) PROVE creates' \in [Call -> Create]
    BY <1>0, <1>s, StageTyped DEF Stage
  <1>1. ASSUME Terminal(c) PROVE Typed'
    <2>1. CASE Usable(c, provider[c]) /\ RecordUsage(c, provider[c].cost) /\ Stage(c, AfterUsage)
      <3>1. rows' \in [Call -> Row] /\ usage' \in [Call -> Nat \cup {NoUsage}]
        BY <1>0, <1>c, <2>1, RecordTyped
      <3>2. AfterUsage \in Stages
        BY DEF AfterUsage, Stages
      <3>3. creates' \in [Call -> Create]
        BY <1>s, <2>1, <3>2
      <3> QED BY <1>0, <1>1, <3>1, <3>3, CreatesStep DEF Terminal
    <2>2. CASE Forfeit(c) /\ Stage(c, "failed")
      <3>1. rows' \in [Call -> Row] /\ usage' = usage
        BY <1>0, <2>2, ForfeitTyped DEF Forfeit
      <3>2. creates' \in [Call -> Create]
        BY <1>s, <2>2 DEF Stages
      <3> QED BY <1>0, <1>1, <3>1, <3>2, CreatesStep DEF Terminal
    <2> QED BY <1>1, <2>1, <2>2 DEF Terminal
  <1>2. ASSUME CallFails(c) PROVE Typed'
    <2>1. rows' \in [Call -> Row] /\ usage' = usage
      BY <1>0, <1>2, ForfeitTyped DEF CallFails, Forfeit
    <2>2. creates' \in [Call -> Create]
      BY <1>s, <1>2 DEF Stages, CallFails
    <2> QED BY <1>0, <1>2, <2>1, <2>2, CreatesStep DEF CallFails
  <1>3. ASSUME OpenStream(c) PROVE Typed'
    <2>1. creates' \in [Call -> Create]
      BY <1>s, <1>3 DEF Stages, Live, OpenStream
    <2> QED BY <1>0, <1>3, <2>1, CreatesStep DEF OpenStream
  <1>4. ASSUME StartStream(c) PROVE Typed'
    <2>1. creates' \in [Call -> Create]
      BY <1>s, <1>4 DEF Stages, Live, StartStream
    <2> QED BY <1>0, <1>4, <2>1, CreatesStep DEF StartStream
  <1>5. ASSUME LoseHandler(c) PROVE Typed'
    <2>1. creates' \in [Call -> Create]
      BY <1>s, <1>5 DEF Stages, LoseHandler
    <2>2. faults' \in 0..MaxFaults
      BY <1>0, <1>5, Constants DEF LoseHandler
    <2> QED BY <1>0, <1>5, <2>1, <2>2, CreatesStep DEF LoseHandler
  <1>6. ASSUME NEW d \in BOOLEAN, NEW a \in BOOLEAN, PostCreate(c, d, a) PROVE Typed'
    <2>1. billed' \subseteq Call /\ faults' \in 0..MaxFaults
      BY <1>0, <1>6, Constants DEF PostCreate, Bill
    <2>2. CASE Stage(c, "done") /\ UNCHANGED <<rows, usage>>
      <3>1. creates' \in [Call -> Create]
        BY <1>s, <2>2 DEF Stages
      <3> QED BY <1>0, <1>6, <2>1, <2>2, <3>1, CreatesStep DEF PostCreate
    <2>3. CASE Forfeit(c) /\ Stage(c, "failed")
      <3>1. rows' \in [Call -> Row] /\ usage' = usage
        BY <1>0, <2>3, ForfeitTyped DEF Forfeit
      <3>2. creates' \in [Call -> Create]
        BY <1>s, <2>3 DEF Stages
      <3> QED BY <1>0, <1>6, <2>1, <3>1, <3>2, CreatesStep DEF PostCreate
    <2> QED BY <1>6, <2>2, <2>3 DEF PostCreate
  <1> QED BY <1>1, <1>2, <1>3, <1>4, <1>5, <1>6

(* The read and cancel handlers. *)

LEMMA PollsStep ==
  ASSUME Typed, NEW p \in Poller, NEW po \in Poll, PollTrue(po, provider),
         polls' = [polls EXCEPT ![p] = po],
         rows' \in [Call -> Row], usage' \in [Call -> Nat \cup {NoUsage}],
         billed' \subseteq Call, faults' \in 0..MaxFaults,
         UNCHANGED <<mode, now, claim, creates, settling, provider, reported, closed,
                     result, runtime>>
  PROVE  Typed'
  <1>1. polls' \in [Poller -> Poll]
    BY DEF Typed, TypeOK
  <1>2. \A x \in Poller : PollTrue(polls'[x], provider)
    BY DEF Typed, TypeOK, PollsTrue
  <1>3. PollsTrue'
    BY <1>2 DEF PollsTrue, PollTrue
  <1> QED BY <1>1, <1>3 DEF Typed, TypeOK

LEMMA IdlePoll == NoPoll \in Poll /\ PollTrue(NoPoll, provider)
  BY NoPollTyped DEF NoPoll, PollTrue

LEMMA PollMoves ==
  ASSUME Typed, NEW p \in Poller
  PROVE  /\ \A op \in {"read", "cancel"}, c \in Call : Ask(p, op, c) => Typed'
         /\ Serve(p) => Typed'
         /\ LoseAnswer(p) => Typed'
  <1> USE DEF gateway, table, work
  <1>0. /\ polls \in [Poller -> Poll] /\ rows \in [Call -> Row]
        /\ usage \in [Call -> Nat \cup {NoUsage}] /\ faults \in 0..MaxFaults
        /\ billed \subseteq Call /\ provider \in [Call -> Reply]
    BY DEF Typed, TypeOK
  <1>1. ASSUME NEW op \in {"read", "cancel"}, NEW c \in Call, Ask(p, op, c) PROVE Typed'
    <2> DEFINE po == [stage |-> "asked", op |-> op, call |-> c, reply |-> Silent]
    <2>1. po \in Poll /\ PollTrue(po, provider)
      BY SilentTyped DEF Poll, PollTrue
    <2>2. polls' = [polls EXCEPT ![p] = po]
      BY <1>1 DEF Ask
    <2> HIDE DEF po
    <2> QED BY <1>0, <1>1, <2>1, <2>2, PollsStep DEF Ask
  <1>2. ASSUME Serve(p) PROVE Typed'
    <2> DEFINE d == polls[p].call
    <2>1. polls[p].stage = "asked" /\ polls[p] \in Poll
      BY <1>0, <1>2 DEF Serve
    <2>2. d \in Call /\ \A x \in Poller : PollTrue(polls[x], provider)
      BY <2>1 DEF Typed, PollsTrue, PollTrue
    <2>3. provider' \in [Call -> Reply]
      <3>1. [provider[d] EXCEPT !.status = "cancelled"] \in Reply
        BY <1>0, <2>2 DEF Reply
      <3>2. \/ provider' = provider
            \/ provider' = [provider EXCEPT ![d] = [provider[d] EXCEPT !.status = "cancelled"]]
        BY <1>2 DEF Serve
      <3> QED BY <1>0, <3>1, <3>2
    <2>4. \A x \in Call : provider[x].status = "completed" => provider'[x] = provider[x]
      BY <1>0, <1>2 DEF Serve
    <2> DEFINE po == [polls[p] EXCEPT !.stage = "replied", !.reply = provider'[d]]
    <2>5. po \in Poll /\ PollTrue(po, provider')
      BY <2>1, <2>2, <2>3 DEF Poll, PollTrue
    <2>6. polls' = [polls EXCEPT ![p] = po]
      <3>1. polls' = [polls EXCEPT ![p].stage = "replied", ![p].reply = provider'[d]]
        BY <1>2 DEF Serve
      <3> QED BY <1>0, <2>1, <3>1 DEF Poll
    <2> HIDE DEF po
    <2>7. polls' \in [Poller -> Poll]
      BY <1>0, <2>5, <2>6
    <2>8. \A x \in Poller : PollTrue(polls[x], provider')
      BY <2>2, <2>4 DEF PollTrue
    <2>9. \A x \in Poller : PollTrue(polls'[x], provider')
      BY <1>0, <2>5, <2>6, <2>8
    <2>10. PollsTrue'
      BY <2>9 DEF PollsTrue, PollTrue
    <2> QED BY <1>2, <2>3, <2>7, <2>10 DEF Serve, Typed, TypeOK
  <1>3. ASSUME LoseAnswer(p) PROVE Typed'
    BY <1>0, <1>3, IdlePoll, PollsStep DEF LoseAnswer
  <1> QED BY <1>1, <1>2, <1>3

LEMMA PollEnds ==
  ASSUME Typed, NEW p \in Poller
  PROVE  /\ FinishRead(p) => Typed'
         /\ FinishCancel(p) => Typed'
         /\ \A d, a \in BOOLEAN : PostRead(p, d, a) => Typed'
  <1> USE DEF gateway, table, work
  <1> DEFINE c == polls[p].call
             reply == polls[p].reply
  <1>0. /\ polls \in [Poller -> Poll] /\ rows \in [Call -> Row]
        /\ usage \in [Call -> Nat \cup {NoUsage}] /\ faults \in 0..MaxFaults
        /\ billed \subseteq Call
    BY DEF Typed, TypeOK
  <1>p. polls[p] \in Poll
    BY <1>0
  <1>c. ASSUME polls[p].stage # "idle" PROVE c \in Call
    BY <1>c DEF Typed, PollsTrue, PollTrue
  <1>f. ASSUME c \in Call, Forfeit(c) PROVE rows' \in [Call -> Row] /\ usage' = usage
    BY <1>0, <1>f, ForfeitTyped DEF Forfeit
  <1>1. ASSUME FinishRead(p) PROVE Typed'
    <2>1. c \in Call /\ polls[p].stage = "replied"
      BY <1>1, <1>c DEF FinishRead
    <2>2. CASE UNCHANGED <<rows, usage>> /\ polls' = [polls EXCEPT ![p] = NoPoll]
      BY <1>0, <1>1, <2>2, IdlePoll, PollsStep DEF FinishRead
    <2>3. CASE Forfeit(c) /\ polls' = [polls EXCEPT ![p] = NoPoll]
      <3>1. rows' \in [Call -> Row] /\ usage' = usage
        BY <1>f, <2>1, <2>3
      <3> QED BY <1>0, <1>1, <2>3, <3>1, IdlePoll, PollsStep DEF FinishRead
    <2>4. CASE /\ RecordUsage(c, reply.cost)
               /\ polls' = IF mode = "benchmark" THEN [polls EXCEPT ![p].stage = "posting"]
                                                 ELSE [polls EXCEPT ![p] = NoPoll]
      <3>1. reply.cost \in Cost \cup {0}
        BY <1>p DEF Poll, Reply
      <3>2. \A x \in Cost \cup {0} : x \in Nat
        BY Constants
      <3>3. rows' \in [Call -> Row] /\ usage' \in [Call -> Nat \cup {NoUsage}]
        BY <1>0, <2>1, <2>4, <3>1, <3>2, RecordTyped
      <3>4. CASE polls' = [polls EXCEPT ![p] = NoPoll]
        BY <1>0, <1>1, <3>3, <3>4, IdlePoll, PollsStep DEF FinishRead
      <3>5. CASE polls' = [polls EXCEPT ![p].stage = "posting"]
        <4> DEFINE po == [polls[p] EXCEPT !.stage = "posting"]
        <4>1. po \in Poll /\ PollTrue(po, provider)
          BY <1>p, <2>1 DEF Poll, PollTrue
        <4>2. polls' = [polls EXCEPT ![p] = po]
          BY <3>5
        <4> HIDE DEF po
        <4> QED BY <1>0, <1>1, <3>3, <4>1, <4>2, PollsStep DEF FinishRead
      <3> QED BY <2>4, <3>4, <3>5
    <2> QED BY <1>1, <2>2, <2>3, <2>4 DEF FinishRead
  <1>2. ASSUME FinishCancel(p) PROVE Typed'
    <2>1. c \in Call
      BY <1>2, <1>c DEF FinishCancel
    <2>2. rows' \in [Call -> Row] /\ usage' = usage
      BY <1>0, <1>2, <1>f, <2>1 DEF FinishCancel
    <2> QED BY <1>0, <1>2, <2>2, IdlePoll, PollsStep DEF FinishCancel
  <1>3. ASSUME NEW d \in BOOLEAN, NEW a \in BOOLEAN, PostRead(p, d, a) PROVE Typed'
    <2>1. c \in Call
      BY <1>3, <1>c DEF PostRead
    <2>2. rows' \in [Call -> Row] /\ usage' = usage
      BY <1>0, <1>3, <1>f, <2>1 DEF PostRead
    <2>3. billed' \subseteq Call /\ faults' \in 0..MaxFaults
      BY <1>0, <1>3, <2>1, Constants DEF PostRead, Bill
    <2> QED BY <1>0, <1>3, <2>2, <2>3, IdlePoll, PollsStep DEF PostRead
  <1> QED BY <1>1, <1>2, <1>3

(* The settlement of a command, its execution, and the outside. *)

Runtimes == {"idle", "running", "asking", "waiting", "settling", "recording", "done"}

LEMMA RuntimeStep ==
  ASSUME Typed, runtime' \in Runtimes, claim' \in Claim, settling' \in Report,
         reported' \in Report, closed' \in BOOLEAN, result' \in BOOLEAN,
         faults' \in 0..MaxFaults,
         UNCHANGED <<mode, now, rows, usage, creates, polls, provider, billed>>
  PROVE  Typed'
  BY DEF Typed, TypeOK, PollsTrue, Runtimes

LEMMA SettlingMoves ==
  ASSUME Typed
  PROVE  /\ Finalize => Typed'
         /\ RefuseFinalize => Typed'
         /\ CloseBenchmark => Typed'
         /\ SettleCost => Typed'
         /\ RecordResult => Typed'
         /\ \A d, a \in BOOLEAN : PostReport(d, a) => Typed'
  <1> USE DEF gateway, table, work
  <1>0. /\ runtime \in Runtimes /\ claim \in Claim /\ settling \in Report
        /\ reported \in Report /\ closed \in BOOLEAN /\ result \in BOOLEAN
        /\ faults \in 0..MaxFaults
    BY DEF Typed, TypeOK, Runtimes
  <1>1. ASSUME Finalize PROVE Typed'
    <2>1. Aggregate \in Report
      BY DEF Aggregate, Report, Typed, TypeOK
    <2>2. claim' \in Claim /\ settling' \in Report
      BY <1>0, <1>1, <2>1 DEF Finalize, Claim
    <2>3. runtime' \in Runtimes
      BY <1>1 DEF Finalize, Runtimes
    <2> QED BY <1>0, <1>1, <2>2, <2>3, RuntimeStep DEF Finalize
  <1>2. ASSUME RefuseFinalize PROVE Typed'
    <2>1. runtime' \in Runtimes
      BY <1>2 DEF RefuseFinalize, Runtimes
    <2> QED BY <1>0, <1>2, <2>1, RuntimeStep DEF RefuseFinalize
  <1>3. ASSUME CloseBenchmark PROVE Typed'
    <2>1. runtime' \in Runtimes /\ closed' \in BOOLEAN
      BY <1>0, <1>3 DEF CloseBenchmark, Runtimes
    <2> QED BY <1>0, <1>3, <2>1, RuntimeStep DEF CloseBenchmark
  <1>4. ASSUME SettleCost PROVE Typed'
    <2>1. runtime' \in Runtimes /\ closed' \in BOOLEAN
      BY <1>0, <1>4 DEF SettleCost, Runtimes
    <2> QED BY <1>0, <1>4, <2>1, RuntimeStep DEF SettleCost
  <1>5. ASSUME RecordResult PROVE Typed'
    <2>1. runtime' \in Runtimes /\ result' \in BOOLEAN
      BY <1>5 DEF RecordResult, Runtimes
    <2> QED BY <1>0, <1>5, <2>1, RuntimeStep DEF RecordResult
  <1>6. ASSUME NEW d \in BOOLEAN, NEW a \in BOOLEAN, PostReport(d, a) PROVE Typed'
    <2>1. reported' \in Report /\ settling' \in Report
      BY <1>0, <1>6, NoReportTyped DEF PostReport
    <2>2. claim' \in Claim
      <3>1. [claim EXCEPT !.state = "settled"] \in Claim
        BY <1>0 DEF Claim
      <3> QED BY <1>0, <1>6, <3>1 DEF PostReport
    <2>3. runtime' \in Runtimes
      BY <1>0, <1>6 DEF PostReport, Runtimes
    <2>4. faults' \in 0..MaxFaults
      BY <1>0, <1>6, Constants DEF PostReport
    <2> QED BY <1>0, <1>6, <2>1, <2>2, <2>3, <2>4, RuntimeStep DEF PostReport
  <1> QED BY <1>1, <1>2, <1>3, <1>4, <1>5, <1>6

LEMMA RunningMoves ==
  ASSUME Typed
  PROVE  /\ Execute => Typed'
         /\ ProcessEnds => Typed'
         /\ RuntimeStops => Typed'
  <1> USE DEF gateway, table, work
  <1>0. /\ runtime \in Runtimes /\ claim \in Claim /\ settling \in Report
        /\ reported \in Report /\ closed \in BOOLEAN /\ result \in BOOLEAN
        /\ faults \in 0..MaxFaults
    BY DEF Typed, TypeOK, Runtimes
  <1>1. ASSUME Execute PROVE Typed'
    <2>1. runtime' \in Runtimes
      BY <1>1 DEF Execute, Runtimes
    <2> QED BY <1>0, <1>1, <2>1, RuntimeStep DEF Execute
  <1>2. ASSUME ProcessEnds PROVE Typed'
    <2>1. runtime' \in Runtimes
      BY <1>2 DEF ProcessEnds, Runtimes
    <2> QED BY <1>0, <1>2, <2>1, RuntimeStep DEF ProcessEnds
  <1>3. ASSUME RuntimeStops PROVE Typed'
    <2>1. runtime' \in Runtimes /\ faults' \in 0..MaxFaults
      BY <1>0, <1>3, Constants DEF RuntimeStops, Runtimes
    <2> QED BY <1>0, <1>3, <2>1, RuntimeStep DEF RuntimeStops
  <1> QED BY <1>1, <1>2, <1>3

(* The provider only adds to what it said: a completed call stays so.      *)
LEMMA ProviderStep ==
  ASSUME Typed, provider' \in [Call -> Reply],
         \A x \in Call : provider[x].status = "completed" => provider'[x] = provider[x],
         UNCHANGED <<mode, now, table, work, gateway, runtime, faults>>
  PROVE  Typed'
  <1>1. \A x \in Poller : PollTrue(polls[x], provider')
    BY DEF Typed, PollsTrue, PollTrue
  <1>2. PollsTrue'
    BY <1>1 DEF PollsTrue, PollTrue, work
  <1> QED BY <1>2 DEF Typed, TypeOK, table, work, gateway

LEMMA OutsideMoves ==
  ASSUME Typed
  PROVE  /\ Tick => Typed'
         /\ Crash => Typed'
         /\ \A c \in Call : (Accept(c) => Typed') /\ (Answer(c) => Typed')
  <1>0. provider \in [Call -> Reply] /\ creates \in [Call -> Create]
    BY DEF Typed, TypeOK
  <1>1. ASSUME Tick PROVE Typed'
    <2>1. now' \in 0..Expires
      BY <1>1, Constants DEF Tick, Typed, TypeOK
    <2> QED BY <1>1, <2>1 DEF Tick, Typed, TypeOK, PollsTrue, table, work, gateway
  <1>2. ASSUME Crash PROVE Typed'
    <2>1. \A x \in Call : [creates[x] EXCEPT !.stage = "lost"] \in Create
      BY <1>0 DEF Create
    <2>2. creates' \in [Call -> Create]
      BY <1>0, <1>2, <2>1 DEF Crash
    <2>3. polls' = [p \in Poller |-> NoPoll]
      BY <1>2 DEF Crash
    <2>4. polls' \in [Poller -> Poll] /\ PollsTrue'
      BY <2>3, NoPollTyped DEF PollsTrue, PollTrue, NoPoll
    <2>5. faults' \in 0..MaxFaults
      BY <1>2, Constants DEF Crash, Typed, TypeOK
    <2>6. settling' \in Report
      BY <1>2, NoReportTyped DEF Crash
    <2> QED BY <1>2, <2>2, <2>4, <2>5, <2>6 DEF Crash, Typed, TypeOK, table, gateway
  <1>3. ASSUME NEW c \in Call, Accept(c) PROVE Typed'
    <2>1. [provider[c] EXCEPT !.status = "running"] \in Reply
      BY <1>0 DEF Reply
    <2>2. provider' = [provider EXCEPT ![c] = [provider[c] EXCEPT !.status = "running"]]
      BY <1>3 DEF Accept
    <2>3. provider' \in [Call -> Reply]
      BY <1>0, <2>1, <2>2
    <2>4. provider[c].status = "none"
      BY <1>3 DEF Accept, Silent
    <2>5. \A x \in Call : provider[x].status = "completed" => provider'[x] = provider[x]
      BY <1>0, <2>2, <2>4
    <2> QED BY <1>3, <2>3, <2>5, ProviderStep DEF Accept
  <1>4. ASSUME NEW c \in Call, Answer(c) PROVE Typed'
    <2>1. PICK reply \in Reply : provider' = [provider EXCEPT ![c] = reply]
      <3>1. [provider[c] EXCEPT !.status = "failed"] \in Reply
        BY <1>0 DEF Reply
      <3>2. \A cost \in Cost \cup {0} : [status |-> "completed", cost |-> cost] \in Reply
        BY DEF Reply
      <3>3. \/ \E cost \in Cost \cup {0} :
                 provider' = [provider EXCEPT ![c] = [status |-> "completed", cost |-> cost]]
            \/ provider' = [provider EXCEPT ![c] = [provider[c] EXCEPT !.status = "failed"]]
        BY <1>4 DEF Answer
      <3> QED BY <3>1, <3>2, <3>3
    <2>2. provider' \in [Call -> Reply]
      BY <1>0, <2>1
    <2>3. \A x \in Call : provider[x].status = "completed" => provider'[x] = provider[x]
      BY <1>0, <1>4, <2>1 DEF Answer
    <2> QED BY <1>4, <2>2, <2>3, ProviderStep DEF Answer
  <1> QED BY <1>1, <1>2, <1>3, <1>4

LEMMA TypedStep == Typed /\ [Next]_vars => Typed'
  <1> SUFFICES ASSUME Typed, [Next]_vars PROVE Typed'
    OBVIOUS
  <1>1. CASE Creating
    <2>1. PICK c \in Call :
            \/ \E q \in Request, k \in Kind : Send(c, q, k)
            \/ Admit(c) \/ Refuse(c) \/ AttachResponse(c) \/ Terminal(c) \/ CallFails(c)
            \/ OpenStream(c) \/ StartStream(c) \/ LoseHandler(c)
            \/ \E delivered, answered \in BOOLEAN : PostCreate(c, delivered, answered)
      BY <1>1 DEF Creating
    <2>2. CASE \E q \in Request, k \in Kind : Send(c, q, k)
      BY <2>2, CreateMoves
    <2>3. CASE Terminal(c) \/ CallFails(c) \/ OpenStream(c) \/ StartStream(c) \/ LoseHandler(c)
      BY <2>3, CreateEnds, Zenon
    <2>4. CASE \E delivered, answered \in BOOLEAN : PostCreate(c, delivered, answered)
      BY <2>4, CreateEnds, Zenon
    <2>5. CASE Admit(c) \/ Refuse(c) \/ AttachResponse(c)
      BY <2>5, CreateMoves
    <2> QED BY <2>1, <2>2, <2>3, <2>4, <2>5
  <1>2. CASE Polling
    <2>1. PICK p \in Poller :
            \/ \E op \in {"read", "cancel"}, c \in Call : Ask(p, op, c)
            \/ Serve(p) \/ LoseAnswer(p) \/ FinishRead(p) \/ FinishCancel(p)
            \/ \E delivered, answered \in BOOLEAN : PostRead(p, delivered, answered)
      BY <1>2 DEF Polling
    <2>2. CASE \E op \in {"read", "cancel"}, c \in Call : Ask(p, op, c)
      BY <2>2, PollMoves
    <2>3. CASE Serve(p) \/ LoseAnswer(p)
      BY <2>3, PollMoves
    <2>4. CASE FinishRead(p) \/ FinishCancel(p)
      BY <2>4, PollEnds, Zenon
    <2>5. CASE \E delivered, answered \in BOOLEAN : PostRead(p, delivered, answered)
      BY <2>5, PollEnds, Zenon
    <2> QED BY <2>1, <2>2, <2>3, <2>4, <2>5
  <1>3. CASE Settling
    BY <1>3, SettlingMoves DEF Settling
  <1>4. CASE Running
    BY <1>4, RunningMoves DEF Running
  <1>5. CASE Outside
    BY <1>5, OutsideMoves DEF Outside
  <1>6. CASE UNCHANGED vars
    BY <1>6 DEF vars, table, work, gateway, Typed, TypeOK, PollsTrue
  <1> QED BY <1>1, <1>2, <1>3, <1>4, <1>5, <1>6 DEF Next

(* Every variable keeps its type, and an answer a read or a cancel waits   *)
(* to book is what the provider says.                                      *)
THEOREM TypeCorrect == Spec => []TypeOK
  <1>1. Init => Typed
    BY TypedInit
  <1>2. Typed /\ [Next]_vars => Typed'
    BY TypedStep
  <1>3. Typed => TypeOK
    BY DEF Typed
  <1> QED BY <1>1, <1>2, <1>3, PTL DEF Spec

(* --------------------------- the table ---------------------------------- *)

(* What a step may do to the reservations and their usage receipts.        *)
Booking(c)    == Output \in 1..MaxOutput /\ Reserve(c) /\ UNCHANGED usage
Attaching(c)  == /\ rows[c].state = "reserved"
                 /\ rows' = [rows EXCEPT ![c].attached = TRUE] /\ UNCHANGED usage
Recording(c)  == \E cost \in Nat :
  /\ RecordUsage(c, cost) /\ UNCHANGED provider
  /\ provider[c].status = "completed" /\ provider[c].cost = cost
TableStep == \/ UNCHANGED <<rows, usage>>
             \/ \E c \in Call : Booking(c) \/ Attaching(c) \/ Forfeit(c) \/ Recording(c)
(* What the provider completed stays so.                                   *)
ProviderKeeps == \A x \in Call : provider[x].status = "completed" => provider'[x] = provider[x]

LEMMA CostNat ==
  ASSUME NEW reply \in Reply
  PROVE  reply.cost \in Nat
  <1>1. reply.cost \in Cost \cup {0}
    BY DEF Reply
  <1>2. \A x \in Cost \cup {0} : x \in Nat
    BY Constants
  <1> QED BY <1>1, <1>2

LEMMA CreatingTable ==
  ASSUME Typed, Creating
  PROVE  TableStep /\ UNCHANGED <<provider, claim, settling, reported, closed, result, mode>>
  <1> USE DEF gateway, table, work
  <1>1. PICK c \in Call :
          \/ \E q \in Request, k \in Kind : Send(c, q, k)
          \/ Admit(c) \/ Refuse(c) \/ AttachResponse(c) \/ Terminal(c) \/ CallFails(c)
          \/ OpenStream(c) \/ StartStream(c) \/ LoseHandler(c)
          \/ \E delivered, answered \in BOOLEAN : PostCreate(c, delivered, answered)
    BY DEF Creating
  <1>2. CASE \E q \in Request, k \in Kind : Send(c, q, k)
    BY <1>2 DEF Send, TableStep
  <1>3. CASE Admit(c)
    BY <1>3 DEF Admit, TableStep, Booking
  <1>4. CASE AttachResponse(c)
    BY <1>4 DEF AttachResponse, TableStep, Attaching
  <1>5. CASE Terminal(c)
    <2>1. CASE Usable(c, provider[c]) /\ RecordUsage(c, provider[c].cost)
      <3>1. provider[c].cost \in Nat
        BY CostNat DEF Typed, TypeOK
      <3>2. UNCHANGED provider /\ provider[c].status = "completed"
        BY <1>5 DEF Terminal
      <3>3. Recording(c)
        BY <2>1, <3>1, <3>2 DEF Recording
      <3> QED BY <1>5, <3>3 DEF Terminal, TableStep
    <2>2. CASE Forfeit(c)
      BY <1>5, <2>2 DEF Terminal, TableStep
    <2> QED BY <1>5, <2>1, <2>2 DEF Terminal
  <1>6. CASE CallFails(c)
    BY <1>6 DEF CallFails, TableStep
  <1>7. CASE Refuse(c) \/ OpenStream(c) \/ StartStream(c) \/ LoseHandler(c)
    BY <1>7 DEF Refuse, OpenStream, StartStream, LoseHandler, TableStep
  <1>8. CASE \E delivered, answered \in BOOLEAN : PostCreate(c, delivered, answered)
    BY <1>8 DEF PostCreate, TableStep
  <1> QED BY <1>1, <1>2, <1>3, <1>4, <1>5, <1>6, <1>7, <1>8

LEMMA PollingTable ==
  ASSUME Typed, Polling
  PROVE  TableStep /\ ProviderKeeps /\ UNCHANGED <<claim, settling, reported, closed, result, mode>>
  <1> USE DEF gateway, table, work
  <1>0. provider \in [Call -> Reply] /\ polls \in [Poller -> Poll]
    BY DEF Typed, TypeOK
  <1>1. PICK p \in Poller :
          \/ \E op \in {"read", "cancel"}, c \in Call : Ask(p, op, c)
          \/ Serve(p) \/ LoseAnswer(p) \/ FinishRead(p) \/ FinishCancel(p)
          \/ \E delivered, answered \in BOOLEAN : PostRead(p, delivered, answered)
    BY DEF Polling
  <1> DEFINE c == polls[p].call
             reply == polls[p].reply
  <1>2. CASE \E op \in {"read", "cancel"}, d \in Call : Ask(p, op, d)
    BY <1>2 DEF Ask, TableStep, ProviderKeeps
  <1>c. ASSUME polls[p].stage # "idle"
        PROVE  /\ c \in Call /\ reply \in Reply
               /\ polls[p].stage = "replied" /\ reply.status = "completed" => provider[c] = reply
    BY <1>0, <1>c DEF Typed, PollsTrue, PollTrue, Poll
  <1>3. CASE Serve(p)
    <2>1. c \in Call
      BY <1>3, <1>c DEF Serve
    <2>2. ProviderKeeps
      BY <1>0, <1>3, <2>1 DEF Serve, ProviderKeeps
    <2> QED BY <1>3, <2>2 DEF Serve, TableStep
  <1>4. CASE LoseAnswer(p)
    BY <1>4 DEF LoseAnswer, TableStep, ProviderKeeps
  <1>5. CASE FinishRead(p)
    <2>0. ProviderKeeps /\ UNCHANGED <<claim, settling, reported, closed, result, mode>>
      BY <1>5 DEF FinishRead, ProviderKeeps
    <2>1. c \in Call
      BY <1>5, <1>c DEF FinishRead
    <2>2. CASE UNCHANGED <<rows, usage>> \/ Forfeit(c)
      BY <2>0, <2>1, <2>2 DEF TableStep
    <2>3. CASE Usable(c, reply) /\ RecordUsage(c, reply.cost)
      <3>1. polls[p].stage = "replied" /\ reply.status = "completed" /\ UNCHANGED provider
        BY <1>5, <2>3 DEF FinishRead, Usable
      <3>2. provider[c] = reply /\ reply.cost \in Nat
        BY <1>c, <3>1, CostNat
      <3>3. Recording(c)
        BY <2>3, <3>1, <3>2 DEF Recording
      <3> QED BY <2>0, <2>1, <3>3 DEF TableStep
    <2> QED BY <1>5, <2>2, <2>3 DEF FinishRead
  <1>6. CASE FinishCancel(p)
    <2>1. c \in Call
      BY <1>6, <1>c DEF FinishCancel
    <2> QED BY <1>6, <2>1 DEF FinishCancel, TableStep, ProviderKeeps
  <1>7. CASE \E delivered, answered \in BOOLEAN : PostRead(p, delivered, answered)
    <2>1. c \in Call
      BY <1>7, <1>c DEF PostRead
    <2> QED BY <1>7, <2>1 DEF PostRead, TableStep, ProviderKeeps
  <1> QED BY <1>1, <1>2, <1>3, <1>4, <1>5, <1>6, <1>7

LEMMA SettlingTable ==
  ASSUME Settling \/ Running
  PROVE  UNCHANGED <<rows, usage, provider, creates, polls, mode>>
  <1> USE DEF gateway, table, work
  <1>1. CASE Settling
    BY <1>1 DEF Settling, Finalize, RefuseFinalize, CloseBenchmark, SettleCost, RecordResult,
                PostReport
  <1>2. CASE Running
    BY <1>2 DEF Running, Execute, ProcessEnds, RuntimeStops
  <1> QED BY <1>1, <1>2

LEMMA OutsideTable ==
  ASSUME Typed, Outside
  PROVE  /\ ProviderKeeps
         /\ UNCHANGED <<rows, usage, claim, reported, closed, result, mode>>
         /\ settling' \in {settling, NoReport}
  <1> USE DEF gateway, table, work
  <1>0. provider \in [Call -> Reply]
    BY DEF Typed, TypeOK
  <1>1. CASE Tick \/ Crash
    BY <1>1 DEF Tick, Crash, ProviderKeeps
  <1>2. CASE \E c \in Call : Accept(c) \/ Answer(c)
    <2>1. PICK c \in Call : Accept(c) \/ Answer(c)
      BY <1>2
    <2>2. provider[c].status # "completed" /\ \A x \in Call \ {c} : provider'[x] = provider[x]
      BY <1>0, <2>1 DEF Accept, Answer, Silent
    <2>3. ProviderKeeps
      BY <2>2 DEF ProviderKeeps
    <2> QED BY <2>1, <2>3 DEF Accept, Answer
  <1> QED BY <1>1, <1>2 DEF Outside

LEMMA TableMoves ==
  ASSUME Typed, [Next]_vars
  PROVE  TableStep /\ ProviderKeeps
  <1>1. CASE Creating
    BY <1>1, CreatingTable DEF ProviderKeeps
  <1>2. CASE Polling
    BY <1>2, PollingTable
  <1>3. CASE Settling \/ Running
    BY <1>3, SettlingTable DEF TableStep, ProviderKeeps
  <1>4. CASE Outside
    BY <1>4, OutsideTable DEF TableStep
  <1>5. CASE UNCHANGED vars
    BY <1>5 DEF vars, table, TableStep, ProviderKeeps
  <1> QED BY <1>1, <1>2, <1>3, <1>4, <1>5 DEF Next

(* The row a create books.                                                 *)
Opened(c) == [FreeRow EXCEPT !.state = "reserved", !.request = creates[c].request,
                             !.reserved = Input + Output]

LEMMA OpenedRow ==
  ASSUME NEW c \in Call
  PROVE  /\ Opened(c).state = "reserved" /\ Opened(c).request = creates[c].request
         /\ Opened(c).reserved = Input + Output /\ Opened(c).consumed = 0
  BY DEF Opened, FreeRow

(* The state of one row after a step of the table.                         *)
LEMMA RowAfter ==
  ASSUME rows \in [Call -> Row], usage \in [Call -> Nat \cup {NoUsage}], NEW c \in Call
  PROVE  /\ Booking(c) => rows' = [rows EXCEPT ![c] = Opened(c)]
         /\ Attaching(c) => rows' = [rows EXCEPT ![c] = [rows[c] EXCEPT !.attached = TRUE]]
         /\ Forfeit(c) => \/ rows' = rows
                          \/ /\ rows[c].state = "reserved"
                             /\ rows' = [rows EXCEPT ![c] = [rows[c] EXCEPT
                                  !.state = "ambiguous", !.consumed = rows[c].reserved]]
         /\ \A cost \in Nat : RecordUsage(c, cost) =>
              /\ rows' = [rows EXCEPT ![c] =
                           [rows[c] EXCEPT !.state = "settled", !.consumed = cost]]
              /\ usage' = [usage EXCEPT ![c] = cost]
  <1>1. ASSUME Booking(c)
        PROVE rows' = [rows EXCEPT ![c] = Opened(c)]
    BY <1>1 DEF Booking, Reserve, Opened
  <1>2. ASSUME Attaching(c)
        PROVE rows' = [rows EXCEPT ![c] = [rows[c] EXCEPT !.attached = TRUE]]
    BY <1>2 DEF Attaching
  <1>3. ASSUME Forfeit(c)
        PROVE \/ rows' = rows
              \/ /\ rows[c].state = "reserved"
                 /\ rows' = [rows EXCEPT ![c] = [rows[c] EXCEPT
                      !.state = "ambiguous", !.consumed = rows[c].reserved]]
    <2>1. CASE rows[c].state # "reserved"
      BY <1>3, <2>1 DEF Forfeit
    <2>2. CASE rows[c].state = "reserved"
      <3>1. rows' = [rows EXCEPT ![c].state = "ambiguous", ![c].consumed = rows[c].reserved]
        BY <1>3, <2>2 DEF Forfeit
      <3> QED BY <2>2, <3>1 DEF Row
    <2> QED BY <2>1, <2>2
  <1>4. ASSUME NEW cost \in Nat, RecordUsage(c, cost)
        PROVE /\ rows' = [rows EXCEPT ![c] =
                           [rows[c] EXCEPT !.state = "settled", !.consumed = cost]]
              /\ usage' = [usage EXCEPT ![c] = cost]
    <2>1. rows' = [rows EXCEPT ![c].state = "settled", ![c].consumed = cost]
      BY <1>4 DEF RecordUsage
    <2> QED BY <1>4, <2>1 DEF RecordUsage, Row
  <1> QED BY <1>1, <1>2, <1>3, <1>4

LEMMA OthersKeep ==
  ASSUME rows \in [Call -> Row], usage \in [Call -> Nat \cup {NoUsage}], NEW c \in Call,
         Booking(c) \/ Attaching(c) \/ Forfeit(c) \/ Recording(c),
         NEW x \in Call, x # c
  PROVE  rows'[x] = rows[x] /\ usage'[x] = usage[x]
  <1>1. CASE Booking(c)
    <2>1. rows' = [rows EXCEPT ![c] = Opened(c)] /\ usage' = usage
      BY <1>1, RowAfter DEF Booking
    <2> QED BY <2>1
  <1>2. CASE Attaching(c)
    BY <1>2 DEF Attaching
  <1>3. CASE Forfeit(c)
    <2>1. usage' = usage
      BY <1>3 DEF Forfeit
    <2>2. \/ rows' = rows
          \/ rows' = [rows EXCEPT ![c] = [rows[c] EXCEPT
                         !.state = "ambiguous", !.consumed = rows[c].reserved]]
      BY <1>3, RowAfter
    <2> QED BY <2>1, <2>2
  <1>4. CASE Recording(c)
    <2>1. PICK cost \in Nat : RecordUsage(c, cost)
      BY <1>4 DEF Recording
    <2>2. /\ rows' = [rows EXCEPT ![c] = [rows[c] EXCEPT !.state = "settled", !.consumed = cost]]
          /\ usage' = [usage EXCEPT ![c] = cost]
      BY <2>1, RowAfter
    <2> QED BY <2>2
  <1> QED BY <1>1, <1>2, <1>3, <1>4

(* A free row is untouched; the books and the provider agree.              *)
Untouched(r) == r.state = "free" => r.consumed = 0
TrueRow(r, u, reply) ==
  /\ Untouched(r)
  /\ u # NoUsage <=> r.state = "settled"
  /\ r.state = "settled" =>
       reply.status = "completed" /\ u = reply.cost /\ r.consumed = u
  /\ r.state = "ambiguous" => r.consumed = r.reserved
BooksTrue == \A c \in Call : TrueRow(rows[c], usage[c], provider[c])

LEMMA BooksInit == Init => BooksTrue
  BY DEF Init, BooksTrue, TrueRow, Untouched, FreeRow, NoUsage

LEMMA BooksStep ==
  ASSUME Typed, BooksTrue, [Next]_vars
  PROVE  BooksTrue'
  <1>0. /\ rows \in [Call -> Row] /\ usage \in [Call -> Nat \cup {NoUsage}]
        /\ TableStep /\ ProviderKeeps
    BY TableMoves DEF Typed, TypeOK
  <1>n. \A n \in Nat : n # NoUsage
    BY DEF NoUsage
  <1> SUFFICES ASSUME NEW x \in Call PROVE TrueRow(rows'[x], usage'[x], provider'[x])
    BY DEF BooksTrue, TrueRow, Untouched
  <1>1. TrueRow(rows[x], usage[x], provider[x])
    BY DEF BooksTrue
  <1>2. ASSUME rows'[x] = rows[x], usage'[x] = usage[x]
        PROVE  TrueRow(rows'[x], usage'[x], provider'[x])
    BY <1>0, <1>1, <1>2 DEF TrueRow, Untouched, ProviderKeeps
  <1>3. CASE UNCHANGED <<rows, usage>>
    BY <1>2, <1>3
  <1>4. ASSUME NEW c \in Call, Booking(c) \/ Attaching(c) \/ Forfeit(c) \/ Recording(c), x # c
        PROVE  TrueRow(rows'[x], usage'[x], provider'[x])
    <2>1. rows'[x] = rows[x] /\ usage'[x] = usage[x]
      BY <1>0, <1>4, OthersKeep
    <2> QED BY <1>2, <2>1
  <1>5. ASSUME Booking(x) PROVE TrueRow(rows'[x], usage'[x], provider'[x])
    <2>1. rows[x].state = "free" /\ usage'[x] = usage[x]
      BY <1>5 DEF Booking, Reserve
    <2>2. rows'[x].state = "reserved"
      <3>1. rows' = [rows EXCEPT ![x] = Opened(x)]
        BY <1>0, <1>5, RowAfter
      <3> QED BY <1>0, <3>1, OpenedRow
    <2> QED BY <1>1, <2>1, <2>2 DEF TrueRow, Untouched
  <1>6. ASSUME Attaching(x) PROVE TrueRow(rows'[x], usage'[x], provider'[x])
    <2>1. rows'[x] = [rows[x] EXCEPT !.attached = TRUE] /\ usage'[x] = usage[x]
      BY <1>0, <1>6, RowAfter DEF Attaching
    <2> QED BY <1>0, <1>1, <1>6, <2>1 DEF TrueRow, Untouched, Attaching, Row
  <1>7. ASSUME Forfeit(x) PROVE TrueRow(rows'[x], usage'[x], provider'[x])
    <2>1. CASE rows' = rows
      BY <1>2, <1>7, <2>1 DEF Forfeit
    <2>2. CASE /\ rows[x].state = "reserved"
               /\ rows' = [rows EXCEPT ![x] = [rows[x] EXCEPT
                    !.state = "ambiguous", !.consumed = rows[x].reserved]]
      <3>1. /\ rows'[x].state = "ambiguous" /\ rows'[x].consumed = rows'[x].reserved
            /\ usage'[x] = usage[x]
        BY <1>0, <1>7, <2>2 DEF Row, Forfeit
      <3> QED BY <1>1, <2>2, <3>1 DEF TrueRow, Untouched
    <2> QED BY <1>0, <1>7, <2>1, <2>2, RowAfter
  <1>8. ASSUME Recording(x) PROVE TrueRow(rows'[x], usage'[x], provider'[x])
    <2>1. PICK cost \in Nat : /\ RecordUsage(x, cost) /\ UNCHANGED provider
                              /\ provider[x].status = "completed" /\ provider[x].cost = cost
      BY <1>8 DEF Recording
    <2>2. rows'[x].state = "settled" /\ rows'[x].consumed = cost /\ usage'[x] = cost
      <3>1. /\ rows' = [rows EXCEPT ![x] =
                  [rows[x] EXCEPT !.state = "settled", !.consumed = cost]]
            /\ usage' = [usage EXCEPT ![x] = cost]
        BY <1>0, <2>1, RowAfter
      <3> QED BY <1>0, <3>1 DEF Row
    <2> QED BY <1>n, <2>1, <2>2 DEF TrueRow, Untouched
  <1> QED BY <1>0, <1>3, <1>4, <1>5, <1>6, <1>7, <1>8 DEF TableStep

(* A call stands in the budget with the cost the provider completed it at, *)
(* and has its receipt then, or with its whole reservation.                *)
THEOREM TrueOrWhole == Spec => []BookedIsTrueOrWhole
  <1>1. Init => Typed /\ BooksTrue
    BY TypedInit, BooksInit
  <1>2. Typed /\ BooksTrue /\ [Next]_vars => (Typed /\ BooksTrue)'
    BY TypedStep, BooksStep
  <1>3. BooksTrue => BookedIsTrueOrWhole
    BY DEF BooksTrue, TrueRow, BookedIsTrueOrWhole
  <1> QED BY <1>1, <1>2, <1>3, PTL DEF Spec

(* --------------------------- the money ---------------------------------- *)

(* The account the table stands for: the fate of each call, what it holds. *)
Fate  == [c \in Call |-> rows[c].state]
Money == [c \in Call |-> Booked(c)]
Books(c) ==
  /\ Fate[c] = "free" /\ Cardinality(Placed) < MaxCalls
  /\ \E amount \in 1..(Ceiling - Total) : Money' = [Money EXCEPT ![c] = amount]
  /\ Fate' = [Fate EXCEPT ![c] = "reserved"]
Charges(c) ==
  /\ Fate[c] = "reserved"
  /\ \E amount \in 0..Money[c] : Money' = [Money EXCEPT ![c] = amount]
  /\ Fate' = [Fate EXCEPT ![c] = "settled"]
Forfeits(c) ==
  /\ Fate[c] = "reserved" /\ Money' = Money
  /\ Fate' = [Fate EXCEPT ![c] = "ambiguous"]
MoneyStep == \/ UNCHANGED <<Fate, Money>>
             \/ \E c \in Call : Books(c) \/ Charges(c) \/ Forfeits(c)

BookedBy(r) == IF r.state = "reserved" THEN r.reserved ELSE r.consumed

LEMMA MoneyNat ==
  ASSUME rows \in [Call -> Row]
  PROVE  Money \in [Call -> Nat] /\ Total = SumOf(Money) /\ Total \in Nat
  <1>1. \A c \in Call : Booked(c) \in Nat
    BY DEF Booked, Row
  <1>2. Money \in [Call -> Nat]
    BY <1>1 DEF Money
  <1>3. Total = SumOf(Money)
    BY DEF Total, Money
  <1> QED BY <1>2, <1>3, SumNat

(* A step that writes one row moves one call of the account.               *)
LEMMA OneRow ==
  ASSUME rows \in [Call -> Row], NEW c \in Call, NEW r, rows' = [rows EXCEPT ![c] = r]
  PROVE  Fate' = [Fate EXCEPT ![c] = r.state] /\ Money' = [Money EXCEPT ![c] = BookedBy(r)]
  <1>1. \A x \in Call : rows'[x] = IF x = c THEN r ELSE rows[x]
    OBVIOUS
  <1>2. \A x \in Call : rows'[x].state = IF x = c THEN r.state ELSE rows[x].state
    BY <1>1
  <1>3. Fate' = [x \in Call |-> rows'[x].state]
    BY DEF Fate
  <1>4. Fate' = [Fate EXCEPT ![c] = r.state]
    BY <1>2, <1>3 DEF Fate
  <1>5. \A x \in Call : BookedBy(rows'[x]) = IF x = c THEN BookedBy(r) ELSE BookedBy(rows[x])
    BY <1>1
  <1>6. Money' = [x \in Call |-> BookedBy(rows'[x])] /\ Money = [x \in Call |-> BookedBy(rows[x])]
    BY DEF Money, Booked, BookedBy
  <1>7. Money' = [Money EXCEPT ![c] = BookedBy(r)]
    BY <1>5, <1>6
  <1> QED BY <1>4, <1>7

LEMMA MoneyMoves ==
  ASSUME Typed, [Next]_vars
  PROVE  MoneyStep
  <1>0. /\ rows \in [Call -> Row] /\ usage \in [Call -> Nat \cup {NoUsage}] /\ TableStep
    BY TableMoves DEF Typed, TypeOK
  <1>m. /\ Money \in [Call -> Nat] /\ Total \in Nat
        /\ \A x \in Call : Money[x] = BookedBy(rows[x]) /\ Fate[x] = rows[x].state
    BY <1>0, MoneyNat DEF Money, Fate, Booked, BookedBy
  <1>1. CASE UNCHANGED <<rows, usage>>
    <2>1. rows' = rows
      BY <1>1
    <2>2. Fate' = Fate
      BY <2>1 DEF Fate
    <2>3. Money' = Money
      BY <2>1 DEF Money, Booked
    <2> QED BY <2>2, <2>3 DEF MoneyStep
  <1>2. ASSUME NEW c \in Call, Booking(c) PROVE Books(c)
    <2>1. rows' = [rows EXCEPT ![c] = Opened(c)]
      BY <1>0, <1>2, RowAfter
    <2>2. BookedBy(Opened(c)) = Input + Output /\ Opened(c).state = "reserved"
      BY OpenedRow DEF BookedBy
    <2>3. Money' = [Money EXCEPT ![c] = Input + Output] /\ Fate' = [Fate EXCEPT ![c] = "reserved"]
      <3>1. /\ Money' = [Money EXCEPT ![c] = BookedBy(Opened(c))]
            /\ Fate' = [Fate EXCEPT ![c] = Opened(c).state]
        BY <1>0, <2>1, OneRow
      <3> QED BY <2>2, <3>1, Zenon
    <2>4. Input + Output \in 1..(Ceiling - Total)
      BY <1>2, <1>m, Constants DEF Booking, Reserve
    <2>5. Fate[c] = "free" /\ Cardinality(Placed) < MaxCalls
      BY <1>2, <1>m DEF Booking, Reserve
    <2> QED BY <2>3, <2>4, <2>5 DEF Books
  <1>3. ASSUME NEW c \in Call, Attaching(c) PROVE UNCHANGED <<Fate, Money>>
    <2> DEFINE r == [rows[c] EXCEPT !.attached = TRUE]
    <2>1. r.state = rows[c].state /\ BookedBy(r) = BookedBy(rows[c])
      BY <1>0 DEF BookedBy, Row
    <2>2. rows' = [rows EXCEPT ![c] = r]
      BY <1>3 DEF Attaching
    <2> HIDE DEF r
    <2>3. Money' = [Money EXCEPT ![c] = Money[c]] /\ Fate' = [Fate EXCEPT ![c] = Fate[c]]
      <3>1. /\ Money' = [Money EXCEPT ![c] = BookedBy(r)]
            /\ Fate' = [Fate EXCEPT ![c] = r.state]
        BY <1>0, <2>2, OneRow
      <3>2. BookedBy(r) = Money[c] /\ r.state = Fate[c]
        BY <1>m, <2>1
      <3> QED BY <3>1, <3>2, Zenon
    <2> QED BY <2>3 DEF Money, Fate
  <1>4. ASSUME NEW c \in Call, Forfeit(c) PROVE Forfeits(c) \/ UNCHANGED <<Fate, Money>>
    <2>1. CASE rows' = rows
      <3>1. Fate' = Fate
        BY <2>1 DEF Fate
      <3>2. Money' = Money
        BY <2>1 DEF Money, Booked
      <3> QED BY <3>1, <3>2
    <2>2. CASE /\ rows[c].state = "reserved"
               /\ rows' = [rows EXCEPT ![c] = [rows[c] EXCEPT
                    !.state = "ambiguous", !.consumed = rows[c].reserved]]
      <3> DEFINE r == [rows[c] EXCEPT !.state = "ambiguous", !.consumed = rows[c].reserved]
      <3>1. r.state = "ambiguous" /\ BookedBy(r) = BookedBy(rows[c])
        BY <1>0, <2>2 DEF BookedBy, Row
      <3>2. rows' = [rows EXCEPT ![c] = r]
        BY <2>2
      <3> HIDE DEF r
      <3>3. Money' = [Money EXCEPT ![c] = Money[c]] /\ Fate' = [Fate EXCEPT ![c] = "ambiguous"]
        <4>1. /\ Money' = [Money EXCEPT ![c] = BookedBy(r)]
              /\ Fate' = [Fate EXCEPT ![c] = r.state]
          BY <1>0, <3>2, OneRow
        <4>2. BookedBy(r) = Money[c]
          BY <1>m, <3>1
        <4> QED BY <3>1, <4>1, <4>2, Zenon
      <3>4. Money' = Money
        BY <3>3 DEF Money
      <3> QED BY <1>m, <2>2, <3>3, <3>4 DEF Forfeits
    <2> QED BY <1>0, <1>4, <2>1, <2>2, RowAfter
  <1>5. ASSUME NEW c \in Call, Recording(c) PROVE Charges(c)
    <2>1. PICK cost \in Nat : RecordUsage(c, cost)
      BY <1>5 DEF Recording
    <2> DEFINE r == [rows[c] EXCEPT !.state = "settled", !.consumed = cost]
    <2>2. rows' = [rows EXCEPT ![c] = r]
      BY <1>0, <2>1, RowAfter
    <2>3. r.state = "settled" /\ BookedBy(r) = cost
      BY <1>0 DEF BookedBy, Row
    <2> HIDE DEF r
    <2>4. Money' = [Money EXCEPT ![c] = cost] /\ Fate' = [Fate EXCEPT ![c] = "settled"]
      BY <1>0, <2>2, <2>3, OneRow
    <2>5. rows[c].state = "reserved" /\ cost <= rows[c].reserved
      BY <2>1 DEF RecordUsage
    <2>6. cost \in 0..Money[c] /\ Fate[c] = "reserved"
      BY <1>m, <2>5 DEF BookedBy
    <2> QED BY <2>4, <2>6 DEF Charges
  <1> QED BY <1>0, <1>1, <1>2, <1>3, <1>4, <1>5 DEF TableStep, MoneyStep

LEMMA HeldInit == Init => BudgetHeld
  <1> SUFFICES ASSUME Init PROVE BudgetHeld
    OBVIOUS
  <1>1. Money = [c \in Call |-> 0]
    BY DEF Init, Money, Booked, FreeRow
  <1>2. Total = 0
    BY <1>1, SumZero DEF Total, Money
  <1> QED BY <1>2, Constants DEF BudgetHeld

LEMMA HeldStep ==
  ASSUME Typed, BudgetHeld, [Next]_vars
  PROVE  BudgetHeld'
  <1>0. Money \in [Call -> Nat] /\ Total = SumOf(Money) /\ Total \in Nat /\ MoneyStep
    BY MoneyNat, MoneyMoves DEF Typed, TypeOK
  <1>1. Total' = SumOf(Money')
    BY DEF Total, Money
  <1>2. CASE Money' = Money
    BY <1>0, <1>1, <1>2 DEF BudgetHeld
  <1>3. ASSUME NEW c \in Call, NEW amount \in Nat, Money' = [Money EXCEPT ![c] = amount]
        PROVE  Total' = Total - Money[c] + amount
    BY <1>0, <1>1, <1>3, SumChange
  <1>4. ASSUME NEW c \in Call, Books(c) PROVE BudgetHeld'
    <2>1. PICK amount \in 1..(Ceiling - Total) : Money' = [Money EXCEPT ![c] = amount]
      BY <1>4 DEF Books
    <2>2. amount \in Nat /\ amount <= Ceiling - Total /\ Money[c] \in Nat
      BY <1>0, Constants
    <2>3. Total' = Total - Money[c] + amount
      BY <1>3, <2>1, <2>2
    <2> QED BY <1>0, <2>2, <2>3, Constants DEF BudgetHeld
  <1>5. ASSUME NEW c \in Call, Charges(c) PROVE BudgetHeld'
    <2>1. PICK amount \in 0..Money[c] : Money' = [Money EXCEPT ![c] = amount]
      BY <1>5 DEF Charges
    <2>2. Money[c] \in Nat
      BY <1>0
    <2>3. amount \in Nat /\ amount <= Money[c]
      BY <2>1, <2>2
    <2>4. Total' = Total - Money[c] + amount
      BY <1>3, <2>1, <2>3
    <2> QED BY <1>0, <2>2, <2>3, <2>4, Constants DEF BudgetHeld
  <1> QED BY <1>0, <1>2, <1>4, <1>5 DEF MoneyStep, Forfeits

(* What all calls hold of the budget never exceeds the ceiling.            *)
THEOREM CeilingHeld == Spec => []BudgetHeld
  <1>1. Init => Typed /\ BudgetHeld
    BY TypedInit, HeldInit
  <1>2. Typed /\ BudgetHeld /\ [Next]_vars => (Typed /\ BudgetHeld)'
    BY TypedStep, HeldStep
  <1> QED BY <1>1, <1>2, PTL DEF Spec

(* The table implements the account: one call at a time books within what  *)
(* is left, is charged at most that, or forfeits it.                       *)
THEOREM TableIsAccount == Spec => AccountSpec
  <1>1. Init => Account!Init
    BY DEF Init, Account!Init, Booked, FreeRow
  <1>2. Typed /\ [Next]_vars => [Account!Next]_(Account!account)
    <2> SUFFICES ASSUME Typed, [Next]_vars PROVE [Account!Next]_(Account!account)
      OBVIOUS
    <2>1. MoneyStep
      BY MoneyMoves
    <2>2. CASE UNCHANGED <<Fate, Money>>
      BY <2>2 DEF Fate, Money, Account!account
    <2>3. ASSUME NEW c \in Call, Books(c) PROVE Account!Book(c)
      <3>0. \A S : Account!Cardinality(S) = Cardinality(S)
        BY DEF Account!Cardinality, Cardinality
      <3>1. Account!Total = Total
        BY <3>0 DEF Account!Total, Total, SumOf
      <3>2. {d \in Call : Fate[d] # "free"} = Placed
        BY DEF Fate, Placed
      <3>3. Account!Cardinality({d \in Call : Fate[d] # "free"}) < MaxCalls
        BY <2>3, <3>0, <3>2 DEF Books
      <3>4. \E amount \in 1..(Ceiling - Account!Total) : Money' = [Money EXCEPT ![c] = amount]
        BY <2>3, <3>1, Zenon DEF Books
      <3>5. Fate[c] = "free" /\ Fate' = [Fate EXCEPT ![c] = "reserved"]
        BY <2>3 DEF Books
      <3> QED BY <3>3, <3>4, <3>5 DEF Fate, Money, Account!Book
    <2>4. ASSUME NEW c \in Call, Charges(c) PROVE Account!Charge(c)
      BY <2>4 DEF Charges, Fate, Money, Account!Charge
    <2>5. ASSUME NEW c \in Call, Forfeits(c) PROVE Account!Forfeit(c)
      BY <2>5 DEF Forfeits, Fate, Money, Account!Forfeit
    <2> QED BY <2>1, <2>2, <2>3, <2>4, <2>5 DEF MoneyStep, Account!Next
  <1>3. Init => Typed
    BY TypedInit
  <1>4. Typed /\ [Next]_vars => Typed'
    BY TypedStep
  <1> QED BY <1>1, <1>2, <1>3, <1>4, PTL DEF Spec, AccountSpec, Account!Spec

(* --------------------------- the calls ---------------------------------- *)

(* Only a booking places a call, and no step changes a placed payload.     *)
LEMMA CallsMove ==
  ASSUME Typed, [Next]_vars
  PROVE  \/ /\ Placed' = Placed
            /\ \A x \in Placed : rows'[x].request = rows[x].request
         \/ \E c \in Call :
              /\ Booking(c) /\ Placed' = Placed \cup {c}
              /\ rows'[c].request = creates[c].request
              /\ \A x \in Placed : rows'[x].request = rows[x].request
  <1>0. /\ rows \in [Call -> Row] /\ usage \in [Call -> Nat \cup {NoUsage}] /\ TableStep
    BY TableMoves DEF Typed, TypeOK
  <1>1. CASE UNCHANGED <<rows, usage>>
    BY <1>1 DEF Placed
  <1>2. ASSUME NEW c \in Call, NEW r, rows' = [rows EXCEPT ![c] = r],
               r.state # "free", rows[c].state # "free", r.request = rows[c].request
        PROVE  /\ Placed' = Placed
               /\ \A x \in Placed : rows'[x].request = rows[x].request
    <2>1. \A x \in Call : /\ rows'[x].state # "free" <=> rows[x].state # "free"
                          /\ rows'[x].request = rows[x].request
      BY <1>0, <1>2
    <2> QED BY <2>1 DEF Placed
  <1>3. ASSUME NEW c \in Call, Booking(c)
        PROVE  /\ Placed' = Placed \cup {c} /\ rows'[c].request = creates[c].request
               /\ \A x \in Placed : rows'[x].request = rows[x].request
    <2>1. rows' = [rows EXCEPT ![c] = Opened(c)]
      BY <1>0, <1>3, RowAfter
    <2>2. rows'[c] = Opened(c) /\ \A x \in Call \ {c} : rows'[x] = rows[x]
      BY <1>0, <2>1
    <2>3. rows'[c].state = "reserved" /\ rows'[c].request = creates[c].request
      BY <2>2, OpenedRow
    <2>4. rows[c].state = "free"
      BY <1>3 DEF Booking, Reserve
    <2>5. Placed' = Placed \cup {c}
      BY <2>2, <2>3 DEF Placed
    <2>6. c \notin Placed /\ Placed \subseteq Call
      BY <2>4 DEF Placed
    <2> QED BY <2>2, <2>3, <2>5, <2>6
  <1>4. ASSUME NEW c \in Call, Attaching(c)
        PROVE  /\ Placed' = Placed
               /\ \A x \in Placed : rows'[x].request = rows[x].request
    <2> DEFINE r == [rows[c] EXCEPT !.attached = TRUE]
    <2>1. rows' = [rows EXCEPT ![c] = r] /\ rows[c].state = "reserved"
      BY <1>4 DEF Attaching
    <2>2. r.state = rows[c].state /\ r.request = rows[c].request
      BY <1>0 DEF Row
    <2> HIDE DEF r
    <2> QED BY <1>2, <2>1, <2>2
  <1>5. ASSUME NEW c \in Call, Forfeit(c)
        PROVE  /\ Placed' = Placed
               /\ \A x \in Placed : rows'[x].request = rows[x].request
    <2> DEFINE r == [rows[c] EXCEPT !.state = "ambiguous", !.consumed = rows[c].reserved]
    <2>1. r.state = "ambiguous" /\ r.request = rows[c].request
      BY <1>0 DEF Row
    <2>2. rows' = rows \/ (rows[c].state = "reserved" /\ rows' = [rows EXCEPT ![c] = r])
      BY <1>0, <1>5, RowAfter
    <2> HIDE DEF r
    <2>3. CASE rows' = rows
      BY <2>3 DEF Placed
    <2>4. CASE rows[c].state = "reserved" /\ rows' = [rows EXCEPT ![c] = r]
      BY <1>2, <2>1, <2>4
    <2> QED BY <2>2, <2>3, <2>4
  <1>6. ASSUME NEW c \in Call, Recording(c)
        PROVE  /\ Placed' = Placed
               /\ \A x \in Placed : rows'[x].request = rows[x].request
    <2>1. PICK cost \in Nat : RecordUsage(c, cost)
      BY <1>6 DEF Recording
    <2> DEFINE r == [rows[c] EXCEPT !.state = "settled", !.consumed = cost]
    <2>2. rows' = [rows EXCEPT ![c] = r]
      BY <1>0, <2>1, RowAfter
    <2>3. r.state = "settled" /\ r.request = rows[c].request
      BY <1>0 DEF Row
    <2>4. rows[c].state = "reserved"
      BY <2>1 DEF RecordUsage
    <2> HIDE DEF r
    <2> QED BY <1>2, <2>2, <2>3, <2>4
  <1> QED BY <1>0, <1>1, <1>3, <1>4, <1>5, <1>6 DEF TableStep

LEMMA PaidStep ==
  ASSUME Typed, PaidOnce, [Next]_vars
  PROVE  PaidOnce'
  <1>1. CASE /\ Placed' = Placed
             /\ \A x \in Placed : rows'[x].request = rows[x].request
    BY <1>1 DEF PaidOnce
  <1>2. ASSUME NEW c \in Call, Booking(c), Placed' = Placed \cup {c},
               rows'[c].request = creates[c].request,
               \A x \in Placed : rows'[x].request = rows[x].request
        PROVE  PaidOnce'
    <2>1. /\ Cardinality(Placed) < MaxCalls /\ c \notin Placed
          /\ \A x \in Placed : rows[x].request # creates[c].request
      BY <1>2 DEF Booking, Reserve, Placed
    <2>2. IsFiniteSet(Placed)
      BY Constants, FS_Subset DEF Placed
    <2>3. Cardinality(Placed \cup {c}) = Cardinality(Placed) + 1 /\ Cardinality(Placed) \in Nat
      BY <2>1, <2>2, FS_AddElement, FS_CardinalityType
    <2>4. Cardinality(Placed') <= MaxCalls
      BY <1>2, <2>1, <2>3, Constants
    <2>5. \A x, y \in Placed \cup {c} : x # y => rows'[x].request # rows'[y].request
      BY <1>2, <2>1 DEF PaidOnce
    <2> QED BY <1>2, <2>4, <2>5 DEF PaidOnce
  <1> QED BY <1>1, <1>2, CallsMove

(* No more calls are placed than allowed, no payload is paid for twice.    *)
THEOREM CallsPaidOnce == Spec => []PaidOnce
  <1>1. ASSUME Init PROVE PaidOnce
    <2>1. Placed = {}
      BY <1>1 DEF Init, Placed, FreeRow
    <2> QED BY <2>1, FS_EmptySet, Constants DEF PaidOnce
  <1>2. Typed /\ PaidOnce /\ [Next]_vars => (Typed /\ PaidOnce)'
    BY TypedStep, PaidStep
  <1>3. Init => Typed /\ PaidOnce
    BY <1>1, TypedInit
  <1> QED BY <1>2, <1>3, PTL DEF Spec

(* ----------------------- owners of reservations -------------------------- *)

Owned(r, create) == r.state = "reserved" => create.stage \in Live \cup {"lost"} \/ r.attached

(* Settling or forfeiting a call leaves it without a reservation and every *)
(* other row as it is.                                                     *)
LEMMA SettledRows ==
  ASSUME rows \in [Call -> Row], usage \in [Call -> Nat \cup {NoUsage}], NEW c \in Call,
         Forfeit(c) \/ \E cost \in Nat : RecordUsage(c, cost)
  PROVE  /\ rows'[c].state # "reserved"
         /\ \A x \in Call \ {c} : rows'[x] = rows[x]
  <1>1. CASE Forfeit(c)
    <2>1. CASE rows' = rows
      BY <1>1, <2>1 DEF Forfeit, Row
    <2>2. CASE rows' = [rows EXCEPT ![c] = [rows[c] EXCEPT
                    !.state = "ambiguous", !.consumed = rows[c].reserved]]
      BY <2>2 DEF Row
    <2> QED BY <1>1, <2>1, <2>2, RowAfter
  <1>2. ASSUME NEW cost \in Nat, RecordUsage(c, cost)
        PROVE  /\ rows'[c].state # "reserved"
               /\ \A x \in Call \ {c} : rows'[x] = rows[x]
    <2>1. rows' = [rows EXCEPT ![c] = [rows[c] EXCEPT !.state = "settled", !.consumed = cost]]
      BY <1>2, RowAfter
    <2> QED BY <2>1 DEF Row
  <1> QED BY <1>1, <1>2

LEMMA OwnedRows ==
  ASSUME rows \in [Call -> Row], EveryReservationOwned, creates' = creates,
         \A x \in Call : rows'[x] = rows[x] \/ rows'[x].state # "reserved"
  PROVE  EveryReservationOwned'
  BY DEF EveryReservationOwned

LEMMA OwnedCreate ==
  ASSUME Typed, EveryReservationOwned, NEW c \in Call, NEW create,
         creates' = [creates EXCEPT ![c] = create], Owned(rows'[c], create),
         \A x \in Call \ {c} : rows'[x] = rows[x]
  PROVE  EveryReservationOwned'
  <1>1. \A x \in Call : Owned(rows'[x], creates'[x])
    BY DEF Typed, TypeOK, EveryReservationOwned, Owned
  <1> QED BY <1>1 DEF EveryReservationOwned, Owned

LEMMA OwnedCreating ==
  ASSUME Typed, EveryReservationOwned, Creating
  PROVE  EveryReservationOwned'
  <1> USE DEF gateway, table, work
  <1>0. /\ rows \in [Call -> Row] /\ usage \in [Call -> Nat \cup {NoUsage}]
        /\ creates \in [Call -> Create] /\ provider \in [Call -> Reply]
    BY DEF Typed, TypeOK
  <1>1. PICK c \in Call :
          \/ \E q \in Request, k \in Kind : Send(c, q, k)
          \/ Admit(c) \/ Refuse(c) \/ AttachResponse(c) \/ Terminal(c) \/ CallFails(c)
          \/ OpenStream(c) \/ StartStream(c) \/ LoseHandler(c)
          \/ \E delivered, answered \in BOOLEAN : PostCreate(c, delivered, answered)
    BY DEF Creating
  <1>o. Owned(rows[c], creates[c])
    BY DEF EveryReservationOwned, Owned
  <1>s. ASSUME NEW to \in Stages, Stage(c, to)
        PROVE  /\ creates' = [creates EXCEPT ![c] = [creates[c] EXCEPT !.stage = to]]
               /\ [creates[c] EXCEPT !.stage = to].stage = to
    BY <1>0, <1>s DEF Stage, Create
  <1>2. CASE \E q \in Request, k \in Kind : Send(c, q, k)
    <2>1. PICK q \in Request, k \in Kind : Send(c, q, k)
      BY <1>2
    <2>2. creates[c].stage = "idle" /\ rows' = rows
      BY <2>1 DEF Send, Unsent
    <2>3. Owned(rows'[c], [stage |-> "counting", request |-> q, kind |-> k])
      BY <1>o, <2>2 DEF Owned, Live
    <2> QED BY <2>1, <2>2, <2>3, OwnedCreate DEF Send
  <1>3. CASE Admit(c)
    <2> DEFINE create == [creates[c] EXCEPT !.stage = "calling", !.request = NoRequest]
    <2>1. create.stage = "calling"
      BY <1>0 DEF Create
    <2>2. creates' = [creates EXCEPT ![c] = create]
      BY <1>3 DEF Admit
    <2> HIDE DEF create
    <2>3. Owned(rows'[c], create)
      BY <2>1 DEF Owned, Live
    <2>4. \A x \in Call \ {c} : rows'[x] = rows[x]
      BY <1>0, <1>3 DEF Admit, Reserve
    <2> QED BY <2>2, <2>3, <2>4, OwnedCreate
  <1>4. CASE Refuse(c)
    <2>1. creates[c].stage = "counting" /\ rows' = rows
      BY <1>4 DEF Refuse
    <2>2. Owned(rows'[c], [Unsent EXCEPT !.stage = "refused"])
      BY <1>o, <2>1 DEF Owned, Live
    <2> QED BY <1>4, <2>1, <2>2, OwnedCreate DEF Refuse
  <1>5. CASE AttachResponse(c)
    <2>1. rows'[c].attached /\ \A x \in Call \ {c} : rows'[x] = rows[x]
      <3>1. rows' = [rows EXCEPT ![c] = [rows[c] EXCEPT !.attached = TRUE]]
        BY <1>5 DEF AttachResponse
      <3>2. [rows[c] EXCEPT !.attached = TRUE].attached
        BY <1>0 DEF Row
      <3>3. rows'[c] = [rows[c] EXCEPT !.attached = TRUE]
        BY <1>0, <3>1
      <3> QED BY <1>0, <3>1, <3>2, <3>3
    <2>2. creates' = [creates EXCEPT ![c] = [creates[c] EXCEPT !.stage = "done"]]
      BY <1>s, <1>5 DEF AttachResponse, Stages
    <2>3. Owned(rows'[c], [creates[c] EXCEPT !.stage = "done"])
      BY <2>1, Zenon DEF Owned
    <2> QED BY <2>1, <2>2, <2>3, OwnedCreate
  <1>e. ASSUME NEW to \in Stages, Stage(c, to),
               Forfeit(c) \/ \E cost \in Nat : RecordUsage(c, cost)
        PROVE  EveryReservationOwned'
    <2>1. rows'[c].state # "reserved" /\ \A x \in Call \ {c} : rows'[x] = rows[x]
      BY <1>0, <1>e, SettledRows
    <2>2. Owned(rows'[c], [creates[c] EXCEPT !.stage = to])
      BY <2>1 DEF Owned
    <2> QED BY <1>s, <1>e, <2>1, <2>2, OwnedCreate
  <1>6. CASE Terminal(c)
    <2>1. provider[c].cost \in Nat
      BY <1>0, CostNat
    <2>2. CASE RecordUsage(c, provider[c].cost) /\ Stage(c, AfterUsage)
      BY <1>e, <2>1, <2>2 DEF AfterUsage, Stages
    <2>3. CASE Forfeit(c) /\ Stage(c, "failed")
      BY <1>e, <2>3 DEF Stages
    <2> QED BY <1>6, <2>2, <2>3 DEF Terminal
  <1>7. CASE CallFails(c)
    BY <1>e, <1>7 DEF CallFails, Stages
  <1>l. ASSUME NEW to \in Live \cup {"lost"}, Stage(c, to), rows' = rows
        PROVE  EveryReservationOwned'
    <2>1. to \in Stages
      BY DEF Stages, Live
    <2>2. Owned(rows'[c], [creates[c] EXCEPT !.stage = to])
      BY <1>s, <1>l, <2>1 DEF Owned
    <2> QED BY <1>s, <1>l, <2>1, <2>2, OwnedCreate
  <1>8. CASE OpenStream(c) \/ StartStream(c) \/ LoseHandler(c)
    BY <1>l, <1>8 DEF OpenStream, StartStream, LoseHandler, Live
  <1>9. CASE \E delivered, answered \in BOOLEAN : PostCreate(c, delivered, answered)
    <2>1. CASE Forfeit(c) /\ Stage(c, "failed")
      BY <1>e, <2>1 DEF Stages
    <2>2. CASE rows' = rows /\ Stage(c, "done") /\ creates[c].stage = "posting"
      <3>1. Owned(rows'[c], [creates[c] EXCEPT !.stage = "done"])
        BY <1>o, <2>2 DEF Owned, Live
      <3> QED BY <1>s, <2>2, <3>1, OwnedCreate DEF Stages
    <2> QED BY <1>9, <2>1, <2>2 DEF PostCreate
  <1> QED BY <1>1, <1>2, <1>3, <1>4, <1>5, <1>6, <1>7, <1>8, <1>9

LEMMA OwnedPolling ==
  ASSUME Typed, EveryReservationOwned, Polling
  PROVE  EveryReservationOwned'
  <1> USE DEF gateway, table, work
  <1>0. /\ rows \in [Call -> Row] /\ usage \in [Call -> Nat \cup {NoUsage}]
        /\ polls \in [Poller -> Poll]
    BY DEF Typed, TypeOK
  <1>1. PICK p \in Poller :
          \/ \E op \in {"read", "cancel"}, c \in Call : Ask(p, op, c)
          \/ Serve(p) \/ LoseAnswer(p) \/ FinishRead(p) \/ FinishCancel(p)
          \/ \E delivered, answered \in BOOLEAN : PostRead(p, delivered, answered)
    BY DEF Polling
  <1> DEFINE c == polls[p].call
  <1>2. creates' = creates
    BY <1>1 DEF Ask, Serve, LoseAnswer, FinishRead, FinishCancel, PostRead
  <1>3. CASE rows' = rows
    BY <1>0, <1>2, <1>3, OwnedRows
  <1>4. CASE polls[p].stage # "idle" /\ (Forfeit(c) \/ RecordUsage(c, polls[p].reply.cost))
    <2>1. c \in Call /\ polls[p].reply \in Reply
      BY <1>0, <1>4 DEF Typed, PollsTrue, PollTrue, Poll
    <2>2. polls[p].reply.cost \in Nat
      BY <2>1, CostNat
    <2>3. rows'[c].state # "reserved" /\ \A x \in Call \ {c} : rows'[x] = rows[x]
      BY <1>0, <1>4, <2>1, <2>2, SettledRows
    <2> QED BY <1>0, <1>2, <2>3, OwnedRows
  <1> QED BY <1>1, <1>3, <1>4 DEF Ask, Serve, LoseAnswer, FinishRead, FinishCancel, PostRead

LEMMA OwnedOutside ==
  ASSUME Typed, EveryReservationOwned, Outside
  PROVE  EveryReservationOwned'
  <1> USE DEF gateway, table, work
  <1>1. CASE Crash
    <2>1. /\ creates' = [x \in Call |->
               IF creates[x].stage \in Live \cup {"counting", "posting"}
               THEN [creates[x] EXCEPT !.stage = "lost"] ELSE creates[x]]
          /\ rows' = rows /\ creates \in [Call -> Create]
      BY <1>1 DEF Crash, Typed, TypeOK
    <2>2. \A x \in Call : [creates[x] EXCEPT !.stage = "lost"].stage = "lost"
      BY <2>1 DEF Create
    <2>3. \A x \in Call : Owned(rows'[x], creates'[x])
      BY <2>1, <2>2 DEF EveryReservationOwned, Owned
    <2> QED BY <2>3 DEF EveryReservationOwned, Owned
  <1>2. CASE UNCHANGED <<rows, creates>>
    BY <1>2, OwnedRows DEF Typed, TypeOK
  <1> QED BY <1>1, <1>2 DEF Outside, Tick, Accept, Answer

(* A row stays reserved only under a running handler, attached to a        *)
(* background response, or after its handler was lost.                     *)
THEOREM ReservationsOwned == Spec => []EveryReservationOwned
  <1>1. Init => Typed /\ EveryReservationOwned
    BY TypedInit DEF Init, EveryReservationOwned, FreeRow
  <1>2. ASSUME Typed, EveryReservationOwned, [Next]_vars PROVE EveryReservationOwned'
    <2>1. CASE Settling \/ Running \/ UNCHANGED vars
      <3>1. UNCHANGED <<rows, creates>>
        BY <2>1, SettlingTable DEF vars, table, work
      <3> QED BY <1>2, <3>1, OwnedRows DEF Typed, TypeOK
    <2> QED BY <1>2, <2>1, OwnedCreating, OwnedPolling, OwnedOutside DEF Next
  <1>3. Typed /\ EveryReservationOwned /\ [Next]_vars => (Typed /\ EveryReservationOwned)'
    BY <1>2, TypedStep
  <1> QED BY <1>1, <1>3, PTL DEF Spec

(* --------------------------- the report ---------------------------------- *)

(* What a report says of a call is what the table says, for good.          *)
ReportTrue(r) == \A c \in Call :
  r.costs[c] # NoUsage => rows[c].state = "settled" /\ r.costs[c] = usage[c]

(* The claim is true, what is being posted is the claim, and the Gateway   *)
(* has nothing but the claim.                                              *)
ClaimHeld ==
  /\ ReportTrue(claim.report)
  /\ settling # NoReport => claim.report = settling
  /\ reported # NoReport => reported = claim.report
  /\ claim.state = "settled" => reported = claim.report
  /\ mode = "resume" /\ (closed \/ result) => reported # NoReport

LEMMA SettledStays ==
  ASSUME Typed, BooksTrue, [Next]_vars, NEW c \in Call, rows[c].state = "settled"
  PROVE  rows'[c].state = "settled" /\ usage'[c] = usage[c]
  <1>0. /\ rows \in [Call -> Row] /\ usage \in [Call -> Nat \cup {NoUsage}] /\ TableStep
    BY TableMoves DEF Typed, TypeOK
  <1>1. CASE UNCHANGED <<rows, usage>>
    BY <1>1
  <1>2. ASSUME NEW d \in Call, Booking(d) \/ Attaching(d) \/ Forfeit(d) \/ Recording(d)
        PROVE  rows'[c].state = "settled" /\ usage'[c] = usage[c]
    <2>1. CASE d # c
      BY <1>0, <1>2, <2>1, OthersKeep
    <2>2. CASE d = c
      <3>1. Forfeit(c) /\ rows' = rows /\ usage' = usage
        BY <1>2, <2>2 DEF Booking, Reserve, Attaching, Forfeit, Recording, RecordUsage
      <3> QED BY <3>1
    <2> QED BY <2>1, <2>2
  <1> QED BY <1>0, <1>1, <1>2 DEF TableStep

LEMMA ClaimKept ==
  ASSUME Typed, BooksTrue, ClaimHeld, [Next]_vars,
         UNCHANGED <<claim, reported, closed, result, mode>>,
         settling' \in {settling, NoReport}
  PROVE  ClaimHeld'
  <1>1. ReportTrue(claim.report)'
    <2> SUFFICES ASSUME NEW c \in Call, claim.report.costs[c] # NoUsage
                 PROVE  rows'[c].state = "settled" /\ claim.report.costs[c] = usage'[c]
      BY DEF ReportTrue
    <2>1. rows[c].state = "settled" /\ claim.report.costs[c] = usage[c]
      BY DEF ClaimHeld, ReportTrue
    <2> QED BY <2>1, SettledStays
  <1>2. settling' # NoReport => claim'.report = settling'
    BY DEF ClaimHeld
  <1>3. /\ reported' # NoReport => reported' = claim'.report
        /\ claim'.state = "settled" => reported' = claim'.report
        /\ mode' = "resume" /\ (closed' \/ result') => reported' # NoReport
    BY DEF ClaimHeld
  <1>4. NoReport' = NoReport
    BY DEF NoReport
  <1> QED BY <1>1, <1>2, <1>3, <1>4 DEF ClaimHeld

LEMMA SettlingClaim ==
  ASSUME Typed, BooksTrue, ClaimHeld, Settling
  PROVE  ClaimHeld'
  <1> USE DEF gateway, table, work
  <1>0. /\ claim \in Claim /\ usage \in [Call -> Nat \cup {NoUsage}]
        /\ rows' = rows /\ usage' = usage /\ mode' = mode /\ mode \in Mode
    BY SettlingTable DEF Typed, TypeOK
  <1>n. NoReport' = NoReport
    BY DEF NoReport
  <1>t. \A r : ReportTrue(r) => \A c \in Call :
          r.costs[c] # NoUsage => rows'[c].state = "settled" /\ r.costs[c] = usage'[c]
    BY <1>0 DEF ReportTrue
  <1>1. CASE Finalize
    <2>1. claim = NoClaim \/ claim.report = Aggregate
      BY <1>1 DEF Finalize, Claimable
    <2>2. ReportTrue(Aggregate)
      BY DEF ReportTrue, Aggregate, BooksTrue, TrueRow
    <2>3. CASE UNCHANGED <<claim, settling>>
      BY <1>1, <1>0, <1>n, <1>t, <2>3 DEF Finalize, ClaimHeld, ReportTrue
    <2>4. CASE /\ claim' = [report |-> Aggregate, state |-> "pending"]
               /\ settling' = Aggregate
      <3>1. claim'.report = Aggregate /\ claim'.state = "pending"
        BY <2>4
      <3>2. reported' = reported /\ closed' = closed /\ result' = result
        BY <1>1 DEF Finalize
      <3>3. reported # NoReport => reported = Aggregate
        BY <2>1 DEF ClaimHeld, NoClaim
      <3>4. ReportTrue(claim.report)'
        BY <1>0, <2>2, <3>1 DEF ReportTrue
      <3> QED BY <1>0, <1>n, <2>4, <3>1, <3>2, <3>3, <3>4 DEF ClaimHeld
    <2> QED BY <1>1, <2>3, <2>4 DEF Finalize
  <1>2. CASE RefuseFinalize \/ CloseBenchmark \/ SettleCost \/ RecordResult
    <2>1. UNCHANGED <<claim, settling, reported>>
      BY <1>2 DEF RefuseFinalize, CloseBenchmark, SettleCost, RecordResult
    <2>2. mode' = "resume" /\ (closed' \/ result') => reported # NoReport
      BY <1>0, <1>2
         DEF RefuseFinalize, CloseBenchmark, SettleCost, RecordResult, ClaimHeld
    <2>3. ReportTrue(claim.report)'
      BY <1>0, <2>1 DEF ReportTrue, ClaimHeld
    <2> QED BY <1>n, <2>1, <2>2, <2>3 DEF ClaimHeld
  <1>3. CASE \E delivered, answered \in BOOLEAN : PostReport(delivered, answered)
    <2>1. /\ settling # NoReport /\ claim.report = settling /\ settling' = NoReport
          /\ reported' \in {reported, settling} /\ (reported # NoReport => reported' = reported)
          /\ closed' = closed /\ result' = result
          /\ \/ claim' = claim
             \/ claim' = [claim EXCEPT !.state = "settled"] /\ reported' = settling
      BY <1>3 DEF PostReport, ClaimHeld
    <2>2. claim'.report = claim.report
      BY <1>0, <2>1 DEF Claim
    <2>3. reported' # NoReport => reported' = claim'.report
      BY <2>1, <2>2 DEF ClaimHeld
    <2>4. claim'.state = "settled" => reported' = claim'.report
      <3>1. CASE claim' = claim
        BY <2>1, <3>1 DEF ClaimHeld
      <3>2. CASE reported' = settling
        BY <2>1, <2>2, <3>2
      <3> QED BY <2>1, <3>1, <3>2
    <2>5. mode' = "resume" /\ (closed' \/ result') => reported' # NoReport
      BY <1>0, <2>1 DEF ClaimHeld
    <2>6. ReportTrue(claim.report)'
      BY <1>0, <2>2 DEF ReportTrue, ClaimHeld
    <2> QED BY <1>n, <2>1, <2>3, <2>4, <2>5, <2>6 DEF ClaimHeld
  <1> QED BY <1>1, <1>2, <1>3 DEF Settling

(* Whatever is lost, repeated or started again, the Gateway reports what   *)
(* the proxy claimed first, of settled calls at their cost, and a resume   *)
(* has no cost and no result without it.                                   *)
THEOREM ReportClaimed == Spec => []ReportIsClaimed
  <1>1. ASSUME Init PROVE ClaimHeld
    BY <1>1 DEF Init, ClaimHeld, ReportTrue, NoClaim, NoReport
  <1>2. ASSUME Typed, BooksTrue, ClaimHeld, [Next]_vars PROVE ClaimHeld'
    <2>1. CASE Settling
      BY <1>2, <2>1, SettlingClaim
    <2>2. CASE Creating
      BY <1>2, <2>2, ClaimKept, CreatingTable
    <2>3. CASE Polling
      BY <1>2, <2>3, ClaimKept, PollingTable
    <2>4. CASE Outside
      BY <1>2, <2>4, ClaimKept, OutsideTable
    <2>5. CASE Running \/ UNCHANGED vars
      <3>1. UNCHANGED <<claim, settling, reported, closed, result, mode>>
        BY <2>5 DEF Running, Execute, ProcessEnds, RuntimeStops, vars, table, work, gateway
      <3> QED BY <1>2, <3>1, ClaimKept
    <2> QED BY <1>2, <2>1, <2>2, <2>3, <2>4, <2>5 DEF Next
  <1>3. ClaimHeld => ReportIsClaimed
    BY DEF ClaimHeld, ReportTrue, ReportIsClaimed
  <1>4. Init => Typed /\ BooksTrue /\ ClaimHeld
    BY <1>1, TypedInit, BooksInit
  <1>5. Typed /\ BooksTrue /\ ClaimHeld /\ [Next]_vars => (Typed /\ BooksTrue /\ ClaimHeld)'
    BY <1>2, TypedStep, BooksStep
  <1> QED BY <1>3, <1>4, <1>5, PTL DEF Spec
=============================================================================
