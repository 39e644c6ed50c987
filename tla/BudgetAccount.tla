---------------------------- MODULE BudgetAccount ----------------------------
(***************************************************************************)
(* What the provider budget promises: an account with a ceiling.  A call   *)
(* books an amount before it is made, never more than what is left; later  *)
(* it is charged at most that amount, or forfeits all of it.  A call that  *)
(* is charged or forfeited never changes again.                            *)
(***************************************************************************)
EXTENDS Integers, FiniteSets

CONSTANTS Call, Ceiling, MaxCalls

VARIABLES state,   (* the fate of each call     *)
          booked   (* what it holds of the budget *)

account == <<state, booked>>
(* The units of money all calls hold together. *)
Total   == Cardinality(UNION {{c} \X (1..booked[c]) : c \in Call})

Init == state = [c \in Call |-> "free"] /\ booked = [c \in Call |-> 0]

Book(c) ==
  /\ state[c] = "free"
  /\ Cardinality({d \in Call : state[d] # "free"}) < MaxCalls
  /\ \E amount \in 1..(Ceiling - Total) : booked' = [booked EXCEPT ![c] = amount]
  /\ state' = [state EXCEPT ![c] = "reserved"]

Charge(c) ==
  /\ state[c] = "reserved"
  /\ \E amount \in 0..booked[c] : booked' = [booked EXCEPT ![c] = amount]
  /\ state' = [state EXCEPT ![c] = "settled"]

Forfeit(c) ==
  /\ state[c] = "reserved"
  /\ state' = [state EXCEPT ![c] = "ambiguous"]
  /\ UNCHANGED booked

Next == \E c \in Call : Book(c) \/ Charge(c) \/ Forfeit(c)
Spec == Init /\ [][Next]_account
=============================================================================
