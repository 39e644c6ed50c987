------------------------------- MODULE Circuit -------------------------------
(***************************************************************************)
(* The Supervisor's circuit breaker for one agent type: a rolling window   *)
(* of outcomes and a state, changed only when an outcome is recorded.  No  *)
(* state here: SupplyChain keeps one record per agent type.                *)
(***************************************************************************)
EXTENDS Naturals, Sequences, FiniteSets

CONSTANTS Window,       \* circuit_window: outcomes remembered
          FailuresOver, \* circuit_failure_threshold, as the fraction
          OutOf         \* FailuresOver / OutOf

ASSUME CircuitAssumption ==
    /\ Window \in Nat \ {0}
    /\ FailuresOver \in Nat
    /\ OutOf \in Nat \ {0}

CircuitState == {"closed", "open", "half_open"}

(* An outcome is TRUE for a failure, as in the deque of the code. *)
Circuit == [state : CircuitState, outcomes : Seq(BOOLEAN)]

(* _set_circuit_state: every state starts with an empty window. *)
Fresh(state) == [state |-> state, outcomes |-> <<>>]

(* deque(maxlen = Window).append *)
Remember(outcomes, failure) ==
    LET longer == Append(outcomes, failure)
    IN  IF Len(longer) > Window THEN Tail(longer) ELSE longer

Failures(outcomes) == Cardinality({i \in DOMAIN outcomes : outcomes[i]})

(* _failure_fraction(info) > circuit_failure_threshold *)
TooManyFailures(outcomes) ==
    Failures(outcomes) * OutOf > FailuresOver * Len(outcomes)

(* _maybe_open_to_half_open; timedOut tells whether                        *)
(* circuit_half_open_after_seconds have passed since the circuit opened.   *)
OnAccess(c, timedOut) ==
    IF c.state = "open" /\ timedOut THEN Fresh("half_open") ELSE c

(* _record_circuit_outcome *)
AfterOutcome(c, failure, timedOut) ==
    LET now == OnAccess(c, timedOut)
        recorded == [now EXCEPT !.outcomes = Remember(@, failure)]
    IN  IF failure /\ now.state # "open" /\ TooManyFailures(recorded.outcomes)
        THEN Fresh("open")
        ELSE IF ~failure /\ now.state = "half_open" THEN Fresh("closed")
        ELSE recorded
==============================================================================
