-------------------------- MODULE SubproblemPromise --------------------------
(***************************************************************************)
(* What the ledger promises about a subproblem, without stages, leases or  *)
(* retries: it is proposed once, admitted or turned away once, and an      *)
(* admitted one ends at most once, with a result exactly when it succeeds. *)
(* LedgerRecorder implements this specification.                           *)
(***************************************************************************)
CONSTANTS Sub, Result, NoResult

VARIABLES phase,    \* where each subproblem stands
          outcome   \* the result recorded for it

vars == <<phase, outcome>>

Phase == {"unknown", "proposed", "declined", "open", "succeeded", "failed"}

Init ==
    /\ phase = [s \in Sub |-> "unknown"]
    /\ outcome = [s \in Sub |-> NoResult]

Propose(s) ==
    /\ phase[s] = "unknown"
    /\ phase' = [phase EXCEPT ![s] = "proposed"]
    /\ UNCHANGED outcome

Decline(s) ==
    /\ phase[s] = "proposed"
    /\ phase' = [phase EXCEPT ![s] = "declined"]
    /\ UNCHANGED outcome

Admit(s) ==
    /\ phase[s] = "proposed"
    /\ phase' = [phase EXCEPT ![s] = "open"]
    /\ UNCHANGED outcome

Succeed(s) ==
    /\ phase[s] = "open"
    /\ phase' = [phase EXCEPT ![s] = "succeeded"]
    /\ \E r \in Result : outcome' = [outcome EXCEPT ![s] = r]

Fail(s) ==
    /\ phase[s] = "open"
    /\ phase' = [phase EXCEPT ![s] = "failed"]
    /\ UNCHANGED outcome

Next == \E s \in Sub : Propose(s) \/ Decline(s) \/ Admit(s)
                          \/ Succeed(s) \/ Fail(s)

Spec == Init /\ [][Next]_vars
==============================================================================
