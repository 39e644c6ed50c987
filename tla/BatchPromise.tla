----------------------------- MODULE BatchPromise -----------------------------
(***************************************************************************)
(* What the Gateway promises about a work batch, without blocks, requests, *)
(* clocks, leases and tokens.  A batch is approved, then held in rounds.   *)
(* Providers start in a round and are gone before it ends and the next one *)
(* begins; evidence counts in the round it was given in; the batch closes  *)
(* once, in a round, and is a success only on evidence of that round.      *)
(* BatchLedger implements this specification.                              *)
(***************************************************************************)
EXTENDS Naturals

CONSTANTS Session, Outcome, MaxFailedReviews

VARIABLES standing,  \* "unapproved", "open", "held", or how the batch closed
          evidence,  \* what the round has earned
          failures,  \* failed reviews of all rounds
          provider   \* each session: "unused", "working" or "gone"

vars == <<standing, evidence, failures, provider>>

Quiet == \A s \in Session : provider[s] # "working"

Init ==
    /\ standing \in {"unapproved", "open"}
    /\ evidence = {}
    /\ failures = 0
    /\ provider = [s \in Session |-> "unused"]

Approve ==
    /\ standing = "unapproved"
    /\ standing' = "open"
    /\ UNCHANGED <<evidence, failures, provider>>

Hold ==
    /\ standing = "open"
    /\ Quiet
    /\ standing' = "held"
    /\ evidence' = {}
    /\ UNCHANGED <<failures, provider>>

(* The end of a round that was lost: another one may follow, or none. *)
Release ==
    /\ standing = "held"
    /\ Quiet
    /\ standing' \in {"open", "aborted_infra"}
    /\ UNCHANGED <<evidence, failures, provider>>

Validate ==
    /\ standing = "held"
    /\ evidence' = evidence \cup {"validated"}
    /\ UNCHANGED <<standing, failures, provider>>

Pass ==
    /\ standing = "held"
    /\ "validated" \in evidence
    /\ evidence' = evidence \cup {"passed"}
    /\ UNCHANGED <<standing, failures, provider>>

(* The last failure allowed closes the batch. *)
Fail ==
    /\ standing = "held"
    /\ "validated" \in evidence
    /\ failures' = failures + 1
    /\ standing' = IF failures' = MaxFailedReviews
                   THEN "failed_after_max_iterations" ELSE "held"
    /\ UNCHANGED <<evidence, provider>>

(* A batch does not wait for its providers when it closes. *)
Close(outcome) ==
    /\ standing = "held"
    /\ outcome = "succeeded" => evidence = {"validated", "passed"}
    /\ outcome # "failed_after_max_iterations"
    /\ standing' = outcome
    /\ UNCHANGED <<evidence, failures, provider>>

Start(s) ==
    /\ standing = "held"
    /\ provider[s] = "unused"
    /\ provider' = [provider EXCEPT ![s] = "working"]
    /\ UNCHANGED <<standing, evidence, failures>>

End(s) ==
    /\ provider[s] = "working"
    /\ provider' = [provider EXCEPT ![s] = "gone"]
    /\ UNCHANGED <<standing, evidence, failures>>

Next ==
    \/ Approve \/ Hold \/ Release
    \/ Validate \/ Pass \/ Fail
    \/ \E outcome \in Outcome : Close(outcome)
    \/ \E s \in Session : Start(s) \/ End(s)

Spec == Init /\ [][Next]_vars
==============================================================================
