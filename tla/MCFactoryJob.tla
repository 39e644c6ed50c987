---------------------------- MODULE MCFactoryJob ----------------------------
(***************************************************************************)
(* Small instances of a factory job.                                       *)
(***************************************************************************)
EXTENDS FactoryJob, TLC

Sym == Permutations(Runner)

(* A job whose second build has passed: the log, the rows and the records  *)
(* that one runner leaves behind when the first of two test runs failed    *)
(* and Captain asked for an improvement.  All leases taken so far have     *)
(* lapsed since.                                                           *)
MCRun(number, ok) == Evidence(Key(1, number, 0), 5, ok, TRUE, FALSE)

MCRuns == <<MCRun(1, FALSE), MCRun(2, TRUE)>>

MCBuilt(attempt, lease) ==
  <<Block("blueprint_created", attempt, "succeeded", lease, <<>>, 0),
    Block("tool_candidate_tested", attempt, "succeeded", lease + 1, <<>>, 0),
    Block("agent_code_created", attempt, "succeeded", lease + 2, <<>>, 0),
    Block("build_passed", attempt, "succeeded", lease + 3, <<>>, 0)>>

MCLog ==
  <<Block("forge_requested", 1, "succeeded", 0, <<>>, 0)>> \o MCBuilt(1, 1)
    \o <<Block("real_case_evidence", 1, "failed", 5, MCRuns, 0),
         Block("improvement_requested", 1, "succeeded", 0, <<>>, 6)>>
    \o MCBuilt(2, 6)

MCLeases(attempt) ==
  LET lease(kind) == [kind |-> kind, attempt |-> attempt, since |-> 0]
  IN <<lease("dispatch_agent_architect"), lease("dispatch_tool_integrator"),
       lease("submit_forge_job"), lease("dispatch_build_validator")>>

MCClaim(e) ==
  [state |-> "completed", lease |-> 5, ordinal |-> 0, evidence |-> <<e>>]

MCInit ==
  /\ blocks = MCLog
  /\ leases = MCLeases(1)
       \o <<[kind |-> "dispatch_real_case_tester", attempt |-> 1, since |-> 0]>>
       \o MCLeases(2)
  /\ lapsed = [i \in 1..9 |-> i]
  /\ executions = [a \in 1..MaxIterations |-> IF a = 1 THEN MCRuns ELSE <<>>]
  /\ reviews = [a \in 1..MaxIterations |-> [stage |-> "none", verdict |-> "none"]]
  /\ claims = (Key(1, 1, 0) :> MCClaim(MCRuns[1])) @@ (Key(1, 2, 0) :> MCClaim(MCRuns[2]))
  /\ usage = (Key(1, 1, 0) :> 1) @@ (Key(1, 2, 0) :> 1)
  /\ grants = {} /\ open = {} /\ resume = "none"
  /\ runner = [r \in Runner |-> Resting]
  /\ drafts = {} /\ faults = 0

MCSpec == MCInit /\ [][Next]_vars
=============================================================================
