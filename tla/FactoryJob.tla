----------------------------- MODULE FactoryJob -----------------------------
(***************************************************************************)
(* One Agent factory job.  The Gateway keeps the job's log of evidence     *)
(* blocks, the leases of the Hermes roles, the table of team executions    *)
(* and the quality reviews; its lifecycle is a function of the log.  A     *)
(* runner reads the next allowed action, ensures a lease for it and        *)
(* dispatches it; Captain requests improvements and revalidations,         *)
(* promotes and escalates.  Several runners and Captain's scripts may be   *)
(* at work on the same job, and each may stop at any point.                *)
(*                                                                         *)
(* A real-case test is a series of paid team runs.  Every run is claimed   *)
(* in the replay store before it may spend, and its evidence is kept       *)
(* there, so that a second dispatch finds the first one's result.          *)
(*                                                                         *)
(* Left out: the lease of a tester for a benchmark suite while the review  *)
(* is due (_assert_lease_is_next_action), and the receipts of benchmarks,  *)
(* which a release accepts beside those of its runs.                       *)
(*                                                                         *)
(* An operator that follows one transaction of the Gateway or one handler  *)
(* of a runner is one action.  Time is only whether a lease has lapsed.    *)
(***************************************************************************)
EXTENDS Integers, Sequences, FiniteSets

CONSTANTS Runner,            (* processes that dispatch the job             *)
          MaxIterations,     (* max_behavioral_iterations, 5 at most        *)
          RequiredRuns,      (* required_live_runs: 1 for demo, 3 release   *)
          MaxRetries,        (* retries Captain may grant to a run, 3       *)
          MaxLeases,         (* bound: leases on record                     *)
          MaxLapses,         (* bound: leases that lapse                    *)
          MaxFaults,         (* bound: crashes and infrastructure failures  *)
          MaxDrafts,         (* bound: Captain's scripts at work at a time  *)
          MaxRevalidations   (* bound: revalidations Captain asks for       *)

ASSUME FactoryAssumption ==
  /\ MaxIterations \in Nat \ {0} /\ RequiredRuns \in Nat \ {0}
  /\ MaxRetries \in Nat /\ MaxLeases \in Nat /\ MaxLapses \in Nat
  /\ MaxFaults \in Nat /\ MaxDrafts \in Nat /\ MaxRevalidations \in Nat

VARIABLES
  blocks,      (* the evidence blocks of the job, in the ledger's order     *)
  leases,      (* the leases on record                                      *)
  lapsed,      (* the leases that expired, in the order they did            *)
  executions,  (* factory_workflow_artifacts: attempt -> its team runs      *)
  reviews,     (* the evaluation and feedback artifacts of each attempt     *)
  claims,      (* the replay store: run -> what is known of it              *)
  grants,      (* Captain's authorities to retry a failed run               *)
  open,        (* runs with a budget reservation neither settled nor freed  *)
  usage,       (* how often each run went on to spend                       *)
  resume,      (* what a capability resume did to the job's budget          *)
  runner,      (* what each runner is doing                                 *)
  drafts,      (* blocks that Captain's scripts decided on, not yet sent    *)
  faults       (* faults so far                                             *)

gateway == <<blocks, leases, executions, reviews>>
money   == <<claims, grants, open, usage, resume>>
vars    == <<gateway, lapsed, money, runner, drafts, faults>>

-----------------------------------------------------------------------------
(* Actions, roles and phases.                                              *)

Role == [dispatch_agent_architect        |-> "agent_architect",
         dispatch_tool_integrator        |-> "tool_integrator",
         submit_forge_job                |-> "tool_integrator",
         dispatch_build_validator        |-> "tool_integrator",
         dispatch_real_case_tester       |-> "real_case_tester",
         dispatch_technical_revalidation |-> "real_case_tester",
         dispatch_quality_warden         |-> "quality_warden"]

Dispatched == DOMAIN Role

TestPhases == {"real_case_evidence", "real_case_revalidated"}

(* The phase that a role's successful evidence has.                        *)
PhaseOf == [dispatch_agent_architect        |-> "blueprint_created",
            dispatch_tool_integrator        |-> "tool_candidate_tested",
            submit_forge_job                |-> "agent_code_created",
            dispatch_build_validator        |-> "build_passed",
            dispatch_real_case_tester       |-> "real_case_evidence",
            dispatch_technical_revalidation |-> "real_case_revalidated",
            dispatch_quality_warden         |-> "quality_reviewed"]

IsTest(kind) == Role[kind] = "real_case_tester"

(* The phases that may follow a phase, "initial" before the first block.   *)
NextPhases ==
  LET again == {"quality_reviewed", "improvement_requested",
                "technical_revalidation_requested"}
  IN [initial                          |-> {"forge_requested"},
      forge_requested                  |-> {"blueprint_created"},
      improvement_requested            |-> {"blueprint_created"},
      blueprint_created                |-> {"tool_candidate_tested"},
      tool_candidate_tested            |-> {"agent_code_created"},
      agent_code_created               |-> {"build_passed", "build_failed"},
      build_passed                     |-> {"real_case_evidence"},
      real_case_evidence               |-> again,
      technical_revalidation_requested |-> {"real_case_revalidated",
                                            "technical_revalidation_requested"},
      real_case_revalidated            |-> again,
      build_failed                     |-> {"improvement_requested", "escalated"},
      quality_reviewed                 |-> {"improvement_requested",
                                            "capability_promoted", "escalated"},
      capability_promoted              |-> {},
      escalated                        |-> {}]

-----------------------------------------------------------------------------
(* Team runs and their evidence.                                           *)

(* What identifies a run: its attempt, its number, and for a revalidation  *)
(* the request that authorized it (0 for a first test).                    *)
Key(attempt, number, source) ==
  [attempt |-> attempt, number |-> number, source |-> source]

(* TeamExecutionEvidenceV1; late when it is dated after its lease lapsed.  *)
Evidence(key, lease, ok, paid, late) ==
  [attempt |-> key.attempt, number |-> key.number, source |-> key.source,
   lease |-> lease, ok |-> ok, paid |-> paid, late |-> late]

KeyOf(e) == Key(e.attempt, e.number, e.source)

Used(key) == IF key \in DOMAIN usage THEN usage[key] ELSE 0

-----------------------------------------------------------------------------
(* What the Gateway derives from the log and the tables.                   *)

Last(s) == s[Len(s)]

Phase == IF blocks = <<>> THEN "initial" ELSE Last(blocks).phase

(* The attempt that the blocks bs have reached.                            *)
AttemptAfter(bs) ==
  IF bs = <<>> THEN 1
  ELSE IF Last(bs).phase = "improvement_requested"
       THEN Last(bs).attempt + 1
       ELSE Last(bs).attempt

Attempt == AttemptAfter(blocks)

Terminal == Phase \in {"capability_promoted", "escalated"}

Waiting == blocks # <<>> /\ Last(blocks).status = "infrastructure_failed"

Of(attempt) == executions[attempt]

(* A release job, a review that recommends the candidate, the right number *)
(* of distinct, successful runs with receipts, and no receipt of the       *)
(* attempt that is not theirs.                                             *)
RunsReady(attempt) ==
  LET runs == Of(attempt)
  IN /\ RequiredRuns > 1
     /\ \A key \in DOMAIN usage : key.attempt = attempt =>
          usage[key] = 1 /\ \E i \in DOMAIN runs : KeyOf(runs[i]) = key
     /\ reviews[attempt].verdict = "promote"
     /\ Len(runs) = RequiredRuns
     /\ \A i, j \in DOMAIN runs : runs[i].number = runs[j].number => i = j
     /\ \A i \in DOMAIN runs : runs[i].ok /\ runs[i].paid

(* Faulty: reservations that runs left open do not count.                  *)
ReadyWhileOpen(attempt) == RunsReady(attempt) /\ resume = "none"

(* evaluate_factory_workflow_release over the rows of the attempt and the  *)
(* budget of the job: it has no active reservation, and usage receipts     *)
(* cover what it consumed.  A resume's reservation is an active one, and   *)
(* its cost has no usage receipt.                                          *)
ReleaseReady(attempt) == RunsReady(attempt) /\ open = {} /\ resume = "none"

(* Faulty: no ceiling of behavioral iterations.                            *)
AppliesForever(bs, b) ==
  LET phase == IF bs = <<>> THEN "initial" ELSE Last(bs).phase
  IN /\ b.attempt = AttemptAfter(bs)
     /\ b.phase \in NextPhases[phase]
     /\ b.status # "infrastructure_failed" =>
          /\ b.phase = "capability_promoted" =>
               reviews[b.attempt].stage = "reported" /\ ReleaseReady(b.attempt)
          /\ b.phase = "quality_reviewed" =>
               reviews[b.attempt].stage # "evaluated"

(* apply_block: may block b follow the blocks bs?                          *)
Applies(bs, b) ==
  LET phase == IF bs = <<>> THEN "initial" ELSE Last(bs).phase
  IN /\ b.attempt = AttemptAfter(bs)
     /\ b.phase \in NextPhases[phase]
     /\ b.status # "infrastructure_failed" =>
          /\ b.phase = "improvement_requested" => b.attempt < MaxIterations
          /\ b.phase = "capability_promoted" =>
               reviews[b.attempt].stage = "reported" /\ ReleaseReady(b.attempt)
          /\ b.phase = "quality_reviewed" =>
               reviews[b.attempt].stage # "evaluated"

(* _factory_projection: the log is applied from its first block, by today's *)
(* reviews, rows and budget.  What reads or writes the job starts with it,  *)
(* and raises when a block is refused.                                      *)
Readable ==
  \A i \in DOMAIN blocks : Applies(SubSeq(blocks, 1, i - 1), blocks[i])

(* The last evidence of a test in the current attempt, 0 if there is none. *)
LastTest ==
  LET tests == {i \in DOMAIN blocks : /\ blocks[i].attempt = Attempt
                                      /\ blocks[i].phase \in TestPhases}
  IN IF tests = {} THEN 0 ELSE CHOOSE i \in tests : \A j \in tests : j <= i

(* record_factory_block: a revalidation also names the latest evidence,    *)
(* which must have failed.                                                 *)
Accepts(b) ==
  /\ Applies(blocks, b)
  /\ b.phase = "technical_revalidation_requested" =>
       /\ LastTest # 0
       /\ blocks[LastTest].status = "failed"
       /\ b.source = LastTest

(* next_action: the next side effect the projection alone allows.          *)
(* At a quality review it needs the review, which only the coordinator     *)
(* gives it: for the Gateway's own check of a lease there is no action.    *)
PhaseAction ==
  [initial                          |-> "append_forge_requested",
   forge_requested                  |-> "dispatch_agent_architect",
   improvement_requested            |-> "dispatch_agent_architect",
   blueprint_created                |-> "dispatch_tool_integrator",
   tool_candidate_tested            |-> "submit_forge_job",
   agent_code_created               |-> "dispatch_build_validator",
   build_passed                     |-> "dispatch_real_case_tester",
   technical_revalidation_requested |-> "dispatch_technical_revalidation",
   real_case_evidence               |-> "dispatch_quality_warden",
   real_case_revalidated            |-> "dispatch_quality_warden",
   capability_promoted              |-> "complete",
   escalated                        |-> "complete",
   quality_reviewed                 |-> "none",
   build_failed                     |-> IF Attempt < MaxIterations
                                        THEN "append_improvement_requested"
                                        ELSE "append_escalated"]

GatewayAction == IF Waiting THEN "wait_infrastructure" ELSE PhaseAction[Phase]

(* FactoryCoordinator.next_action: failed tests ask for an improvement,    *)
(* a review for what it recommends.                                        *)
NextAction ==
  CASE Waiting -> "wait_infrastructure"
    [] ~Waiting /\ Phase \in TestPhases /\ Last(blocks).status = "failed"
         -> "append_improvement_requested"
    [] ~Waiting /\ Phase = "quality_reviewed"
         -> CASE reviews[Attempt].verdict = "promote" /\ ReleaseReady(Attempt)
                   -> "validate_for_promotion"
              [] reviews[Attempt].verdict = "retry" /\ Attempt < MaxIterations
                   -> "append_improvement_requested"
              [] OTHER -> "append_escalated"
    [] OTHER -> PhaseAction[Phase]

-----------------------------------------------------------------------------
(* Leases.                                                                 *)

Live == DOMAIN leases \ {lapsed[i] : i \in DOMAIN lapsed}

(* The Gateway takes a lease, new or replayed, while its role is the one   *)
(* of the next action and its attempt the current one.                     *)
MayLease(kind, attempt) ==
  /\ attempt = Attempt
  /\ GatewayAction \in Dispatched
  /\ Role[GatewayAction] = Role[kind]

(* The lease ensure_for finds for an action: the latest live one, 0 for    *)
(* none.  A quality lease with little time left is passed over.            *)
Found(kind, attempt) ==
  LET mine == {l \in Live : leases[l].kind = kind /\ leases[l].attempt = attempt}
  IN IF mine = {} THEN {0}
     ELSE {CHOOSE l \in mine : \A k \in mine : k <= l}
            \cup (IF kind = "dispatch_quality_warden" THEN {0} ELSE {})

(* _same_or_valid_successor_lease: the workspace of the same action, and   *)
(* issued when the old lease had lapsed.                                   *)
Succeeds(old, new) ==
  \/ old = new
  \/ /\ leases[old].kind = leases[new].kind
     /\ leases[old].attempt = leases[new].attempt
     /\ \E i \in 1..leases[new].since : lapsed[i] = old

-----------------------------------------------------------------------------
(* Team runs in the Gateway's table.                                       *)

Recorded(key) == \E i \in DOMAIN Of(key.attempt) : KeyOf(Of(key.attempt)[i]) = key

(* Faulty: the row of a run passes for any evidence of it.                 *)
KnownRun(e) == Recorded(KeyOf(e))

(* The rows show the same evidence: a run that was claimed has one stored  *)
(* evidence, a failed preflight makes new evidence every time.             *)
Known(e) == e.paid /\ \E i \in DOMAIN Of(e.attempt) : Of(e.attempt)[i] = e

(* record_factory_workflow_artifact and _assert_workflow_sequence.         *)
MayRecord(e) ==
  /\ ~Recorded(KeyOf(e))
  /\ ~Terminal
  /\ Phase \in {"build_passed", "technical_revalidation_requested"}
  /\ e.attempt = Attempt
  /\ reviews[Attempt].stage = "none"
  /\ \/ \A i \in DOMAIN Of(Attempt) : Of(Attempt)[i].number # e.number
     \/ /\ Phase = "technical_revalidation_requested"
        /\ Of(Attempt) # <<>>
        /\ ~Last(Of(Attempt)).ok
        /\ e.number = Last(Of(Attempt)).number
        /\ e.source = Len(blocks)
  /\ ~e.late

(* effective_team_execution_evidence: the last row of each run number.     *)
Effective(attempt) ==
  LET runs == Of(attempt)
  IN {runs[i] : i \in {k \in DOMAIN runs :
        \A j \in DOMAIN runs : runs[j].number = runs[k].number => j <= k}}

-----------------------------------------------------------------------------
(* The state.                                                              *)

Resting == [pc |-> "idle", kind |-> "none", attempt |-> 0, source |-> 0,
            lease |-> 0, evidence |-> <<>>, recorded |-> 0]

Block(phase, attempt, status, lease, runs, source) ==
  [phase |-> phase, attempt |-> attempt, status |-> status,
   lease |-> lease, runs |-> runs, source |-> source]

Keys == [attempt : 1..MaxIterations, number : 1..RequiredRuns, source : Nat]

Init ==
  /\ blocks = <<>> /\ leases = <<>> /\ lapsed = <<>>
  /\ executions = [a \in 1..MaxIterations |-> <<>>]
  /\ reviews = [a \in 1..MaxIterations |-> [stage |-> "none", verdict |-> "none"]]
  /\ claims = <<>> /\ grants = {} /\ open = {} /\ usage = <<>> /\ resume = "none"
  /\ runner = [r \in Runner |-> Resting]
  /\ drafts = {} /\ faults = 0

Become(r, state) == runner' = [runner EXCEPT ![r] = state]

Stop(r) == Become(r, Resting)

(* coordinator.record: the Gateway takes the block or refuses it; the      *)
(* runner is done either way.                                              *)
Submit(r, b) ==
  /\ blocks' = IF Accepts(b) THEN Append(blocks, b) ELSE blocks
  /\ Stop(r)

-----------------------------------------------------------------------------
(* A runner: plan, ensure a lease, dispatch.                               *)

Plan(r) ==
  /\ runner[r].pc = "idle"
  /\ NextAction \in Dispatched
  /\ \E lease \in Found(NextAction, Attempt) :
       Become(r, [Resting EXCEPT !.pc = "planned", !.kind = NextAction,
                                 !.attempt = Attempt, !.lease = lease])
  /\ UNCHANGED <<gateway, lapsed, money, drafts, faults>>

Ensure(r) ==
  LET me == runner[r]
      new == [kind |-> me.kind, attempt |-> me.attempt, since |-> Len(lapsed)]
  IN /\ me.pc = "planned"
     /\ IF ~MayLease(me.kind, me.attempt)
        THEN Stop(r) /\ UNCHANGED leases
        ELSE IF me.lease # 0
        THEN Become(r, [me EXCEPT !.pc = "leased"]) /\ UNCHANGED leases
        ELSE /\ Len(leases) < MaxLeases
             /\ leases' = Append(leases, new)
             /\ Become(r, [me EXCEPT !.pc = "leased", !.lease = Len(leases')])
     /\ UNCHANGED <<blocks, lapsed, executions, reviews, money, drafts, faults>>

(* leases.active: the lease that ensure_for left for this role and attempt *)
(* is still the Gateway's, and has not lapsed.                             *)
Holds(r, kind) ==
  LET lease == runner[r].lease
  IN /\ lease \in Live
     /\ Role[leases[lease].kind] = Role[kind]
     /\ leases[lease].attempt = Attempt
     /\ MayLease(kind, Attempt)

(* dispatch_next asks for the next action anew.  It looks for the lease    *)
(* before it dispatches, except for a Forge job, where it does afterwards. *)
Dispatch(r) ==
  LET kind == NextAction
      source == IF kind = "dispatch_technical_revalidation" THEN Len(blocks) ELSE 0
  IN /\ runner[r].pc = "leased"
     /\ IF kind \in Dispatched /\ (kind = "submit_forge_job" \/ Holds(r, kind))
        THEN Become(r, [runner[r] EXCEPT !.pc = "working", !.kind = kind,
                          !.attempt = Attempt, !.source = source])
        ELSE Stop(r)
     /\ UNCHANGED <<gateway, lapsed, money, drafts, faults>>

(* Hermes' Architect and Integrator date their block when they finish.     *)
DeliverSkill(r) ==
  LET me == runner[r]
  IN /\ me.pc = "working"
     /\ me.kind \in {"dispatch_agent_architect", "dispatch_tool_integrator"}
     /\ Submit(r, Block(PhaseOf[me.kind], me.attempt, "succeeded", me.lease, <<>>, 0))
     /\ UNCHANGED <<leases, lapsed, executions, reviews, money, drafts, faults>>

DeliverForge(r) ==
  LET me == runner[r]
      b == Block("agent_code_created", me.attempt, "succeeded", me.lease, <<>>, 0)
  IN /\ me.pc = "working" /\ me.kind = "submit_forge_job"
     /\ IF Holds(r, me.kind) /\ leases[me.lease].attempt = me.attempt
        THEN Submit(r, b)
        ELSE Stop(r) /\ UNCHANGED blocks
     /\ UNCHANGED <<leases, lapsed, executions, reviews, money, drafts, faults>>

(* The build validator dates its block when its lease was issued.          *)
DeliverBuild(r) ==
  LET me == runner[r]
  IN /\ me.pc = "working" /\ me.kind = "dispatch_build_validator"
     /\ \E status \in {"succeeded", "failed"} :
          Submit(r, Block(IF status = "succeeded" THEN "build_passed" ELSE "build_failed",
                          me.attempt, status, me.lease, <<>>, 0))
     /\ UNCHANGED <<leases, lapsed, executions, reviews, money, drafts, faults>>

(* The candidate cannot be read, the evidence not be kept, or a test's      *)
(* runner fails before it spends anything.                                 *)
DeliverInfrastructure(r) ==
  LET me == runner[r]
      phase == IF me.kind = "dispatch_build_validator" THEN "build_failed"
               ELSE PhaseOf[me.kind]
  IN /\ me.pc \in {"working", "broken"} /\ faults < MaxFaults
     /\ me.kind = "dispatch_build_validator" \/ IsTest(me.kind)
     /\ Submit(r, Block(phase, me.attempt, "infrastructure_failed", me.lease, <<>>, 0))
     /\ faults' = faults + 1
     /\ UNCHANGED <<leases, lapsed, executions, reviews, money, drafts>>

-----------------------------------------------------------------------------
(* The real-case tester: it makes all runs, then records them one by one,  *)
(* then sends one block for all of them.                                   *)

Needed(r) == IF runner[r].kind = "dispatch_real_case_tester" THEN RequiredRuns ELSE 1

Testing(r) == runner[r].pc = "working" /\ IsTest(runner[r].kind)

Running(r) == Testing(r) /\ Len(runner[r].evidence) < Needed(r)

(* The run a tester is at.                                                 *)
Current(r) ==
  Key(runner[r].attempt, Len(runner[r].evidence) + 1, runner[r].source)

Collect(r, e) ==
  Become(r, [runner[r] EXCEPT !.pc = "working",
                              !.evidence = Append(runner[r].evidence, e)])

With(f, key, value) == [k \in DOMAIN f \cup {key} |-> IF k = key THEN value ELSE f[k]]

Without(f, key) == [k \in DOMAIN f \ {key} |-> f[k]]

(* A run does not start with a lapsed lease, and what a skill or a review  *)
(* dates after its lease lapsed is refused.                                *)
LeaseLapsed(r) ==
  /\ \/ Running(r)
     \/ runner[r].pc = "working" /\ runner[r].kind \in
          {"dispatch_agent_architect", "dispatch_tool_integrator", "dispatch_quality_warden"}
     \/ runner[r].pc \in {"evaluated", "reported"}
  /\ runner[r].lease \notin Live
  /\ Stop(r)
  /\ UNCHANGED <<gateway, lapsed, money, drafts, faults>>

FailPreflight(r) ==
  /\ Running(r) /\ runner[r].lease \in Live
  /\ Collect(r, Evidence(Current(r), runner[r].lease, FALSE, FALSE, FALSE))
  /\ UNCHANGED <<gateway, lapsed, money, drafts, faults>>

(* Faulty: a claim that nobody has completed is taken over.                *)
ClaimAnyway(r) ==
  LET key == Current(r)
      lease == runner[r].lease
      pending == [state |-> "pending", lease |-> lease, ordinal |-> 0, evidence |-> <<>>]
  IN /\ Running(r) /\ lease \in Live
     /\ key \in DOMAIN claims => claims[key].state = "pending"
     /\ claims' = With(claims, key, pending)
     /\ Become(r, [runner[r] EXCEPT !.pc = "claimed"])
     /\ UNCHANGED <<gateway, lapsed, grants, open, usage, resume, drafts, faults>>

(* replay_store.claim creates the record of the run, or reads it: a        *)
(* completed run is not made again.                                        *)
Claim(r) ==
  LET key == Current(r)
      lease == runner[r].lease
      pending == [state |-> "pending", lease |-> lease, ordinal |-> 0, evidence |-> <<>>]
  IN /\ Running(r) /\ lease \in Live
     /\ key \notin DOMAIN claims
     /\ claims' = With(claims, key, pending)
     /\ Become(r, [runner[r] EXCEPT !.pc = "claimed"])
     /\ UNCHANGED <<gateway, lapsed, grants, open, usage, resume, drafts, faults>>

Replay(r) ==
  LET key == Current(r)
  IN /\ Running(r) /\ runner[r].lease \in Live
     /\ key \in DOMAIN claims
     /\ IF claims[key].state = "completed" /\ Succeeds(claims[key].lease, runner[r].lease)
        THEN Collect(r, claims[key].evidence[1])
        ELSE Stop(r)
     /\ UNCHANGED <<gateway, lapsed, money, drafts, faults>>

(* Captain's authority for the next retry of a failed run: one file for    *)
(* each ordinal, bound to that failure.                                    *)
GrantRetry ==
  \E key \in DOMAIN claims :
    LET ordinal == claims[key].ordinal + 1
    IN /\ claims[key].state = "failed"
       /\ ordinal <= MaxRetries
       /\ \A g \in grants : ~(g.key = key /\ g.ordinal = ordinal)
       /\ grants' = grants \cup
            {[key |-> key, ordinal |-> ordinal, failure |-> Used(key)]}
       /\ UNCHANGED <<gateway, lapsed, claims, open, usage, resume, runner, drafts, faults>>

RetryFailed(r) ==
  LET key == Current(r)
      old == claims[key]
      retried == [old EXCEPT !.state = "pending", !.lease = runner[r].lease,
                             !.ordinal = @ + 1]
  IN /\ Running(r) /\ runner[r].lease \in Live
     /\ key \in DOMAIN claims /\ old.state = "failed"
     /\ [key |-> key, ordinal |-> old.ordinal + 1, failure |-> Used(key)] \in grants
     /\ Succeeds(old.lease, runner[r].lease)
     /\ claims' = With(claims, key, retried)
     /\ Become(r, [runner[r] EXCEPT !.pc = "claimed"])
     /\ UNCHANGED <<gateway, lapsed, grants, open, usage, resume, drafts, faults>>

(* The first model call reserves budget, which a job that has ended        *)
(* refuses; so does one without budget left.  A run that spent nothing     *)
(* gives its claim back, and may count as an infrastructure failure.       *)
Spend(r) ==
  LET key == Current(r)
  IN /\ runner[r].pc = "claimed" /\ ~Terminal
     /\ open' = open \cup {key}
     /\ usage' = With(usage, key, Used(key) + 1)
     /\ Become(r, [runner[r] EXCEPT !.pc = "running"])
     /\ UNCHANGED <<gateway, lapsed, claims, grants, resume, drafts, faults>>

Abandon(r) ==
  /\ runner[r].pc = "claimed"
  /\ claims' = Without(claims, Current(r))
  /\ Stop(r) \/ Become(r, [runner[r] EXCEPT !.pc = "broken"])
  /\ UNCHANGED <<gateway, lapsed, grants, open, usage, resume, drafts, faults>>

(* The run ends by itself, or when its lease lapses: then its evidence may *)
(* be dated after the lease.  What it spent may stay unknown, and its      *)
(* reservation open; such a run did not succeed.                           *)
Finish(r) ==
  LET key == Current(r)
      lease == runner[r].lease
  IN /\ runner[r].pc = "running"
     /\ \E ok, late, settled \in BOOLEAN :
          LET e == Evidence(key, lease, ok, TRUE, late)
          IN /\ ok => settled
             /\ late => lease \notin Live
             /\ claims' = With(claims, key, [claims[key] EXCEPT !.state = "completed",
                                                               !.evidence = <<e>>])
             /\ open' = IF settled THEN open \ {key} ELSE open
             /\ Collect(r, e)
     /\ UNCHANGED <<gateway, lapsed, grants, usage, resume, drafts, faults>>

(* The evidence does not bind to the invocation: the run has failed.       *)
FinishUnbound(r) ==
  LET key == Current(r)
  IN /\ runner[r].pc = "running"
     /\ claims' = With(claims, key, [claims[key] EXCEPT !.state = "failed"])
     /\ open' = open \ {key}
     /\ Stop(r)
     /\ UNCHANGED <<gateway, lapsed, grants, usage, resume, drafts, faults>>

(* The next evidence of the bundle is checked against the dispatch, then   *)
(* recorded.                                                               *)
RecordRun(r) ==
  LET me == runner[r]
      e == me.evidence[me.recorded + 1]
  IN /\ Testing(r) /\ Len(me.evidence) = Needed(r) /\ me.recorded < Needed(r)
     /\ IF e.lease = me.lease /\ (Known(e) \/ MayRecord(e))
        THEN /\ executions' = IF Known(e) THEN executions
                              ELSE [executions EXCEPT ![e.attempt] = Append(@, e)]
             /\ Become(r, [me EXCEPT !.recorded = @ + 1])
        ELSE Stop(r) /\ UNCHANGED executions
     /\ UNCHANGED <<blocks, leases, reviews, lapsed, money, drafts, faults>>

DeliverTest(r) ==
  LET me == runner[r]
      status == IF \A i \in DOMAIN me.evidence : me.evidence[i].ok
                THEN "succeeded" ELSE "failed"
  IN /\ Testing(r) /\ me.recorded = Needed(r)
     /\ Submit(r, Block(PhaseOf[me.kind], me.attempt, status, me.lease, me.evidence, 0))
     /\ UNCHANGED <<leases, executions, reviews, lapsed, money, drafts, faults>>

-----------------------------------------------------------------------------
(* The quality review: evaluation artifact, feedback artifact, block.      *)

(* Production inputs need the effective evidence of every run to be good.  *)
Reviewable(attempt) ==
  /\ Cardinality(Effective(attempt)) = RequiredRuns
  /\ \A e \in Effective(attempt) : e.ok

(* Faulty: a later evaluation replaces the first.                          *)
EvaluateAgain(r) ==
  LET me == runner[r]
  IN /\ me.pc = "working" /\ me.kind = "dispatch_quality_warden"
     /\ IF Reviewable(me.attempt) /\ me.attempt = Attempt
        THEN /\ \E verdict \in {"promote", "retry", "escalate"} :
                  reviews' = [reviews EXCEPT ![Attempt] =
                                [stage |-> "evaluated", verdict |-> verdict]]
             /\ Become(r, [me EXCEPT !.pc = "evaluated"])
        ELSE Stop(r) /\ UNCHANGED reviews
     /\ UNCHANGED <<blocks, leases, executions, lapsed, money, drafts, faults>>

(* A second evaluation of the attempt has another date, hence other        *)
(* content, and is refused.                                                *)
Evaluate(r) ==
  LET me == runner[r]
  IN /\ me.pc = "working" /\ me.kind = "dispatch_quality_warden"
     /\ IF /\ Reviewable(me.attempt)
           /\ Phase \in TestPhases /\ me.attempt = Attempt
           /\ reviews[Attempt].stage = "none"
        THEN /\ \E verdict \in {"promote", "retry", "escalate"} :
                  reviews' = [reviews EXCEPT ![Attempt] =
                                [stage |-> "evaluated", verdict |-> verdict]]
             /\ Become(r, [me EXCEPT !.pc = "evaluated"])
        ELSE Stop(r) /\ UNCHANGED reviews
     /\ UNCHANGED <<blocks, leases, executions, lapsed, money, drafts, faults>>

Report(r) ==
  LET me == runner[r]
  IN /\ me.pc = "evaluated"
     /\ IF Phase \in TestPhases /\ me.attempt = Attempt
        THEN /\ reviews' = [reviews EXCEPT ![Attempt].stage = "reported"]
             /\ Become(r, [me EXCEPT !.pc = "reported"])
        ELSE Stop(r) /\ UNCHANGED reviews
     /\ UNCHANGED <<blocks, leases, executions, lapsed, money, drafts, faults>>

DeliverReview(r) ==
  LET me == runner[r]
  IN /\ me.pc = "reported"
     /\ Submit(r, Block("quality_reviewed", me.attempt, "succeeded", me.lease, <<>>, 0))
     /\ UNCHANGED <<leases, executions, reviews, lapsed, money, drafts, faults>>

-----------------------------------------------------------------------------
(* Captain.  A script decides on a snapshot of the job; what it decided    *)
(* reaches the Gateway later, or never.                                    *)

RequestForge ==
  /\ blocks = <<>>
  /\ blocks' = <<Block("forge_requested", 1, "succeeded", 0, <<>>, 0)>>
  /\ UNCHANGED <<leases, executions, reviews, lapsed, money, runner, drafts, faults>>

Draft(phase, source) ==
  /\ Cardinality(drafts) < MaxDrafts
  /\ drafts' = drafts \cup {Block(phase, Attempt, "succeeded", 0, <<>>, source)}
  /\ UNCHANGED <<gateway, lapsed, money, runner, faults>>

(* CaptainTechnicalImprovementIssuer.issue: the source block failed, and   *)
(* failed tests show every required run.                                   *)
DraftImprovement ==
  /\ \/ Phase = "build_failed" /\ Last(blocks).status = "failed"
     \/ /\ Phase \in TestPhases /\ Last(blocks).status = "failed"
        /\ Len(Last(blocks).runs) = RequiredRuns
     \/ Phase = "quality_reviewed" /\ reviews[Attempt].verdict = "retry"
  /\ Draft("improvement_requested", Len(blocks))

DraftRevalidation ==
  /\ Phase \in TestPhases \cup {"technical_revalidation_requested"}
  /\ LastTest # 0 /\ blocks[LastTest].status = "failed"
  /\ Of(Attempt) # <<>> /\ ~Last(Of(Attempt)).ok
  /\ open = {}
  /\ Cardinality({i \in DOMAIN blocks : blocks[i].phase = "technical_revalidation_requested"})
       < MaxRevalidations
  /\ Draft("technical_revalidation_requested", LastTest)

DraftPromotion ==
  /\ RequiredRuns > 1
  /\ Phase = "quality_reviewed" /\ ~Waiting
  /\ reviews[Attempt] = [stage |-> "reported", verdict |-> "promote"]
  /\ Draft("capability_promoted", Len(blocks))

DraftEscalation ==
  /\ NextAction = "append_escalated"
  /\ Draft("escalated", Len(blocks))

SendDraft ==
  \E b \in drafts :
    /\ blocks' = IF Accepts(b) THEN Append(blocks, b) ELSE blocks
    /\ drafts' = drafts \ {b}
    /\ UNCHANGED <<leases, executions, reviews, lapsed, money, runner, faults>>

-----------------------------------------------------------------------------
(* A capability resume: a new, paid execution of a run that had failed,    *)
(* once the capability is promoted.  It is not an effect of the factory,   *)
(* but it is paid from the budget of the job.                              *)

(* authorize_once: the job can be read and is promoted, and the original   *)
(* execution is a failed outcome on record.  What is left of the budget is *)
(* reserved.  From then on no write of the job is taken: there is none     *)
(* that a promoted job would take.                                         *)
AuthorizeResume ==
  /\ Readable /\ Phase = "capability_promoted"
  /\ \E a \in 1..MaxIterations : \E i \in DOMAIN Of(a) : Of(a)[i].paid /\ ~Of(a)[i].ok
  /\ resume' = "reserved"
  /\ UNCHANGED <<gateway, lapsed, claims, grants, open, usage, runner, drafts, faults>>

(* settle_capability_resume_cost and release_factory_budget: neither reads *)
(* the log.  The reservation is closed by what the resume cost, or freed   *)
(* when that is nothing.                                                   *)
SettleResume ==
  /\ resume = "reserved"
  /\ resume' \in {"none", "charged"}
  /\ UNCHANGED <<gateway, lapsed, claims, grants, open, usage, runner, drafts, faults>>

Resume == AuthorizeResume \/ SettleResume

-----------------------------------------------------------------------------
(* Time and faults.                                                        *)

Lapse ==
  \E l \in Live :
    /\ Len(lapsed) < MaxLapses
    /\ lapsed' = Append(lapsed, l)
    /\ UNCHANGED <<gateway, money, runner, drafts, faults>>

(* A runner dies, or what it waits for raises: a claim it holds stays      *)
(* pending, a reservation open.                                            *)
Crash(r) ==
  /\ runner[r].pc # "idle" /\ faults < MaxFaults
  /\ faults' = faults + 1
  /\ Stop(r)
  /\ UNCHANGED <<gateway, lapsed, money, drafts>>

Step(r) ==
  \/ Plan(r) \/ Ensure(r) \/ Dispatch(r)
  \/ DeliverSkill(r) \/ DeliverForge(r) \/ DeliverBuild(r) \/ DeliverInfrastructure(r)
  \/ LeaseLapsed(r) \/ FailPreflight(r) \/ Claim(r) \/ Replay(r) \/ RetryFailed(r)
  \/ Spend(r) \/ Abandon(r) \/ Finish(r) \/ FinishUnbound(r)
  \/ RecordRun(r) \/ DeliverTest(r)
  \/ Evaluate(r) \/ Report(r) \/ DeliverReview(r)

Captain ==
  \/ RequestForge \/ DraftImprovement \/ DraftRevalidation
  \/ DraftPromotion \/ DraftEscalation \/ SendDraft \/ GrantRetry

Next ==
  \/ \E r \in Runner : Step(r)
  \/ Captain
  \/ Resume
  \/ Lapse
  \/ \E r \in Runner : Crash(r)

Spec == Init /\ [][Next]_vars

-----------------------------------------------------------------------------
(* Properties.                                                             *)

Phases == DOMAIN NextPhases \ {"initial"}

EvidenceSet ==
  [attempt : 1..MaxIterations, number : 1..RequiredRuns, source : Nat,
   lease : Nat, ok : BOOLEAN, paid : BOOLEAN, late : BOOLEAN]

BlockSet ==
  [phase : Phases, attempt : 1..MaxIterations,
   status : {"succeeded", "failed", "infrastructure_failed"},
   lease : Nat, runs : Seq(EvidenceSet), source : Nat]

(* Everything has its type: attempts stay within the ceiling of behavioral *)
(* iterations (apply_block), runs within the number the job requires, and  *)
(* a retry within what Captain may grant.                                  *)
TypeOK ==
  /\ blocks \in Seq(BlockSet)
  /\ leases \in Seq([kind : Dispatched, attempt : 1..MaxIterations, since : Nat])
  /\ lapsed \in Seq(DOMAIN leases)
  /\ executions \in [1..MaxIterations -> Seq(EvidenceSet)]
  /\ reviews \in [1..MaxIterations ->
       [stage : {"none", "evaluated", "reported"},
        verdict : {"none", "promote", "retry", "escalate"}]]
  /\ DOMAIN claims \subseteq Keys
  /\ \A key \in DOMAIN claims :
       claims[key] \in [state : {"pending", "completed", "failed"},
                        lease : DOMAIN leases, ordinal : 0..MaxRetries,
                        evidence : Seq(EvidenceSet)]
  /\ grants \subseteq [key : Keys, ordinal : 1..MaxRetries, failure : Nat]
  /\ open \subseteq Keys
  /\ DOMAIN usage \subseteq Keys /\ \A key \in DOMAIN usage : usage[key] \in Nat
  /\ resume \in {"none", "reserved", "charged"}
  /\ runner \in [Runner ->
       [pc : {"idle", "planned", "leased", "working", "broken", "claimed",
              "running", "evaluated", "reported"},
        kind : Dispatched \cup {"none"}, attempt : 0..MaxIterations,
        source : Nat, lease : 0..Len(leases), evidence : Seq(EvidenceSet),
        recorded : 0..RequiredRuns]]
  /\ drafts \subseteq BlockSet
  /\ faults \in 0..MaxFaults

TestsOf(attempt) ==
  {i \in DOMAIN blocks : blocks[i].attempt = attempt /\ blocks[i].phase \in TestPhases}

(* A promoted job has earned it, whatever crashed, lapsed or was retried   *)
(* on the way: the attempt was tested once, with success, by runs of one   *)
(* lease; the block names exactly the runs in the Gateway's table; each of *)
(* them is what the replay store kept of a claimed run; and no team run,   *)
(* not even one of an earlier attempt, left its reservation open           *)
(* (apply_block, evaluate_factory_workflow_release,                        *)
(* _team_execution_bundle_block).                                          *)
PromotionEarned ==
  Phase = "capability_promoted" =>
    /\ Cardinality(TestsOf(Attempt)) = 1
    /\ \A i \in TestsOf(Attempt) :
         /\ blocks[i].status = "succeeded"
         /\ blocks[i].runs = Of(Attempt)
         /\ \A j \in DOMAIN blocks[i].runs :
              LET e == blocks[i].runs[j]
              IN /\ e.ok /\ e.lease = blocks[i].lease
                 /\ KeyOf(e) \in DOMAIN claims
                 /\ claims[KeyOf(e)].state = "completed"
                 /\ claims[KeyOf(e)].evidence = <<e>>
    /\ open = {}

(* What the log took it takes again.  factory_job and every write apply    *)
(* the whole log anew, by the reviews, rows and budget of today: no        *)
(* review, row or reservation that arrives after a block makes the log     *)
(* refuse it, except what a capability resume reserves or costs, and then  *)
(* it refuses the promotion alone (apply_block, _factory_projection).      *)
LogReplays ==
  \A i \in DOMAIN blocks :
    \/ Applies(SubSeq(blocks, 1, i - 1), blocks[i])
    \/ blocks[i].phase = "capability_promoted" /\ resume # "none"

(* A paid run is made once: two runners never hold its claim, and each     *)
(* time it spends again Captain has authorized the retry of the very       *)
(* failure before (claim, _create_exclusive, active, retry_failed_hermes). *)
EffectOnce ==
  /\ \A key \in DOMAIN usage : \A n \in 1..(usage[key] - 1) :
       \E g \in grants : g.key = key /\ g.failure = n
  /\ \A r, q \in Runner :
       /\ runner[r].pc \in {"claimed", "running"}
       /\ runner[q].pc \in {"claimed", "running"}
       /\ Current(r) = Current(q)
       => r = q

(* The block of a test and the table agree: whoever made the runs, and     *)
(* whoever recorded them, the evidence the block carries is the evidence   *)
(* the Gateway has of the attempt's first test, its first rows.            *)
BundleIsTable ==
  \A i \in DOMAIN blocks :
    blocks[i].phase = "real_case_evidence" /\ blocks[i].status # "infrastructure_failed" =>
      LET rows == Of(blocks[i].attempt)
      IN /\ blocks[i].runs = SubSeq(rows, 1, RequiredRuns)
         /\ \A j \in DOMAIN rows : rows[j].source = 0 <=> j <= RequiredRuns

(* What the Hermes skill promises: "On behavioral failure, emit an         *)
(* improvement request tied to its failed assertion and start the next     *)
(* attempt.  Stop after attempt five and escalate."  A failed job can be   *)
(* improved or, at the ceiling, escalated.                                 *)
FailureHasNextStep ==
  blocks # <<>> /\ Last(blocks).status = "failed" =>
    \E phase \in {"improvement_requested", "escalated"} :
      Accepts(Block(phase, Attempt, "succeeded", 0, <<>>, Len(blocks)))
=============================================================================
