------------------------- MODULE FactoryJob_proofs -------------------------
(***************************************************************************)
(* What holds of a factory job for any number of runners, attempts, runs,  *)
(* retries, leases that lapse and faults.                                  *)
(***************************************************************************)
EXTENDS FactoryJob, SequenceTheorems, FiniteSetTheorems, WellFoundedInduction, TLAPS

TestKinds == {"dispatch_real_case_tester", "dispatch_technical_revalidation"}

LEMMA Kinds ==
  /\ Dispatched = TestKinds \cup
       {"dispatch_agent_architect", "dispatch_tool_integrator", "submit_forge_job",
        "dispatch_build_validator", "dispatch_quality_warden"}
  /\ \A k \in Dispatched : IsTest(k) <=> k \in TestKinds
  BY DEF Dispatched, Role, IsTest, TestKinds

LEMMA PhasesOf ==
  /\ PhaseOf["dispatch_agent_architect"] = "blueprint_created"
  /\ PhaseOf["dispatch_tool_integrator"] = "tool_candidate_tested"
  /\ PhaseOf["submit_forge_job"] = "agent_code_created"
  /\ PhaseOf["dispatch_build_validator"] = "build_passed"
  /\ PhaseOf["dispatch_real_case_tester"] = "real_case_evidence"
  /\ PhaseOf["dispatch_technical_revalidation"] = "real_case_revalidated"
  /\ PhaseOf["dispatch_quality_warden"] = "quality_reviewed"
  BY DEF PhaseOf

PhaseNames ==
  {"forge_requested", "improvement_requested", "blueprint_created",
   "tool_candidate_tested", "agent_code_created", "build_passed", "build_failed",
   "real_case_evidence", "technical_revalidation_requested", "real_case_revalidated",
   "quality_reviewed", "capability_promoted", "escalated"}

LEMMA PhaseList == Phases = PhaseNames /\ DOMAIN NextPhases = PhaseNames \cup {"initial"}
  BY DEF Phases, NextPhases, PhaseNames

LEMMA NextOf ==
  LET again == {"quality_reviewed", "improvement_requested",
                "technical_revalidation_requested"}
  IN /\ NextPhases["initial"] = {"forge_requested"}
     /\ NextPhases["forge_requested"] = {"blueprint_created"}
     /\ NextPhases["improvement_requested"] = {"blueprint_created"}
     /\ NextPhases["blueprint_created"] = {"tool_candidate_tested"}
     /\ NextPhases["tool_candidate_tested"] = {"agent_code_created"}
     /\ NextPhases["agent_code_created"] = {"build_passed", "build_failed"}
     /\ NextPhases["build_passed"] = {"real_case_evidence"}
     /\ NextPhases["real_case_evidence"] = again
     /\ NextPhases["technical_revalidation_requested"] =
          {"real_case_revalidated", "technical_revalidation_requested"}
     /\ NextPhases["real_case_revalidated"] = again
     /\ NextPhases["build_failed"] = {"improvement_requested", "escalated"}
     /\ NextPhases["quality_reviewed"] =
          {"improvement_requested", "capability_promoted", "escalated"}
     /\ NextPhases["capability_promoted"] = {}
     /\ NextPhases["escalated"] = {}
  BY DEF NextPhases

-----------------------------------------------------------------------------
(* The inductive invariant.                                                *)

(* Evidence of a paid run is what the replay store kept of it.             *)
Backed(e) ==
  e.paid => /\ KeyOf(e) \in DOMAIN claims
            /\ claims[KeyOf(e)].state = "completed"
            /\ claims[KeyOf(e)].evidence = <<e>>

(* All required runs of the attempt are on record; and one of them failed. *)
Tested(a) == Len(executions[a]) >= RequiredRuns

Flawed(a) == Tested(a) /\ \E j \in 1..RequiredRuns : ~executions[a][j].ok

Passed(a) == \E i \in TestsOf(a) : blocks[i].status = "succeeded"

(* The log up to block i, as apply_block sees it.                          *)
PhaseBefore(i) == IF i = 1 THEN "initial" ELSE blocks[i - 1].phase

AttemptAt(i) ==
  IF i = 1 THEN 1
  ELSE IF blocks[i - 1].phase = "improvement_requested"
       THEN blocks[i - 1].attempt + 1
       ELSE blocks[i - 1].attempt

(* What a promotion keeps, whatever a resume does to the budget later.     *)
RunsSettled(a) == RunsReady(a) /\ open = {}

(* What apply_block asked of block b still holds.                          *)
Earned(b) ==
  /\ b.phase = "improvement_requested" => b.attempt < MaxIterations
  /\ b.phase = "quality_reviewed" =>
       reviews[b.attempt].stage # "evaluated" /\ Passed(b.attempt)
  /\ b.phase = "capability_promoted" =>
       reviews[b.attempt].stage = "reported" /\ RunsSettled(b.attempt)

Chained ==
  \A i \in DOMAIN blocks :
    /\ blocks[i].phase \in NextPhases[PhaseBefore(i)]
    /\ blocks[i].attempt = AttemptAt(i)
    /\ Earned(blocks[i])

(* Where an attempt may be once it was tested, and once it was reviewed.   *)
Reviewed == {"quality_reviewed", "capability_promoted", "escalated"}

AfterTest == Reviewed \cup TestPhases \cup {"technical_revalidation_requested"}

Forward ==
  \A i \in DOMAIN blocks :
    /\ blocks[i].attempt <= Attempt
    /\ blocks[i].attempt = Attempt =>
         /\ blocks[i].phase = "real_case_evidence" => Phase \in AfterTest
         /\ blocks[i].phase = "quality_reviewed" => Phase \in Reviewed

TestedOnce ==
  \A i, k \in DOMAIN blocks :
    /\ blocks[i].phase = "real_case_evidence" /\ blocks[k].phase = "real_case_evidence"
    /\ blocks[i].attempt = blocks[k].attempt
    => i = k

(* The first rows of an attempt are its first test, run by run; the others *)
(* are revalidations.                                                      *)
RowsInOrder ==
  \A a \in 1..MaxIterations : \A j \in DOMAIN executions[a] :
    /\ executions[a][j].attempt = a
    /\ Backed(executions[a][j])
    /\ j <= RequiredRuns => executions[a][j].number = j /\ executions[a][j].source = 0
    /\ j > RequiredRuns => executions[a][j].source # 0

(* The block of a first test names the first rows, all of its lease.       *)
Bundled(b) ==
  /\ Tested(b.attempt) /\ Len(b.runs) = RequiredRuns
  /\ \A j \in 1..RequiredRuns :
       executions[b.attempt][j] = b.runs[j] /\ b.runs[j].lease = b.lease
  /\ b.status = "failed" => Flawed(b.attempt)

Witnessed(b) ==
  /\ b.phase = "real_case_evidence" /\ b.status # "infrastructure_failed" => Bundled(b)
  /\ b.phase \in {"technical_revalidation_requested", "real_case_revalidated"} =>
       Flawed(b.attempt)

NeededBy(kind) == IF kind = "dispatch_real_case_tester" THEN RequiredRuns ELSE 1

Holding(r) == runner[r].pc \in {"claimed", "running"}

(* The revalidation that a runner is at answers a request on the log.      *)
Requested(me) ==
  /\ me.source \in DOMAIN blocks
  /\ blocks[me.source].phase = "technical_revalidation_requested"
  /\ blocks[me.source].attempt = me.attempt

(* What a runner has made and recorded.                                    *)
Made(me) ==
  /\ Len(me.evidence) <= NeededBy(me.kind)
  /\ \A j \in DOMAIN me.evidence :
       KeyOf(me.evidence[j]) = Key(me.attempt, j, me.source) /\ Backed(me.evidence[j])
  /\ me.recorded > 0 => me.recorded <= Len(me.evidence) /\ Len(me.evidence) = NeededBy(me.kind)
  /\ \A j \in 1..me.recorded :
       /\ me.evidence[j].lease = me.lease
       /\ \E i \in DOMAIN executions[me.attempt] : executions[me.attempt][i] = me.evidence[j]

AtWork == {"working", "broken", "claimed", "running", "evaluated", "reported"}

Fits(me) ==
  /\ me.pc # "idle" => me.kind \in Dispatched /\ me.attempt \in 1..MaxIterations
  /\ me.pc \notin AtWork => me.evidence = <<>> /\ me.recorded = 0 /\ me.source = 0
  /\ me.pc \in {"evaluated", "reported"} => me.kind = "dispatch_quality_warden"
  /\ me.pc \in {"claimed", "running", "broken"} => me.kind \in TestKinds
  /\ me.kind # "dispatch_technical_revalidation" => me.source = 0
  /\ me.kind = "dispatch_technical_revalidation" /\ me.pc \in AtWork => Requested(me)
  /\ me.kind = "dispatch_quality_warden" /\ me.pc \in AtWork => Passed(me.attempt)
  /\ Made(me)

(* A runner that made a claim holds it.                                    *)
ClaimHeld(r) ==
  Holding(r) =>
    /\ Len(runner[r].evidence) < NeededBy(runner[r].kind)
    /\ Current(r) \in DOMAIN claims
    /\ claims[Current(r)].state = "pending"

Exclusive == \A r, q \in Runner : Holding(r) /\ Holding(q) /\ Current(r) = Current(q) => r = q

Kept ==
  \A key \in DOMAIN claims : claims[key].state = "completed" =>
    LET e == claims[key].evidence[1]
    IN claims[key].evidence = <<e>> /\ KeyOf(e) = key /\ e.paid

(* Every time that a run went on to spend but the last is authorized, and  *)
(* the last one too while the run may spend again.                         *)
Granted(key, n) == \E g \in grants : g.key = key /\ g.failure = n

Authorized ==
  \A key \in DOMAIN usage :
    /\ \A n \in 1..(usage[key] - 1) : Granted(key, n)
    /\ \/ key \notin DOMAIN claims
       \/ \E r \in Runner : runner[r].pc = "claimed" /\ Current(r) = key
       => Granted(key, usage[key])

CaptainPhases ==
  {"improvement_requested", "technical_revalidation_requested",
   "capability_promoted", "escalated"}

Drafted == \A b \in drafts : b.phase \in CaptainPhases /\ b.status = "succeeded"

LogOK == Chained /\ Forward /\ TestedOnce /\ \A i \in DOMAIN blocks : Witnessed(blocks[i])

RunsOK == \A r \in Runner : Fits(runner[r]) /\ ClaimHeld(r)

IInv ==
  /\ TypeOK
  /\ LogOK /\ RowsInOrder
  /\ RunsOK /\ Exclusive
  /\ Kept /\ Authorized /\ Drafted

-----------------------------------------------------------------------------
(* The log.                                                                *)

RunnerSet ==
  [pc : {"idle", "planned", "leased", "working", "broken", "claimed",
         "running", "evaluated", "reported"},
   kind : Dispatched \cup {"none"}, attempt : 0..MaxIterations,
   source : Nat, lease : 0..Len(leases), evidence : Seq(EvidenceSet),
   recorded : 0..RequiredRuns]

LEMMA LogTypes ==
  ASSUME TypeOK
  PROVE  /\ blocks \in Seq(BlockSet) /\ Len(blocks) \in Nat
         /\ DOMAIN blocks = 1..Len(blocks)
         /\ blocks # <<>> <=> Len(blocks) > 0
         /\ \A i \in DOMAIN blocks :
              /\ blocks[i] \in BlockSet /\ blocks[i].phase \in PhaseNames
              /\ blocks[i].attempt \in 1..MaxIterations
              /\ blocks[i].status \in {"succeeded", "failed", "infrastructure_failed"}
              /\ blocks[i].lease \in Nat /\ blocks[i].runs \in Seq(EvidenceSet)
              /\ blocks[i].source \in Nat
  <1>1. blocks \in Seq(BlockSet)
    BY DEF TypeOK
  <1>2. /\ Len(blocks) \in Nat /\ DOMAIN blocks = 1..Len(blocks)
        /\ blocks # <<>> <=> Len(blocks) > 0
    BY <1>1, LenProperties, EmptySeq
  <1>3. \A i \in DOMAIN blocks : blocks[i] \in BlockSet
    BY <1>1, <1>2
  <1>4. \A b \in BlockSet :
          /\ b.phase \in PhaseNames /\ b.attempt \in 1..MaxIterations
          /\ b.status \in {"succeeded", "failed", "infrastructure_failed"}
          /\ b.lease \in Nat /\ b.runs \in Seq(EvidenceSet) /\ b.source \in Nat
    BY PhaseList DEF BlockSet
  <1> QED BY <1>1, <1>2, <1>3, <1>4

LEMMA LastBlock ==
  ASSUME TypeOK
  PROVE  /\ blocks = <<>> => Phase = "initial" /\ Attempt = 1
         /\ blocks # <<>> =>
              /\ Len(blocks) \in DOMAIN blocks /\ Last(blocks) = blocks[Len(blocks)]
              /\ Phase = blocks[Len(blocks)].phase
              /\ Attempt = IF Phase = "improvement_requested"
                           THEN blocks[Len(blocks)].attempt + 1
                           ELSE blocks[Len(blocks)].attempt
  BY LogTypes DEF Phase, Attempt, AttemptAfter, Last

LEMMA AttemptBounded ==
  ASSUME TypeOK, Chained
  PROVE  Attempt \in 1..MaxIterations
  <1>1. CASE blocks = <<>>
    BY <1>1, LastBlock, FactoryAssumption
  <1>2. CASE blocks # <<>>
    BY <1>2, LastBlock, LogTypes, FactoryAssumption DEF Chained, Earned
  <1> QED BY <1>1, <1>2

LEMMA RestingIs ==
  Resting.pc = "idle" /\ Resting.kind = "none" /\ Resting.attempt = 0 /\ Resting.source = 0
  /\ Resting.lease = 0 /\ Resting.evidence = <<>> /\ Resting.recorded = 0
  BY DEF Resting

LEMMA RestingFits ==
  ASSUME TypeOK
  PROVE  Resting \in RunnerSet /\ Fits(Resting)
  <1>1. Resting \in RunnerSet
    BY FactoryAssumption, LogTypes DEF Resting, RunnerSet, TypeOK
  <1>2. Made(Resting)
    BY FactoryAssumption DEF Resting, Made, NeededBy
  <1>3. /\ Resting.kind \notin {"dispatch_technical_revalidation", "dispatch_quality_warden"}
        /\ Resting.pc \notin AtWork
    BY DEF Resting, AtWork
  <1> QED BY <1>1, <1>2, <1>3, RestingIs DEF Fits

LEMMA Greatest ==
  ASSUME NEW n \in Nat, NEW T, T \subseteq 1..n, T # {}
  PROVE  \E x \in T : \A y \in T : y <= x
  <1> DEFINE U == {n - t : t \in T}
  <1>0. \A t \in T : n - t \in Nat
    OBVIOUS
  <1>1. U \subseteq Nat /\ U # {}
    BY <1>0
  <1> HIDE DEF U
  <1>2. \E x \in U : \A y \in U : ~(<<y, x>> \in OpToRel(<, Nat))
    BY <1>1, WFMin, NatLessThanWellFounded
  <1>3. \A x, y \in Nat : y < x => <<y, x>> \in OpToRel(<, Nat)
    BY DEF OpToRel
  <1>4. PICK x \in U : \A y \in U : ~(y < x)
    BY <1>1, <1>2, <1>3
  <1>5. PICK t \in T : x = n - t
    BY <1>4 DEF U
  <1>6. \A s \in T : n - s \in U
    BY DEF U
  <1> QED BY <1>4, <1>5, <1>6

LEMMA PhaseKnown ==
  ASSUME TypeOK
  PROVE  Phase \in PhaseNames \cup {"initial"} /\ (Phase # "initial" => blocks # <<>>)
  BY LastBlock, LogTypes

LEMMA LastTestIs ==
  ASSUME TypeOK, LastTest # 0
  PROVE  /\ LastTest \in DOMAIN blocks /\ blocks[LastTest].attempt = Attempt
         /\ blocks[LastTest].phase \in TestPhases
  <1> DEFINE tests == {i \in DOMAIN blocks : /\ blocks[i].attempt = Attempt
                                             /\ blocks[i].phase \in TestPhases}
  <1>1. tests # {}
    BY DEF LastTest
  <1>2. tests \subseteq 1..Len(blocks) /\ Len(blocks) \in Nat
    BY LogTypes
  <1>3. \E i \in tests : \A j \in tests : j <= i
    <2> HIDE DEF tests
    <2> QED BY <1>1, <1>2, Greatest
  <1>4. LastTest = CHOOSE i \in tests : \A j \in tests : j <= i
    BY <1>1 DEF LastTest
  <1>5. LastTest \in tests
    <2> HIDE DEF tests
    <2> QED BY <1>3, <1>4
  <1> QED BY <1>5

(* What the Gateway did not check itself of a block that it takes.         *)
Honest(b) ==
  /\ b.phase \in {"improvement_requested", "quality_reviewed", "capability_promoted"} =>
       b.status # "infrastructure_failed"
  /\ b.phase = "quality_reviewed" => Passed(b.attempt)
  /\ b.phase = "real_case_evidence" /\ b.status # "infrastructure_failed" => Bundled(b)

LEMMA Appended ==
  ASSUME TypeOK, NEW b \in BlockSet, blocks' = Append(blocks, b)
  PROVE  /\ blocks' \in Seq(BlockSet) /\ Len(blocks') = Len(blocks) + 1
         /\ DOMAIN blocks' = DOMAIN blocks \cup {Len(blocks) + 1}
         /\ Len(blocks) + 1 \notin DOMAIN blocks
         /\ \A i \in DOMAIN blocks : blocks'[i] = blocks[i]
         /\ blocks'[Len(blocks) + 1] = b
         /\ Phase' = b.phase
         /\ Attempt' = IF b.phase = "improvement_requested" THEN b.attempt + 1 ELSE b.attempt
  <1>1. blocks \in Seq(BlockSet) /\ Len(blocks) \in Nat /\ DOMAIN blocks = 1..Len(blocks)
    BY LogTypes
  <1>2. /\ blocks' \in Seq(BlockSet) /\ Len(blocks') = Len(blocks) + 1
        /\ \A i \in 1..Len(blocks) : blocks'[i] = blocks[i]
        /\ blocks'[Len(blocks) + 1] = b
    BY <1>1, AppendProperties
  <1>3. DOMAIN blocks' = 1..(Len(blocks) + 1)
    BY <1>1, <1>2, LenProperties
  <1>4. blocks' # <<>> /\ Last(blocks)' = b
    BY <1>1, <1>2, EmptySeq DEF Last
  <1> QED BY <1>1, <1>2, <1>3, <1>4 DEF Phase, Attempt, AttemptAfter

LEMMA AcceptedIs ==
  ASSUME TypeOK, NEW b, Accepts(b)
  PROVE  /\ b.attempt = Attempt /\ b.phase \in NextPhases[Phase]
         /\ b.status # "infrastructure_failed" =>
              /\ b.phase = "improvement_requested" => b.attempt < MaxIterations
              /\ b.phase = "capability_promoted" =>
                   reviews[b.attempt].stage = "reported" /\ RunsSettled(b.attempt)
              /\ b.phase = "quality_reviewed" => reviews[b.attempt].stage # "evaluated"
         /\ b.phase = "technical_revalidation_requested" =>
              LastTest # 0 /\ blocks[LastTest].status = "failed"
  BY DEF Accepts, Applies, Attempt, Phase, ReleaseReady, RunsSettled

LEMMA LogExtended ==
  ASSUME TypeOK, LogOK, NEW b \in BlockSet, Accepts(b), Honest(b),
         blocks' = Append(blocks, b),
         UNCHANGED <<reviews, executions, usage, open>>
  PROVE  LogOK'
  <1>0. PICK n \in Nat : n = Len(blocks) + 1
    BY LogTypes
  <1>1. /\ DOMAIN blocks' = DOMAIN blocks \cup {n} /\ n \notin DOMAIN blocks
        /\ \A i \in DOMAIN blocks : blocks'[i] = blocks[i]
        /\ blocks'[n] = b /\ Phase' = b.phase
        /\ Attempt' = IF b.phase = "improvement_requested" THEN b.attempt + 1 ELSE b.attempt
    BY <1>0, Appended
  <1>2. /\ b.attempt = Attempt /\ b.phase \in NextPhases[Phase]
        /\ b.status # "infrastructure_failed" =>
             /\ b.phase = "improvement_requested" => b.attempt < MaxIterations
             /\ b.phase = "capability_promoted" =>
                  reviews[b.attempt].stage = "reported" /\ RunsSettled(b.attempt)
             /\ b.phase = "quality_reviewed" => reviews[b.attempt].stage # "evaluated"
        /\ b.phase = "technical_revalidation_requested" =>
             LastTest # 0 /\ blocks[LastTest].status = "failed"
    BY AcceptedIs
  <1>3. Attempt \in 1..MaxIterations /\ b.phase \in PhaseNames
    BY AttemptBounded, PhaseList DEF LogOK, BlockSet
  <1>4. DOMAIN blocks = 1..(n - 1)
    BY <1>0, LogTypes
  <1>5. \A a : /\ Passed(a) => Passed(a)'
               /\ Flawed(a)' <=> Flawed(a)
               /\ RunsSettled(a)' <=> RunsSettled(a)
    BY <1>1 DEF Passed, TestsOf, Flawed, Tested, RunsSettled, RunsReady, Of
  <1>6. \A c : /\ Earned(c) => Earned(c)'
               /\ Bundled(c) => Bundled(c)'
               /\ Witnessed(c) => Witnessed(c)'
    BY <1>5 DEF Earned, Bundled, Witnessed, Tested
  <1>7. Earned(b)
    BY <1>2 DEF Earned, Honest
  <1>8. Chained'
    <2> SUFFICES ASSUME NEW i \in DOMAIN blocks'
                 PROVE  (/\ blocks[i].phase \in NextPhases[PhaseBefore(i)]
                         /\ blocks[i].attempt = AttemptAt(i)
                         /\ Earned(blocks[i]))'
      BY DEF Chained
    <2>1. CASE i \in DOMAIN blocks
      <3>1. /\ blocks[i].phase \in NextPhases[PhaseBefore(i)]
            /\ blocks[i].attempt = AttemptAt(i) /\ Earned(blocks[i])
        BY <2>1 DEF LogOK, Chained
      <3>2. PhaseBefore(i)' = PhaseBefore(i) /\ AttemptAt(i)' = AttemptAt(i)
        BY <1>1, <1>4, <2>1 DEF PhaseBefore, AttemptAt
      <3>3. PICK c : c = blocks[i]
        OBVIOUS
      <3>4. Earned(c)' /\ blocks'[i] = c
        BY <1>1, <1>6, <2>1, <3>1, <3>3
      <3> QED BY <3>1, <3>2, <3>3, <3>4
    <2>2. CASE i = n
      <3>1. PhaseBefore(n)' = Phase /\ AttemptAt(n)' = Attempt
        <4>1. CASE blocks = <<>>
          BY <1>0, <4>1, LastBlock, LogTypes DEF PhaseBefore, AttemptAt
        <4>2. CASE blocks # <<>>
          BY <1>0, <1>1, <4>2, LastBlock, LogTypes DEF PhaseBefore, AttemptAt
        <4> QED BY <4>1, <4>2
      <3>2. Earned(b)'
        BY <1>6, <1>7
      <3> QED BY <1>1, <1>2, <2>2, <3>1, <3>2
    <2> QED BY <1>1, <2>1, <2>2
  <1>9. Forward'
    <2> SUFFICES ASSUME NEW i \in DOMAIN blocks'
                 PROVE  (/\ blocks[i].attempt <= Attempt
                         /\ blocks[i].attempt = Attempt =>
                              /\ blocks[i].phase = "real_case_evidence" => Phase \in AfterTest
                              /\ blocks[i].phase = "quality_reviewed" => Phase \in Reviewed)'
      BY DEF Forward
    <2>1. CASE i \in DOMAIN blocks
      <3>1. /\ blocks[i].attempt <= Attempt /\ blocks[i].attempt \in 1..MaxIterations
            /\ blocks[i].attempt = Attempt =>
                 /\ blocks[i].phase = "real_case_evidence" => Phase \in AfterTest
                 /\ blocks[i].phase = "quality_reviewed" => Phase \in Reviewed
        BY <2>1, LogTypes DEF LogOK, Forward
      <3>2. /\ Phase \in AfterTest /\ b.phase # "improvement_requested" => b.phase \in AfterTest
            /\ Phase \in Reviewed /\ b.phase # "improvement_requested" => b.phase \in Reviewed
        BY <1>2, NextOf DEF AfterTest, Reviewed, TestPhases
      <3> QED BY <1>1, <1>2, <1>3, <2>1, <3>1, <3>2 DEF AfterTest, Reviewed, TestPhases
    <2>2. CASE i = n
      BY <1>1, <1>2, <1>3, <2>2 DEF AfterTest, Reviewed, TestPhases
    <2> QED BY <1>1, <2>1, <2>2
  <1>10. TestedOnce'
    <2>1. ASSUME NEW i \in DOMAIN blocks, blocks[i].phase = "real_case_evidence",
                 blocks[i].attempt = b.attempt, b.phase = "real_case_evidence"
          PROVE  FALSE
      <3>1. Phase \in AfterTest
        BY <1>2, <2>1 DEF LogOK, Forward
      <3> QED BY <1>2, <2>1, <3>1, NextOf DEF AfterTest, Reviewed, TestPhases
    <2>2. \A i, k \in DOMAIN blocks :
            /\ blocks[i].phase = "real_case_evidence" /\ blocks[k].phase = "real_case_evidence"
            /\ blocks[i].attempt = blocks[k].attempt
            => i = k
      BY DEF LogOK, TestedOnce
    <2> QED BY <1>1, <2>1, <2>2 DEF TestedOnce
  <1>11. Witnessed(b)
    <2>1. CASE b.phase = "real_case_evidence"
      BY <2>1 DEF Witnessed, Honest
    <2>2. CASE b.phase = "technical_revalidation_requested"
      <3>1. PICK i \in DOMAIN blocks : /\ blocks[i].attempt = b.attempt
                                       /\ blocks[i].phase \in TestPhases
                                       /\ blocks[i].status = "failed"
        BY <1>2, <2>2, LastTestIs
      <3>2. Witnessed(blocks[i])
        BY <3>1 DEF LogOK
      <3> QED BY <2>2, <3>1, <3>2 DEF Witnessed, Bundled, TestPhases
    <2>3. CASE b.phase = "real_case_revalidated"
      <3>1. Phase = "technical_revalidation_requested"
        BY <1>2, <2>3, PhaseKnown, NextOf DEF PhaseNames
      <3>2. Len(blocks) \in DOMAIN blocks /\ blocks[Len(blocks)].phase = Phase
            /\ blocks[Len(blocks)].attempt = b.attempt
        BY <1>2, <3>1, LastBlock
      <3>3. Witnessed(blocks[Len(blocks)])
        BY <3>2 DEF LogOK
      <3> QED BY <2>3, <3>1, <3>2, <3>3 DEF Witnessed
    <2> QED BY <2>1, <2>2, <2>3 DEF Witnessed
  <1>12. ASSUME NEW i \in DOMAIN blocks' PROVE Witnessed(blocks[i])'
    <2>1. PICK c : c = blocks'[i]
      OBVIOUS
    <2>2. Witnessed(c)
      BY <1>1, <1>11, <1>12, <2>1 DEF LogOK
    <2>3. Witnessed(c)'
      BY <1>6, <2>2
    <2> QED BY <2>1, <2>3
  <1> QED BY <1>8, <1>9, <1>10, <1>12 DEF LogOK

(* Rows are only ever appended, and what the replay store has completed    *)
(* stays as it is.                                                         *)
RowsGrow ==
  \A a \in 1..MaxIterations :
    /\ Len(executions[a]) <= Len(executions'[a])
    /\ \A i \in DOMAIN executions[a] :
         i \in DOMAIN executions'[a] /\ executions'[a][i] = executions[a][i]

LogGrows ==
  \A i \in DOMAIN blocks : i \in DOMAIN blocks' /\ blocks'[i] = blocks[i]

CompletedStay ==
  \A key \in DOMAIN claims : claims[key].state = "completed" =>
    key \in DOMAIN claims' /\ claims'[key] = claims[key]

LEMMA RowTypes ==
  ASSUME TypeOK, NEW a \in 1..MaxIterations
  PROVE  /\ executions[a] \in Seq(EvidenceSet) /\ Len(executions[a]) \in Nat
         /\ DOMAIN executions[a] = 1..Len(executions[a])
         /\ \A i \in DOMAIN executions[a] : executions[a][i] \in EvidenceSet
  <1>1. executions[a] \in Seq(EvidenceSet)
    BY DEF TypeOK
  <1> QED BY <1>1, LenProperties

LEMMA PromotedLast ==
  ASSUME TypeOK, Chained, NEW i \in DOMAIN blocks, blocks[i].phase = "capability_promoted"
  PROVE  Phase = "capability_promoted" /\ Attempt = blocks[i].attempt
  <1>1. CASE i = Len(blocks)
    BY <1>1, LastBlock, LogTypes
  <1>2. CASE i # Len(blocks)
    <2>1. i + 1 \in DOMAIN blocks /\ i \in Nat /\ i >= 1
      BY <1>2, LogTypes
    <2>2. PhaseBefore(i + 1) = "capability_promoted"
      BY <2>1 DEF PhaseBefore
    <2> QED BY <2>1, <2>2, NextOf DEF Chained
  <1> QED BY <1>1, <1>2

LEMMA FlawedStays ==
  ASSUME TypeOK, RowsGrow, NEW a \in 1..MaxIterations, Tested(a)
  PROVE  /\ Tested(a)'
         /\ \A j \in 1..RequiredRuns : executions'[a][j] = executions[a][j]
         /\ Flawed(a) => Flawed(a)'
  <1>1. Len(executions[a]) \in Nat /\ DOMAIN executions[a] = 1..Len(executions[a])
    BY RowTypes
  <1>2. \A j \in 1..RequiredRuns : j \in DOMAIN executions[a]
    BY <1>1, FactoryAssumption DEF Tested
  <1>3. \A j \in 1..RequiredRuns : executions'[a][j] = executions[a][j]
    BY <1>2 DEF RowsGrow
  <1>4. Tested(a)'
    <2>1. Len(executions'[a]) >= Len(executions[a])
      BY DEF RowsGrow
    <2> QED BY <1>1, <2>1, FactoryAssumption DEF Tested, RowsGrow
  <1> QED BY <1>3, <1>4 DEF Flawed

LEMMA LogStays ==
  ASSUME TypeOK, LogOK, blocks' = blocks, RowsGrow, open' \subseteq open \/ Phase # "capability_promoted",
         Phase = "capability_promoted" => UNCHANGED <<executions, usage>>,
         \/ reviews' = reviews
         \/ Phase \in TestPhases /\ \E new : reviews' = [reviews EXCEPT ![Attempt] = new]
  PROVE  LogOK'
  <1>1. ASSUME NEW i \in DOMAIN blocks PROVE Earned(blocks[i])'
    <2>1. Earned(blocks[i]) /\ blocks[i].attempt \in 1..MaxIterations
      BY LogTypes DEF LogOK, Chained
    <2>2. PICK b : b = blocks[i]
      OBVIOUS
    <2>3. Passed(b.attempt)' <=> Passed(b.attempt)
      BY DEF Passed, TestsOf
    <2>4. b.phase = "quality_reviewed" => reviews'[b.attempt] = reviews[b.attempt]
      <3> SUFFICES ASSUME b.phase = "quality_reviewed", Phase \in TestPhases
                   PROVE  b.attempt # Attempt
        BY <2>1, <2>2 DEF TypeOK
      <3> QED BY <2>2 DEF LogOK, Forward, Reviewed, TestPhases
    <2>5. b.phase = "capability_promoted" =>
            /\ reviews' = reviews /\ RunsSettled(b.attempt)'
      <3> SUFFICES ASSUME b.phase = "capability_promoted"
                   PROVE  reviews' = reviews /\ RunsSettled(b.attempt)'
        OBVIOUS
      <3>1. Phase = "capability_promoted"
        BY <2>2, PromotedLast DEF LogOK
      <3>2. reviews' = reviews /\ open' \subseteq open
        BY <3>1 DEF TestPhases
      <3>3. RunsSettled(b.attempt)
        BY <2>1, <2>2 DEF Earned
      <3> QED BY <3>1, <3>2, <3>3 DEF RunsSettled, RunsReady, Of
    <2>6. Earned(b)'
      BY <2>1, <2>2, <2>3, <2>4, <2>5 DEF Earned
    <2> QED BY <2>2, <2>6
  <1>2. Chained'
    BY <1>1 DEF LogOK, Chained, PhaseBefore, AttemptAt
  <1>3. Forward' /\ TestedOnce'
    BY DEF LogOK, Forward, TestedOnce, Phase, Attempt, AttemptAfter, Last
  <1>4. ASSUME NEW i \in DOMAIN blocks PROVE Witnessed(blocks[i])'
    <2>1. PICK b : b = blocks[i]
      OBVIOUS
    <2>2. Witnessed(b) /\ b.attempt \in 1..MaxIterations
      BY <2>1, LogTypes DEF LogOK
    <2>3. Witnessed(b)'
      BY <2>2, FlawedStays DEF Witnessed, Bundled, Flawed
    <2> QED BY <2>1, <2>3
  <1> QED BY <1>2, <1>3, <1>4 DEF LogOK

-----------------------------------------------------------------------------
(* The runners and the replay store.                                       *)

KeyNow(me) == Key(me.attempt, Len(me.evidence) + 1, me.source)

LEMMA BackedStays ==
  ASSUME NEW e, Backed(e), CompletedStay
  PROVE  Backed(e)'
  BY DEF Backed, CompletedStay

LEMMA PassedStays ==
  ASSUME NEW a, Passed(a), LogGrows
  PROVE  Passed(a)'
  BY DEF Passed, TestsOf, LogGrows

LEMMA RowsStay ==
  ASSUME TypeOK, RowsInOrder, executions' = executions, CompletedStay
  PROVE  RowsInOrder' /\ RowsGrow
  <1>1. RowsGrow
    BY RowTypes DEF RowsGrow
  <1>2. ASSUME NEW a \in 1..MaxIterations, NEW j \in DOMAIN executions[a]
        PROVE  Backed(executions[a][j])'
    <2>1. PICK e : e = executions[a][j]
      OBVIOUS
    <2>2. Backed(e)'
      BY <2>1, BackedStays DEF RowsInOrder
    <2> QED BY <2>1, <2>2
  <1> QED BY <1>1, <1>2 DEF RowsInOrder

LEMMA RunnerTypes ==
  ASSUME TypeOK, NEW r \in Runner
  PROVE  /\ runner[r] \in RunnerSet
         /\ runner[r].pc \in AtWork \cup {"idle", "planned", "leased"}
         /\ runner[r].evidence \in Seq(EvidenceSet)
         /\ DOMAIN runner[r].evidence = 1..Len(runner[r].evidence)
         /\ Len(runner[r].evidence) \in Nat
         /\ runner[r].source \in Nat /\ runner[r].recorded \in 0..RequiredRuns
         /\ runner[r].attempt \in 0..MaxIterations /\ runner[r].lease \in 0..Len(leases)
  <1>1. runner[r] \in RunnerSet
    BY DEF TypeOK, RunnerSet
  <1>2. runner[r].evidence \in Seq(EvidenceSet)
    BY <1>1 DEF RunnerSet
  <1>3. DOMAIN runner[r].evidence = 1..Len(runner[r].evidence) /\ Len(runner[r].evidence) \in Nat
    BY <1>2, LenProperties
  <1> QED BY <1>1, <1>2, <1>3 DEF RunnerSet, AtWork

LEMMA FitsStays ==
  ASSUME NEW me, Fits(me), LogGrows, RowsGrow, CompletedStay
  PROVE  Fits(me)'
  <1>1. Requested(me) => Requested(me)'
    BY DEF Requested, LogGrows
  <1>2. Passed(me.attempt) => Passed(me.attempt)'
    BY PassedStays
  <1>3. Made(me)'
    <2>1. ASSUME NEW j \in DOMAIN me.evidence PROVE Backed(me.evidence[j])'
      <3>1. PICK e : e = me.evidence[j]
        OBVIOUS
      <3>2. Backed(e)'
        BY <3>1, BackedStays DEF Fits, Made
      <3> QED BY <3>1, <3>2
    <2>2. ASSUME NEW j \in 1..me.recorded
          PROVE  \E i \in DOMAIN executions'[me.attempt] :
                   executions'[me.attempt][i] = me.evidence[j]
      <3>1. me.attempt \in 1..MaxIterations
        <4>1. me.recorded # 0
          BY <2>2
        <4> QED BY <4>1 DEF Fits, AtWork
      <3>2. PICK i \in DOMAIN executions[me.attempt] :
              executions[me.attempt][i] = me.evidence[j]
        BY DEF Fits, Made
      <3> QED BY <3>1, <3>2 DEF RowsGrow
    <2> QED BY <2>1, <2>2 DEF Fits, Made
  <1> QED BY <1>1, <1>2, <1>3 DEF Fits

LEMMA RunsKept ==
  ASSUME TypeOK, RunsOK, Exclusive, LogGrows, RowsGrow, CompletedStay,
         NEW r \in Runner, NEW new, runner' = [runner EXCEPT ![r] = new], Fits(new)',
         \A q \in Runner \ {r} : Holding(q) =>
           /\ Current(q) \in DOMAIN claims' /\ claims'[Current(q)] = claims[Current(q)]
           /\ new.pc \in {"claimed", "running"} => Current(q) # KeyNow(new),
         new.pc \in {"claimed", "running"} =>
           /\ Len(new.evidence) < NeededBy(new.kind)
           /\ KeyNow(new) \in DOMAIN claims' /\ claims'[KeyNow(new)].state = "pending"
  PROVE  RunsOK' /\ Exclusive'
  <1>1. runner'[r] = new /\ \A q \in Runner \ {r} : runner'[q] = runner[q]
    BY DEF TypeOK
  <1>2. \A q \in Runner \ {r} : Current(q)' = Current(q) /\ (Holding(q)' <=> Holding(q))
    BY <1>1 DEF Current, Holding
  <1>3. Current(r)' = KeyNow(new) /\ (Holding(r)' <=> new.pc \in {"claimed", "running"})
    BY <1>1 DEF Current, Holding, KeyNow
  <1>4. ASSUME NEW q \in Runner PROVE Fits(runner[q])'
    <2>1. PICK me : me = runner'[q]
      OBVIOUS
    <2>2. CASE q = r
      BY <1>1, <2>1, <2>2
    <2>3. CASE q # r
      <3>1. Fits(me)
        BY <1>1, <2>1, <2>3 DEF RunsOK
      <3>2. Fits(me)'
        BY <3>1, FitsStays
      <3> QED BY <2>1, <3>2
    <2> QED BY <2>2, <2>3
  <1>5. ASSUME NEW q \in Runner PROVE ClaimHeld(q)'
    <2>1. CASE q = r
      BY <1>1, <1>3, <2>1 DEF ClaimHeld
    <2>2. CASE q # r
      BY <1>1, <1>2, <2>2 DEF ClaimHeld, RunsOK
    <2> QED BY <2>1, <2>2
  <1>6. Exclusive'
    BY <1>2, <1>3 DEF Exclusive
  <1> QED BY <1>4, <1>5, <1>6 DEF RunsOK

(* Nothing but the state of one runner, and perhaps a lease, has changed.  *)
LEMMA SilentStep ==
  ASSUME IInv, NEW r \in Runner, NEW new \in RunnerSet', Fits(new),
         new.pc \notin {"claimed", "running"},
         runner' = [runner EXCEPT ![r] = new],
         leases' \in Seq([kind : Dispatched, attempt : 1..MaxIterations, since : Nat]),
         Len(leases) <= Len(leases'), faults' \in 0..MaxFaults,
         UNCHANGED <<blocks, executions, reviews, lapsed, money, drafts>>
  PROVE  IInv'
  <1>0. /\ TypeOK /\ LogOK /\ RowsInOrder /\ RunsOK /\ Exclusive
        /\ Kept /\ Authorized /\ Drafted
    BY DEF IInv
  <1>1. /\ blocks' = blocks /\ executions' = executions /\ reviews' = reviews
        /\ lapsed' = lapsed /\ claims' = claims /\ grants' = grants
        /\ open' = open /\ usage' = usage /\ resume' = resume /\ drafts' = drafts
    BY DEF money
  <1>2. DOMAIN leases \subseteq DOMAIN leases' /\ RunnerSet \subseteq RunnerSet'
    <2>1. /\ DOMAIN leases = 1..Len(leases) /\ Len(leases) \in Nat
          /\ DOMAIN leases' = 1..Len(leases') /\ Len(leases') \in Nat
      BY <1>0, LenProperties DEF TypeOK
    <2> QED BY <2>1 DEF RunnerSet
  <1>3. TypeOK'
    <2>1. lapsed' \in Seq(DOMAIN leases')
      BY <1>0, <1>1, <1>2, SeqMonotonic DEF TypeOK
    <2>2. runner' \in [Runner -> RunnerSet']
      BY <1>0, <1>2, RunnerTypes DEF TypeOK
    <2>3. \A key \in DOMAIN claims :
            claims[key] \in [state : {"pending", "completed", "failed"},
                             lease : DOMAIN leases', ordinal : 0..MaxRetries,
                             evidence : Seq(EvidenceSet)]
      BY <1>0, <1>2 DEF TypeOK
    <2> QED BY <1>0, <1>1, <2>1, <2>2, <2>3 DEF TypeOK, RunnerSet
  <1>4. LogGrows /\ CompletedStay
    BY <1>1 DEF LogGrows, CompletedStay
  <1>5. RowsInOrder' /\ RowsGrow
    BY <1>0, <1>1, <1>4, RowsStay
  <1>6. LogOK'
    BY <1>0, <1>1, <1>5, LogStays
  <1>7. RunsOK' /\ Exclusive'
    <2>1. Fits(new)'
      BY <1>4, <1>5, FitsStays
    <2>2. \A q \in Runner \ {r} : Holding(q) =>
            /\ Current(q) \in DOMAIN claims' /\ claims'[Current(q)] = claims[Current(q)]
            /\ new.pc \in {"claimed", "running"} => Current(q) # KeyNow(new)
      BY <1>0, <1>1 DEF RunsOK, ClaimHeld
    <2> QED BY <1>0, <1>4, <1>5, <2>1, <2>2, RunsKept
  <1>8. Authorized'
    <2>1. \A q \in Runner : runner'[q].pc = "claimed" => runner'[q] = runner[q]
      BY <1>0 DEF TypeOK
    <2> QED BY <1>0, <1>1, <2>1 DEF Authorized, Granted, Current
  <1>9. Kept' /\ Drafted'
    BY <1>0, <1>1 DEF Kept, Drafted
  <1> QED BY <1>3, <1>5, <1>6, <1>7, <1>8, <1>9 DEF IInv

LEMMA StopStep ==
  ASSUME IInv, NEW r \in Runner, Stop(r), faults' \in 0..MaxFaults,
         UNCHANGED <<blocks, executions, reviews, leases, lapsed, money, drafts>>
  PROVE  IInv'
  <1>1. TypeOK /\ runner' = [runner EXCEPT ![r] = Resting]
    BY DEF IInv, Stop, Become
  <1>2. Resting \in RunnerSet' /\ Fits(Resting) /\ Resting.pc = "idle"
    <2>1. RunnerSet' = RunnerSet
      BY DEF RunnerSet
    <2> QED BY <1>1, <2>1, RestingFits, RestingIs
  <1>3. leases' \in Seq([kind : Dispatched, attempt : 1..MaxIterations, since : Nat])
        /\ Len(leases) <= Len(leases')
    BY <1>1, LenProperties DEF TypeOK
  <1> QED BY <1>1, <1>2, <1>3, SilentStep

(* A runner sends a block, and is done.                                    *)
LEMMA DeliveryStep ==
  ASSUME IInv, NEW r \in Runner, NEW b \in BlockSet, Honest(b), Submit(r, b),
         faults' \in 0..MaxFaults,
         UNCHANGED <<leases, executions, reviews, lapsed, money, drafts>>
  PROVE  IInv'
  <1>0. /\ TypeOK /\ LogOK /\ RowsInOrder /\ RunsOK /\ Exclusive
        /\ Kept /\ Authorized /\ Drafted
    BY DEF IInv
  <1>1. CASE ~Accepts(b)
    BY <1>1, StopStep DEF Submit
  <1>2. CASE Accepts(b)
    <2>1. /\ executions' = executions /\ reviews' = reviews /\ leases' = leases
          /\ lapsed' = lapsed /\ claims' = claims /\ grants' = grants
          /\ open' = open /\ usage' = usage /\ resume' = resume /\ drafts' = drafts
          /\ blocks' = Append(blocks, b) /\ runner' = [runner EXCEPT ![r] = Resting]
      BY <1>2 DEF money, Submit, Stop, Become
    <2>2. blocks' \in Seq(BlockSet) /\ LogGrows
      BY <1>0, <2>1, Appended DEF LogGrows
    <2>3. RunnerSet' = RunnerSet /\ Resting \in RunnerSet /\ Fits(Resting)
      BY <1>0, <2>1, RestingFits DEF RunnerSet
    <2>4. TypeOK'
      <3>1. runner' \in [Runner -> RunnerSet']
        BY <1>0, <2>1, <2>3, RunnerTypes DEF TypeOK
      <3> QED BY <1>0, <2>1, <2>2, <3>1 DEF TypeOK, RunnerSet
    <2>5. CompletedStay
      BY <2>1 DEF CompletedStay
    <2>6. RowsInOrder' /\ RowsGrow
      BY <1>0, <2>1, <2>5, RowsStay
    <2>7. LogOK'
      BY <1>0, <1>2, <2>1, LogExtended
    <2>8. RunsOK' /\ Exclusive'
      <3>1. Fits(Resting)'
        BY <2>2, <2>3, <2>5, <2>6, FitsStays
      <3>2. \A q \in Runner \ {r} : Holding(q) =>
              Current(q) \in DOMAIN claims' /\ claims'[Current(q)] = claims[Current(q)]
        BY <1>0, <2>1 DEF RunsOK, ClaimHeld
      <3> QED BY <1>0, <2>1, <2>2, <2>5, <2>6, <3>1, <3>2, RestingIs, RunsKept
    <2>9. Authorized'
      <3>1. \A q \in Runner : runner'[q].pc = "claimed" => runner'[q] = runner[q]
        BY <1>0, <2>1, RestingIs DEF TypeOK
      <3> QED BY <1>0, <2>1, <3>1 DEF Authorized, Granted, Current
    <2>10. Kept' /\ Drafted'
      BY <1>0, <2>1 DEF Kept, Drafted
    <2> QED BY <2>4, <2>6, <2>7, <2>8, <2>9, <2>10 DEF IInv
  <1> QED BY <1>1, <1>2

-----------------------------------------------------------------------------
(* Plan, lease, dispatch.                                                  *)

LEMMA NextActionIs ==
  ASSUME TypeOK
  PROVE  /\ NextAction = "dispatch_technical_revalidation" =>
              Phase = "technical_revalidation_requested"
         /\ NextAction = "dispatch_quality_warden" =>
              Phase \in TestPhases /\ Last(blocks).status = "succeeded"
  <1>1. \A p \in PhaseNames \cup {"initial"} :
          /\ PhaseAction[p] = "dispatch_technical_revalidation" =>
               p = "technical_revalidation_requested"
          /\ PhaseAction[p] = "dispatch_quality_warden" => p \in TestPhases
    BY DEF PhaseAction, PhaseNames, TestPhases
  <1>2. Phase \in PhaseNames \cup {"initial"}
    BY PhaseKnown
  <1>3. blocks # <<>> => Last(blocks).status \in {"succeeded", "failed", "infrastructure_failed"}
    BY LastBlock, LogTypes
  <1>4. CASE Waiting
    BY <1>4 DEF NextAction
  <1>5. CASE ~Waiting /\ Phase \in TestPhases /\ Last(blocks).status = "failed"
    <2>1. NextAction = "append_improvement_requested"
      BY <1>5 DEF NextAction, TestPhases
    <2> QED BY <2>1
  <1>6. CASE ~Waiting /\ Phase = "quality_reviewed"
    <2>1. NextAction \in {"validate_for_promotion", "append_improvement_requested",
                          "append_escalated"}
      BY <1>6 DEF NextAction, TestPhases
    <2> QED BY <2>1
  <1>7. CASE /\ ~Waiting /\ Phase # "quality_reviewed"
             /\ ~(Phase \in TestPhases /\ Last(blocks).status = "failed")
    <2>1. NextAction = PhaseAction[Phase]
      BY <1>7 DEF NextAction
    <2>2. Phase \in TestPhases => Last(blocks).status = "succeeded"
      BY <1>3, <1>7, PhaseKnown DEF Waiting, TestPhases
    <2> QED BY <1>1, <1>2, <2>1, <2>2
  <1> QED BY <1>4, <1>5, <1>6, <1>7

LEMMA LiveLeases ==
  ASSUME TypeOK
  PROVE  /\ Live \subseteq DOMAIN leases /\ DOMAIN leases = 1..Len(leases)
         /\ Len(leases) \in Nat
  BY LenProperties DEF TypeOK, Live

LEMMA FoundLease ==
  ASSUME TypeOK, NEW kind, NEW attempt, NEW lease \in Found(kind, attempt)
  PROVE  lease \in 0..Len(leases)
  <1> DEFINE mine == {l \in Live : leases[l].kind = kind /\ leases[l].attempt = attempt}
  <1>1. mine \subseteq 1..Len(leases) /\ Len(leases) \in Nat
    BY LiveLeases
  <1>2. CASE mine = {}
    BY <1>1, <1>2 DEF Found
  <1>3. CASE mine # {}
    <2>1. \E l \in mine : \A k \in mine : k <= l
      <3> HIDE DEF mine
      <3> QED BY <1>1, <1>3, Greatest
    <2>2. PICK l : l = CHOOSE m \in mine : \A k \in mine : k <= m
      OBVIOUS
    <2>3. lease = 0 \/ lease = l
      BY <1>3, <2>2 DEF Found
    <2>4. l \in mine
      <3> HIDE DEF mine
      <3> QED BY <2>1, <2>2
    <2>5. l \in 1..Len(leases)
      BY <1>1, <2>4
    <2> QED BY <1>1, <2>3, <2>5
  <1> QED BY <1>2, <1>3

(* A record of a runner with some fields replaced.                         *)
LEMMA RunnerWith ==
  ASSUME NEW me \in RunnerSet, NEW pc \in AtWork \cup {"idle", "planned", "leased"},
         NEW kind \in Dispatched \cup {"none"}, NEW attempt \in 0..MaxIterations,
         NEW source \in Nat
  PROVE  [me EXCEPT !.pc = pc, !.kind = kind, !.attempt = attempt, !.source = source]
           \in RunnerSet
  <1>1. PICK new : new = [me EXCEPT !.pc = pc, !.kind = kind, !.attempt = attempt,
                                    !.source = source]
    OBVIOUS
  <1>2. new = [pc |-> pc, kind |-> kind, attempt |-> attempt, source |-> source,
               lease |-> me.lease, evidence |-> me.evidence, recorded |-> me.recorded]
    BY <1>1 DEF RunnerSet
  <1> QED BY <1>1, <1>2 DEF RunnerSet, AtWork

LEMMA PlanStep ==
  ASSUME IInv, NEW r \in Runner, Plan(r)
  PROVE  IInv'
  <1>0. TypeOK /\ LogOK /\ Attempt \in 1..MaxIterations
    BY AttemptBounded DEF IInv, LogOK
  <1>1. PICK lease \in Found(NextAction, Attempt) :
          runner' = [runner EXCEPT ![r] = [Resting EXCEPT !.pc = "planned", !.kind = NextAction,
                                             !.attempt = Attempt, !.lease = lease]]
    BY DEF Plan, Become
  <1>2. PICK new : new = [Resting EXCEPT !.pc = "planned", !.kind = NextAction,
                                         !.attempt = Attempt, !.lease = lease]
    OBVIOUS
  <1>3. /\ new.pc = "planned" /\ new.kind = NextAction /\ new.attempt = Attempt
        /\ new.source = 0 /\ new.evidence = <<>> /\ new.recorded = 0
    BY <1>2 DEF Resting
  <1>4. NextAction \in Dispatched /\ lease \in 0..Len(leases)
    BY <1>0, FoundLease DEF Plan
  <1>5. new \in RunnerSet'
    <2>1. new = [pc |-> "planned", kind |-> NextAction, attempt |-> Attempt, source |-> 0,
                 lease |-> lease, evidence |-> <<>>, recorded |-> 0]
      BY <1>2 DEF Resting
    <2>2. leases' = leases /\ <<>> \in Seq(EvidenceSet) /\ 0 \in 0..RequiredRuns
      BY FactoryAssumption DEF Plan, gateway
    <2> QED BY <1>0, <1>4, <2>1, <2>2 DEF RunnerSet
  <1>6. Fits(new)
    BY <1>0, <1>3, <1>4, FactoryAssumption DEF Fits, Made, NeededBy, AtWork
  <1>7. /\ UNCHANGED <<blocks, executions, reviews, leases, lapsed, money, drafts>>
        /\ faults' = faults
    BY DEF Plan, gateway
  <1>8. /\ leases' \in Seq([kind : Dispatched, attempt : 1..MaxIterations, since : Nat])
        /\ Len(leases) <= Len(leases') /\ faults' \in 0..MaxFaults
    BY <1>0, <1>7, LiveLeases DEF TypeOK
  <1> QED BY <1>1, <1>2, <1>3, <1>5, <1>6, <1>7, <1>8, SilentStep

LEMMA EnsureStep ==
  ASSUME IInv, NEW r \in Runner, Ensure(r)
  PROVE  IInv'
  <1> DEFINE me == runner[r]
             lease == [kind |-> me.kind, attempt |-> me.attempt, since |-> Len(lapsed)]
  <1>0. TypeOK /\ Fits(me) /\ me \in RunnerSet /\ me.pc = "planned"
    BY RunnerTypes DEF IInv, RunsOK, Ensure
  <1>1. /\ UNCHANGED <<blocks, executions, reviews, lapsed, money, drafts>>
        /\ faults' \in 0..MaxFaults
    BY <1>0 DEF Ensure, TypeOK
  <1>2. CASE ~MayLease(me.kind, me.attempt)
    BY <1>1, <1>2, StopStep DEF Ensure
  <1>3. CASE MayLease(me.kind, me.attempt) /\ me.lease # 0
    <2>1. leases' = leases /\ runner' = [runner EXCEPT ![r] = [me EXCEPT !.pc = "leased"]]
      BY <1>3 DEF Ensure, Become
    <2>2. PICK new : new = [me EXCEPT !.pc = "leased"]
      OBVIOUS
    <2>3. /\ new.pc = "leased" /\ new.kind = me.kind /\ new.attempt = me.attempt
          /\ new.source = me.source /\ new.evidence = me.evidence /\ new.recorded = me.recorded
          /\ new.lease = me.lease
      BY <1>0, <2>2 DEF RunnerSet
    <2>4. new \in RunnerSet'
      BY <1>0, <2>1, <2>2 DEF RunnerSet
    <2>5. Fits(new)
      BY <1>0, <2>3 DEF Fits, Made, AtWork
    <2>6. /\ leases' \in Seq([kind : Dispatched, attempt : 1..MaxIterations, since : Nat])
          /\ Len(leases) <= Len(leases')
      BY <1>0, <2>1, LiveLeases DEF TypeOK
    <2> QED BY <1>1, <2>1, <2>2, <2>3, <2>4, <2>5, <2>6, SilentStep
  <1>4. CASE MayLease(me.kind, me.attempt) /\ me.lease = 0
    <2>1. /\ leases' = Append(leases, lease)
          /\ runner' = [runner EXCEPT ![r] = [me EXCEPT !.pc = "leased", !.lease = Len(leases')]]
      BY <1>4 DEF Ensure, Become
    <2>2. PICK new : new = [me EXCEPT !.pc = "leased", !.lease = Len(leases')]
      OBVIOUS
    <2>3. /\ new.pc = "leased" /\ new.kind = me.kind /\ new.attempt = me.attempt
          /\ new.source = me.source /\ new.evidence = me.evidence /\ new.recorded = me.recorded
      BY <1>0, <2>2 DEF RunnerSet
    <2>4. /\ leases' \in Seq([kind : Dispatched, attempt : 1..MaxIterations, since : Nat])
          /\ Len(leases') = Len(leases) + 1 /\ Len(leases) \in Nat
      <3>1. lease \in [kind : Dispatched, attempt : 1..MaxIterations, since : Nat]
        BY <1>0, LenProperties DEF Fits, TypeOK
      <3>2. leases \in Seq([kind : Dispatched, attempt : 1..MaxIterations, since : Nat])
        BY <1>0 DEF TypeOK
      <3> HIDE DEF lease
      <3> QED BY <2>1, <3>1, <3>2, AppendProperties, LenProperties
    <2>5. new \in RunnerSet'
      <3>1. new = [pc |-> "leased", kind |-> me.kind, attempt |-> me.attempt,
                   source |-> me.source, lease |-> Len(leases'), evidence |-> me.evidence,
                   recorded |-> me.recorded]
        BY <1>0, <2>2 DEF RunnerSet
      <3> QED BY <1>0, <2>4, <3>1 DEF RunnerSet
    <2>6. Fits(new)
      <3>1. Made(new)
        BY <1>0, <2>3 DEF Fits, Made, AtWork
      <3> QED BY <1>0, <2>3, <3>1 DEF Fits, AtWork
    <2>7. runner' = [runner EXCEPT ![r] = new]
      BY <2>1, <2>2
    <2>8. Len(leases) <= Len(leases') /\ new.pc \notin {"claimed", "running"}
      BY <2>3, <2>4
    <2> QED BY <1>1, <2>4, <2>5, <2>6, <2>7, <2>8, SilentStep
  <1> QED BY <1>2, <1>3, <1>4

LEMMA DispatchStep ==
  ASSUME IInv, NEW r \in Runner, Dispatch(r)
  PROVE  IInv'
  <1> DEFINE me == runner[r]
             source == IF NextAction = "dispatch_technical_revalidation"
                       THEN Len(blocks) ELSE 0
  <1>0. /\ TypeOK /\ Fits(me) /\ me \in RunnerSet /\ me.pc = "leased"
        /\ LogOK /\ Attempt \in 1..MaxIterations
    BY RunnerTypes, AttemptBounded DEF IInv, LogOK, RunsOK, Dispatch
  <1>1. /\ UNCHANGED <<blocks, executions, reviews, leases, lapsed, money, drafts>>
        /\ faults' \in 0..MaxFaults
    BY <1>0 DEF Dispatch, gateway, TypeOK
  <1>2. \/ Stop(r)
        \/ /\ NextAction \in Dispatched
           /\ runner' = [runner EXCEPT ![r] = [me EXCEPT !.pc = "working", !.kind = NextAction,
                                                 !.attempt = Attempt, !.source = source]]
    BY DEF Dispatch, Become
  <1>3. CASE Stop(r)
    BY <1>1, <1>3, StopStep
  <1>4. CASE /\ NextAction \in Dispatched
             /\ runner' = [runner EXCEPT ![r] = [me EXCEPT !.pc = "working", !.kind = NextAction,
                                                   !.attempt = Attempt, !.source = source]]
    <2>1. PICK new : new = [me EXCEPT !.pc = "working", !.kind = NextAction,
                                      !.attempt = Attempt, !.source = source]
      OBVIOUS
    <2>2. /\ new.pc = "working" /\ new.kind = NextAction /\ new.attempt = Attempt
          /\ new.source = source /\ new.evidence = <<>> /\ new.recorded = 0
      BY <1>0, <2>1 DEF RunnerSet, Fits, AtWork
    <2>3. source \in Nat
      BY <1>0, LogTypes
    <2>4. new \in RunnerSet'
      <3>1. RunnerSet' = RunnerSet
        BY <1>1 DEF RunnerSet
      <3>2. "working" \in AtWork /\ Attempt \in 0..MaxIterations
        BY <1>0 DEF AtWork
      <3>3. PICK kind \in Dispatched : kind = NextAction
        BY <1>4
      <3>4. PICK from \in Nat : from = source
        BY <2>3
      <3> HIDE DEF source
      <3>5. [me EXCEPT !.pc = "working", !.kind = kind, !.attempt = Attempt, !.source = from]
              \in RunnerSet
        BY <1>0, <3>2, RunnerWith
      <3> QED BY <2>1, <3>1, <3>3, <3>4, <3>5
    <2>5. NextAction = "dispatch_technical_revalidation" => Requested(new)
      BY <1>0, <2>2, NextActionIs, LastBlock, PhaseKnown DEF Requested
    <2>6. NextAction = "dispatch_quality_warden" => Passed(new.attempt)
      <3> SUFFICES ASSUME NextAction = "dispatch_quality_warden"
                   PROVE  Len(blocks) \in TestsOf(Attempt)
                          /\ blocks[Len(blocks)].status = "succeeded"
        BY <2>2 DEF Passed
      <3> QED BY <1>0, NextActionIs, LastBlock, PhaseKnown DEF TestsOf, TestPhases
    <2>7. Fits(new)
      BY <1>0, <1>4, <2>2, <2>5, <2>6, FactoryAssumption DEF Fits, Made, NeededBy, AtWork
    <2>8. /\ leases' \in Seq([kind : Dispatched, attempt : 1..MaxIterations, since : Nat])
          /\ Len(leases) <= Len(leases')
      BY <1>0, <1>1, LiveLeases DEF TypeOK
    <2> QED BY <1>1, <1>4, <2>1, <2>2, <2>4, <2>7, <2>8, SilentStep
  <1> QED BY <1>2, <1>3, <1>4

-----------------------------------------------------------------------------
(* The blocks that runners send.                                           *)

LEMMA BlockIs ==
  ASSUME NEW phase \in PhaseNames, NEW attempt \in 1..MaxIterations,
         NEW status \in {"succeeded", "failed", "infrastructure_failed"},
         NEW lease \in Nat, NEW runs \in Seq(EvidenceSet), NEW source \in Nat,
         NEW b, b = Block(phase, attempt, status, lease, runs, source)
  PROVE  /\ b \in BlockSet /\ b.phase = phase /\ b.attempt = attempt
         /\ b.status = status /\ b.lease = lease /\ b.runs = runs
  BY PhaseList DEF Block, BlockSet

LEMMA AtWorkTypes ==
  ASSUME IInv, NEW r \in Runner, runner[r].pc \in AtWork
  PROVE  /\ runner[r].attempt \in 1..MaxIterations /\ runner[r].kind \in Dispatched
         /\ runner[r].lease \in Nat /\ runner[r].evidence \in Seq(EvidenceSet)
         /\ PhaseOf[runner[r].kind] \in PhaseNames
  <1>1. TypeOK /\ Fits(runner[r])
    BY DEF IInv, RunsOK
  <1>2. runner[r].lease \in Nat
    BY <1>1, RunnerTypes, LogTypes, LiveLeases
  <1>3. runner[r].attempt \in 1..MaxIterations /\ runner[r].kind \in Dispatched
    BY <1>1 DEF Fits, AtWork
  <1>4. PhaseOf[runner[r].kind] \in PhaseNames
    BY <1>3, Kinds, PhasesOf DEF PhaseNames, TestKinds
  <1> QED BY <1>1, <1>2, <1>3, <1>4, RunnerTypes

LEMMA PlainStep ==
  ASSUME IInv, NEW r \in Runner, runner[r].pc \in AtWork, NEW phase \in PhaseNames,
         NEW status \in {"succeeded", "failed", "infrastructure_failed"},
         phase \notin {"improvement_requested", "capability_promoted"},
         phase = "real_case_evidence" => status = "infrastructure_failed",
         phase = "quality_reviewed" =>
           status = "succeeded" /\ Passed(runner[r].attempt),
         Submit(r, Block(phase, runner[r].attempt, status, runner[r].lease, <<>>, 0)),
         faults' \in 0..MaxFaults,
         UNCHANGED <<leases, executions, reviews, lapsed, money, drafts>>
  PROVE  IInv'
  <1>1. PICK b : b = Block(phase, runner[r].attempt, status, runner[r].lease, <<>>, 0)
    OBVIOUS
  <1>2. <<>> \in Seq(EvidenceSet) /\ 0 \in Nat
    OBVIOUS
  <1>3. /\ b \in BlockSet /\ b.phase = phase /\ b.attempt = runner[r].attempt
        /\ b.status = status
    <2>1. PICK attempt \in 1..MaxIterations : attempt = runner[r].attempt
      BY AtWorkTypes
    <2>2. PICK lease \in Nat : lease = runner[r].lease
      BY AtWorkTypes
    <2>3. PICK runs \in Seq(EvidenceSet) : runs = <<>>
      BY <1>2
    <2>4. b = Block(phase, attempt, status, lease, runs, 0)
      BY <1>1, <2>1, <2>2, <2>3
    <2>5. b \in BlockSet /\ b.phase = phase /\ b.attempt = attempt /\ b.status = status
      BY <2>4, BlockIs
    <2> QED BY <2>1, <2>5
  <1>4. Honest(b)
    BY <1>3 DEF Honest
  <1> QED BY <1>1, <1>3, <1>4, DeliveryStep

LEMMA DeliverSkillStep ==
  ASSUME IInv, NEW r \in Runner, DeliverSkill(r)
  PROVE  IInv'
  <1>1. /\ runner[r].pc \in AtWork /\ faults' \in 0..MaxFaults
        /\ UNCHANGED <<leases, executions, reviews, lapsed, money, drafts>>
    BY DEF DeliverSkill, AtWork, IInv, TypeOK
  <1>2. PhaseOf[runner[r].kind] \in {"blueprint_created", "tool_candidate_tested"}
    BY PhasesOf DEF DeliverSkill
  <1> QED BY <1>1, <1>2, PlainStep DEF DeliverSkill, PhaseNames

LEMMA DeliverForgeStep ==
  ASSUME IInv, NEW r \in Runner, DeliverForge(r)
  PROVE  IInv'
  <1>1. /\ runner[r].pc \in AtWork /\ faults' \in 0..MaxFaults
        /\ UNCHANGED <<leases, executions, reviews, lapsed, money, drafts>>
    BY DEF DeliverForge, AtWork, IInv, TypeOK
  <1>2. CASE Submit(r, Block("agent_code_created", runner[r].attempt, "succeeded",
                             runner[r].lease, <<>>, 0))
    BY <1>1, <1>2, PlainStep DEF PhaseNames
  <1>3. CASE Stop(r) /\ UNCHANGED blocks
    BY <1>1, <1>3, StopStep
  <1> QED BY <1>2, <1>3 DEF DeliverForge

LEMMA DeliverBuildStep ==
  ASSUME IInv, NEW r \in Runner, DeliverBuild(r)
  PROVE  IInv'
  <1>1. /\ runner[r].pc \in AtWork /\ faults' \in 0..MaxFaults
        /\ UNCHANGED <<leases, executions, reviews, lapsed, money, drafts>>
    BY DEF DeliverBuild, AtWork, IInv, TypeOK
  <1>2. PICK status \in {"succeeded", "failed"} :
          Submit(r, Block(IF status = "succeeded" THEN "build_passed" ELSE "build_failed",
                          runner[r].attempt, status, runner[r].lease, <<>>, 0))
    BY DEF DeliverBuild
  <1>3. PICK phase \in {"build_passed", "build_failed"} :
          phase = IF status = "succeeded" THEN "build_passed" ELSE "build_failed"
    OBVIOUS
  <1> QED BY <1>1, <1>2, <1>3, PlainStep DEF PhaseNames

LEMMA DeliverInfrastructureStep ==
  ASSUME IInv, NEW r \in Runner, DeliverInfrastructure(r)
  PROVE  IInv'
  <1>1. /\ runner[r].pc \in AtWork /\ faults' \in 0..MaxFaults
        /\ UNCHANGED <<leases, executions, reviews, lapsed, money, drafts>>
    BY FactoryAssumption DEF DeliverInfrastructure, AtWork, IInv, TypeOK
  <1>2. PICK phase : phase = IF runner[r].kind = "dispatch_build_validator"
                             THEN "build_failed" ELSE PhaseOf[runner[r].kind]
    OBVIOUS
  <1>3. runner[r].kind = "dispatch_build_validator" \/ runner[r].kind \in TestKinds
    BY <1>1, AtWorkTypes, Kinds DEF DeliverInfrastructure
  <1>4. phase \in {"build_failed", "real_case_evidence", "real_case_revalidated"}
    BY <1>2, <1>3, PhasesOf DEF TestKinds
  <1> QED BY <1>1, <1>2, <1>4, PlainStep DEF DeliverInfrastructure, PhaseNames

LEMMA DeliverReviewStep ==
  ASSUME IInv, NEW r \in Runner, DeliverReview(r)
  PROVE  IInv'
  <1>1. /\ runner[r].pc \in AtWork /\ faults' \in 0..MaxFaults
        /\ UNCHANGED <<leases, executions, reviews, lapsed, money, drafts>>
    BY DEF DeliverReview, AtWork, IInv, TypeOK
  <1>2. Passed(runner[r].attempt)
    BY <1>1 DEF DeliverReview, IInv, RunsOK, Fits
  <1> QED BY <1>1, <1>2, PlainStep DEF DeliverReview, PhaseNames

(* The runs that a tester has recorded are the first rows of the attempt.  *)
LEMMA RecordedRows ==
  ASSUME IInv, NEW r \in Runner, runner[r].pc \in AtWork,
         runner[r].kind = "dispatch_real_case_tester", NEW j \in 1..runner[r].recorded
  PROVE  /\ j \in 1..RequiredRuns /\ j \in DOMAIN executions[runner[r].attempt]
         /\ executions[runner[r].attempt][j] = runner[r].evidence[j]
         /\ runner[r].evidence[j].lease = runner[r].lease
  <1> DEFINE me == runner[r]
             rows == executions[me.attempt]
  <1>0. TypeOK /\ Fits(me) /\ RowsInOrder /\ me.attempt \in 1..MaxIterations
    BY AtWorkTypes DEF IInv, RunsOK
  <1>1. /\ me.recorded \in 0..RequiredRuns /\ Len(me.evidence) \in Nat
        /\ DOMAIN me.evidence = 1..Len(me.evidence)
    BY <1>0, RunnerTypes
  <1>2. j \in 1..RequiredRuns /\ j \in DOMAIN me.evidence /\ RequiredRuns \in Nat
    BY <1>0, <1>1, FactoryAssumption DEF Fits, Made
  <1>3. PICK i \in DOMAIN rows : rows[i] = me.evidence[j]
    BY <1>0 DEF Fits, Made
  <1>4. me.evidence[j].number = j /\ me.evidence[j].source = 0
    <2>1. me.source = 0 /\ KeyOf(me.evidence[j]) = Key(me.attempt, j, me.source)
      BY <1>0, <1>2 DEF Fits, Made
    <2> QED BY <2>1 DEF KeyOf, Key
  <1>5. i \in Nat
    BY <1>0, <1>3, RowTypes
  <1>6. i = j
    BY <1>0, <1>2, <1>3, <1>4, <1>5 DEF RowsInOrder
  <1> QED BY <1>0, <1>2, <1>3, <1>6 DEF Fits, Made

LEMMA DeliverTestStep ==
  ASSUME IInv, NEW r \in Runner, DeliverTest(r)
  PROVE  IInv'
  <1> DEFINE me == runner[r]
  <1>0. /\ TypeOK /\ Fits(me) /\ me.pc = "working" /\ me.pc \in AtWork /\ IsTest(me.kind)
        /\ me.recorded = Needed(r) /\ faults' \in 0..MaxFaults
        /\ UNCHANGED <<leases, executions, reviews, lapsed, money, drafts>>
    BY DEF IInv, RunsOK, DeliverTest, Testing, TypeOK, AtWork
  <1>1. PICK status \in {"succeeded", "failed"} :
          status = IF \A i \in DOMAIN me.evidence : me.evidence[i].ok
                   THEN "succeeded" ELSE "failed"
    OBVIOUS
  <1>2. PICK phase : phase = PhaseOf[me.kind]
    OBVIOUS
  <1>3. me.kind \in TestKinds /\ phase \in {"real_case_evidence", "real_case_revalidated"}
    BY <1>0, <1>2, AtWorkTypes, Kinds, PhasesOf DEF TestKinds
  <1>4. PICK b : b = Block(phase, me.attempt, status, me.lease, me.evidence, 0)
    OBVIOUS
  <1>5. /\ b \in BlockSet /\ b.phase = phase /\ b.attempt = me.attempt
        /\ b.status = status /\ b.lease = me.lease /\ b.runs = me.evidence
    <2>1. /\ me.attempt \in 1..MaxIterations /\ me.lease \in Nat
          /\ me.evidence \in Seq(EvidenceSet)
      BY <1>0, AtWorkTypes
    <2>2. phase \in PhaseNames /\ 0 \in Nat
          /\ status \in {"succeeded", "failed", "infrastructure_failed"}
      BY <1>3 DEF PhaseNames
    <2> HIDE DEF me
    <2> QED BY <1>4, <2>1, <2>2, BlockIs
  <1>6. phase = "real_case_evidence" => Bundled(b)
    <2> SUFFICES ASSUME phase = "real_case_evidence" PROVE Bundled(b)
      OBVIOUS
    <2>1. me.kind = "dispatch_real_case_tester"
      BY <1>2, <1>3, PhasesOf DEF TestKinds
    <2>2. me.recorded = RequiredRuns /\ Len(me.evidence) = RequiredRuns /\ RequiredRuns \in Nat \ {0}
      BY <1>0, <2>1, FactoryAssumption DEF Needed, Fits, Made, NeededBy
    <2>3. \A j \in 1..RequiredRuns :
            /\ j \in DOMAIN executions[me.attempt]
            /\ executions[me.attempt][j] = me.evidence[j] /\ me.evidence[j].lease = me.lease
      BY <1>0, <2>1, <2>2, RecordedRows
    <2>4. Tested(me.attempt)
      BY <1>0, <2>2, <2>3, AtWorkTypes, RowTypes DEF Tested
    <2>5. status = "failed" => Flawed(me.attempt)
      BY <1>0, <1>1, <2>2, <2>3, <2>4, RunnerTypes DEF Flawed
    <2> QED BY <1>5, <2>2, <2>3, <2>4, <2>5 DEF Bundled
  <1>7. Honest(b)
    BY <1>3, <1>5, <1>6 DEF Honest
  <1>8. Submit(r, b)
    BY <1>1, <1>2, <1>4 DEF DeliverTest
  <1> QED BY <1>0, <1>5, <1>7, <1>8, DeliveryStep

-----------------------------------------------------------------------------
(* The real-case tester.                                                   *)

LEMMA WithoutIs ==
  ASSUME NEW f, NEW key
  PROVE  /\ DOMAIN Without(f, key) = DOMAIN f \ {key}
         /\ \A k \in DOMAIN f : k # key => Without(f, key)[k] = f[k]
  BY DEF Without

(* Who is at a run, and at which.                                          *)
LEMMA AtRun ==
  ASSUME IInv, NEW r \in Runner, Running(r) \/ Holding(r)
  PROVE  /\ runner[r].pc \in AtWork /\ runner[r].kind \in TestKinds
         /\ runner[r].attempt \in 1..MaxIterations /\ runner[r].lease \in 0..Len(leases)
         /\ runner[r] \in RunnerSet /\ Fits(runner[r]) /\ runner[r].recorded = 0
         /\ Len(runner[r].evidence) \in Nat
         /\ Len(runner[r].evidence) < NeededBy(runner[r].kind)
         /\ Current(r) \in Keys /\ Current(r) = KeyNow(runner[r])
         /\ Current(r).number = Len(runner[r].evidence) + 1
  <1> DEFINE me == runner[r]
  <1>0. TypeOK /\ Fits(me) /\ ClaimHeld(r) /\ me \in RunnerSet
    BY RunnerTypes DEF IInv, RunsOK
  <1>1. me.pc \in AtWork
    BY DEF Running, Holding, Testing, AtWork
  <1>2. me.kind \in TestKinds
    BY <1>0, <1>1, AtWorkTypes, Kinds DEF Running, Testing, Holding, Fits
  <1>3. Len(me.evidence) < NeededBy(me.kind)
    BY <1>0 DEF Running, Needed, NeededBy, ClaimHeld
  <1>4. /\ Len(me.evidence) \in Nat /\ me.source \in Nat /\ me.recorded \in Nat
        /\ me.lease \in 0..Len(leases)
    BY <1>0, RunnerTypes, FactoryAssumption
  <1>5. me.recorded = 0
    BY <1>0, <1>3, <1>4, FactoryAssumption DEF Fits, Made, NeededBy
  <1>6. Len(me.evidence) + 1 \in 1..RequiredRuns
    BY <1>3, <1>4, FactoryAssumption DEF NeededBy
  <1>7. me.attempt \in 1..MaxIterations
    BY <1>1, AtWorkTypes
  <1>8. Current(r) \in Keys
    BY <1>4, <1>6, <1>7 DEF Current, Key, Keys
  <1> QED BY <1>0, <1>1, <1>2, <1>3, <1>4, <1>5, <1>7, <1>8 DEF Current, KeyNow, Key

(* What Collect makes of a runner.                                         *)
LEMMA CollectIs ==
  ASSUME TypeOK, NEW r \in Runner, NEW e \in EvidenceSet, Collect(r, e)
  PROVE  \E new \in RunnerSet :
           /\ runner' = [runner EXCEPT ![r] = new]
           /\ new.pc = "working" /\ new.kind = runner[r].kind
           /\ new.attempt = runner[r].attempt /\ new.source = runner[r].source
           /\ new.lease = runner[r].lease /\ new.recorded = runner[r].recorded
           /\ new.evidence = Append(runner[r].evidence, e)
  <1>1. PICK me \in RunnerSet : me = runner[r]
    BY RunnerTypes
  <1>2. me.evidence \in Seq(EvidenceSet)
    BY <1>1 DEF RunnerSet
  <1>3. PICK runs \in Seq(EvidenceSet) : runs = Append(me.evidence, e)
    BY <1>2, AppendProperties
  <1>4. PICK new : new = [me EXCEPT !.pc = "working", !.evidence = runs]
    OBVIOUS
  <1>5. /\ new \in RunnerSet
        /\ new.pc = "working" /\ new.kind = me.kind /\ new.attempt = me.attempt
        /\ new.source = me.source /\ new.lease = me.lease /\ new.evidence = runs
        /\ new.recorded = me.recorded
    <2>1. new = [pc |-> "working", kind |-> me.kind, attempt |-> me.attempt,
                 source |-> me.source, lease |-> me.lease, evidence |-> runs,
                 recorded |-> me.recorded]
      BY <1>4 DEF RunnerSet
    <2> QED BY <2>1 DEF RunnerSet
  <1>6. runner' = [runner EXCEPT ![r] = new]
    BY <1>1, <1>3, <1>4 DEF Collect, Become
  <1> QED BY <1>1, <1>3, <1>5, <1>6

(* A runner that has one more piece of evidence.                           *)
LEMMA Collected ==
  ASSUME IInv, NEW r \in Runner, Running(r) \/ Holding(r), NEW e \in EvidenceSet,
         KeyOf(e) = Current(r), Backed(e)', LogGrows, RowsGrow, CompletedStay,
         NEW new \in RunnerSet, new.pc = "working", new.kind = runner[r].kind,
         new.attempt = runner[r].attempt, new.source = runner[r].source,
         new.recorded = runner[r].recorded,
         new.evidence = Append(runner[r].evidence, e)
  PROVE  Fits(new)'
  <1> DEFINE me == runner[r]
  <1>0. /\ me.pc \in AtWork /\ me.kind \in TestKinds /\ me.attempt \in 1..MaxIterations
        /\ me \in RunnerSet /\ Fits(me) /\ me.recorded = 0 /\ Len(me.evidence) \in Nat
        /\ Len(me.evidence) < NeededBy(me.kind) /\ Current(r) = KeyNow(me)
    BY AtRun
  <1>1. me.evidence \in Seq(EvidenceSet)
    BY <1>0 DEF RunnerSet
  <1>2. PICK runs \in Seq(EvidenceSet) : runs = Append(me.evidence, e)
    BY <1>1, AppendProperties
  <1>3. /\ Len(runs) = Len(me.evidence) + 1 /\ DOMAIN runs = 1..(Len(me.evidence) + 1)
        /\ \A j \in 1..Len(me.evidence) : runs[j] = me.evidence[j]
        /\ runs[Len(me.evidence) + 1] = e /\ DOMAIN me.evidence = 1..Len(me.evidence)
    BY <1>1, <1>2, AppendProperties, LenProperties
  <1>6. /\ new.pc = "working" /\ new.kind = me.kind /\ new.attempt = me.attempt
        /\ new.source = me.source /\ new.evidence = runs /\ new.recorded = 0
    BY <1>0, <1>2
  <1>7. PICK old : old = me
    OBVIOUS
  <1>8. Fits(old)'
    BY <1>0, <1>7, FitsStays
  <1>9. Made(new)'
    <2>1. Len(new.evidence) <= NeededBy(new.kind)
      BY <1>0, <1>3, <1>6, FactoryAssumption DEF NeededBy
    <2>2. ASSUME NEW j \in DOMAIN new.evidence
          PROVE  KeyOf(new.evidence[j]) = Key(new.attempt, j, new.source)
                 /\ Backed(new.evidence[j])'
      <3>1. CASE j \in DOMAIN me.evidence
        <4>1. PICK x : x = old.evidence[j]
          OBVIOUS
        <4>2. KeyOf(x) = Key(old.attempt, j, old.source) /\ Backed(x)'
          BY <1>7, <1>8, <3>1, <4>1 DEF Fits, Made
        <4> QED BY <1>3, <1>6, <1>7, <3>1, <4>1, <4>2
      <3>2. CASE j = Len(me.evidence) + 1
        BY <1>0, <1>3, <1>6, <3>2 DEF KeyNow
      <3> QED BY <1>3, <1>6, <3>1, <3>2
    <2> QED BY <1>6, <2>1, <2>2 DEF Made
  <1>10. Fits(new)'
    <2>1. new.kind = "dispatch_technical_revalidation" => Requested(new)'
      BY <1>0, <1>6, <1>7, <1>8 DEF Fits, Requested
    <2> QED BY <1>0, <1>6, <1>7, <1>8, <1>9, <2>1, Kinds DEF Fits, AtWork, TestKinds
  <1> QED BY <1>10

LEMMA CollectStep ==
  ASSUME IInv, NEW r \in Runner, Running(r), NEW e \in EvidenceSet,
         KeyOf(e) = Current(r), Backed(e), Collect(r, e),
         UNCHANGED <<gateway, lapsed, money, drafts, faults>>
  PROVE  IInv'
  <1>0. TypeOK /\ faults' \in 0..MaxFaults
    BY DEF IInv, TypeOK
  <1>1. /\ blocks' = blocks /\ executions' = executions /\ claims' = claims /\ leases' = leases
        /\ UNCHANGED <<blocks, executions, reviews, lapsed, money, drafts>>
    BY DEF gateway, money
  <1>2. PICK new \in RunnerSet :
          /\ runner' = [runner EXCEPT ![r] = new]
          /\ new.pc = "working" /\ new.kind = runner[r].kind
          /\ new.attempt = runner[r].attempt /\ new.source = runner[r].source
          /\ new.lease = runner[r].lease /\ new.recorded = runner[r].recorded
          /\ new.evidence = Append(runner[r].evidence, e)
    BY <1>0, CollectIs
  <1>3. Backed(e)'
    BY <1>1 DEF Backed
  <1>4. LogGrows /\ RowsGrow /\ CompletedStay
    BY <1>0, <1>1, RowTypes DEF LogGrows, RowsGrow, CompletedStay
  <1>5. Fits(new)'
    BY <1>2, <1>3, <1>4, Collected
  <1>6. Fits(new)
    BY <1>1, <1>5 DEF Fits, Requested, Passed, TestsOf, Made, Backed
  <1>7. new \in RunnerSet'
    BY <1>1 DEF RunnerSet
  <1>8. /\ leases' \in Seq([kind : Dispatched, attempt : 1..MaxIterations, since : Nat])
        /\ Len(leases) <= Len(leases')
    BY <1>0, <1>1, LiveLeases DEF TypeOK
  <1> QED BY <1>0, <1>1, <1>2, <1>6, <1>7, <1>8, SilentStep

LEMMA FailPreflightStep ==
  ASSUME IInv, NEW r \in Runner, FailPreflight(r)
  PROVE  IInv'
  <1>1. Running(r) /\ Current(r) \in Keys /\ runner[r].lease \in Nat
    BY AtRun, AtWorkTypes DEF FailPreflight
  <1>2. PICK e : e = Evidence(Current(r), runner[r].lease, FALSE, FALSE, FALSE)
    OBVIOUS
  <1>3. e \in EvidenceSet /\ KeyOf(e) = Current(r) /\ e.paid = FALSE
    BY <1>1, <1>2 DEF Evidence, EvidenceSet, KeyOf, Key, Keys
  <1>4. Backed(e)
    BY <1>3 DEF Backed
  <1> QED BY <1>1, <1>2, <1>3, <1>4, CollectStep DEF FailPreflight

LEMMA ReplayStep ==
  ASSUME IInv, NEW r \in Runner, Replay(r)
  PROVE  IInv'
  <1>0. /\ TypeOK /\ Kept /\ Running(r) /\ Current(r) \in DOMAIN claims
        /\ UNCHANGED <<gateway, lapsed, money, drafts, faults>>
        /\ UNCHANGED <<blocks, executions, reviews, leases, lapsed, money, drafts>>
        /\ faults' \in 0..MaxFaults
    BY DEF IInv, Replay, gateway, TypeOK
  <1>1. CASE Stop(r)
    BY <1>0, <1>1, StopStep
  <1>2. CASE /\ claims[Current(r)].state = "completed"
             /\ Collect(r, claims[Current(r)].evidence[1])
    <2>1. PICK e : e = claims[Current(r)].evidence[1]
      OBVIOUS
    <2>2. claims[Current(r)].evidence = <<e>> /\ KeyOf(e) = Current(r)
      BY <1>0, <1>2, <2>1 DEF Kept
    <2>3. e \in EvidenceSet
      <3>1. claims[Current(r)].evidence \in Seq(EvidenceSet)
        BY <1>0 DEF TypeOK
      <3> QED BY <2>2, <3>1
    <2>4. Backed(e)
      BY <1>0, <1>2, <2>2 DEF Backed
    <2> QED BY <1>0, <1>2, <2>1, <2>2, <2>3, <2>4, CollectStep
  <1> QED BY <1>1, <1>2 DEF Replay

LEMMA LeaseLapsedStep ==
  ASSUME IInv, NEW r \in Runner, LeaseLapsed(r)
  PROVE  IInv'
  BY StopStep DEF LeaseLapsed, gateway, IInv, TypeOK

LEMMA CrashStep ==
  ASSUME IInv, NEW r \in Runner, Crash(r)
  PROVE  IInv'
  <1>1. faults' \in 0..MaxFaults
    BY FactoryAssumption DEF Crash, IInv, TypeOK
  <1> QED BY <1>1, StopStep DEF Crash, gateway

-----------------------------------------------------------------------------
(* Claims and what runs spend.                                             *)

ClaimSet ==
  [state : {"pending", "completed", "failed"}, lease : DOMAIN leases,
   ordinal : 0..MaxRetries, evidence : Seq(EvidenceSet)]

(* Only what is known of one run has changed in the replay store.          *)
OnlyClaim(key) ==
  \A k : k # key =>
    /\ k \in DOMAIN claims' <=> k \in DOMAIN claims
    /\ k \in DOMAIN claims => claims'[k] = claims[k]

(* The run of r is nobody's but r's, and not completed.                    *)
LEMMA OthersKept ==
  ASSUME IInv, NEW r \in Runner, OnlyClaim(Current(r)),
         \/ Holding(r)
         \/ Current(r) \in DOMAIN claims => claims[Current(r)].state = "failed"
  PROVE  /\ CompletedStay
         /\ \A q \in Runner \ {r} : Holding(q) =>
              /\ Current(q) # Current(r)
              /\ Current(q) \in DOMAIN claims' /\ claims'[Current(q)] = claims[Current(q)]
  <1>0. RunsOK /\ Exclusive
    BY DEF IInv
  <1>1. Current(r) \in DOMAIN claims => claims[Current(r)].state # "completed"
    BY <1>0 DEF RunsOK, ClaimHeld
  <1>2. CompletedStay
    BY <1>1 DEF CompletedStay, OnlyClaim
  <1>3. ASSUME NEW q \in Runner \ {r}, Holding(q)
        PROVE  Current(q) # Current(r) /\ Current(q) \in DOMAIN claims
    BY <1>0, <1>3 DEF RunsOK, ClaimHeld, Exclusive
  <1>4. \A q \in Runner \ {r} : Holding(q) =>
          Current(q) \in DOMAIN claims' /\ claims'[Current(q)] = claims[Current(q)]
    BY <1>3 DEF OnlyClaim
  <1> QED BY <1>2, <1>3, <1>4

(* A runner that stays at its run.                                         *)
LEMMA Moved ==
  ASSUME IInv, NEW r \in Runner, Running(r) \/ Holding(r),
         NEW pc \in {"claimed", "running", "broken"},
         Become(r, [runner[r] EXCEPT !.pc = pc]), LogGrows, RowsGrow, CompletedStay
  PROVE  \E new \in RunnerSet :
           /\ runner' = [runner EXCEPT ![r] = new]
           /\ Fits(new)' /\ new.pc = pc /\ KeyNow(new) = Current(r)
           /\ Len(new.evidence) < NeededBy(new.kind)
  <1>1. PICK me \in RunnerSet : me = runner[r]
    BY AtRun
  <1>2. /\ me.pc \in AtWork /\ me.kind \in TestKinds /\ Fits(me)
        /\ Len(me.evidence) < NeededBy(me.kind) /\ Current(r) = KeyNow(me)
    BY <1>1, AtRun
  <1>3. PICK new : new = [me EXCEPT !.pc = pc]
    OBVIOUS
  <1>4. /\ new \in RunnerSet /\ new.pc = pc /\ new.kind = me.kind /\ new.attempt = me.attempt
        /\ new.source = me.source /\ new.lease = me.lease /\ new.evidence = me.evidence
        /\ new.recorded = me.recorded
    BY <1>3 DEF RunnerSet
  <1>5. Fits(me)'
    BY <1>2, FitsStays
  <1>6. Made(new)' /\ (Requested(me)' => Requested(new)')
    BY <1>4, <1>5 DEF Fits, Made, Requested
  <1>7. Fits(new)'
    BY <1>2, <1>4, <1>5, <1>6, Kinds DEF Fits, AtWork, TestKinds
  <1>8. runner' = [runner EXCEPT ![r] = new]
    BY <1>1, <1>3 DEF Become
  <1>9. KeyNow(new) = Current(r) /\ Len(new.evidence) < NeededBy(new.kind)
    BY <1>2, <1>4 DEF KeyNow
  <1> QED BY <1>4, <1>7, <1>8, <1>9

LEMMA MoneyStep ==
  ASSUME IInv, NEW r \in Runner, Running(r) \/ Holding(r),
         NEW key, key = Current(r), OnlyClaim(key),
         Holding(r) \/ (key \in DOMAIN claims => claims[key].state = "failed"),
         key \in DOMAIN claims' =>
           /\ claims'[key] \in ClaimSet
           /\ claims'[key].state = "completed" =>
                LET e == claims'[key].evidence[1]
                IN claims'[key].evidence = <<e>> /\ KeyOf(e) = key /\ e.paid,
         open' \subseteq open \cup {key},
         Phase = "capability_promoted" => open' \subseteq open /\ usage' = usage,
         \A k : k # key =>
           /\ k \in DOMAIN usage' <=> k \in DOMAIN usage
           /\ k \in DOMAIN usage => usage'[k] = usage[k],
         NEW new \in RunnerSet, runner' = [runner EXCEPT ![r] = new], Fits(new)',
         new.pc \in {"claimed", "running"} =>
           /\ KeyNow(new) = key /\ Len(new.evidence) < NeededBy(new.kind)
           /\ key \in DOMAIN claims' /\ claims'[key].state = "pending",
         key \in DOMAIN usage' =>
           /\ usage'[key] \in Nat
           /\ \A n \in 1..(usage'[key] - 1) : Granted(key, n)
           /\ key \notin DOMAIN claims' \/ new.pc = "claimed" => Granted(key, usage'[key]),
         UNCHANGED <<gateway, lapsed, grants, resume, drafts, faults>>
  PROVE  IInv'
  <1>0. /\ TypeOK /\ LogOK /\ RowsInOrder /\ RunsOK /\ Exclusive
        /\ Kept /\ Authorized /\ Drafted
    BY DEF IInv
  <1>1. /\ blocks' = blocks /\ executions' = executions /\ reviews' = reviews
        /\ leases' = leases /\ lapsed' = lapsed /\ grants' = grants
        /\ drafts' = drafts /\ faults' = faults
    BY DEF gateway
  <1>2. key \in Keys
    BY AtRun
  <1>3. /\ CompletedStay
        /\ \A q \in Runner \ {r} : Holding(q) =>
             /\ Current(q) # key
             /\ Current(q) \in DOMAIN claims' /\ claims'[Current(q)] = claims[Current(q)]
    BY OthersKept
  <1>4. TypeOK'
    <2>1. runner' \in [Runner -> RunnerSet']
      <3>1. RunnerSet' = RunnerSet
        BY <1>1 DEF RunnerSet
      <3> QED BY <1>0, <3>1, RunnerTypes DEF TypeOK
    <2>2. DOMAIN claims' \subseteq Keys /\ \A k \in DOMAIN claims' : claims'[k] \in ClaimSet
      <3>1. DOMAIN claims \subseteq Keys /\ \A k \in DOMAIN claims : claims[k] \in ClaimSet
        BY <1>0 DEF TypeOK, ClaimSet
      <3> QED BY <1>2, <3>1 DEF OnlyClaim
    <2>3. DOMAIN usage' \subseteq Keys /\ \A k \in DOMAIN usage' : usage'[k] \in Nat
      BY <1>0, <1>2 DEF TypeOK
    <2>4. open' \subseteq Keys
      BY <1>0, <1>2 DEF TypeOK
    <2> QED BY <1>0, <1>1, <2>1, <2>2, <2>3, <2>4 DEF TypeOK, RunnerSet, ClaimSet
  <1>5. LogGrows
    BY <1>1 DEF LogGrows
  <1>6. RowsInOrder' /\ RowsGrow
    BY <1>0, <1>1, <1>3, RowsStay
  <1>7. LogOK'
    BY <1>0, <1>1, <1>6, LogStays
  <1>8. RunsOK' /\ Exclusive'
    <2>1. \A q \in Runner \ {r} : Holding(q) =>
            /\ Current(q) \in DOMAIN claims' /\ claims'[Current(q)] = claims[Current(q)]
            /\ new.pc \in {"claimed", "running"} => Current(q) # KeyNow(new)
      BY <1>3
    <2>2. new.pc \in {"claimed", "running"} =>
            /\ Len(new.evidence) < NeededBy(new.kind)
            /\ KeyNow(new) \in DOMAIN claims' /\ claims'[KeyNow(new)].state = "pending"
      OBVIOUS
    <2> QED BY <1>0, <1>3, <1>5, <1>6, <2>1, <2>2, RunsKept, Zenon
  <1>9. Kept'
    <2> SUFFICES ASSUME NEW k \in DOMAIN claims', claims'[k].state = "completed"
                 PROVE  LET e == claims'[k].evidence[1]
                        IN claims'[k].evidence = <<e>> /\ KeyOf(e) = k /\ e.paid
      BY DEF Kept
    <2>1. CASE k = key
      BY <2>1
    <2>2. CASE k # key
      BY <1>0, <2>2 DEF Kept, OnlyClaim
    <2> QED BY <2>1, <2>2
  <1>10. Authorized'
    <2> SUFFICES ASSUME NEW k \in DOMAIN usage'
                 PROVE  /\ \A n \in 1..(usage'[k] - 1) : Granted(k, n)
                        /\ \/ k \notin DOMAIN claims'
                           \/ \E q \in Runner : runner'[q].pc = "claimed" /\ Current(q)' = k
                           => Granted(k, usage'[k])
      BY <1>1 DEF Authorized, Granted
    <2>1. /\ runner'[r] = new /\ \A q \in Runner \ {r} : runner'[q] = runner[q]
          /\ Current(r)' = KeyNow(new) /\ \A q \in Runner \ {r} : Current(q)' = Current(q)
      BY <1>0 DEF TypeOK, Current, KeyNow
    <2>2. CASE k = key
      <3>1. \A q \in Runner \ {r} : runner[q].pc = "claimed" => Current(q) # key
        BY <1>3 DEF Holding
      <3> QED BY <2>1, <2>2, <3>1
    <2>3. CASE k # key
      BY <1>0, <2>1, <2>3 DEF Authorized, OnlyClaim
    <2> QED BY <2>2, <2>3
  <1>11. Drafted'
    BY <1>0, <1>1 DEF Drafted
  <1> QED BY <1>4, <1>6, <1>7, <1>8, <1>9, <1>10, <1>11 DEF IInv

(* What a step changes, when it changes neither the log nor the rows.      *)
LEMMA GatewayStays ==
  ASSUME IInv, UNCHANGED gateway
  PROVE  LogGrows /\ RowsGrow
  <1>1. blocks' = blocks /\ executions' = executions /\ TypeOK
    BY DEF gateway, IInv
  <1> QED BY <1>1, RowTypes DEF LogGrows, RowsGrow

LEMMA WithKeeps ==
  ASSUME NEW key, NEW value, claims' = With(claims, key, value)
  PROVE  OnlyClaim(key) /\ key \in DOMAIN claims' /\ claims'[key] = value
  <1>1. /\ DOMAIN claims' = DOMAIN claims \cup {key} /\ claims'[key] = value
        /\ \A k \in DOMAIN claims : k # key => claims'[k] = claims[k]
    BY DEF With
  <1> QED BY <1>1 DEF OnlyClaim

(* Every claim that a runner holds is a pending record of the store.       *)
LEMMA HeldClaim ==
  ASSUME IInv, NEW r \in Runner, Holding(r)
  PROVE  /\ Current(r) \in DOMAIN claims /\ claims[Current(r)].state = "pending"
         /\ claims[Current(r)] \in ClaimSet
  BY DEF IInv, RunsOK, ClaimHeld, TypeOK, ClaimSet

LEMMA UsageIs ==
  ASSUME IInv, NEW key \in DOMAIN usage
  PROVE  /\ usage[key] \in Nat /\ Used(key) = usage[key]
         /\ \A n \in 1..(usage[key] - 1) : Granted(key, n)
         /\ key \notin DOMAIN claims => Granted(key, usage[key])
         /\ \A r \in Runner : runner[r].pc = "claimed" /\ Current(r) = key =>
              Granted(key, usage[key])
  BY DEF IInv, TypeOK, Authorized, Used

LEMMA ClaimStep ==
  ASSUME IInv, NEW r \in Runner, Claim(r)
  PROVE  IInv'
  <1> DEFINE pending == [state |-> "pending", lease |-> runner[r].lease, ordinal |-> 0,
                         evidence |-> <<>>]
  <1>0. /\ TypeOK /\ Running(r) /\ runner[r].lease \in DOMAIN leases
        /\ UNCHANGED <<gateway, lapsed, grants, open, usage, resume, drafts, faults>>
    BY LiveLeases DEF IInv, Claim
  <1>1. PICK key : key = Current(r)
    OBVIOUS
  <1>2. key \notin DOMAIN claims /\ claims' = With(claims, key, pending)
    BY <1>1 DEF Claim
  <1>3. OnlyClaim(key) /\ key \in DOMAIN claims' /\ claims'[key] = pending
    <2> HIDE DEF pending
    <2> QED BY <1>2, WithKeeps
  <1>4. pending \in ClaimSet /\ pending.state = "pending"
    BY <1>0, FactoryAssumption DEF ClaimSet
  <1>5. LogGrows /\ RowsGrow /\ CompletedStay
    BY <1>0, <1>1, <1>2, <1>3, GatewayStays, OthersKept
  <1>6. PICK new \in RunnerSet :
          /\ runner' = [runner EXCEPT ![r] = new]
          /\ Fits(new)' /\ new.pc = "claimed" /\ KeyNow(new) = key
          /\ Len(new.evidence) < NeededBy(new.kind)
    <2>1. Become(r, [runner[r] EXCEPT !.pc = "claimed"])
      BY DEF Claim
    <2> QED BY <1>0, <1>1, <1>5, <2>1, Moved
  <1>7. key \in DOMAIN usage' =>
          /\ usage'[key] \in Nat
          /\ \A n \in 1..(usage'[key] - 1) : Granted(key, n)
          /\ Granted(key, usage'[key])
    BY <1>0, <1>2, UsageIs
  <1> HIDE DEF pending
  <1> QED BY <1>0, <1>1, <1>2, <1>3, <1>4, <1>6, <1>7, MoneyStep

LEMMA RetryFailedStep ==
  ASSUME IInv, NEW r \in Runner, RetryFailed(r)
  PROVE  IInv'
  <1>0. /\ TypeOK /\ Running(r) /\ runner[r].lease \in DOMAIN leases
        /\ UNCHANGED <<gateway, lapsed, grants, open, usage, resume, drafts, faults>>
    BY LiveLeases DEF IInv, RetryFailed
  <1>1. PICK key : key = Current(r)
    OBVIOUS
  <1>2. PICK old : old = claims[key]
    OBVIOUS
  <1>3. PICK retried : retried = [old EXCEPT !.state = "pending", !.lease = runner[r].lease,
                                             !.ordinal = @ + 1]
    OBVIOUS
  <1>4. /\ key \in DOMAIN claims /\ claims[key].state = "failed"
        /\ claims' = With(claims, key, retried)
        /\ [key |-> key, ordinal |-> old.ordinal + 1, failure |-> Used(key)] \in grants
    BY <1>1, <1>2, <1>3 DEF RetryFailed
  <1>5. OnlyClaim(key) /\ key \in DOMAIN claims' /\ claims'[key] = retried
    BY <1>4, WithKeeps
  <1>6. retried \in ClaimSet /\ retried.state = "pending"
    <2>1. old \in ClaimSet
      BY <1>0, <1>2, <1>4 DEF TypeOK, ClaimSet
    <2>2. PICK lease \in DOMAIN leases : lease = runner[r].lease
      BY <1>0
    <2>3. old.ordinal + 1 \in 0..MaxRetries
      <3>1. grants \subseteq [key : Keys, ordinal : 1..MaxRetries, failure : Nat]
        BY <1>0 DEF TypeOK
      <3>2. old.ordinal + 1 \in 1..MaxRetries
        BY <1>4, <3>1
      <3> QED BY <3>2, FactoryAssumption
    <2>4. retried = [state |-> "pending", lease |-> lease, ordinal |-> old.ordinal + 1,
                     evidence |-> old.evidence]
      BY <1>3, <2>1, <2>2 DEF ClaimSet
    <2> QED BY <2>1, <2>3, <2>4 DEF ClaimSet
  <1>7. LogGrows /\ RowsGrow /\ CompletedStay
    BY <1>0, <1>1, <1>4, <1>5, GatewayStays, OthersKept
  <1>8. PICK new \in RunnerSet :
          /\ runner' = [runner EXCEPT ![r] = new]
          /\ Fits(new)' /\ new.pc = "claimed" /\ KeyNow(new) = key
          /\ Len(new.evidence) < NeededBy(new.kind)
    <2>1. Become(r, [runner[r] EXCEPT !.pc = "claimed"])
      BY DEF RetryFailed
    <2> QED BY <1>0, <1>1, <1>7, <2>1, Moved
  <1>9. key \in DOMAIN usage' =>
          /\ usage'[key] \in Nat
          /\ \A n \in 1..(usage'[key] - 1) : Granted(key, n)
          /\ Granted(key, usage'[key])
    <2>1. Granted(key, Used(key))
      BY <1>4 DEF Granted
    <2> QED BY <1>0, <2>1, UsageIs
  <1> QED BY <1>0, <1>1, <1>4, <1>5, <1>6, <1>8, <1>9, MoneyStep

LEMMA SpendStep ==
  ASSUME IInv, NEW r \in Runner, Spend(r)
  PROVE  IInv'
  <1>0. /\ TypeOK /\ Holding(r) /\ runner[r].pc = "claimed"
        /\ UNCHANGED <<gateway, lapsed, claims, grants, resume, drafts, faults>>
    BY DEF IInv, Spend, Holding
  <1>1. PICK key : key = Current(r)
    OBVIOUS
  <1>2. /\ Phase # "capability_promoted" /\ open' = open \cup {key}
        /\ usage' = With(usage, key, Used(key) + 1)
    BY <1>1 DEF Spend, Terminal
  <1>3. OnlyClaim(key) /\ LogGrows /\ RowsGrow
    BY <1>0, GatewayStays DEF OnlyClaim
  <1>4. key \in DOMAIN claims' /\ claims'[key].state = "pending" /\ claims'[key] \in ClaimSet
    BY <1>0, <1>1, HeldClaim DEF ClaimSet, gateway
  <1>5. CompletedStay
    BY <1>0, <1>1, <1>3, OthersKept
  <1>6. PICK new \in RunnerSet :
          /\ runner' = [runner EXCEPT ![r] = new]
          /\ Fits(new)' /\ new.pc = "running" /\ KeyNow(new) = key
          /\ Len(new.evidence) < NeededBy(new.kind)
    <2>1. Become(r, [runner[r] EXCEPT !.pc = "running"])
      BY DEF Spend
    <2> QED BY <1>0, <1>1, <1>3, <1>5, <2>1, Moved
  <1>7. /\ DOMAIN usage' = DOMAIN usage \cup {key} /\ usage'[key] = Used(key) + 1
        /\ \A k \in DOMAIN usage : k # key => usage'[k] = usage[k]
    BY <1>2 DEF With
  <1>8. usage'[key] \in Nat /\ \A n \in 1..(usage'[key] - 1) : Granted(key, n)
    <2>1. CASE key \notin DOMAIN usage
      BY <1>7, <2>1 DEF Used
    <2>2. CASE key \in DOMAIN usage
      BY <1>0, <1>1, <1>7, <2>2, UsageIs
    <2> QED BY <2>1, <2>2
  <1> QED BY <1>0, <1>1, <1>2, <1>3, <1>4, <1>6, <1>7, <1>8, MoneyStep

LEMMA AbandonStep ==
  ASSUME IInv, NEW r \in Runner, Abandon(r)
  PROVE  IInv'
  <1>0. /\ TypeOK /\ Holding(r) /\ runner[r].pc = "claimed"
        /\ UNCHANGED <<gateway, lapsed, grants, open, usage, resume, drafts, faults>>
    BY DEF IInv, Abandon, Holding
  <1>1. PICK key : key = Current(r)
    OBVIOUS
  <1>2. OnlyClaim(key) /\ key \notin DOMAIN claims'
    <2>1. claims' = Without(claims, key)
      BY <1>1 DEF Abandon
    <2> QED BY <2>1, WithoutIs DEF OnlyClaim
  <1>3. LogGrows /\ RowsGrow /\ CompletedStay
    BY <1>0, <1>1, <1>2, GatewayStays, OthersKept
  <1>4. PICK new \in RunnerSet :
          /\ runner' = [runner EXCEPT ![r] = new]
          /\ Fits(new)' /\ new.pc \notin {"claimed", "running"}
    <2>1. CASE Stop(r)
      <3>1. Resting \in RunnerSet /\ Fits(Resting)'
        BY <1>0, <1>3, RestingFits, FitsStays
      <3> QED BY <2>1, <3>1, RestingIs DEF Stop, Become
    <2>2. CASE Become(r, [runner[r] EXCEPT !.pc = "broken"])
      <3>1. \E new \in RunnerSet :
              /\ runner' = [runner EXCEPT ![r] = new]
              /\ Fits(new)' /\ new.pc = "broken" /\ KeyNow(new) = Current(r)
              /\ Len(new.evidence) < NeededBy(new.kind)
        BY <1>0, <1>3, <2>2, Moved
      <3> QED BY <3>1
    <2> QED BY <2>1, <2>2 DEF Abandon
  <1>5. key \in DOMAIN usage' =>
          /\ usage'[key] \in Nat
          /\ \A n \in 1..(usage'[key] - 1) : Granted(key, n)
          /\ Granted(key, usage'[key])
    BY <1>0, <1>1, UsageIs
  <1> QED BY <1>0, <1>1, <1>2, <1>4, <1>5, MoneyStep

LEMMA FinishStep ==
  ASSUME IInv, NEW r \in Runner, Finish(r)
  PROVE  IInv'
  <1>0. /\ TypeOK /\ Holding(r) /\ runner[r].lease \in Nat
        /\ UNCHANGED <<gateway, lapsed, grants, usage, resume, drafts, faults>>
    <2>1. Holding(r)
      BY DEF Finish, Holding
    <2> QED BY <2>1, AtRun, AtWorkTypes DEF IInv, Finish
  <1>1. PICK key \in Keys : key = Current(r)
    BY <1>0, AtRun
  <1>2. PICK lease \in Nat : lease = runner[r].lease
    BY <1>0
  <1>3. PICK ok, late, settled \in BOOLEAN :
          LET e == Evidence(key, lease, ok, TRUE, late)
          IN /\ claims' = With(claims, key, [claims[key] EXCEPT !.state = "completed",
                                                               !.evidence = <<e>>])
             /\ open' = IF settled THEN open \ {key} ELSE open
             /\ Collect(r, e)
    BY <1>1, <1>2 DEF Finish
  <1>4. PICK e : e = Evidence(key, lease, ok, TRUE, late)
    OBVIOUS
  <1>5. e \in EvidenceSet /\ KeyOf(e) = key /\ e.paid
    BY <1>4 DEF Evidence, EvidenceSet, KeyOf, Key, Keys
  <1>6. PICK done : done = [claims[key] EXCEPT !.state = "completed", !.evidence = <<e>>]
    OBVIOUS
  <1>7. done \in ClaimSet /\ done.state = "completed" /\ done.evidence = <<e>>
    <2>1. PICK old \in ClaimSet : old = claims[key]
      BY <1>0, <1>1, HeldClaim
    <2>2. <<e>> \in Seq(EvidenceSet)
      BY <1>5
    <2>3. done = [state |-> "completed", lease |-> old.lease, ordinal |-> old.ordinal,
                  evidence |-> <<e>>]
      BY <1>6, <2>1 DEF ClaimSet
    <2> QED BY <2>1, <2>2, <2>3 DEF ClaimSet
  <1>8. OnlyClaim(key) /\ key \in DOMAIN claims' /\ claims'[key] = done
    BY <1>3, <1>4, <1>6, WithKeeps
  <1>9. LogGrows /\ RowsGrow /\ CompletedStay
    BY <1>0, <1>1, <1>8, GatewayStays, OthersKept
  <1>10. Backed(e)'
    BY <1>5, <1>7, <1>8 DEF Backed
  <1>11. PICK new \in RunnerSet :
          /\ runner' = [runner EXCEPT ![r] = new]
          /\ new.pc = "working" /\ new.kind = runner[r].kind
          /\ new.attempt = runner[r].attempt /\ new.source = runner[r].source
          /\ new.lease = runner[r].lease /\ new.recorded = runner[r].recorded
          /\ new.evidence = Append(runner[r].evidence, e)
    BY <1>0, <1>3, <1>4, <1>5, CollectIs
  <1>12. Fits(new)'
    BY <1>0, <1>1, <1>5, <1>9, <1>10, <1>11, Collected
  <1>13. open' \subseteq open
    BY <1>3
  <1>14. key \in DOMAIN usage' =>
          usage'[key] \in Nat /\ \A n \in 1..(usage'[key] - 1) : Granted(key, n)
    BY <1>0, UsageIs
  <1>15. key \in DOMAIN claims' =>
           /\ claims'[key] \in ClaimSet
           /\ claims'[key].state = "completed" =>
                LET x == claims'[key].evidence[1]
                IN claims'[key].evidence = <<x>> /\ KeyOf(x) = key /\ x.paid
    BY <1>5, <1>7, <1>8
  <1> QED BY <1>0, <1>1, <1>8, <1>11, <1>12, <1>13, <1>14, <1>15, MoneyStep

LEMMA FinishUnboundStep ==
  ASSUME IInv, NEW r \in Runner, FinishUnbound(r)
  PROVE  IInv'
  <1>0. /\ TypeOK /\ Holding(r) /\ runner' = [runner EXCEPT ![r] = Resting]
        /\ UNCHANGED <<gateway, lapsed, grants, usage, resume, drafts, faults>>
    BY DEF IInv, FinishUnbound, Holding, Stop, Become
  <1>1. PICK key : key = Current(r)
    OBVIOUS
  <1>2. PICK failed : failed = [claims[key] EXCEPT !.state = "failed"]
    OBVIOUS
  <1>3. open' \subseteq open /\ claims' = With(claims, key, failed)
    BY <1>1, <1>2 DEF FinishUnbound
  <1>4. failed \in ClaimSet /\ failed.state = "failed"
    <2>1. PICK old \in ClaimSet : old = claims[key]
      BY <1>0, <1>1, HeldClaim
    <2> QED BY <1>2, <2>1 DEF ClaimSet
  <1>5. OnlyClaim(key) /\ key \in DOMAIN claims' /\ claims'[key] = failed
    BY <1>3, WithKeeps
  <1>6. Resting \in RunnerSet /\ Fits(Resting)'
    <2>1. LogGrows /\ RowsGrow /\ CompletedStay
      BY <1>0, <1>1, <1>5, GatewayStays, OthersKept
    <2> QED BY <1>0, <2>1, RestingFits, FitsStays
  <1>7. key \in DOMAIN usage' =>
          usage'[key] \in Nat /\ \A n \in 1..(usage'[key] - 1) : Granted(key, n)
    BY <1>0, UsageIs
  <1> QED BY <1>0, <1>1, <1>3, <1>4, <1>5, <1>6, <1>7, RestingIs, MoneyStep

-----------------------------------------------------------------------------
(* Rows and reviews.                                                       *)

LEMMA TableStep ==
  ASSUME IInv, NEW r \in Runner, NEW new \in RunnerSet, Fits(new)',
         new.pc \notin {"claimed", "running"}, runner' = [runner EXCEPT ![r] = new],
         executions' \in [1..MaxIterations -> Seq(EvidenceSet)], RowsGrow, RowsInOrder',
         reviews' \in [1..MaxIterations ->
           [stage : {"none", "evaluated", "reported"},
            verdict : {"none", "promote", "retry", "escalate"}]],
         Phase = "capability_promoted" => executions' = executions,
         \/ reviews' = reviews
         \/ Phase \in TestPhases /\ \E x : reviews' = [reviews EXCEPT ![Attempt] = x],
         UNCHANGED <<blocks, leases, lapsed, money, drafts, faults>>
  PROVE  IInv'
  <1>0. /\ TypeOK /\ LogOK /\ RunsOK /\ Exclusive /\ Kept /\ Authorized /\ Drafted
    BY DEF IInv
  <1>1. /\ blocks' = blocks /\ leases' = leases /\ lapsed' = lapsed /\ claims' = claims
        /\ grants' = grants /\ open' = open /\ usage' = usage /\ resume' = resume
        /\ drafts' = drafts /\ faults' = faults
    BY DEF money
  <1>2. TypeOK'
    <2>1. runner' \in [Runner -> RunnerSet']
      <3>1. RunnerSet' = RunnerSet
        BY <1>1 DEF RunnerSet
      <3> QED BY <1>0, <3>1, RunnerTypes DEF TypeOK
    <2> QED BY <1>0, <1>1, <2>1 DEF TypeOK, RunnerSet
  <1>3. LogGrows /\ CompletedStay
    BY <1>1 DEF LogGrows, CompletedStay
  <1>4. LogOK'
    <2>1. Phase = "capability_promoted" => UNCHANGED <<executions, usage>>
      BY <1>1
    <2>2. open' \subseteq open
      BY <1>1
    <2> QED BY <1>0, <1>1, <2>1, <2>2, LogStays
  <1>5. RunsOK' /\ Exclusive'
    <2>1. \A q \in Runner \ {r} : Holding(q) =>
            /\ Current(q) \in DOMAIN claims' /\ claims'[Current(q)] = claims[Current(q)]
      BY <1>0, <1>1 DEF RunsOK, ClaimHeld
    <2> QED BY <1>0, <1>3, <2>1, RunsKept
  <1>6. Authorized'
    <2>1. \A q \in Runner : runner'[q].pc = "claimed" => runner'[q] = runner[q]
      BY <1>0 DEF TypeOK
    <2> QED BY <1>0, <1>1, <2>1 DEF Authorized, Granted, Current
  <1>7. Kept' /\ Drafted'
    BY <1>0, <1>1 DEF Kept, Drafted
  <1> QED BY <1>2, <1>4, <1>5, <1>6, <1>7 DEF IInv

(* The next run that a tester records, and the place of its row.           *)
LEMMA NextRun ==
  ASSUME IInv, NEW r \in Runner, Testing(r), Len(runner[r].evidence) = Needed(r),
         runner[r].recorded < Needed(r)
  PROVE  LET me == runner[r]
             e == me.evidence[me.recorded + 1]
         IN /\ me \in RunnerSet /\ me.pc \in AtWork /\ me.kind \in TestKinds
            /\ me.attempt \in 1..MaxIterations /\ Fits(me)
            /\ me.recorded \in Nat /\ me.recorded + 1 \in 1..RequiredRuns
            /\ Len(me.evidence) = NeededBy(me.kind) /\ me.recorded < NeededBy(me.kind)
            /\ e \in EvidenceSet /\ Backed(e)
            /\ e.attempt = me.attempt /\ e.number = me.recorded + 1 /\ e.source = me.source
  <1> DEFINE me == runner[r]
             e == me.evidence[me.recorded + 1]
  <1>0. TypeOK /\ Fits(me) /\ me.pc \in AtWork /\ me.pc = "working"
    BY DEF IInv, RunsOK, Testing, AtWork
  <1>1. me.kind \in TestKinds /\ me.attempt \in 1..MaxIterations
    BY <1>0, AtWorkTypes, Kinds DEF Testing
  <1>2. /\ me.recorded \in 0..RequiredRuns /\ RequiredRuns \in Nat \ {0}
        /\ me.evidence \in Seq(EvidenceSet) /\ DOMAIN me.evidence = 1..Len(me.evidence)
        /\ me \in RunnerSet
    BY <1>0, RunnerTypes, FactoryAssumption
  <1>3. Len(me.evidence) = NeededBy(me.kind) /\ me.recorded < NeededBy(me.kind)
    BY DEF Needed, NeededBy
  <1>4. me.recorded + 1 \in DOMAIN me.evidence /\ me.recorded + 1 \in 1..RequiredRuns
    BY <1>2, <1>3 DEF NeededBy
  <1>5. e \in EvidenceSet
    BY <1>2, <1>4
  <1>6. Backed(e) /\ KeyOf(e) = Key(me.attempt, me.recorded + 1, me.source)
    BY <1>0, <1>4 DEF Fits, Made
  <1>7. e.attempt = me.attempt /\ e.number = me.recorded + 1 /\ e.source = me.source
    <2> HIDE DEF e, me
    <2> QED BY <1>6 DEF KeyOf, Key
  <1> QED BY <1>0, <1>1, <1>2, <1>3, <1>4, <1>5, <1>6, <1>7

LEMMA RecordedOneMore ==
  ASSUME IInv, NEW r \in Runner, Testing(r), Len(runner[r].evidence) = Needed(r),
         runner[r].recorded < Needed(r),
         NEW e, e = runner[r].evidence[runner[r].recorded + 1], e.lease = runner[r].lease,
         \E i \in DOMAIN executions'[runner[r].attempt] : executions'[runner[r].attempt][i] = e,
         LogGrows, RowsGrow, CompletedStay,
         Become(r, [runner[r] EXCEPT !.recorded = @ + 1])
  PROVE  \E new \in RunnerSet :
           /\ runner' = [runner EXCEPT ![r] = new]
           /\ Fits(new)' /\ new.pc \notin {"claimed", "running"}
  <1>1. PICK me : me = runner[r]
    OBVIOUS
  <1>2. /\ me \in RunnerSet /\ me.pc = "working" /\ me.kind \in TestKinds /\ Fits(me)
        /\ me.attempt \in 1..MaxIterations
        /\ me.recorded \in Nat /\ me.recorded + 1 \in 1..RequiredRuns
        /\ Len(me.evidence) = NeededBy(me.kind) /\ me.recorded < NeededBy(me.kind)
    BY <1>1, NextRun DEF Testing
  <1>3. PICK new : new = [me EXCEPT !.recorded = @ + 1]
    OBVIOUS
  <1>4. /\ new \in RunnerSet /\ new.pc = me.pc /\ new.kind = me.kind
        /\ new.attempt = me.attempt /\ new.source = me.source /\ new.lease = me.lease
        /\ new.evidence = me.evidence /\ new.recorded = me.recorded + 1
    <2>1. new = [pc |-> me.pc, kind |-> me.kind, attempt |-> me.attempt,
                 source |-> me.source, lease |-> me.lease, evidence |-> me.evidence,
                 recorded |-> me.recorded + 1]
      BY <1>2, <1>3 DEF RunnerSet
    <2>2. me.recorded + 1 \in 0..RequiredRuns
      BY <1>2
    <2> QED BY <1>2, <2>1, <2>2 DEF RunnerSet
  <1>5. Fits(me)'
    BY <1>2, FitsStays
  <1>6. Made(new)'
    <2>1. ASSUME NEW j \in 1..new.recorded
          PROVE  /\ new.evidence[j].lease = new.lease
                 /\ \E i \in DOMAIN executions'[new.attempt] :
                      executions'[new.attempt][i] = new.evidence[j]
      <3>1. j \in 1..me.recorded \/ j = me.recorded + 1
        BY <1>2, <1>4
      <3>2. CASE j \in 1..me.recorded
        BY <1>4, <1>5, <3>2 DEF Fits, Made
      <3>3. CASE j = me.recorded + 1
        BY <1>1, <1>4, <3>3
      <3> QED BY <3>1, <3>2, <3>3
    <2>2. /\ Len(new.evidence) = NeededBy(new.kind) /\ new.recorded <= Len(new.evidence)
          /\ Len(new.evidence) <= NeededBy(new.kind)
      BY <1>2, <1>4, FactoryAssumption DEF NeededBy
    <2>3. \A j \in DOMAIN new.evidence :
            KeyOf(new.evidence[j]) = Key(new.attempt, j, new.source) /\ Backed(new.evidence[j])'
      BY <1>4, <1>5 DEF Fits, Made
    <2> QED BY <2>1, <2>2, <2>3 DEF Made
  <1>7. Fits(new)'
    <2>1. Requested(me)' => Requested(new)'
      BY <1>4 DEF Requested
    <2> QED BY <1>2, <1>4, <1>5, <1>6, <2>1, Kinds DEF Fits, AtWork, TestKinds
  <1>8. runner' = [runner EXCEPT ![r] = new]
    BY <1>1, <1>3 DEF Become
  <1> QED BY <1>2, <1>4, <1>7, <1>8

(* A row that the Gateway takes from a tester goes where it belongs.       *)
LEMMA RowPlace ==
  ASSUME IInv, NEW r \in Runner, Testing(r), Len(runner[r].evidence) = Needed(r),
         runner[r].recorded < Needed(r),
         NEW e, e = runner[r].evidence[runner[r].recorded + 1], MayRecord(e)
  PROVE  LET n == Len(executions[e.attempt]) + 1
         IN /\ n <= RequiredRuns => e.number = n /\ e.source = 0
            /\ n > RequiredRuns => e.source # 0
  <1>1. PICK me : me = runner[r]
    OBVIOUS
  <1>2. /\ me.pc \in AtWork /\ me.kind \in TestKinds /\ me.attempt \in 1..MaxIterations
        /\ Fits(me) /\ me.recorded \in Nat /\ me.recorded + 1 \in 1..RequiredRuns
        /\ e.attempt = me.attempt /\ e.number = me.recorded + 1 /\ e.source = me.source
    BY <1>1, NextRun
  <1>3. TypeOK /\ LogOK /\ RowsInOrder
    BY DEF IInv
  <1>4. PICK a \in 1..MaxIterations : a = me.attempt
    BY <1>2
  <1>5. PICK rows : rows = executions[a]
    OBVIOUS
  <1>6. DOMAIN rows = 1..Len(rows) /\ Len(rows) \in Nat /\ RequiredRuns \in Nat
    BY <1>3, <1>5, RowTypes, FactoryAssumption
  <1>7. CASE me.kind = "dispatch_real_case_tester"
    <2>1. me.source = 0
      BY <1>2, <1>7 DEF Fits
    <2>2. Len(rows) >= me.recorded
      <3>1. CASE me.recorded = 0
        BY <1>6, <3>1
      <3>2. CASE me.recorded # 0
        <4>1. me.recorded \in 1..me.recorded
          BY <1>2, <3>2
        <4>2. me.recorded \in DOMAIN rows
          BY <1>1, <1>2, <1>4, <1>5, <1>7, <4>1, RecordedRows
        <4> QED BY <1>6, <4>2
      <3> QED BY <3>1, <3>2
    <2>3. ASSUME Len(rows) >= me.recorded + 1 PROVE FALSE
      <3>1. PICK j \in 1..RequiredRuns : j = me.recorded + 1
        BY <1>2
      <3>2. j \in DOMAIN rows
        BY <1>2, <1>6, <2>3, <3>1
      <3>3. rows[j].attempt = a /\ rows[j].number = j /\ rows[j].source = 0
        BY <1>3, <1>5, <1>6, <3>1, <3>2 DEF RowsInOrder
      <3>4. KeyOf(rows[j]) = KeyOf(e)
        BY <1>2, <1>4, <2>1, <3>1, <3>3 DEF KeyOf, Key
      <3>5. KeyOf(e).attempt = a
        BY <1>2, <1>4 DEF KeyOf, Key
      <3>6. Recorded(KeyOf(e))
        BY <1>5, <3>2, <3>4, <3>5 DEF Recorded, Of
      <3> QED BY <3>6 DEF MayRecord
    <2>4. Len(rows) = me.recorded
      BY <1>2, <1>6, <2>2, <2>3
    <2> QED BY <1>2, <1>4, <1>5, <1>6, <2>1, <2>4
  <1>8. CASE me.kind = "dispatch_technical_revalidation"
    <2>1. /\ me.source \in DOMAIN blocks /\ blocks[me.source].attempt = a
          /\ blocks[me.source].phase = "technical_revalidation_requested"
      BY <1>2, <1>4, <1>8 DEF Fits, Requested
    <2>2. Witnessed(blocks[me.source])
      BY <1>3, <2>1 DEF LogOK
    <2>3. Tested(a)
      BY <2>1, <2>2 DEF Witnessed, Flawed
    <2>4. me.source # 0
      BY <1>3, <2>1, LogTypes
    <2> QED BY <1>2, <1>4, <1>5, <1>6, <2>3, <2>4 DEF Tested
  <1> QED BY <1>2, <1>7, <1>8 DEF TestKinds

LEMMA RecordRunStep ==
  ASSUME IInv, NEW r \in Runner, RecordRun(r)
  PROVE  IInv'
  <1>1. PICK e : e = runner[r].evidence[runner[r].recorded + 1]
    OBVIOUS
  <1>2. /\ TypeOK /\ RowsInOrder /\ Testing(r) /\ Len(runner[r].evidence) = Needed(r)
        /\ runner[r].recorded < Needed(r)
        /\ UNCHANGED <<blocks, leases, reviews, lapsed, money, drafts, faults>>
        /\ blocks' = blocks /\ claims' = claims /\ leases' = leases /\ faults' \in 0..MaxFaults
    BY DEF IInv, RecordRun, TypeOK, money
  <1>3. /\ e \in EvidenceSet /\ Backed(e) /\ e.attempt = runner[r].attempt
        /\ e.attempt \in 1..MaxIterations
    BY <1>1, <1>2, NextRun
  <1>4. LogGrows /\ CompletedStay /\ RunnerSet' = RunnerSet
    BY <1>2 DEF LogGrows, CompletedStay, RunnerSet
  <1>5. reviews' \in [1..MaxIterations ->
           [stage : {"none", "evaluated", "reported"},
            verdict : {"none", "promote", "retry", "escalate"}]]
    BY <1>2 DEF TypeOK
  <1>6. CASE Stop(r) /\ UNCHANGED executions
    BY <1>2, <1>6, StopStep
  <1>7. CASE /\ e.lease = runner[r].lease /\ Known(e) /\ executions' = executions
             /\ Become(r, [runner[r] EXCEPT !.recorded = @ + 1])
    <2>1. RowsGrow /\ RowsInOrder'
      BY <1>2, <1>4, <1>7, RowsStay
    <2>2. \E i \in DOMAIN executions'[runner[r].attempt] :
            executions'[runner[r].attempt][i] = e
      BY <1>3, <1>7 DEF Known, Of
    <2>3. PICK new \in RunnerSet :
            /\ runner' = [runner EXCEPT ![r] = new]
            /\ Fits(new)' /\ new.pc \notin {"claimed", "running"}
      BY <1>1, <1>2, <1>4, <1>7, <2>1, <2>2, RecordedOneMore
    <2>4. executions' \in [1..MaxIterations -> Seq(EvidenceSet)]
      BY <1>2, <1>7 DEF TypeOK
    <2> QED BY <1>2, <1>5, <1>7, <2>1, <2>3, <2>4, TableStep
  <1>8. CASE /\ e.lease = runner[r].lease /\ MayRecord(e)
             /\ executions' = [executions EXCEPT ![e.attempt] = Append(@, e)]
             /\ Become(r, [runner[r] EXCEPT !.recorded = @ + 1])
    <2>1. PICK a \in 1..MaxIterations : a = e.attempt
      BY <1>3
    <2>2. PICK rows \in Seq(EvidenceSet) : rows = Append(executions[a], e)
      BY <1>2, <1>3, <2>1, RowTypes, AppendProperties
    <2>3. /\ executions' \in [1..MaxIterations -> Seq(EvidenceSet)]
          /\ executions'[a] = rows /\ \A c \in 1..MaxIterations \ {a} : executions'[c] = executions[c]
      <3>1. executions \in [1..MaxIterations -> Seq(EvidenceSet)]
        BY <1>2 DEF TypeOK
      <3>2. executions' = [executions EXCEPT ![a] = rows]
        BY <1>8, <2>1, <2>2
      <3> QED BY <2>1, <2>2, <3>1, <3>2
    <2>4. PICK n \in Nat : n = Len(executions[a]) + 1
      BY <1>2, RowTypes
    <2>5. /\ DOMAIN rows = 1..n /\ Len(rows) = n /\ rows[n] = e
          /\ DOMAIN executions[a] = 1..(n - 1) /\ n >= 1 /\ Len(executions[a]) = n - 1
          /\ \A i \in 1..(n - 1) : rows[i] = executions[a][i]
      <3>1. executions[a] \in Seq(EvidenceSet) /\ Len(executions[a]) \in Nat
            /\ DOMAIN executions[a] = 1..Len(executions[a])
        BY <1>2, RowTypes
      <3> QED BY <1>3, <2>2, <2>4, <3>1, AppendProperties, LenProperties
    <2>6. RowsGrow
      <3> SUFFICES ASSUME NEW c \in 1..MaxIterations
                   PROVE  /\ Len(executions[c]) <= Len(executions'[c])
                          /\ \A i \in DOMAIN executions[c] :
                               i \in DOMAIN executions'[c] /\ executions'[c][i] = executions[c][i]
        BY DEF RowsGrow
      <3>1. CASE c = a
        BY <2>3, <2>5, <3>1
      <3>2. CASE c # a
        BY <1>2, <2>3, <3>2, RowTypes
      <3> QED BY <3>1, <3>2
    <2>7. RowsInOrder'
      <3>1. ASSUME NEW c \in 1..MaxIterations, NEW j \in DOMAIN executions'[c], NEW x,
                   x = executions'[c][j]
            PROVE  /\ x.attempt = c /\ Backed(x)'
                   /\ j <= RequiredRuns => x.number = j /\ x.source = 0
                   /\ j > RequiredRuns => x.source # 0
        <4>1. CASE j \in DOMAIN executions[c]
          <5>1. x = executions[c][j]
            BY <2>6, <3>1, <4>1 DEF RowsGrow
          <5>2. Backed(x)'
            BY <1>2, <4>1, <5>1, <1>4, BackedStays DEF RowsInOrder
          <5> QED BY <1>2, <4>1, <5>1, <5>2 DEF RowsInOrder
        <4>2. CASE j \notin DOMAIN executions[c]
          <5>1. c = a /\ j = n /\ x = e
            BY <2>3, <2>5, <3>1, <4>2
          <5>2. Backed(e)'
            BY <1>3, <1>4, BackedStays
          <5>3. /\ n <= RequiredRuns => e.number = n /\ e.source = 0
                /\ n > RequiredRuns => e.source # 0
            BY <1>1, <1>2, <1>8, <2>1, <2>4, RowPlace
          <5> QED BY <2>1, <5>1, <5>2, <5>3
        <4> QED BY <4>1, <4>2
      <3> QED BY <3>1 DEF RowsInOrder
    <2>8. \E i \in DOMAIN executions'[runner[r].attempt] :
            executions'[runner[r].attempt][i] = e
      BY <1>3, <2>1, <2>3, <2>5
    <2>9. PICK new \in RunnerSet :
            /\ runner' = [runner EXCEPT ![r] = new]
            /\ Fits(new)' /\ new.pc \notin {"claimed", "running"}
      BY <1>1, <1>2, <1>4, <1>8, <2>6, <2>8, RecordedOneMore
    <2>10. Phase # "capability_promoted"
      BY <1>8 DEF MayRecord, Terminal
    <2> QED BY <1>2, <1>5, <2>3, <2>6, <2>7, <2>9, <2>10, TableStep
  <1> QED BY <1>1, <1>6, <1>7, <1>8 DEF RecordRun

(* A reviewer goes on, with the review of its attempt written.             *)
LEMMA ReviewStep ==
  ASSUME IInv, NEW r \in Runner, runner[r].pc \in AtWork,
         runner[r].kind = "dispatch_quality_warden",
         NEW pc \in {"evaluated", "reported"}, Become(r, [runner[r] EXCEPT !.pc = pc]),
         Phase \in TestPhases,
         NEW x \in [stage : {"none", "evaluated", "reported"},
                    verdict : {"none", "promote", "retry", "escalate"}],
         reviews' = [reviews EXCEPT ![Attempt] = x],
         UNCHANGED <<blocks, leases, executions, lapsed, money, drafts, faults>>
  PROVE  IInv'
  <1>1. /\ TypeOK /\ RowsInOrder /\ Fits(runner[r]) /\ Attempt \in 1..MaxIterations
        /\ blocks' = blocks /\ executions' = executions /\ claims' = claims /\ leases' = leases
    BY AttemptBounded DEF IInv, RunsOK, LogOK, money
  <1>2. LogGrows /\ CompletedStay
    BY <1>1 DEF LogGrows, CompletedStay
  <1>3. RowsGrow /\ RowsInOrder'
    BY <1>1, <1>2, RowsStay
  <1>4. PICK me \in RunnerSet : me = runner[r]
    BY <1>1, RunnerTypes
  <1>5. PICK new : new = [me EXCEPT !.pc = pc]
    OBVIOUS
  <1>6. /\ new \in RunnerSet /\ new.pc = pc /\ new.kind = me.kind /\ new.attempt = me.attempt
        /\ new.source = me.source /\ new.lease = me.lease /\ new.evidence = me.evidence
        /\ new.recorded = me.recorded
    BY <1>5 DEF RunnerSet
  <1>7. Fits(me)'
    BY <1>1, <1>2, <1>3, <1>4, FitsStays
  <1>8. Made(new)'
    BY <1>6, <1>7 DEF Fits, Made
  <1>9. Fits(new)'
    BY <1>4, <1>6, <1>7, <1>8 DEF Fits, AtWork
  <1>10. reviews' \in [1..MaxIterations ->
           [stage : {"none", "evaluated", "reported"},
            verdict : {"none", "promote", "retry", "escalate"}]]
    BY <1>1 DEF TypeOK
  <1>11. executions' \in [1..MaxIterations -> Seq(EvidenceSet)]
    BY <1>1 DEF TypeOK
  <1>12. runner' = [runner EXCEPT ![r] = new]
    BY <1>4, <1>5 DEF Become
  <1> QED BY <1>1, <1>3, <1>6, <1>9, <1>10, <1>11, <1>12, TableStep

LEMMA EvaluateStep ==
  ASSUME IInv, NEW r \in Runner, Evaluate(r)
  PROVE  IInv'
  <1>1. /\ runner[r].pc \in AtWork /\ runner[r].kind = "dispatch_quality_warden"
        /\ UNCHANGED <<blocks, leases, executions, lapsed, money, drafts, faults>>
        /\ faults' \in 0..MaxFaults
    BY DEF Evaluate, AtWork, IInv, TypeOK
  <1>2. CASE Stop(r) /\ UNCHANGED reviews
    BY <1>1, <1>2, StopStep
  <1>3. CASE /\ Phase \in TestPhases /\ Become(r, [runner[r] EXCEPT !.pc = "evaluated"])
             /\ \E verdict \in {"promote", "retry", "escalate"} :
                  reviews' = [reviews EXCEPT ![Attempt] =
                                [stage |-> "evaluated", verdict |-> verdict]]
    <2>1. PICK x \in [stage : {"none", "evaluated", "reported"},
                      verdict : {"none", "promote", "retry", "escalate"}] :
            reviews' = [reviews EXCEPT ![Attempt] = x]
      BY <1>3
    <2> QED BY <1>1, <1>3, <2>1, ReviewStep
  <1> QED BY <1>2, <1>3 DEF Evaluate

LEMMA ReportStep ==
  ASSUME IInv, NEW r \in Runner, Report(r)
  PROVE  IInv'
  <1>1. /\ runner[r].pc \in AtWork /\ runner[r].kind = "dispatch_quality_warden"
        /\ UNCHANGED <<blocks, leases, executions, lapsed, money, drafts, faults>>
        /\ faults' \in 0..MaxFaults /\ TypeOK /\ Attempt \in 1..MaxIterations
    BY AttemptBounded DEF Report, AtWork, IInv, TypeOK, LogOK, RunsOK, Fits
  <1>2. CASE Stop(r) /\ UNCHANGED reviews
    BY <1>1, <1>2, StopStep
  <1>3. CASE /\ Phase \in TestPhases /\ Become(r, [runner[r] EXCEPT !.pc = "reported"])
             /\ reviews' = [reviews EXCEPT ![Attempt].stage = "reported"]
    <2>1. PICK a \in 1..MaxIterations : a = Attempt
      BY <1>1
    <2>2. PICK old \in [stage : {"none", "evaluated", "reported"},
                        verdict : {"none", "promote", "retry", "escalate"}] : old = reviews[a]
      BY <1>1 DEF TypeOK
    <2>3. PICK x : x = [stage |-> "reported", verdict |-> old.verdict]
      OBVIOUS
    <2>4. reviews' = [reviews EXCEPT ![a] = x]
      <3>1. x = [old EXCEPT !.stage = "reported"]
        BY <2>2, <2>3
      <3>2. reviews' = [reviews EXCEPT ![a] = [reviews[a] EXCEPT !.stage = "reported"]]
        BY <1>3, <2>1
      <3> QED BY <2>2, <3>1, <3>2
    <2>5. x \in [stage : {"none", "evaluated", "reported"},
                 verdict : {"none", "promote", "retry", "escalate"}]
      BY <2>2, <2>3
    <2> QED BY <1>1, <1>3, <2>1, <2>4, <2>5, ReviewStep
  <1> QED BY <1>2, <1>3 DEF Report

-----------------------------------------------------------------------------
(* Captain, and time.                                                      *)

(* No runner does anything, no row is written and no money spent.          *)
LEMMA QuietStep ==
  ASSUME IInv, blocks' \in Seq(BlockSet), LogGrows, LogOK',
         lapsed' \in Seq(DOMAIN leases),
         grants' \subseteq [key : Keys, ordinal : 1..MaxRetries, failure : Nat],
         grants \subseteq grants',
         drafts' \subseteq BlockSet, Drafted',
         resume' \in {"none", "reserved", "charged"},
         UNCHANGED <<leases, executions, reviews, claims, open, usage, runner, faults>>
  PROVE  IInv'
  <1>0. /\ TypeOK /\ RowsInOrder /\ RunsOK /\ Exclusive /\ Kept /\ Authorized
    BY DEF IInv
  <1>1. TypeOK'
    BY <1>0 DEF TypeOK
  <1>2. CompletedStay
    BY DEF CompletedStay
  <1>3. RowsInOrder' /\ RowsGrow
    BY <1>0, <1>2, RowsStay
  <1>4. RunsOK' /\ Exclusive'
    <2>1. ASSUME NEW q \in Runner PROVE Fits(runner[q])'
      <3>1. PICK me : me = runner[q]
        OBVIOUS
      <3>2. Fits(me)'
        BY <1>0, <1>2, <1>3, <3>1, FitsStays DEF RunsOK
      <3> QED BY <3>1, <3>2
    <2>2. \A q \in Runner : ClaimHeld(q)'
      BY <1>0 DEF RunsOK, ClaimHeld, Holding, Current
    <2>3. Exclusive'
      BY <1>0 DEF Exclusive, Holding, Current
    <2> QED BY <2>1, <2>2, <2>3 DEF RunsOK
  <1>5. Authorized'
    <2>1. \A key, n : Granted(key, n) => Granted(key, n)'
      BY DEF Granted
    <2> QED BY <1>0, <2>1 DEF Authorized, Current
  <1>6. Kept'
    BY <1>0 DEF Kept
  <1> QED BY <1>1, <1>3, <1>4, <1>5, <1>6 DEF IInv

LEMMA SameLog ==
  ASSUME IInv, UNCHANGED <<gateway, open, usage>>
  PROVE  blocks' \in Seq(BlockSet) /\ LogGrows /\ LogOK'
  <1>1. /\ blocks' = blocks /\ executions' = executions /\ reviews' = reviews
        /\ open' = open /\ usage' = usage /\ TypeOK /\ LogOK
    BY DEF gateway, IInv
  <1>2. RowsGrow
    BY <1>1, RowTypes DEF RowsGrow
  <1>3. LogOK'
    BY <1>1, <1>2, LogStays
  <1> QED BY <1>1, <1>3, LogTypes DEF LogGrows

LEMMA AppendStep ==
  ASSUME IInv, NEW b \in BlockSet, Accepts(b), Honest(b), blocks' = Append(blocks, b),
         drafts' \subseteq drafts,
         UNCHANGED <<leases, executions, reviews, lapsed, money, runner, faults>>
  PROVE  IInv'
  <1>0. TypeOK /\ LogOK /\ Drafted
    BY DEF IInv
  <1>1. /\ lapsed' = lapsed /\ grants' = grants /\ claims' = claims /\ open' = open
        /\ usage' = usage /\ resume' = resume
    BY DEF money
  <1>2. blocks' \in Seq(BlockSet) /\ LogGrows
    BY <1>0, Appended DEF LogGrows
  <1>3. LogOK'
    BY <1>0, <1>1, LogExtended
  <1>4. lapsed' \in Seq(DOMAIN leases) /\ drafts' \subseteq BlockSet
        /\ grants' \subseteq [key : Keys, ordinal : 1..MaxRetries, failure : Nat]
        /\ resume' \in {"none", "reserved", "charged"}
    BY <1>0, <1>1 DEF TypeOK
  <1>5. Drafted'
    BY <1>0 DEF Drafted
  <1> QED BY <1>1, <1>2, <1>3, <1>4, <1>5, QuietStep

LEMMA RequestForgeStep ==
  ASSUME IInv, RequestForge
  PROVE  IInv'
  <1>1. PICK runs \in Seq(EvidenceSet) : runs = <<>>
    <2>1. <<>> \in Seq(EvidenceSet)
      OBVIOUS
    <2> QED BY <2>1
  <1>2. PICK b : b = Block("forge_requested", 1, "succeeded", 0, runs, 0)
    OBVIOUS
  <1>3. b \in BlockSet /\ b.phase = "forge_requested" /\ b.attempt = 1 /\ b.status = "succeeded"
    BY <1>2, FactoryAssumption, PhaseList DEF Block, BlockSet, PhaseNames
  <1>4. blocks = <<>> /\ blocks' = <<b>> /\ blocks' = Append(blocks, b)
    BY <1>1, <1>2 DEF RequestForge
  <1>5. Accepts(b)
    BY <1>3, <1>4, NextOf DEF Accepts, Applies, AttemptAfter
  <1>6. Honest(b)
    BY <1>3 DEF Honest
  <1> QED BY <1>3, <1>4, <1>5, <1>6, AppendStep DEF RequestForge

LEMMA SendDraftStep ==
  ASSUME IInv, SendDraft
  PROVE  IInv'
  <1>1. PICK b \in drafts :
          /\ blocks' = IF Accepts(b) THEN Append(blocks, b) ELSE blocks
          /\ drafts' = drafts \ {b}
          /\ UNCHANGED <<leases, executions, reviews, lapsed, money, runner, faults>>
    BY DEF SendDraft
  <1>2. /\ b \in BlockSet /\ b.phase \in CaptainPhases /\ b.status = "succeeded"
        /\ TypeOK /\ Drafted
    BY DEF IInv, TypeOK, Drafted
  <1>3. CASE Accepts(b)
    <2>1. Honest(b)
      BY <1>2 DEF Honest, CaptainPhases
    <2> QED BY <1>1, <1>2, <1>3, <2>1, AppendStep
  <1>4. CASE ~Accepts(b)
    <2>1. /\ UNCHANGED <<gateway, open, usage, resume>>
          /\ lapsed' = lapsed /\ grants' = grants
          /\ UNCHANGED <<leases, executions, reviews, claims, open, usage, runner, faults>>
      BY <1>1, <1>4 DEF gateway, money
    <2>2. blocks' \in Seq(BlockSet) /\ LogGrows /\ LogOK'
      BY <2>1, SameLog
    <2>3. lapsed' \in Seq(DOMAIN leases) /\ drafts' \subseteq BlockSet
          /\ grants' \subseteq [key : Keys, ordinal : 1..MaxRetries, failure : Nat]
          /\ resume' \in {"none", "reserved", "charged"}
      BY <1>1, <1>2, <2>1 DEF TypeOK
    <2>4. Drafted'
      BY <1>1, <1>2 DEF Drafted
    <2> QED BY <2>1, <2>2, <2>3, <2>4, QuietStep
  <1> QED BY <1>3, <1>4

LEMMA DraftStep ==
  ASSUME IInv, NEW phase \in CaptainPhases, NEW source \in Nat, Draft(phase, source)
  PROVE  IInv'
  <1>1. /\ TypeOK /\ Drafted /\ Attempt \in 1..MaxIterations
        /\ UNCHANGED <<gateway, open, usage, resume>>
        /\ lapsed' = lapsed /\ grants' = grants
        /\ UNCHANGED <<leases, executions, reviews, claims, open, usage, runner, faults>>
    BY AttemptBounded DEF IInv, LogOK, Draft, gateway, money
  <1>2. PICK runs \in Seq(EvidenceSet) : runs = <<>>
    <2>1. <<>> \in Seq(EvidenceSet)
      OBVIOUS
    <2> QED BY <2>1
  <1>3. PICK b : b = Block(phase, Attempt, "succeeded", 0, runs, source)
    OBVIOUS
  <1>4. b \in BlockSet /\ b.phase = phase /\ b.status = "succeeded"
    BY <1>1, <1>3, PhaseList DEF Block, BlockSet, PhaseNames, CaptainPhases
  <1>5. drafts' = drafts \cup {b}
    BY <1>2, <1>3 DEF Draft
  <1>6. blocks' \in Seq(BlockSet) /\ LogGrows /\ LogOK'
    BY <1>1, SameLog
  <1>7. lapsed' \in Seq(DOMAIN leases) /\ drafts' \subseteq BlockSet
        /\ grants' \subseteq [key : Keys, ordinal : 1..MaxRetries, failure : Nat]
        /\ resume' \in {"none", "reserved", "charged"}
    BY <1>1, <1>4, <1>5 DEF TypeOK
  <1>8. Drafted'
    BY <1>1, <1>4, <1>5 DEF Drafted
  <1> QED BY <1>1, <1>6, <1>7, <1>8, QuietStep

LEMMA GrantRetryStep ==
  ASSUME IInv, GrantRetry
  PROVE  IInv'
  <1>1. PICK key \in DOMAIN claims :
          LET ordinal == claims[key].ordinal + 1
          IN /\ ordinal <= MaxRetries
             /\ grants' = grants \cup
                  {[key |-> key, ordinal |-> ordinal, failure |-> Used(key)]}
             /\ UNCHANGED <<gateway, lapsed, claims, open, usage, resume, runner, drafts, faults>>
    BY DEF GrantRetry
  <1>2. TypeOK /\ Drafted
    BY DEF IInv
  <1>3. Used(key) \in Nat /\ key \in Keys
    BY <1>2 DEF TypeOK, Used
  <1>4. claims[key].ordinal + 1 \in 1..MaxRetries
    <2>1. claims[key].ordinal \in 0..MaxRetries
      BY <1>2 DEF TypeOK
    <2> QED BY <1>1, <2>1, FactoryAssumption
  <1>5. /\ grants' \subseteq [key : Keys, ordinal : 1..MaxRetries, failure : Nat]
        /\ grants \subseteq grants'
    BY <1>1, <1>2, <1>3, <1>4 DEF TypeOK
  <1>6. blocks' \in Seq(BlockSet) /\ LogGrows /\ LogOK'
    BY <1>1, SameLog
  <1>7. lapsed' \in Seq(DOMAIN leases) /\ drafts' \subseteq BlockSet /\ Drafted'
        /\ resume' \in {"none", "reserved", "charged"}
    BY <1>1, <1>2 DEF TypeOK, Drafted
  <1>8. UNCHANGED <<leases, executions, reviews, claims, open, usage, runner, faults>>
    BY <1>1 DEF gateway
  <1> QED BY <1>5, <1>6, <1>7, <1>8, QuietStep

LEMMA LapseStep ==
  ASSUME IInv, Lapse
  PROVE  IInv'
  <1>1. PICK l \in Live :
          /\ lapsed' = Append(lapsed, l)
          /\ UNCHANGED <<gateway, money, runner, drafts, faults>>
    BY DEF Lapse
  <1>2. TypeOK /\ Drafted
    BY DEF IInv
  <1>3. lapsed' \in Seq(DOMAIN leases)
    <2>1. lapsed \in Seq(DOMAIN leases) /\ l \in DOMAIN leases
      BY <1>2, LiveLeases DEF TypeOK
    <2> QED BY <1>1, <2>1, AppendProperties
  <1>4. /\ UNCHANGED <<leases, executions, reviews, claims, open, usage, runner, faults>>
        /\ UNCHANGED <<gateway, open, usage, resume>> /\ grants' = grants /\ drafts' = drafts
    BY <1>1 DEF gateway, money
  <1>5. blocks' \in Seq(BlockSet) /\ LogGrows /\ LogOK'
    BY <1>4, SameLog
  <1>6. /\ grants' \subseteq [key : Keys, ordinal : 1..MaxRetries, failure : Nat]
        /\ drafts' \subseteq BlockSet /\ Drafted' /\ resume' \in {"none", "reserved", "charged"}
    BY <1>2, <1>4 DEF TypeOK, Drafted
  <1> QED BY <1>3, <1>4, <1>5, <1>6, QuietStep

LEMMA ResumeStep ==
  ASSUME IInv, Resume
  PROVE  IInv'
  <1>1. /\ UNCHANGED <<gateway, lapsed, claims, grants, open, usage, runner, drafts, faults>>
        /\ resume' \in {"none", "reserved", "charged"}
    BY DEF Resume, AuthorizeResume, SettleResume
  <1>2. blocks' \in Seq(BlockSet) /\ LogGrows /\ LogOK'
    BY <1>1, SameLog
  <1>3. /\ grants' \subseteq [key : Keys, ordinal : 1..MaxRetries, failure : Nat]
        /\ drafts' \subseteq BlockSet /\ Drafted' /\ lapsed' \in Seq(DOMAIN leases)
    BY <1>1 DEF IInv, TypeOK, Drafted
  <1> QED BY <1>1, <1>2, <1>3, QuietStep DEF gateway

LEMMA StutterStep ==
  ASSUME IInv, UNCHANGED vars
  PROVE  IInv'
  <1>1. TypeOK /\ Drafted
    BY DEF IInv
  <1>2. /\ UNCHANGED <<leases, executions, reviews, claims, open, usage, runner, faults>>
        /\ UNCHANGED <<gateway, open, usage, resume>>
        /\ grants' = grants /\ drafts' = drafts /\ lapsed' = lapsed
    BY DEF vars, gateway, money
  <1>3. blocks' \in Seq(BlockSet) /\ LogGrows /\ LogOK'
    BY <1>2, SameLog
  <1>4. /\ grants' \subseteq [key : Keys, ordinal : 1..MaxRetries, failure : Nat]
        /\ drafts' \subseteq BlockSet /\ Drafted' /\ lapsed' \in Seq(DOMAIN leases)
        /\ resume' \in {"none", "reserved", "charged"}
    BY <1>1, <1>2 DEF TypeOK, Drafted
  <1> QED BY <1>2, <1>3, <1>4, QuietStep

LEMMA CaptainStep ==
  ASSUME IInv, Captain
  PROVE  IInv'
  <1>1. TypeOK /\ Len(blocks) \in Nat
    BY LogTypes DEF IInv
  <1>2. CASE RequestForge
    BY <1>2, RequestForgeStep
  <1>3. CASE DraftImprovement
    BY <1>1, <1>3, DraftStep DEF DraftImprovement, CaptainPhases
  <1>4. CASE DraftRevalidation
    <2>1. LastTest \in Nat
      BY <1>1, <1>4, LastTestIs, LogTypes DEF DraftRevalidation
    <2> QED BY <1>4, <2>1, DraftStep DEF DraftRevalidation, CaptainPhases
  <1>5. CASE DraftPromotion
    BY <1>1, <1>5, DraftStep DEF DraftPromotion, CaptainPhases
  <1>6. CASE DraftEscalation
    BY <1>1, <1>6, DraftStep DEF DraftEscalation, CaptainPhases
  <1>7. CASE SendDraft
    BY <1>7, SendDraftStep
  <1>8. CASE GrantRetry
    BY <1>8, GrantRetryStep
  <1> QED BY <1>2, <1>3, <1>4, <1>5, <1>6, <1>7, <1>8 DEF Captain

LEMMA RunnerStep ==
  ASSUME IInv, NEW r \in Runner, Step(r)
  PROVE  IInv'
  <1>1. CASE Plan(r) \/ Ensure(r) \/ Dispatch(r)
    BY <1>1, PlanStep, EnsureStep, DispatchStep
  <1>2. CASE \/ DeliverSkill(r) \/ DeliverForge(r) \/ DeliverBuild(r)
             \/ DeliverInfrastructure(r) \/ DeliverTest(r) \/ DeliverReview(r)
    BY <1>2, DeliverSkillStep, DeliverForgeStep, DeliverBuildStep, DeliverInfrastructureStep,
       DeliverTestStep, DeliverReviewStep
  <1>3. CASE \/ LeaseLapsed(r) \/ FailPreflight(r) \/ Claim(r) \/ Replay(r) \/ RetryFailed(r)
    BY <1>3, LeaseLapsedStep, FailPreflightStep, ClaimStep, ReplayStep, RetryFailedStep
  <1>4. CASE Spend(r) \/ Abandon(r) \/ Finish(r) \/ FinishUnbound(r)
    BY <1>4, SpendStep, AbandonStep, FinishStep, FinishUnboundStep
  <1>5. CASE RecordRun(r) \/ Evaluate(r) \/ Report(r)
    BY <1>5, RecordRunStep, EvaluateStep, ReportStep
  <1> QED BY <1>1, <1>2, <1>3, <1>4, <1>5 DEF Step

LEMMA InitHolds ==
  ASSUME Init
  PROVE  IInv
  <1>1. RunnerSet # {} /\ TypeOK
    <2>1. DOMAIN leases = {} /\ Len(leases) = 0 /\ lapsed \in Seq(DOMAIN leases)
          /\ blocks \in Seq(BlockSet)
          /\ leases \in Seq([kind : Dispatched, attempt : 1..MaxIterations, since : Nat])
      BY DEF Init
    <2>2. executions \in [1..MaxIterations -> Seq(EvidenceSet)]
      BY DEF Init
    <2>3. Resting \in RunnerSet
      BY <2>1, FactoryAssumption DEF Resting, RunnerSet
    <2>4. runner \in [Runner -> RunnerSet]
      BY <2>3 DEF Init
    <2>5. DOMAIN claims = {} /\ DOMAIN usage = {} /\ faults \in 0..MaxFaults
      BY FactoryAssumption DEF Init
    <2>6. reviews \in [1..MaxIterations ->
            [stage : {"none", "evaluated", "reported"},
             verdict : {"none", "promote", "retry", "escalate"}]]
      BY DEF Init
    <2>7. grants = {} /\ open = {} /\ drafts = {} /\ resume = "none"
      BY DEF Init
    <2> QED BY <2>1, <2>2, <2>3, <2>4, <2>5, <2>6, <2>7 DEF TypeOK, RunnerSet
  <1>2. DOMAIN blocks = {} /\ DOMAIN claims = {} /\ DOMAIN usage = {} /\ drafts = {}
        /\ \A a \in 1..MaxIterations : DOMAIN executions[a] = {}
    BY DEF Init
  <1>3. LogOK
    BY <1>2 DEF LogOK, Chained, Forward, TestedOnce
  <1>4. RowsInOrder /\ Kept /\ Authorized /\ Drafted
    BY <1>2 DEF RowsInOrder, Kept, Authorized, Drafted
  <1>5. \A r \in Runner : runner[r] = Resting
    BY DEF Init
  <1>6. \A r \in Runner : Fits(runner[r]) /\ ~Holding(r)
    BY <1>1, <1>5, RestingFits, RestingIs DEF Holding
  <1>7. RunsOK /\ Exclusive
    BY <1>6 DEF RunsOK, ClaimHeld, Exclusive
  <1> QED BY <1>1, <1>3, <1>4, <1>7 DEF IInv

(* The invariant holds of every job.                                       *)
THEOREM FactoryInvariant == Spec => []IInv
  <1>1. Init => IInv
    BY InitHolds
  <1>2. IInv /\ [Next]_vars => IInv'
    <2> SUFFICES ASSUME IInv, [Next]_vars PROVE IInv'
      OBVIOUS
    <2>1. ASSUME NEW r \in Runner, Step(r) PROVE IInv'
      BY <2>1, RunnerStep
    <2>2. CASE Captain
      BY <2>2, CaptainStep
    <2>3. CASE Lapse
      BY <2>3, LapseStep
    <2>4. ASSUME NEW r \in Runner, Crash(r) PROVE IInv'
      BY <2>4, CrashStep
    <2>5. CASE UNCHANGED vars
      BY <2>5, StutterStep
    <2>6. CASE Resume
      BY <2>6, ResumeStep
    <2> QED BY <2>1, <2>2, <2>3, <2>4, <2>5, <2>6 DEF Next
  <1> QED BY <1>1, <1>2, PTL DEF Spec

-----------------------------------------------------------------------------
(* What follows.                                                           *)

LEMMA EffectsAuthorized ==
  ASSUME IInv
  PROVE  EffectOnce
  BY DEF IInv, Authorized, Granted, Exclusive, Holding, EffectOnce

(* What a bundled block carries are the first rows of its attempt.         *)
LEMMA BundleRows ==
  ASSUME IInv, NEW i \in DOMAIN blocks, Bundled(blocks[i]), NEW rows,
         rows = executions[blocks[i].attempt]
  PROVE  blocks[i].runs = SubSeq(rows, 1, RequiredRuns)
  <1>1. TypeOK /\ RequiredRuns \in Nat \ {0}
    BY FactoryAssumption DEF IInv
  <1>2. rows \in Seq(EvidenceSet) /\ Len(rows) \in Nat /\ blocks[i].runs \in Seq(EvidenceSet)
    BY <1>1, LogTypes, RowTypes
  <1>3. /\ Len(rows) >= RequiredRuns /\ Len(blocks[i].runs) = RequiredRuns
        /\ \A j \in 1..RequiredRuns : rows[j] = blocks[i].runs[j]
    BY DEF Bundled, Tested
  <1>4. PICK s : s = SubSeq(rows, 1, RequiredRuns)
    OBVIOUS
  <1>5. /\ s \in Seq(EvidenceSet) /\ Len(s) = RequiredRuns
        /\ \A j \in 1..RequiredRuns : s[j] = rows[j]
    BY <1>1, <1>2, <1>3, <1>4
  <1>6. \A j \in 1..Len(s) : s[j] = blocks[i].runs[j]
    BY <1>3, <1>5
  <1>7. s = blocks[i].runs
    BY <1>2, <1>3, <1>5, <1>6, SeqEqual
  <1> QED BY <1>4, <1>7

LEMMA RowsAreBundles ==
  ASSUME IInv
  PROVE  BundleIsTable
  <1> SUFFICES ASSUME NEW i \in DOMAIN blocks, blocks[i].phase = "real_case_evidence",
                      blocks[i].status # "infrastructure_failed",
                      NEW rows, rows = Of(blocks[i].attempt)
               PROVE  /\ blocks[i].runs = SubSeq(rows, 1, RequiredRuns)
                      /\ \A j \in DOMAIN rows : rows[j].source = 0 <=> j <= RequiredRuns
    BY DEF BundleIsTable
  <1>1. Bundled(blocks[i]) /\ blocks[i].attempt \in 1..MaxIterations /\ TypeOK
    BY LogTypes DEF IInv, LogOK, Witnessed
  <1>2. blocks[i].runs = SubSeq(rows, 1, RequiredRuns)
    BY <1>1, BundleRows DEF Of
  <1>3. ASSUME NEW j \in DOMAIN rows PROVE rows[j].source = 0 <=> j <= RequiredRuns
    <2>1. j \in Nat /\ RequiredRuns \in Nat
      BY <1>1, RowTypes, FactoryAssumption DEF Of
    <2> QED BY <1>1, <2>1 DEF IInv, RowsInOrder, Of
  <1> QED BY <1>2, <1>3

LEMMA LogApplies ==
  ASSUME IInv
  PROVE  LogReplays
  <1> SUFFICES ASSUME NEW i \in DOMAIN blocks,
                      blocks[i].phase = "capability_promoted" => resume = "none"
               PROVE  Applies(SubSeq(blocks, 1, i - 1), blocks[i])
    BY DEF LogReplays
  <1>1. /\ TypeOK /\ blocks \in Seq(BlockSet) /\ i \in 1..Len(blocks) /\ Len(blocks) \in Nat
    BY LogTypes DEF IInv
  <1>2. PICK before : before = SubSeq(blocks, 1, i - 1)
    OBVIOUS
  <1>3. /\ before \in Seq(BlockSet) /\ Len(before) = i - 1
        /\ \A j \in 1..(i - 1) : before[j] = blocks[j]
    BY <1>1, <1>2
  <1>4. /\ i = 1 <=> before = <<>>
        /\ i # 1 => Last(before) = blocks[i - 1]
    BY <1>1, <1>3, EmptySeq DEF Last
  <1>5. /\ blocks[i].phase \in NextPhases[PhaseBefore(i)]
        /\ blocks[i].attempt = AttemptAt(i) /\ Earned(blocks[i])
    BY DEF IInv, LogOK, Chained
  <1>6. /\ PhaseBefore(i) = IF before = <<>> THEN "initial" ELSE Last(before).phase
        /\ AttemptAt(i) = AttemptAfter(before)
    BY <1>4 DEF PhaseBefore, AttemptAt, AttemptAfter
  <1>7. Applies(before, blocks[i])
    BY <1>5, <1>6 DEF Applies, Earned, ReleaseReady, RunsSettled
  <1> QED BY <1>2, <1>7

(* A review that recommends the candidate, and all rows of the attempt     *)
(* good: the attempt was tested once.                                      *)
LEMMA PromotedOnce ==
  ASSUME IInv, Phase = "capability_promoted"
  PROVE  /\ RunsSettled(Attempt) /\ Attempt \in 1..MaxIterations
         /\ \E i \in DOMAIN blocks :
              /\ TestsOf(Attempt) = {i} /\ blocks[i].status = "succeeded"
              /\ Bundled(blocks[i]) /\ blocks[i].attempt = Attempt
  <1>1. TypeOK /\ Chained /\ TestedOnce /\ \A i \in DOMAIN blocks : Witnessed(blocks[i])
    BY DEF IInv, LogOK
  <1>2. PICK n \in DOMAIN blocks : /\ n = Len(blocks) /\ n \in Nat /\ n >= 1
                                   /\ blocks[n].phase = "capability_promoted"
                                   /\ Attempt = blocks[n].attempt
    BY <1>1, LastBlock, LogTypes
  <1>3. PICK a \in 1..MaxIterations : a = Attempt
    BY <1>1, AttemptBounded
  <1>4. RunsSettled(a)
    BY <1>1, <1>2, <1>3 DEF Chained, Earned
  <1>5. n > 1 /\ n - 1 \in DOMAIN blocks /\ blocks[n - 1].phase = "quality_reviewed"
        /\ blocks[n - 1].attempt = a
    <2>1. blocks[n].phase \in NextPhases[PhaseBefore(n)] /\ blocks[n].attempt = AttemptAt(n)
      BY <1>1 DEF Chained
    <2>2. n > 1
      BY <1>2, <2>1, NextOf DEF PhaseBefore
    <2>3. n - 1 \in DOMAIN blocks
      BY <1>1, <1>2, <2>2, LogTypes
    <2>4. blocks[n - 1].phase \in PhaseNames
      BY <1>1, <2>3, LogTypes
    <2>5. PhaseBefore(n) = blocks[n - 1].phase
      BY <2>2 DEF PhaseBefore
    <2>6. blocks[n - 1].phase = "quality_reviewed"
      BY <1>2, <2>1, <2>4, <2>5, NextOf DEF PhaseNames
    <2> QED BY <1>2, <1>3, <2>1, <2>2, <2>3, <2>6 DEF AttemptAt
  <1>6. PICK i \in TestsOf(a) : blocks[i].status = "succeeded"
    BY <1>1, <1>5 DEF Chained, Earned, Passed
  <1>7. ~Flawed(a)
    <2>1. DOMAIN executions[a] = 1..RequiredRuns
      BY <1>1, <1>4, RowTypes DEF RunsSettled, RunsReady, Of
    <2> QED BY <1>4, <2>1 DEF RunsSettled, RunsReady, Of, Flawed
  <1>8. \A k \in TestsOf(a) : blocks[k].phase = "real_case_evidence" /\ blocks[k].attempt = a
    BY <1>1, <1>7 DEF TestsOf, TestPhases, Witnessed
  <1>9. TestsOf(a) = {i}
    BY <1>1, <1>6, <1>8 DEF TestsOf, TestedOnce
  <1>10. i \in DOMAIN blocks /\ Bundled(blocks[i])
    BY <1>1, <1>6, <1>8 DEF TestsOf, Witnessed
  <1> QED BY <1>3, <1>4, <1>6, <1>8, <1>9, <1>10

LEMMA PromotionWasEarned ==
  ASSUME IInv
  PROVE  PromotionEarned
  <1> SUFFICES ASSUME Phase = "capability_promoted"
               PROVE  /\ Cardinality(TestsOf(Attempt)) = 1
                      /\ \A i \in TestsOf(Attempt) :
                           /\ blocks[i].status = "succeeded"
                           /\ blocks[i].runs = Of(Attempt)
                           /\ \A j \in DOMAIN blocks[i].runs :
                                LET e == blocks[i].runs[j]
                                IN /\ e.ok /\ e.lease = blocks[i].lease
                                   /\ KeyOf(e) \in DOMAIN claims
                                   /\ claims[KeyOf(e)].state = "completed"
                                   /\ claims[KeyOf(e)].evidence = <<e>>
                      /\ open = {}
    BY DEF PromotionEarned
  <1>1. PICK a \in 1..MaxIterations : a = Attempt
    BY PromotedOnce
  <1>2. PICK i \in DOMAIN blocks :
          /\ TestsOf(a) = {i} /\ blocks[i].status = "succeeded"
          /\ Bundled(blocks[i]) /\ blocks[i].attempt = a
    BY <1>1, PromotedOnce
  <1>3. PICK rows : rows = executions[a]
    OBVIOUS
  <1>4. /\ Len(rows) = RequiredRuns /\ open = {}
        /\ \A j \in DOMAIN rows : rows[j].ok /\ rows[j].paid
    BY <1>1, <1>3, PromotedOnce DEF RunsSettled, RunsReady, Of
  <1>5. TypeOK /\ RowsInOrder
    BY DEF IInv
  <1>6. rows \in Seq(EvidenceSet) /\ DOMAIN rows = 1..RequiredRuns
    BY <1>3, <1>4, <1>5, RowTypes
  <1>7. blocks[i].runs = rows
    <2>1. blocks[i].runs \in Seq(EvidenceSet)
      BY <1>5, LogTypes
    <2>2. Len(blocks[i].runs) = RequiredRuns /\ \A j \in 1..RequiredRuns : rows[j] = blocks[i].runs[j]
      BY <1>2, <1>3 DEF Bundled
    <2> QED BY <1>4, <1>6, <2>1, <2>2, SeqEqual
  <1>8. ASSUME NEW j \in DOMAIN blocks[i].runs
        PROVE  LET e == blocks[i].runs[j]
               IN /\ e.ok /\ e.lease = blocks[i].lease
                  /\ KeyOf(e) \in DOMAIN claims
                  /\ claims[KeyOf(e)].state = "completed"
                  /\ claims[KeyOf(e)].evidence = <<e>>
    <2>0. PICK e : e = blocks[i].runs[j]
      OBVIOUS
    <2>1. j \in DOMAIN rows /\ j \in 1..RequiredRuns /\ e = rows[j]
      BY <1>6, <1>7, <2>0
    <2>2. Backed(e) /\ e.ok /\ e.paid
      BY <1>3, <1>4, <1>5, <2>1 DEF RowsInOrder
    <2>3. e.lease = blocks[i].lease
      BY <1>2, <2>0, <2>1 DEF Bundled
    <2> QED BY <2>0, <2>2, <2>3 DEF Backed
  <1>9. Cardinality({i}) = 1
    BY FS_Singleton
  <1>10. blocks[i].runs = Of(a)
    BY <1>3, <1>7 DEF Of
  <1> QED BY <1>1, <1>2, <1>4, <1>8, <1>9, <1>10

(* Everything has its type, whatever the ceilings: an attempt never goes   *)
(* beyond max_behavioral_iterations (apply_block), nor a retry beyond what *)
(* Captain may grant.                                                      *)
THEOREM FactoryTypes == Spec => []TypeOK
  <1>1. IInv => TypeOK
    BY DEF IInv
  <1> QED BY <1>1, FactoryInvariant, PTL

(* However many runners dispatch the job, crash or replay each other's     *)
(* results, two never hold the claim of one run, and every time a run      *)
(* spends again Captain has authorized the retry of the failure before     *)
(* (replay_store.claim, retry_failed_hermes).                              *)
THEOREM EffectOnceAlways == Spec => []EffectOnce
  <1>1. IInv => EffectOnce
    BY EffectsAuthorized
  <1> QED BY <1>1, FactoryInvariant, PTL

(* The block of a first test carries exactly the first rows that the       *)
(* Gateway has of the attempt, and only revalidations come after them      *)
(* (_team_execution_bundle_block, _assert_workflow_sequence).              *)
THEOREM BundleIsTableAlways == Spec => []BundleIsTable
  <1>1. IInv => BundleIsTable
    BY RowsAreBundles
  <1> QED BY <1>1, FactoryInvariant, PTL

(* The log can be applied again from its first block with the reviews,     *)
(* rows and budget of today: of all that arrives after a block, only what  *)
(* a capability resume reserves or costs makes factory_job refuse one, and *)
(* that one is the promotion (apply_block, _factory_projection).           *)
THEOREM LogReplaysAlways == Spec => []LogReplays
  <1>1. IInv => LogReplays
    BY LogApplies
  <1> QED BY <1>1, FactoryInvariant, PTL

(* A promoted job has earned it: one test, with success, by runs of one    *)
(* lease, each of them kept by the replay store, and no reservation of a   *)
(* team run left open (evaluate_factory_workflow_release).                 *)
THEOREM PromotionEarnedAlways == Spec => []PromotionEarned
  <1>1. IInv => PromotionEarned
    BY PromotionWasEarned
  <1> QED BY <1>1, FactoryInvariant, PTL
=============================================================================
