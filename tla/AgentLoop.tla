----------------------------- MODULE AgentLoop -----------------------------
(***************************************************************************)
(* The unified agent loop (DeploymentAgentLoop) of one task: it walks over *)
(* the pipeline stages, asks the decision gate about a stage that has not  *)
(* passed, executes the stage, asks the repair gate when it fails, and at  *)
(* the end rewrites the task's results.  Several runs follow one another   *)
(* on the files that the earlier ones have left.                           *)
(***************************************************************************)
EXTENDS DecisionGate

CONSTANTS Tools,          \* the tools a model asks for
          Positions,      \* agent_runtime_loop_position: "primary", "post_pipeline"
          max_iterations, \* agent_runtime_loop_max_iterations
          MaxRuns, MaxCrashes

ASSUME LoopBounds == max_iterations \in Nat \ {0} /\ MaxRuns \in Nat /\ MaxCrashes \in Nat

VARIABLES
    position,   \* the configured position
    pipeline,   \* pipeline_results.json: per stage the status, the run that produced
                \*   the data (0: none) and whether the data names a process
    overlay,    \* the files state deltas have written
    effective,  \* some line of agent_steps.jsonl shows an accepted, effective decision
    evidence,   \* llm_contribution_evidence.json
    report,     \* report.md
    crashes,
    p           \* the process: AgentState and the locals of run

loop_vars == <<position, pipeline, overlay, effective, evidence, report, crashes, p>>

Stages == {PIPELINE_STAGES[i] : i \in DOMAIN PIPELINE_STAGES}
Open == {"failed", "uncertain"}
Absent == [status |-> "", run |-> 0, pid |-> FALSE]

(* GateResult, with the calls whose delta was applied as history.          *)
NewGate(stage) == [stage |-> stage, step |-> 0, status |-> "skipped", call |-> NoCall,
    policy |-> FALSE, applied |-> FALSE, done |-> {}]

NoDecision == [stage |-> "", decision |-> [decision_status |-> ""]]

Idle == [pc |-> "idle", run |-> 0, provider |-> FALSE, iteration |-> 0, index |-> 1,
    stage_status |-> [s \in Stages |-> Absent], gate |-> NewGate(""),
    decision |-> NoDecision, stop_reason |-> "", verify |-> "unknown"]

Stage == PIPELINE_STAGES[p.index]

(* A pipeline that has run before the loop: all stages, or up to a         *)
(* preflight that closed it.  External to this module, see TaskRunner.     *)
PipelineResults(run) ==
    LET done(s, status) == [status |-> status, run |-> run, pid |-> s = "runner"]
    IN {[s \in Stages |-> CASE s = "verify" -> done(s, v) [] s = "runner" -> done(s, r)
                             [] OTHER -> done(s, "passed")] :
            v \in {"passed", "uncertain"}, r \in {"passed", "failed"}}
       \cup {[s \in Stages |->
                CASE s \in {"analyze", "resource_plan"} -> done(s, "passed")
                  [] s = "host_preflight" -> done(s, "failed")
                  [] OTHER -> Absent]}

LoopInit ==
    /\ position \in Positions
    /\ pipeline = [s \in Stages |-> Absent]
    /\ overlay = {} /\ effective = FALSE
    /\ evidence = [run |-> 0, agent_status |-> "unknown", helped |-> FALSE]
    /\ report = [run |-> 0, final |-> "unknown"]
    /\ crashes = 0
    /\ p = Idle

_determine_start_stage(results) ==
    LET open == {i \in DOMAIN PIPELINE_STAGES : results[PIPELINE_STAGES[i]].status \in Open}
    IN IF open = {} THEN 1 ELSE CHOOSE i \in open : \A j \in open : i <= j

(* _run_agent_runtime_loop and the head of run: the statuses of the earlier*)
(* results are merged into the state, their data is not.                   *)
Start(results, provider) ==
    /\ p.pc = "idle" /\ p.run < MaxRuns
    /\ results \in IF position = "primary" THEN {pipeline} ELSE PipelineResults(p.run + 1)
    /\ pipeline' = results
    /\ p' = [Idle EXCEPT !.pc = "head", !.run = p.run + 1, !.provider = provider,
                !.index = _determine_start_stage(results),
                !.stage_status = [s \in Stages |-> [Absent EXCEPT !.status = results[s].status]]]
    /\ UNCHANGED <<position, overlay, effective, evidence, report, crashes>>

(* The while condition, the observation and the question whether the gate  *)
(* is asked.                                                               *)
LoopHead ==
    /\ p.pc = "head"
    /\ p' = IF p.iteration >= max_iterations \/ p.index > Len(PIPELINE_STAGES)
            THEN [p EXCEPT !.pc = "results"]
            ELSE IF /\ p.stage_status[Stage].status \in Open \cup {""}
                    /\ p.provider /\ Stage # "host_preflight"
            THEN [p EXCEPT !.pc = "gate", !.gate = NewGate(Stage)]
            ELSE [p EXCEPT !.pc = "execute"]
    /\ UNCHANGED <<position, pipeline, overlay, effective, evidence, report, crashes>>

max_steps == 2

(* One round of decide: plan, critic, policy, apply.  A rejected call and a*)
(* call that changed nothing leave a second round; an applied one ends it. *)
AfterCall(q, d) ==
    LET r == [q EXCEPT !.step = @ + 1, !.status = d.status]
        named == [r EXCEPT !.call = d.call]
        again == IF r.step < max_steps THEN "gate" ELSE "gated"
        exec == _execute_or_apply(d.call)
    IN CASE d.status # "ok" -> [gate |-> r, pc |-> "gated", writes |-> ""]
         [] d.status = "ok" /\ ~CriticAllows(d.call, q.stage) ->
                [gate |-> named, pc |-> again, writes |-> ""]
         [] d.status = "ok" /\ CriticAllows(d.call, q.stage) /\ ~PolicyAllows(d.call, q.stage) ->
                [gate |-> [named EXCEPT !.policy = FALSE], pc |-> again, writes |-> ""]
         [] OTHER ->
                [gate |-> [named EXCEPT !.policy = TRUE, !.applied = exec.applied,
                              !.done = IF exec.applied THEN @ \cup {d.call} ELSE @],
                 pc |-> IF exec.raises THEN "raised" ELSE IF exec.applied THEN "gated" ELSE again,
                 writes |-> exec.writes]

decide(reply) ==
    /\ p.pc = "gate"
    /\ LET after == AfterCall(p.gate, Planned(p.gate.stage, reply))
       IN /\ p' = IF after.pc = "raised" THEN [Idle EXCEPT !.run = p.run]
                  ELSE [p EXCEPT !.pc = after.pc, !.gate = after.gate]
          /\ overlay' = overlay \cup ({after.writes} \ {""})
    /\ UNCHANGED <<position, pipeline, effective, evidence, report, crashes>>

(* A gate asked about a stage is recorded; its state delta goes nowhere but*)
(* into the record, and the stage is executed as before.                   *)
RecordDecision ==
    /\ p.pc = "gated" /\ p.gate.stage # "repair"
    /\ p' = [p EXCEPT !.pc = "execute", !.gate = NewGate(""),
                !.decision = [stage |-> p.gate.stage,
                              decision |-> [decision_status |-> p.gate.status,
                                            call |-> p.gate.call,
                                            policy_allowed |-> p.gate.policy,
                                            applied |-> p.gate.applied]]]
    /\ UNCHANGED <<position, pipeline, overlay, effective, evidence, report, crashes>>

(* What AgentStageExecutor.execute_stage can return for a stage: the status*)
(* of its module with a result, or failed with an error and no result when *)
(* the module raised or the stage is unknown to it.  A runner that started *)
(* a process names it even when the process has exited; a verify can only  *)
(* pass when the runner's data names a process.                            *)
Raised == [after_status |-> "failed", result |-> FALSE, pid |-> FALSE]
Result(status) == [after_status |-> status, result |-> TRUE, pid |-> FALSE]

(* runner_data: the result of this run, or else the data of the earlier    *)
(* results.                                                                *)
RunnerData == IF p.stage_status["runner"].run # 0 THEN p.stage_status["runner"]
              ELSE pipeline["runner"]

Results(statuses) == {Result(s) : s \in statuses}

_execute_analyze == Results({"passed"})
_execute_resource_plan == Results({"passed", "uncertain"})
_execute_host_preflight == Results({"passed", "uncertain", "failed"})
_execute_env_solve == Results({"passed", "uncertain"})
_execute_env_deploy == Results({"passed", "uncertain", "failed"})
_execute_model_prepare == Results({"passed", "uncertain", "failed"})
_execute_runner ==
    Results({"passed", "uncertain", "failed"})
        \cup {[Result(s) EXCEPT !.pid = TRUE] : s \in {"passed", "failed"}}
_execute_verify ==
    Results({"uncertain"}) \cup (IF RunnerData.pid THEN Results({"passed"}) ELSE {})

execute_stage(stage) ==
    {Raised} \cup
    CASE stage = "analyze" -> _execute_analyze
      [] stage = "resource_plan" -> _execute_resource_plan
      [] stage = "host_preflight" -> _execute_host_preflight
      [] stage = "env_solve" -> _execute_env_solve
      [] stage = "env_deploy" -> _execute_env_deploy
      [] stage = "model_prepare" -> _execute_model_prepare
      [] stage = "runner" -> _execute_runner
      [] stage = "verify" -> _execute_verify
      [] OTHER -> {}

_record_stage_result(stage, o) ==
    [p.stage_status EXCEPT ![stage] =
        [status |-> o.after_status, run |-> IF o.result THEN p.run ELSE 0, pid |-> o.pid]]

(* A line of agent_steps.jsonl.  The step's decision is the record that    *)
(* record_decision wrapped, so that the field the evidence looks for is one*)
(* level further down.                                                     *)
_decision_dict(step) == step.decision
EffectiveStep ==
    LET d == _decision_dict([stage |-> Stage, decision |-> p.decision])
    IN /\ "decision_status" \in DOMAIN d
       /\ d.decision_status = "ok" /\ d.policy_allowed /\ d.applied
WriteStep == effective' = (effective \/ EffectiveStep)

(* Fault: a failed stage is repeated, and the round is not counted.        *)
Advance_Repeat(q) ==
    [q EXCEPT !.pc = "head", !.index = IF q.stage_status[Stage].status \in Open THEN @ ELSE @ + 1,
        !.iteration = IF q.stage_status[Stage].status \in Open THEN @ ELSE @ + 1]

Advance(q) == [q EXCEPT !.pc = "head", !.index = @ + 1, !.iteration = @ + 1]

(* The stage, its record, and what its status leads to.                    *)
Execute(o) ==
    /\ p.pc = "execute" /\ o \in execute_stage(Stage)
    /\ LET q == [p EXCEPT !.stage_status = _record_stage_result(Stage, o)]
       IN \/ /\ Stage = "verify" /\ o.after_status = "passed"
             /\ p' = [q EXCEPT !.pc = "results", !.stop_reason = "verify_passed",
                                !.verify = "passed"]
             /\ WriteStep
          \/ /\ o.after_status \in Open
             /\ p' = [q EXCEPT !.pc = IF p.provider THEN "gate" ELSE "repaired",
                                !.gate = NewGate("repair")]
             /\ UNCHANGED effective
          \/ /\ Stage # "verify" /\ o.after_status \notin Open
             /\ p' = Advance(q)
             /\ WriteStep
    /\ UNCHANGED <<position, pipeline, overlay, evidence, report, crashes>>

(* The execution that _run_repair_loop reads.  The stage to resume from is *)
(* inside its state delta.                                                 *)
Execution(q) ==
    [applied |-> q.applied, executed |-> q.applied,
     state_delta |-> IF q.applied /\ q.call.tool = "resume_from_stage"
                     THEN {"resume_from_stage"} ELSE {}]

(* The end of _run_repair_loop and what run does with it: a repair that is *)
(* effective and resumes goes back, any other ends a verify and lets every *)
(* other stage go on.                                                      *)
RepairDone ==
    /\ p.pc \in {"repaired", "gated"} /\ p.gate.stage = "repair"
    /\ LET execution == Execution(p.gate)
           should_resume == execution.executed /\ "resume_from_stage" \in DOMAIN execution
           q == [p EXCEPT !.gate = NewGate("")]
       IN p' = IF should_resume
               THEN [q EXCEPT !.pc = "head", !.iteration = @ + 1,
                        !.index = _determine_start_stage(p.stage_status)]
               ELSE IF Stage = "verify"
               THEN [q EXCEPT !.pc = "results",
                        !.stop_reason = IF p.provider THEN "repair_not_effective"
                                        ELSE "no_provider_for_repair"]
               ELSE Advance(q)
    /\ WriteStep
    /\ UNCHANGED <<position, pipeline, overlay, evidence, report, crashes>>

(* pipeline_results.json is rewritten from the state: a stage this run has *)
(* not executed keeps its status and loses its data.                       *)
WrittenResults ==
    [s \in Stages |->
        IF s = "report" /\ p.verify = "passed"
        THEN [status |-> "passed", run |-> p.run, pid |-> FALSE]
        ELSE p.stage_status[s]]

_write_pipeline_results ==
    /\ p.pc = "results"
    /\ pipeline' = WrittenResults
    /\ p' = [p EXCEPT !.pc = "evidence"]
    /\ UNCHANGED <<position, overlay, effective, evidence, report, crashes>>

(* The evidence is computed from the two files.  Only a verify of this run *)
(* has data, and with it a status and evidence that holds the trace.       *)
_write_llm_contribution_evidence ==
    /\ p.pc = "evidence"
    /\ LET verified == pipeline["verify"].run # 0 /\ pipeline["verify"].status = "passed"
       IN evidence' = [run |-> p.run, helped |-> verified /\ effective,
                       agent_status |-> IF pipeline["verify"].run = 0 THEN "unknown"
                                        ELSE pipeline["verify"].status]
    /\ p' = [p EXCEPT !.pc = "report"]
    /\ UNCHANGED <<position, pipeline, overlay, effective, report, crashes>>

(* Fault: the report takes the status of the verify stage, wherever it is  *)
(* from.                                                                   *)
_write_report_Inherited ==
    /\ p.pc = "report"
    /\ report' = [run |-> p.run, final |-> p.stage_status["verify"].status]
    /\ p' = [Idle EXCEPT !.run = p.run]
    /\ UNCHANGED <<position, pipeline, overlay, effective, evidence, crashes>>

_write_report ==
    /\ p.pc = "report"
    /\ report' = [run |-> p.run, final |-> p.verify]
    /\ p' = [Idle EXCEPT !.run = p.run]
    /\ UNCHANGED <<position, pipeline, overlay, effective, evidence, crashes>>

LoopCrash ==
    /\ p.pc # "idle" /\ crashes < MaxCrashes
    /\ crashes' = crashes + 1
    /\ p' = [Idle EXCEPT !.run = p.run]
    /\ UNCHANGED <<position, pipeline, overlay, effective, evidence, report>>

Step ==
    \/ LoopHead \/ RecordDecision \/ RepairDone
    \/ \E reply \in Replies(Tools) : decide(reply)
    \/ \E o \in {Raised} \cup [after_status: {"passed", "uncertain", "failed"},
                              result: {TRUE}, pid: BOOLEAN] : Execute(o)
    \/ _write_pipeline_results \/ _write_llm_contribution_evidence \/ _write_report

LoopNext ==
    \/ \E results \in {pipeline} \cup PipelineResults(p.run + 1), provider \in BOOLEAN :
            Start(results, provider)
    \/ Step
    \/ LoopCrash

LoopSpec == LoopInit /\ [][LoopNext]_loop_vars
LoopFairness == WF_loop_vars(Step)
LoopFairSpec == LoopSpec /\ LoopFairness

-----------------------------------------------------------------------------
\* A run reports success only when it executed verify itself and verify passed,
\* and the results and the evidence on disk are that run's, whatever pipeline
\* results, decisions, repairs and crashes came before (loop.py: run,
\* _write_report).
PassIsVerified ==
    [][(report'.run # report.run /\ report'.final = "passed") =>
            /\ pipeline["verify"] = [status |-> "passed", run |-> p.run, pid |-> FALSE]
            /\ pipeline["report"].run = p.run
            /\ evidence.run = p.run]_loop_vars

\* The loop always comes to an end, whatever stages, tools and resume points the
\* model chooses: every way round uses up an iteration (loop.py: run).
LoopEnds == p.pc # "idle" ~> p.pc = "idle"

=============================================================================
