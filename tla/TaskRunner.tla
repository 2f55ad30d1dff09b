------------------------------ MODULE TaskRunner ------------------------------
(***************************************************************************)
(* TaskRunner with the legacy controller: the runs (deploy, then resumes)  *)
(* of one task.  A run makes one or more passes over the pipeline stages.  *)
(* A stage that does not pass is diagnosed and repaired at once, and the   *)
(* repair may ask for another pass, which reuses the results of the stages *)
(* before its start.  What a run leaves in the task directory is what the  *)
(* next run, and the verdict on it, are computed from.                     *)
(*                                                                         *)
(* Statuses "failed" and "uncertain" of a stage are treated alike by the   *)
(* code modelled here, and are both written "failed"; the other statuses   *)
(* of a stage (planned, waiting for a download) only differ from "passed"  *)
(* in what is shown.                                                       *)
(***************************************************************************)
EXTENDS Naturals, Sequences

CONSTANTS
    None,
    Failing,                    \* the stages that may fail (bound)
    Requested,                  \* the stages a diagnosis may ask to rerun (bound)
    Modes,                      \* the strategy, dry_run and --agent-self-heal of a run
    agent_max_loop_iterations,
    max_attempts,               \* of RepairLoopController
    preflight_fail_closed,
    MaxRuns,                    \* bound on the runs
    MaxCrashes                  \* bound on crashes, interrupts and exceptions

PIPELINE_STAGES == <<"analyze", "resource_plan", "host_preflight", "env_solve",
                     "env_deploy", "model_prepare", "runner", "verify", "report">>
Stages == {PIPELINE_STAGES[i] : i \in DOMAIN PIPELINE_STAGES}
RERUN_STAGES == Stages \ {"report"}
SAFE_RERUN_STAGES == RERUN_STAGES \ {"analyze", "resource_plan"}
\* Of the plan-first loop, which skips host_preflight: that entry has no data.
EXECUTION_STAGES == RERUN_STAGES \ {"host_preflight"}
At(stage) == CHOOSE i \in DOMAIN PIPELINE_STAGES : PIPELINE_STAGES[i] = stage
Before(stage) == {s \in Stages : At(s) < At(stage)}

ASSUME TaskAssumption ==
    /\ Failing \subseteq RERUN_STAGES /\ Requested \subseteq RERUN_STAGES
    /\ Modes \subseteq {"pipeline", "plan_first"} \X BOOLEAN \X BOOLEAN
    /\ agent_max_loop_iterations \in Nat /\ max_attempts \in Nat
    /\ preflight_fail_closed \in BOOLEAN
    /\ MaxRuns \in Nat /\ MaxCrashes \in Nat

\* The absent file is no file: None is neither a result of the controller nor the
\* results of a pipeline.
ASSUME NoneAssumption ==
    /\ None \notin [status : {"completed", "completed_dry_run", "failed", "interrupted"},
                     run : Nat, verified : Nat]
    /\ \A S \in SUBSET Stages :
          None \notin [S -> [status : {"passed", "failed"}, run : Nat, request : {None}]]

VARIABLES
    status,    \* status in state.json
    files,     \* reports/<stage>_result.json: the stages that have one, and it
    pipeline,  \* reports/pipeline_results.json
    report,    \* reports/report.md exists
    planFirst, \* outcome in reports/plan_first_result.json
    plan,      \* rerun_from_effective in repairs/repair_plan.json
    applied,   \* repairs/repair_apply_result.json
    attempts,  \* repairs/repair_loop_state.json; a stage stands for its signature
    ctrl,      \* reports/controller_result.json
    install,   \* allow_dependency_install in task.json
    p,         \* the process that runs the task
    runs,      \* runs started
    h          \* history: see Init

disk == <<status, files, pipeline, report, planFirst, ctrl>>
repairs == <<plan, applied, attempts>>
vars == <<disk, repairs, install, p, runs, h>>

NoResults == [s \in {} |-> None]
Idle == [pc |-> "idle", strategy |-> "pipeline", dry |-> TRUE, heal |-> FALSE,
         answered |-> FALSE, resumed |-> FALSE, pass |-> 0, start |-> "analyze",
         at |-> "analyze", results |-> NoResults, loop |-> None, verdict |-> None]

Init ==
    /\ status = "none" /\ files = NoResults /\ pipeline = None /\ report = FALSE
    /\ planFirst = None /\ plan = None /\ applied = None
    /\ attempts = [s \in Failing |-> 0]
    /\ ctrl = None /\ install = FALSE /\ p = Idle /\ runs = 0
    \* executed[s]: repairs of s that ran commands; repaired: one succeeded in
    \* this pass; dryRepair: one was run in a dry run; crashes; cut: the last
    \* run did not get to its end
    /\ h = [executed |-> [s \in Failing |-> 0], repaired |-> FALSE,
            dryRepair |-> FALSE, crashes |-> 0, cut |-> FALSE]

Goto(l) == p' = [p EXCEPT !.pc = l]
Put(f, s, v) == [x \in DOMAIN f \cup {s} |-> IF x = s THEN v ELSE f[x]]

-----------------------------------------------------------------------------
(* Runs                                                                    *)

\* The pipeline does not look at an answer.
Started(mode, answered) ==
    /\ p' = [Idle EXCEPT !.pc = "mark", !.strategy = mode[1], !.dry = mode[2],
                         !.heal = mode[3], !.resumed = runs > 0,
                         !.answered = answered /\ mode[1] = "plan_first"]
    /\ runs' = runs + 1 /\ h' = [h EXCEPT !.cut = FALSE]

deploy(mode, allow_install) ==
    /\ p.pc = "idle" /\ runs = 0 /\ runs < MaxRuns
    /\ status' = "created" /\ install' = (~mode[2] /\ allow_install)
    /\ Started(mode, FALSE)
    /\ UNCHANGED <<files, pipeline, report, planFirst, ctrl, repairs>>

\* git clone fails in a new task.
CloneFails ==
    /\ p.pc = "mark" /\ ~p.resumed
    /\ ctrl' = [status |-> "failed", run |-> runs, verified |-> 0]
    /\ p' = [p EXCEPT !.pc = "clone_failed", !.verdict = [status |-> "failed", verified |-> 0]]
    /\ UNCHANGED <<status, files, pipeline, report, planFirst, repairs, install, runs, h>>

\* resume, and approval-resolve, which is a resume with an answer.
resume(mode, answered) ==
    /\ p.pc = "idle" /\ runs > 0 /\ runs < MaxRuns
    /\ Started(mode, answered)
    /\ UNCHANGED <<disk, repairs, install>>

MaxOf(S) == CHOOSE s \in S : \A t \in S : At(t) <= At(s)

\* Where _resume_legacy starts.
_repair_resume_stage ==
    IF applied # None
    THEN IF applied.status = "applied" THEN applied.rerun ELSE "analyze"
    ELSE IF plan # None THEN plan ELSE "analyze"

mark_controller_running ==
    /\ p.pc = "mark" /\ status' = "running"
    /\ p' = [p EXCEPT !.pc = IF p.strategy = "plan_first" THEN "plan_first" ELSE "pass",
                      !.start = IF p.resumed THEN _repair_resume_stage ELSE "analyze"]
    /\ UNCHANGED <<files, pipeline, report, planFirst, ctrl, repairs, install, runs, h>>

\* A crash or an interrupt leaves the files.
Crash ==
    /\ p.pc # "idle" /\ h.crashes < MaxCrashes /\ p' = Idle
    /\ h' = [h EXCEPT !.crashes = @ + 1, !.cut = TRUE]
    /\ UNCHANGED <<disk, repairs, install, runs>>

\* An exception inside the controller becomes a failed result.
ControllerError ==
    /\ p.pc \in {"plan_first", "plan_result", "pass", "stage", "gate", "apply", "applied",
                 "report", "report_saved", "pipeline", "decide", "adapt"}
    /\ h.crashes < MaxCrashes
    /\ p' = [p EXCEPT !.pc = "sync", !.verdict = [status |-> "failed", verified |-> 0]]
    /\ h' = [h EXCEPT !.crashes = @ + 1]
    /\ UNCHANGED <<disk, repairs, install, runs>>

-----------------------------------------------------------------------------
(* One pass over the pipeline                                              *)

_load_previous_results == IF pipeline # None THEN pipeline ELSE files

\* Fault: the slice of the stages before the start is one too short.
_normalize_start_stage_Short(stage) ==
    IF /\ stage \in RERUN_STAGES
       /\ \A s \in Before(stage) : At(s) < At(stage) - 1 => s \in DOMAIN _load_previous_results
    THEN stage ELSE "analyze"

_normalize_start_stage(stage) ==
    IF stage \in RERUN_STAGES /\ Before(stage) \subseteq DOMAIN _load_previous_results
    THEN stage ELSE "analyze"

BeginPass ==
    /\ p.pc = "pass"
    /\ LET start == _normalize_start_stage(p.start) IN
       p' = [p EXCEPT !.pc = "stage", !.start = start, !.at = start,
                      !.results = IF start = "analyze" THEN NoResults
                                  ELSE _load_previous_results]
    /\ h' = [h EXCEPT !.repaired = FALSE]
    /\ UNCHANGED <<disk, repairs, install, runs>>

\* What follows a stage: a failed preflight closes the pass.
AfterStage(stage, st) ==
    IF stage = "verify" \/ (stage = "host_preflight" /\ st = "failed" /\ preflight_fail_closed)
    THEN [pc |-> "report", at |-> "report"]
    ELSE [pc |-> "stage", at |-> PIPELINE_STAGES[At(stage) + 1]]

Advance(results, stage, st) ==
    p' = [p EXCEPT !.results = results, !.loop = None,
                   !.pc = AfterStage(stage, st).pc, !.at = AfterStage(stage, st).at]

Result(st, request) == [status |-> st, run |-> runs, request |-> request]

\* The stage runs and is saved (_save_stage); unless it passed, _remember follows.
RunStage(st) ==
    /\ p.pc = "stage" /\ st \in {"passed", "failed"} /\ (st = "failed" => p.at \in Failing)
    /\ LET results == Put(p.results, p.at, Result(st, None)) IN
       /\ files' = Put(files, p.at, Result(st, None))
       /\ IF st = "passed" THEN Advance(results, p.at, st)
          ELSE p' = [p EXCEPT !.pc = "gate", !.results = results]
    /\ UNCHANGED <<status, pipeline, report, planFirst, ctrl, repairs, install, runs, h>>

-----------------------------------------------------------------------------
(* handle_stage_result: repair of the stage that failed                    *)

\* The latest stage RepairPlanner requires for any category of failure.
_rerun_from(stage) == MaxOf({stage, "model_prepare"})

_effective_rerun_from(requested) ==
    IF requested \in SAFE_RERUN_STAGES THEN requested ELSE "env_deploy"

\* RepairPlanner proposes actions of one kind and a rerun; RepairPolicy allows them
\* or not; RepairLoopController counts the attempt.
gate(requested, allowed, kind) ==
    /\ p.pc = "gate" /\ At(requested) <= At(_rerun_from(p.at))
    /\ LET ok == allowed /\ attempts[p.at] < max_attempts IN
       /\ attempts' = [attempts EXCEPT ![p.at] = IF ok THEN @ + 1 ELSE @]
       /\ p' = [p EXCEPT !.pc = "apply",
                         !.loop = [allowed |-> ok, kind |-> IF ok THEN kind ELSE "none",
                                   exit |-> "none", rerun |-> _effective_rerun_from(requested)]]
    /\ UNCHANGED <<disk, plan, applied, install, runs, h>>

_repair_execute_enabled == p.heal /\ install

\* RepairApplier writes the plan and runs its commands.
ApplyRepair(exit) ==
    /\ p.pc = "apply" /\ plan' = p.loop.rerun
    /\ LET executed == /\ p.loop.allowed /\ p.loop.kind \in {"command", "unsafe"}
                       /\ _repair_execute_enabled
       IN
       /\ exit \in IF executed THEN {"ok", "error"} ELSE {"none"}
       /\ p' = [p EXCEPT !.pc = "applied", !.loop = [@ EXCEPT !.exit = exit]]
       /\ h' = IF executed
               THEN [h EXCEPT !.executed[p.at] = @ + 1, !.repaired = @ \/ exit = "ok",
                              !.dryRepair = @ \/ p.dry]
               ELSE h
    /\ UNCHANGED <<disk, applied, attempts, install, runs>>

_should_auto_resume ==
    /\ p.heal /\ p.loop.allowed
    /\ \/ p.loop.kind = "command" /\ p.loop.exit = "ok"
       \/ p.loop.kind = "metadata"

\* The result of the repair is written, and the stage is saved again with the
\* rerun it asks for.
SaveRepair ==
    /\ p.pc = "applied"
    /\ applied' = [status |-> IF p.loop.allowed THEN "applied" ELSE "rejected",
                   effective |-> p.loop.exit = "ok", rerun |-> p.loop.rerun]
    /\ LET result == Result("failed", IF _should_auto_resume THEN p.loop.rerun ELSE None) IN
       /\ files' = Put(files, p.at, result)
       /\ Advance(Put(p.results, p.at, result), p.at, "failed")
    /\ UNCHANGED <<status, pipeline, report, planFirst, ctrl, plan, attempts, install, runs, h>>

-----------------------------------------------------------------------------
(* End of a pass                                                           *)

\* report.md is generated, then the stage is saved.
WriteReport ==
    /\ p.pc = "report" /\ report' = TRUE
    /\ files' = Put(files, "report", Result("passed", None))
    /\ p' = [p EXCEPT !.pc = "report_saved",
                      !.results = Put(@, "report", Result("passed", None))]
    /\ UNCHANGED <<status, pipeline, planFirst, ctrl, repairs, install, runs, h>>

\* update_stage of the report stage calls the task completed.
update_stage_report ==
    /\ p.pc = "report_saved" /\ status' = "completed" /\ Goto("pipeline")
    /\ UNCHANGED <<files, pipeline, report, planFirst, ctrl, repairs, install, runs, h>>

WritePipeline ==
    /\ p.pc = "pipeline" /\ pipeline' = p.results /\ Goto("decide")
    /\ UNCHANGED <<status, files, report, planFirst, ctrl, repairs, install, runs, h>>

VerifyOf(results) == IF "verify" \in DOMAIN results THEN results["verify"].status ELSE "none"

\* _resume_request_from_pipeline: the first stage that asks.
Asking == {s \in DOMAIN pipeline : pipeline[s].request # None}
FirstOf(S) == CHOOSE s \in S : \A t \in S : At(s) <= At(t)

\* Fault: a repair that was not effective will do.
ShouldResume_AnyRepair ==
    /\ p.heal /\ p.pass < agent_max_loop_iterations
    /\ VerifyOf(pipeline) # "passed" /\ Asking # {}

\* _next_agent_resume_decision, with the default agent_auto_resume_stages.
ShouldResume ==
    /\ p.heal /\ p.pass < agent_max_loop_iterations
    /\ VerifyOf(pipeline) # "passed"
    /\ applied # None /\ applied.status = "applied" /\ applied.effective
    /\ Asking # {}

AutoResume ==
    /\ p.pc = "decide" /\ ShouldResume
    /\ p' = [p EXCEPT !.pc = "pass", !.pass = @ + 1,
                      !.start = pipeline[FirstOf(Asking)].request]
    /\ UNCHANGED <<disk, repairs, install, runs, h>>

LastPass ==
    /\ p.pc = "decide" /\ ~ShouldResume /\ Goto("adapt")
    /\ UNCHANGED <<disk, repairs, install, runs, h>>

-----------------------------------------------------------------------------
(* The plan-first loop, by its outcomes                                    *)

\* An answer needs the request it answers; otherwise it is an error.
Unrequested == p.answered /\ planFirst # "approval_required"

_legacy_command_approval ==
    /\ p.pc = "plan_first" /\ Unrequested
    /\ p' = [p EXCEPT !.pc = "sync", !.verdict = [status |-> "failed", verified |-> 0]]
    /\ UNCHANGED <<disk, repairs, install, runs, h>>

\* No plan to execute.
PlanStops(outcome) ==
    /\ p.pc = "plan_first" /\ ~Unrequested
    /\ planFirst' = outcome /\ Goto("adapt")
    /\ UNCHANGED <<status, files, pipeline, report, ctrl, repairs, install, runs, h>>

\* The stages first..last have run: to verify, or to one that failed.  After a
\* replan the results are those of the last round only.
PlanRuns(first, last, st) ==
    /\ p.pc = "plan_first" /\ ~Unrequested
    /\ At(first) <= At(last) /\ (last # "verify" => st = "failed")
    /\ (st = "failed" => last \in Failing)
    /\ pipeline' = [s \in {x \in EXECUTION_STAGES : At(x) \in At(first)..At(last)} |->
                      Result(IF s = last THEN st ELSE "passed", None)]
    /\ Goto("plan_result")
    /\ UNCHANGED <<status, files, report, planFirst, ctrl, repairs, install, runs, h>>

PlanResult ==
    /\ p.pc = "plan_result" /\ planFirst' = "ran" /\ Goto("adapt")
    /\ UNCHANGED <<status, files, pipeline, report, ctrl, repairs, install, runs, h>>

-----------------------------------------------------------------------------
(* The verdict                                                             *)

\* Fault: a run without verification counts as a success.
Verdict_NotFailed(verify) ==
    CASE planFirst = "approval_required" -> "interrupted"
      [] planFirst \in {"plan_not_ok", "policy_rejected"} -> "failed"
      [] OTHER -> IF p.dry THEN "completed_dry_run"
                  ELSE IF verify = "failed" THEN "failed" ELSE "completed"

Verdict(verify) ==
    CASE planFirst = "approval_required" -> "interrupted"
      [] planFirst \in {"plan_not_ok", "policy_rejected"} -> "failed"
      [] OTHER -> IF p.dry THEN "completed_dry_run"
                  ELSE IF verify = "passed" THEN "completed" ELSE "failed"

_result_adapter ==
    /\ p.pc = "adapt"
    /\ LET results == IF pipeline = None THEN NoResults ELSE pipeline
           verify == VerifyOf(results)
       IN p' = [p EXCEPT !.pc = "sync", !.verdict =
                  [status |-> Verdict(verify),
                   verified |-> IF verify = "passed" THEN results["verify"].run ELSE 0]]
    /\ UNCHANGED <<disk, repairs, install, runs, h>>

StateOf(verdict) == IF verdict = "interrupted" THEN "waiting_for_approval" ELSE verdict

\* Also the end of a failed clone, whose result is already written.
sync_controller_state ==
    /\ p.pc \in {"sync", "clone_failed"} /\ status' = StateOf(p.verdict.status)
    /\ p' = IF p.pc = "sync" THEN [p EXCEPT !.pc = "result"] ELSE Idle
    /\ UNCHANGED <<files, pipeline, report, planFirst, ctrl, repairs, install, runs, h>>

_persist_controller_result ==
    /\ p.pc = "result" /\ p' = Idle
    /\ ctrl' = [status |-> p.verdict.status, run |-> runs, verified |-> p.verdict.verified]
    /\ UNCHANGED <<status, files, pipeline, report, planFirst, repairs, install, runs, h>>

-----------------------------------------------------------------------------
Next ==
    \/ \E m \in Modes, b \in BOOLEAN : deploy(m, b) \/ resume(m, b)
    \/ CloneFails \/ mark_controller_running \/ Crash \/ ControllerError
    \/ BeginPass \/ (\E st \in {"passed", "failed"} : RunStage(st))
    \/ \E r \in Requested, a \in BOOLEAN, k \in {"none", "command", "unsafe", "metadata"} :
          gate(r, a, k)
    \/ (\E x \in {"ok", "error", "none"} : ApplyRepair(x)) \/ SaveRepair
    \/ WriteReport \/ update_stage_report \/ WritePipeline \/ AutoResume \/ LastPass
    \/ _legacy_command_approval
    \/ \E o \in {"plan_not_ok", "policy_rejected", "approval_required"} : PlanStops(o)
    \/ \E first \in {"analyze", "env_deploy", "model_prepare", "runner", "verify"},
          last \in EXECUTION_STAGES, st \in {"passed", "failed"} : PlanRuns(first, last, st)
    \/ PlanResult \/ _result_adapter \/ sync_controller_state \/ _persist_controller_result

Spec == Init /\ [][Next]_vars

-----------------------------------------------------------------------------
(* Properties                                                              *)

Results(f) ==
    /\ DOMAIN f \subseteq Stages
    /\ \A s \in DOMAIN f : f[s] \in [status : {"passed", "failed"}, run : 1..MaxRuns,
                                    request : SAFE_RERUN_STAGES \cup {None}]

Verdicts == {"completed", "completed_dry_run", "failed", "interrupted"}

\* The types of what the task directory and the process hold; a rerun that is
\* asked for is always from a safe stage.
TypeOK ==
    /\ status \in {"none", "created", "running"} \cup {StateOf(v) : v \in Verdicts}
    /\ Results(files) /\ Results(p.results) /\ (pipeline = None \/ Results(pipeline))
    /\ planFirst \in {None, "ran", "plan_not_ok", "policy_rejected", "approval_required"}
    /\ plan \in SAFE_RERUN_STAGES \cup {None}
    /\ \/ applied = None
       \/ applied \in [status : {"applied", "rejected"}, effective : BOOLEAN,
                       rerun : SAFE_RERUN_STAGES]
    /\ attempts \in [Failing -> 0..max_attempts]
    /\ ctrl = None \/ ctrl \in [status : Verdicts, run : 1..MaxRuns, verified : 0..MaxRuns]
    /\ p.start \in RERUN_STAGES /\ p.at \in Stages
    /\ p.pass \in 0..agent_max_loop_iterations /\ runs \in 0..MaxRuns

\* A pass has a result for every stage before the one it runs: _run_existing_once
\* indexes results[stage]["data"] of the stages it skips, whatever earlier runs, of
\* either strategy, cut short at any point, have left.
ReusedComplete == p.pc = "stage" => Before(p.at) \subseteq DOMAIN p.results

\* RepairLoopController lets no failure be repaired more than max_attempts times,
\* over all runs of the task and whatever crashes in between.
AttemptsBound == \A s \in Failing : h.executed[s] <= max_attempts

\* An automatic pass follows a repair that was executed in the pass before it with
\* success, never one an earlier pass or run has left in repair_apply_result.json.
ResumeAfterRepair == [][AutoResume => h.repaired]_vars

\* What AttemptsBound and ResumeAfterRepair rest on: a command is run as a repair only
\* after its attempt was counted; and at the end of a pass either verify has passed, or
\* a repair result on disk that is effective is one of this pass.
RepairInv ==
    /\ DOMAIN p = DOMAIN Idle
    /\ DOMAIN h = {"executed", "repaired", "dryRepair", "crashes", "cut"}
    /\ attempts \in [Failing -> 0..max_attempts] /\ h.executed \in [Failing -> Nat]
    /\ p.pc \in {"gate", "apply", "applied"} => p.at \in Failing
    /\ \A s \in Failing : h.executed[s] <= attempts[s]
    /\ p.pc = "apply" => DOMAIN p.loop = {"allowed", "kind", "exit", "rerun"}
    /\ p.pc = "apply" /\ p.loop.allowed => h.executed[p.at] < attempts[p.at]
    /\ p.pc = "applied" /\ p.loop.exit = "ok" => h.repaired
    /\ p.pc \in {"report", "report_saved", "pipeline", "decide"} =>
          \/ VerifyOf(IF p.pc = "decide" THEN pipeline ELSE p.results) = "passed"
          \/ applied # None /\ applied.effective => h.repaired

\* A task is called completed on a verification of the same run, or, when a failed
\* preflight has closed the pass, on one that _load_previous_results has kept.
CompletedVerified ==
    [][ctrl' # ctrl /\ ctrl'.status = "completed" =>
         \/ ctrl'.verified = runs
         \/ ctrl'.verified > 0 /\ pipeline["host_preflight"].status = "failed"]_vars

\* After a run that got to its end, the state and the result agree and are the run's,
\* and a success has a report to show: what assert_terminal_consistency asserts.
TerminalAgrees ==
    p.pc = "idle" /\ runs > 0 /\ ~h.cut =>
        /\ ctrl # None /\ ctrl.run = runs /\ status = StateOf(ctrl.status)
        /\ ctrl.status = "completed" => ctrl.verified > 0
        /\ ctrl.status \in {"completed", "completed_dry_run"} => report \/ pipeline # None

\* Violated: a dry run executes no installation (README: "Dependency installation and
\* service startup require --execute").
DryRunInstallsNothing == ~h.dryRepair

=============================================================================
