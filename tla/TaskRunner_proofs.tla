-------------------------- MODULE TaskRunner_proofs --------------------------
(* Proofs about TaskRunner: its repairs, its passes and its verdicts.      *)
EXTENDS TaskRunner, TLAPS

\* The fields of the process record.
LEMMA Fields ==
    DOMAIN Idle = {"pc", "strategy", "dry", "heal", "answered", "resumed", "pass",
                   "start", "at", "results", "loop", "verdict"}
BY DEF Idle

\* RepairInv holds before the task is created.
LEMMA RepairInit == Init => RepairInv
<1> SUFFICES ASSUME Init PROVE RepairInv
  OBVIOUS
<1>1. p.pc = "idle" BY DEF Init, Idle
<1>2. /\ DOMAIN h = {"executed", "repaired", "dryRepair", "crashes", "cut"}
      /\ h.executed = [s \in Failing |-> 0]
  BY DEF Init
<1>3. attempts \in [Failing -> 0..max_attempts] /\ h.executed \in [Failing -> Nat]
  BY <1>2, TaskAssumption DEF Init
<1>4. \A s \in Failing : h.executed[s] <= attempts[s]
  BY <1>2 DEF Init
<1> QED
  BY <1>1, <1>2, <1>3, <1>4 DEF RepairInv, Init

\* A step that leaves the repair files alone, runs no command and does not enter a
\* repair or the end of a pass preserves RepairInv.
LEMMA RepairFrame ==
    ASSUME RepairInv, DOMAIN p' = DOMAIN Idle, DOMAIN h' = DOMAIN h,
           UNCHANGED attempts, h'.executed = h.executed,
           p'.pc \notin {"gate", "apply", "applied", "report", "report_saved", "pipeline", "decide"}
    PROVE  RepairInv'
BY DEF RepairInv

\* Every step preserves RepairInv: one step per action.
LEMMA RepairStep == RepairInv /\ [Next]_vars => RepairInv'
<1> SUFFICES ASSUME RepairInv, [Next]_vars PROVE RepairInv'
  OBVIOUS
<1> USE Fields
<1>d. DOMAIN p = DOMAIN Idle BY DEF RepairInv
<1>h. DOMAIN h = {"executed", "repaired", "dryRepair", "crashes", "cut"} BY DEF RepairInv
<1>1. ASSUME NEW m \in Modes, NEW b \in BOOLEAN, deploy(m, b) \/ resume(m, b)
      PROVE  RepairInv'
  <2>1. Started(m, FALSE) \/ Started(m, b) BY Zenon, <1>1 DEF deploy, resume
  <2>2. DOMAIN p' = DOMAIN Idle /\ p'.pc = "mark" BY Zenon, <2>1 DEF Started, Idle
  <2>3. DOMAIN h' = DOMAIN h /\ h'.executed = h.executed BY <2>1, <1>h DEF Started
  <2>4. UNCHANGED attempts BY Zenon, <1>1 DEF deploy, resume, repairs
  <2> QED BY <2>2, <2>3, <2>4, RepairFrame
<1>2. CASE CloneFails
  <2>1. DOMAIN p' = DOMAIN Idle /\ p'.pc = "clone_failed" BY <1>2, <1>d DEF CloneFails
  <2> QED BY <1>2, <2>1, RepairFrame DEF CloneFails, repairs
<1>3. CASE mark_controller_running
  <2>1. DOMAIN p' = DOMAIN Idle /\ p'.pc \in {"plan_first", "pass"}
    BY <1>3, <1>d DEF mark_controller_running
  <2> QED BY <1>3, <2>1, RepairFrame DEF mark_controller_running, repairs
<1>4. CASE Crash
  <2>1. DOMAIN p' = DOMAIN Idle /\ p'.pc = "idle" BY <1>4 DEF Crash, Idle
  <2>2. DOMAIN h' = DOMAIN h /\ h'.executed = h.executed BY <1>4, <1>h DEF Crash
  <2> QED BY <1>4, <2>1, <2>2, RepairFrame DEF Crash, repairs
<1>5. CASE ControllerError
  <2>1. DOMAIN p' = DOMAIN Idle /\ p'.pc = "sync" BY <1>5, <1>d DEF ControllerError
  <2>2. DOMAIN h' = DOMAIN h /\ h'.executed = h.executed BY <1>5, <1>h DEF ControllerError
  <2> QED BY <1>5, <2>1, <2>2, RepairFrame DEF ControllerError, repairs
<1>6. CASE BeginPass
  <2>1. DOMAIN p' = DOMAIN Idle /\ p'.pc = "stage" BY <1>6, <1>d DEF BeginPass
  <2>2. DOMAIN h' = DOMAIN h /\ h'.executed = h.executed BY <1>6, <1>h DEF BeginPass
  <2> QED BY <1>6, <2>1, <2>2, RepairFrame DEF BeginPass, repairs
<1>7. ASSUME NEW st \in {"passed", "failed"}, RunStage(st) PROVE RepairInv'
  <2>1. UNCHANGED <<h, attempts, applied>> BY <1>7 DEF RunStage, repairs
  <2>2. CASE st = "failed"
    <3>1. p.at \in Failing BY <1>7, <2>2 DEF RunStage
    <3>2. DOMAIN p' = DOMAIN Idle /\ p'.pc = "gate" /\ p'.at = p.at
      BY Zenon, <1>7, <2>2, <1>d DEF RunStage
    <3> QED BY <2>1, <3>1, <3>2 DEF RepairInv
  <2>3. CASE st = "passed"
    <3>1. Advance(Put(p.results, p.at, Result(st, None)), p.at, st)
      BY <1>7, <2>3 DEF RunStage
    <3>2. DOMAIN p' = DOMAIN Idle
      BY <3>1, <1>d DEF Advance
    <3>3. p'.pc = AfterStage(p.at, st).pc /\ p'.results = Put(p.results, p.at, Result(st, None))
      BY <3>1, <1>d DEF Advance
    <3>4. CASE p.at = "verify"
      <4>1. p'.pc = "report" BY <3>3, <3>4 DEF AfterStage
      <4>2. VerifyOf(p'.results) = "passed"
        BY <3>3, <3>4, <2>3 DEF VerifyOf, Put, Result
      <4> QED BY <2>1, <3>2, <4>1, <4>2 DEF RepairInv
    <3>5. CASE p.at # "verify"
      <4>1. p'.pc = "stage" BY <3>3, <3>5, <2>3 DEF AfterStage
      <4> QED BY <2>1, <3>2, <4>1, RepairFrame
    <3> QED BY <3>4, <3>5
  <2> QED BY <2>2, <2>3
<1>8. ASSUME NEW r \in Requested, NEW a \in BOOLEAN,
             NEW k \in {"none", "command", "unsafe", "metadata"}, gate(r, a, k)
      PROVE  RepairInv'
  <2> DEFINE ok == a /\ attempts[p.at] < max_attempts
  <2>1. /\ UNCHANGED h /\ p.pc = "gate" /\ p.at \in Failing
        /\ attempts \in [Failing -> 0..max_attempts] /\ h.executed \in [Failing -> Nat]
        /\ \A s \in Failing : h.executed[s] <= attempts[s]
    BY <1>8 DEF gate, RepairInv
  <2>2. /\ DOMAIN p' = DOMAIN Idle /\ p'.pc = "apply" /\ p'.at = p.at
        /\ p'.loop = [allowed |-> ok, kind |-> IF ok THEN k ELSE "none",
                      exit |-> "none", rerun |-> _effective_rerun_from(r)]
    BY <1>8, <1>d DEF gate
  <2>3. attempts' = [attempts EXCEPT ![p.at] = IF ok THEN @ + 1 ELSE @] BY <1>8 DEF gate
  <2>4. /\ attempts' \in [Failing -> 0..max_attempts]
        /\ \A s \in Failing : attempts[s] <= attempts'[s]
        /\ ok => attempts'[p.at] = attempts[p.at] + 1
    BY <2>1, <2>3, TaskAssumption
  <2>5. \A s \in Failing : h.executed[s] <= attempts'[s] BY <2>1, <2>4
  <2>6. p'.loop.allowed = ok /\ DOMAIN p'.loop = {"allowed", "kind", "exit", "rerun"} BY <2>2
  <2>7. ok => h.executed[p.at] < attempts'[p.at] BY <2>1, <2>4
  <2> HIDE DEF ok
  <2> QED BY <1>h, <2>1, <2>2, <2>4, <2>5, <2>6, <2>7 DEF RepairInv
<1>9. ASSUME NEW x \in {"ok", "error", "none"}, ApplyRepair(x) PROVE RepairInv'
  <2> DEFINE executed == /\ p.loop.allowed /\ p.loop.kind \in {"command", "unsafe"}
                         /\ _repair_execute_enabled
  <2>1. /\ UNCHANGED attempts /\ p.pc = "apply" /\ p.at \in Failing
        /\ DOMAIN p.loop = {"allowed", "kind", "exit", "rerun"}
        /\ attempts \in [Failing -> 0..max_attempts] /\ h.executed \in [Failing -> Nat]
        /\ \A s \in Failing : h.executed[s] <= attempts[s]
    BY <1>9 DEF ApplyRepair, RepairInv
  <2>2. /\ DOMAIN p' = DOMAIN Idle /\ p'.pc = "applied" /\ p'.at = p.at /\ p'.loop.exit = x
    BY <1>9, <1>d, <2>1 DEF ApplyRepair
  <2>3. CASE executed
    <3>1. h' = [h EXCEPT !.executed[p.at] = @ + 1, !.repaired = @ \/ x = "ok",
                         !.dryRepair = @ \/ p.dry]
      BY <1>9, <2>3 DEF ApplyRepair
    <3>2. DOMAIN h' = DOMAIN h /\ h'.executed = [h.executed EXCEPT ![p.at] = @ + 1]
      BY <3>1, <1>h
    <3>3. h'.repaired = (h.repaired \/ x = "ok") BY <3>1, <1>h
    <3>4. h.executed[p.at] < attempts[p.at] BY <2>1, <2>3 DEF RepairInv
    <3>5. h'.executed \in [Failing -> Nat] BY <3>2, <2>1
    <3>6. \A s \in Failing : h'.executed[s] <= attempts[s] BY <3>2, <3>4, <2>1
    <3> QED BY Zenon, <1>h, <2>1, <2>2, <3>2, <3>3, <3>5, <3>6 DEF RepairInv
  <2>4. CASE ~executed
    <3>1. UNCHANGED h /\ x = "none" BY <1>9, <2>4 DEF ApplyRepair
    <3> QED BY <1>h, <2>1, <2>2, <3>1 DEF RepairInv
  <2> QED BY <2>3, <2>4
<1>10. CASE SaveRepair
  <2>1. /\ UNCHANGED <<h, attempts>> /\ p.pc = "applied"
        /\ applied' = [status |-> IF p.loop.allowed THEN "applied" ELSE "rejected",
                       effective |-> p.loop.exit = "ok", rerun |-> p.loop.rerun]
    BY <1>10 DEF SaveRepair
  <2>2. applied'.effective => h.repaired BY Zenon, <2>1 DEF RepairInv
  <2>3. \E res : Advance(res, p.at, "failed") BY <1>10 DEF SaveRepair
  <2>4. DOMAIN p' = DOMAIN Idle BY <2>3, <1>d DEF Advance
  <2>5. p'.pc \in {"report", "stage"} BY <2>3, <1>d DEF Advance, AfterStage
  <2> QED BY <2>1, <2>2, <2>4, <2>5 DEF RepairInv
<1>11. CASE WriteReport
  <2>1. DOMAIN p' = DOMAIN Idle /\ p'.pc = "report_saved" BY <1>11, <1>d DEF WriteReport
  <2>2. p'.results = Put(p.results, "report", Result("passed", None))
    BY <1>11, <1>d DEF WriteReport
  <2>3. VerifyOf(p'.results) = VerifyOf(p.results) BY <2>2 DEF VerifyOf, Put
  <2>4. UNCHANGED <<h, attempts, applied>> /\ p.pc = "report"
    BY <1>11 DEF WriteReport, repairs
  <2> QED BY <2>1, <2>3, <2>4 DEF RepairInv
<1>12. CASE update_stage_report
  <2>1. DOMAIN p' = DOMAIN Idle /\ p'.pc = "pipeline" /\ p'.results = p.results
    BY <1>12, <1>d DEF update_stage_report, Goto
  <2>2. UNCHANGED <<h, attempts, applied>> /\ p.pc = "report_saved"
    BY <1>12 DEF update_stage_report, repairs
  <2> QED BY <2>1, <2>2 DEF RepairInv
<1>13. CASE WritePipeline
  <2>1. DOMAIN p' = DOMAIN Idle /\ p'.pc = "decide" BY <1>13, <1>d DEF WritePipeline, Goto
  <2>2. UNCHANGED <<h, attempts, applied>> /\ p.pc = "pipeline" /\ pipeline' = p.results
    BY <1>13 DEF WritePipeline, repairs
  <2>3. VerifyOf(pipeline)' = VerifyOf(p.results) BY <2>2 DEF VerifyOf
  <2> QED BY <2>1, <2>2, <2>3 DEF RepairInv
<1>14. CASE AutoResume
  <2>1. DOMAIN p' = DOMAIN Idle /\ p'.pc = "pass" BY <1>14, <1>d DEF AutoResume
  <2> QED BY <1>14, <2>1, RepairFrame DEF AutoResume, repairs
<1>15. CASE LastPass
  <2>1. DOMAIN p' = DOMAIN Idle /\ p'.pc = "adapt" BY <1>15, <1>d DEF LastPass, Goto
  <2> QED BY <1>15, <2>1, RepairFrame DEF LastPass, repairs
<1>16. CASE _legacy_command_approval
  <2>1. DOMAIN p' = DOMAIN Idle /\ p'.pc = "sync" BY <1>16, <1>d DEF _legacy_command_approval
  <2> QED BY <1>16, <2>1, RepairFrame DEF _legacy_command_approval, repairs
<1>17. ASSUME NEW o, PlanStops(o) PROVE RepairInv'
  <2>1. DOMAIN p' = DOMAIN Idle /\ p'.pc = "adapt" BY <1>17, <1>d DEF PlanStops, Goto
  <2> QED BY <1>17, <2>1, RepairFrame DEF PlanStops, repairs
<1>18. ASSUME NEW first, NEW last, NEW st, PlanRuns(first, last, st) PROVE RepairInv'
  <2>1. DOMAIN p' = DOMAIN Idle /\ p'.pc = "plan_result" BY <1>18, <1>d DEF PlanRuns, Goto
  <2>2. UNCHANGED <<h, attempts>> BY <1>18 DEF PlanRuns, repairs
  <2> QED BY <2>1, <2>2, RepairFrame
<1>19. CASE PlanResult
  <2>1. DOMAIN p' = DOMAIN Idle /\ p'.pc = "adapt" BY <1>19, <1>d DEF PlanResult, Goto
  <2> QED BY <1>19, <2>1, RepairFrame DEF PlanResult, repairs
<1>20. CASE _result_adapter
  <2>1. DOMAIN p' = DOMAIN Idle /\ p'.pc = "sync" BY <1>20, <1>d DEF _result_adapter
  <2> QED BY <1>20, <2>1, RepairFrame DEF _result_adapter, repairs
<1>21. CASE sync_controller_state
  <2>1. DOMAIN p' = DOMAIN Idle /\ p'.pc \in {"result", "idle"}
    BY <1>21, <1>d DEF sync_controller_state, Idle
  <2> QED BY <1>21, <2>1, RepairFrame DEF sync_controller_state, repairs
<1>22. CASE _persist_controller_result
  <2>1. DOMAIN p' = DOMAIN Idle /\ p'.pc = "idle" BY <1>22 DEF _persist_controller_result, Idle
  <2> QED BY <1>22, <2>1, RepairFrame DEF _persist_controller_result, repairs
<1>23. CASE UNCHANGED vars
  BY <1>23 DEF RepairInv, VerifyOf, vars, disk, repairs
<1> QED
  BY <1>1, <1>2, <1>3, <1>4, <1>5, <1>6, <1>7, <1>8, <1>9, <1>10, <1>11, <1>12, <1>13,
     <1>14, <1>15, <1>16, <1>17, <1>18, <1>19, <1>20, <1>21, <1>22, <1>23 DEF Next

\* The repair bookkeeping of RepairLoopController and _remember, in every reachable
\* state, for every set of failing stages, every mode and every number of crashes.
THEOREM RepairInvariant == Spec => []RepairInv
<1>1. Init => RepairInv BY RepairInit
<1>2. RepairInv /\ [Next]_vars => RepairInv' BY RepairStep
<1> QED BY <1>1, <1>2, PTL DEF Spec

\* No stage's failure is repaired by more than max_attempts commands, over all runs,
\* resumes and crashes of a task.
THEOREM AttemptsAreBounded == Spec => []AttemptsBound
<1>1. RepairInv => AttemptsBound
  <2> SUFFICES ASSUME RepairInv, NEW s \in Failing PROVE h.executed[s] <= max_attempts
    BY DEF AttemptsBound
  <2>1. attempts[s] \in 0..max_attempts /\ h.executed[s] \in Nat /\ h.executed[s] <= attempts[s]
    BY DEF RepairInv
  <2> QED BY <2>1, TaskAssumption
<1> QED BY <1>1, RepairInvariant, PTL

\* An automatic pass follows a repair executed with success in the pass before it.
THEOREM AutoResumeIsEarned == Spec => ResumeAfterRepair
<1>1. RepairInv /\ [Next]_vars => [AutoResume => h.repaired]_vars
  <2> SUFFICES ASSUME RepairInv, AutoResume PROVE h.repaired
    OBVIOUS
  <2>1. p.pc = "decide" /\ ShouldResume BY DEF AutoResume
  <2>2. VerifyOf(pipeline) # "passed" /\ applied # None /\ applied.effective
    BY <2>1 DEF ShouldResume
  <2> QED BY <2>1, <2>2 DEF RepairInv
<1> QED BY <1>1, RepairInvariant, PTL DEF Spec, ResumeAfterRepair
-----------------------------------------------------------------------------
(* The passes                                                              *)

\* A pass that is running stages has a result for each stage before its own.
PassInv ==
    p.pc \in {"stage", "gate", "apply", "applied"} =>
        p.at \in RERUN_STAGES /\ Before(p.at) \subseteq DOMAIN p.results

\* The places of the stages in the pipeline.
LEMMA Places ==
    /\ At("analyze") = 1 /\ At("resource_plan") = 2 /\ At("host_preflight") = 3
    /\ At("env_solve") = 4 /\ At("env_deploy") = 5 /\ At("model_prepare") = 6
    /\ At("runner") = 7 /\ At("verify") = 8 /\ At("report") = 9
<1>1. DOMAIN PIPELINE_STAGES = 1..9 BY DEF PIPELINE_STAGES
<1>2. At("analyze") = 1 BY <1>1 DEF At, PIPELINE_STAGES
<1>3. At("resource_plan") = 2 BY <1>1 DEF At, PIPELINE_STAGES
<1>4. At("host_preflight") = 3 BY <1>1 DEF At, PIPELINE_STAGES
<1>5. At("env_solve") = 4 BY <1>1 DEF At, PIPELINE_STAGES
<1>6. At("env_deploy") = 5 BY <1>1 DEF At, PIPELINE_STAGES
<1>7. At("model_prepare") = 6 BY <1>1 DEF At, PIPELINE_STAGES
<1>8. At("runner") = 7 BY <1>1 DEF At, PIPELINE_STAGES
<1>9. At("verify") = 8 BY <1>1 DEF At, PIPELINE_STAGES
<1>10. At("report") = 9 BY <1>1 DEF At, PIPELINE_STAGES
<1> QED BY <1>2, <1>3, <1>4, <1>5, <1>6, <1>7, <1>8, <1>9, <1>10

\* The stages are the members of the pipeline.
LEMMA StageSet ==
    Stages = {"analyze", "resource_plan", "host_preflight", "env_solve", "env_deploy",
              "model_prepare", "runner", "verify", "report"}
<1>1. DOMAIN PIPELINE_STAGES = 1..9 BY DEF PIPELINE_STAGES
<1> QED BY <1>1 DEF Stages, PIPELINE_STAGES

\* Nothing comes before the first stage, and a stage adds itself to what comes
\* before the next one.
LEMMA NextStage ==
    /\ Before("analyze") = {}
    /\ \A s \in RERUN_STAGES \ {"verify"} :
         /\ PIPELINE_STAGES[At(s) + 1] \in RERUN_STAGES
         /\ Before(PIPELINE_STAGES[At(s) + 1]) \subseteq Before(s) \cup {s}
<1>1. Before("analyze") = {} BY Places, StageSet DEF Before
<1>2. ASSUME NEW s \in RERUN_STAGES, s # "verify"
      PROVE  /\ PIPELINE_STAGES[At(s) + 1] \in RERUN_STAGES
             /\ At(PIPELINE_STAGES[At(s) + 1]) = At(s) + 1
  BY <1>2, Places, StageSet DEF RERUN_STAGES, PIPELINE_STAGES
<1>3. ASSUME NEW s \in RERUN_STAGES, NEW t \in RERUN_STAGES, At(t) = At(s) + 1
      PROVE  Before(t) \subseteq Before(s) \cup {s}
  <2> SUFFICES ASSUME NEW x \in Stages, At(x) < At(s) + 1, x # s PROVE At(x) < At(s)
    BY <1>3 DEF Before
  <2> QED BY Places, StageSet DEF RERUN_STAGES
<1> QED BY <1>1, <1>2, <1>3
\* A result put at a stage keeps the other stages.
LEMMA PutDomain == ASSUME NEW f, NEW s, NEW v PROVE DOMAIN Put(f, s, v) = DOMAIN f \cup {s}
BY DEF Put

\* After a stage of a pass the pass is over, or has what the next stage needs.
LEMMA AdvancePass ==
    ASSUME DOMAIN p = DOMAIN Idle, p.at \in RERUN_STAGES, Before(p.at) \subseteq DOMAIN p.results,
           NEW v, NEW st, Advance(Put(p.results, p.at, v), p.at, st)
    PROVE  PassInv'
<1>1. /\ p'.pc = AfterStage(p.at, st).pc /\ p'.at = AfterStage(p.at, st).at
      /\ DOMAIN p'.results = DOMAIN p.results \cup {p.at}
  BY ZenonT(30), Fields, PutDomain DEF Advance
<1>2. CASE p'.pc = "report" BY <1>2 DEF PassInv
<1>3. CASE p'.pc # "report"
  <2>1. p.at # "verify" /\ p'.at = PIPELINE_STAGES[At(p.at) + 1]
    BY <1>1, <1>3 DEF AfterStage
  <2>2. p'.at \in RERUN_STAGES /\ Before(p'.at) \subseteq Before(p.at) \cup {p.at}
    BY <2>1, NextStage
  <2> QED BY <1>1, <2>2 DEF PassInv
<1> QED BY <1>2, <1>3

\* Every step preserves PassInv.
LEMMA PassStep == RepairInv /\ PassInv /\ [Next]_vars => PassInv'
<1> SUFFICES ASSUME RepairInv, PassInv, [Next]_vars PROVE PassInv'
  OBVIOUS
<1> USE Fields
<1>d. DOMAIN p = DOMAIN Idle BY DEF RepairInv
<1>1. CASE p'.pc \notin {"stage", "gate", "apply", "applied"} BY <1>1 DEF PassInv
<1>2. CASE BeginPass
  <2> DEFINE start == _normalize_start_stage(p.start)
  <2>1. /\ p'.at = start
        /\ p'.results = IF start = "analyze" THEN NoResults ELSE _load_previous_results
    BY <1>2, <1>d DEF BeginPass
  <2>2. /\ start \in RERUN_STAGES
        /\ start # "analyze" => Before(start) \subseteq DOMAIN _load_previous_results
    BY StageSet DEF _normalize_start_stage, RERUN_STAGES
  <2> HIDE DEF start
  <2> QED BY <2>1, <2>2, NextStage DEF PassInv
<1>3. ASSUME NEW st \in {"passed", "failed"}, RunStage(st) PROVE PassInv'
  <2>1. p.at \in RERUN_STAGES /\ Before(p.at) \subseteq DOMAIN p.results
    BY <1>3 DEF RunStage, PassInv
  <2>2. CASE st = "passed"
    <3>1. Advance(Put(p.results, p.at, Result(st, None)), p.at, st) BY <1>3, <2>2 DEF RunStage
    <3> QED BY <1>d, <2>1, <3>1, AdvancePass
  <2>3. CASE st = "failed"
    <3>1. p'.at = p.at /\ p'.results = Put(p.results, p.at, Result(st, None))
      BY Zenon, <1>3, <2>3, <1>d DEF RunStage
    <3>2. DOMAIN p'.results = DOMAIN p.results \cup {p.at} BY <3>1 DEF Put
    <3> QED BY <2>1, <3>1, <3>2 DEF PassInv
  <2> QED BY <2>2, <2>3
<1>4. CASE \/ \E r, a, k : gate(r, a, k)
           \/ \E x : ApplyRepair(x)
  <2>1. p.pc \in {"gate", "apply"} /\ p'.at = p.at /\ p'.results = p.results
    BY ZenonT(30), <1>4, <1>d DEF gate, ApplyRepair
  <2> QED BY <2>1 DEF PassInv
<1>5. CASE SaveRepair
  <2>1. p.at \in RERUN_STAGES /\ Before(p.at) \subseteq DOMAIN p.results
    BY <1>5 DEF SaveRepair, PassInv
  <2>2. \E v : Advance(Put(p.results, p.at, v), p.at, "failed") BY <1>5 DEF SaveRepair
  <2> QED BY <1>d, <2>1, <2>2, AdvancePass
<1>6. CASE UNCHANGED vars BY <1>6 DEF PassInv, vars
<1>7. CASE \E m \in Modes, b \in BOOLEAN : deploy(m, b) \/ resume(m, b)
  <2>1. p'.pc = "mark" BY ZenonT(30), <1>7 DEF deploy, resume, Started, Idle
  <2> QED BY <1>1, <2>1
<1>8. CASE CloneFails \/ mark_controller_running \/ Crash \/ ControllerError
  <2>1. CASE CloneFails
    <3>1. p'.pc = "clone_failed" BY <2>1, <1>d DEF CloneFails
    <3> QED BY <1>1, <3>1
  <2>2. CASE mark_controller_running
    <3>1. p'.pc \in {"plan_first", "pass"} BY <2>2, <1>d DEF mark_controller_running
    <3> QED BY <1>1, <3>1
  <2>3. CASE Crash
    <3>1. p'.pc = "idle" BY <2>3 DEF Crash, Idle
    <3> QED BY <1>1, <3>1
  <2>4. CASE ControllerError
    <3>1. p'.pc = "sync" BY <2>4, <1>d DEF ControllerError
    <3> QED BY <1>1, <3>1
  <2> QED BY <1>8, <2>1, <2>2, <2>3, <2>4
<1>9. CASE WriteReport \/ update_stage_report \/ WritePipeline \/ AutoResume \/ LastPass
  <2>1. p'.pc \in {"report_saved", "pipeline", "decide", "pass", "adapt"}
    BY Zenon, <1>9, <1>d DEF WriteReport, update_stage_report, WritePipeline, AutoResume, LastPass, Goto
  <2> QED BY <1>1, <2>1
<1>10. CASE \/ _legacy_command_approval \/ \E o : PlanStops(o)
            \/ \E first, last, st : PlanRuns(first, last, st)
  <2>1. p'.pc \in {"sync", "adapt", "plan_result"}
    BY Zenon, <1>10, <1>d DEF _legacy_command_approval, PlanStops, PlanRuns, Goto
  <2> QED BY <1>1, <2>1
<1>11. CASE PlanResult \/ _result_adapter \/ sync_controller_state \/ _persist_controller_result
  <2>1. CASE PlanResult \/ _result_adapter
    <3>1. p'.pc \in {"adapt", "sync"} BY Zenon, <2>1, <1>d DEF PlanResult, _result_adapter, Goto
    <3> QED BY <1>1, <3>1
  <2>2. CASE sync_controller_state
    <3>1. p'.pc \in {"result", "idle"} BY <2>2, <1>d DEF sync_controller_state, Idle
    <3> QED BY <1>1, <3>1
  <2>3. CASE _persist_controller_result
    <3>1. p'.pc = "idle" BY <2>3 DEF _persist_controller_result, Idle
    <3> QED BY <1>1, <3>1
  <2> QED BY <1>11, <2>1, <2>2, <2>3
<1> QED
  BY <1>2, <1>3, <1>4, <1>5, <1>6, <1>7, <1>8, <1>9, <1>10, <1>11 DEF Next

\* _run_existing_once never indexes a result that is not there: whatever earlier
\* passes and runs, of either strategy, cut short anywhere, have left in the task
\* directory, a pass has a result for every stage it skips.
THEOREM ReusedResultsExist == Spec => []ReusedComplete
<1>1. Init => PassInv BY DEF Init, Idle, PassInv
<1>2. RepairInv /\ PassInv /\ [Next]_vars => PassInv' BY PassStep
<1>3. PassInv => ReusedComplete BY DEF PassInv, ReusedComplete
<1> QED BY <1>1, <1>2, <1>3, RepairInvariant, PTL DEF Spec
-----------------------------------------------------------------------------
(* The verdict                                                             *)

\* Every result is of a run of the task.
Dated(f) == \A s \in DOMAIN f : f[s].run \in Nat \ {0}

\* A verification that passed is of run n, unless a failed preflight has closed the
\* pass that kept it.
Backed(f, n) ==
    "verify" \in DOMAIN f /\ f["verify"].status = "passed" =>
        \/ f["verify"].run = n
        \/ "host_preflight" \in DOMAIN f /\ f["host_preflight"].status = "failed"

\* The verdict of run n on the pipeline results f, with or without a report.
Sound(verdict, n, f, reported) ==
    /\ verdict.status \in Verdicts /\ verdict.verified \in Nat
    /\ verdict.status = "completed" =>
          verdict.verified > 0 /\ (verdict.verified = n \/ f["host_preflight"].status = "failed")
    /\ verdict.status \in {"completed", "completed_dry_run"} => reported \/ f # None

\* From the end of a pass to the end of the run: what the verdict is computed from is
\* backed by a verification, and the state, the verdict and the result follow it.
EndInv ==
    /\ runs \in Nat /\ (p.pc # "idle" => runs > 0)
    /\ Dated(files) /\ Dated(p.results) /\ (pipeline # None => Dated(pipeline))
    /\ p.pc \in {"report", "report_saved", "pipeline"} => Backed(p.results, runs)
    /\ p.pc \in {"report_saved", "pipeline", "decide"} => report
    /\ p.pc = "plan_result" => pipeline # None
    /\ p.pc \in {"decide", "plan_result"} => Backed(pipeline, runs)
    /\ p.pc = "adapt" => \/ planFirst \in {"plan_not_ok", "policy_rejected", "approval_required"}
                         \/ Backed(pipeline, runs) /\ (report \/ pipeline # None)
    /\ p.pc \in {"sync", "result"} => Sound(p.verdict, runs, pipeline, report)
    /\ p.pc = "result" => status = StateOf(p.verdict.status)
    /\ p.pc = "clone_failed" => /\ p.verdict.status = "failed"
                                /\ ctrl = [status |-> "failed", run |-> runs, verified |-> 0]
    /\ TerminalAgrees
\* A result of this run joins dated results.
LEMMA PutDated ==
    ASSUME NEW f, NEW s, NEW v, Dated(f), v.run \in Nat \ {0}
    PROVE  Dated(Put(f, s, v))
BY DEF Dated, Put

\* A result of another stage leaves the verification and the preflight backed.
LEMMA PutBacked ==
    ASSUME NEW f, NEW n, NEW v, Backed(f, n)
    PROVE  Backed(Put(f, "report", v), n)
BY DEF Backed, Put

\* What a stage of this run leaves when it ends the pass is backed.
LEMMA StageBacked ==
    ASSUME NEW f, NEW s, NEW v, NEW n, v.run = n,
           s = "verify" \/ (s = "host_preflight" /\ v.status = "failed")
    PROVE  Backed(Put(f, s, v), n)
BY DEF Backed, Put

\* A step within a run, before the end of its pass.
LEMMA EndQuiet ==
    ASSUME EndInv, runs' \in Nat, runs' > 0, Dated(files'), Dated(p'.results), pipeline' = pipeline,
           p'.pc \in {"mark", "plan_first", "pass", "stage", "gate", "apply", "applied"}
    PROVE  EndInv'
<1>1. TerminalAgrees' BY DEF TerminalAgrees
<1>2. pipeline' # None => Dated(pipeline') BY DEF EndInv
<1> QED BY <1>1, <1>2 DEF EndInv

\* A verdict of failure is sound of any run.
LEMMA FailureIsSound ==
    ASSUME NEW v, NEW n, NEW f, NEW rep, v = [status |-> "failed", verified |-> 0]
    PROVE  Sound(v, n, f, rep)
BY DEF Sound, Verdicts

\* The controller gives up: its verdict is a failure.
LEMMA EndFails ==
    ASSUME EndInv, DOMAIN p = DOMAIN Idle, p.pc # "idle", UNCHANGED <<disk, runs>>,
           p' = [p EXCEPT !.pc = "sync", !.verdict = [status |-> "failed", verified |-> 0]]
    PROVE  EndInv'
<1>1. /\ p'.pc = "sync" /\ p'.results = p.results
      /\ p'.verdict = [status |-> "failed", verified |-> 0]
  BY Fields
<1>2. Sound(p'.verdict, runs', pipeline', report') BY <1>1, FailureIsSound
<1>3. TerminalAgrees' BY <1>1 DEF TerminalAgrees
<1>4. /\ runs' \in Nat /\ runs' > 0 /\ Dated(files') /\ Dated(p'.results)
      /\ pipeline' # None => Dated(pipeline')
  BY <1>1 DEF EndInv, disk
<1> QED BY <1>1, <1>2, <1>3, <1>4 DEF EndInv

\* A stage has run: its result is of this run, and the pass goes on or is backed.
LEMMA EndAdvance ==
    ASSUME EndInv, DOMAIN p = DOMAIN Idle, p.pc # "idle", UNCHANGED <<runs, pipeline>>,
           NEW v, v.run = runs, files' = Put(files, p.at, v),
           Advance(Put(p.results, p.at, v), p.at, v.status)
    PROVE  EndInv'
<1>1. /\ p'.pc = AfterStage(p.at, v.status).pc /\ p'.results = Put(p.results, p.at, v)
  BY Fields DEF Advance
<1>2. runs \in Nat /\ runs > 0 /\ Dated(files) /\ Dated(p.results) BY DEF EndInv
<1>3. v.run \in Nat \ {0} BY <1>2
<1>4. Dated(files') BY <1>2, <1>3, PutDated
<1>5. Dated(p'.results) BY <1>1, <1>2, <1>3, PutDated
<1>6. CASE p'.pc = "stage" BY <1>2, <1>4, <1>5, <1>6, EndQuiet
<1>7. CASE p'.pc # "stage"
  <2>1. /\ p'.pc = "report"
        /\ p.at = "verify" \/ (p.at = "host_preflight" /\ v.status = "failed")
    BY <1>1, <1>7 DEF AfterStage
  <2>2. Backed(p'.results, runs') BY <1>1, <2>1, StageBacked
  <2>3. TerminalAgrees' BY <2>1 DEF TerminalAgrees
  <2>4. pipeline' # None => Dated(pipeline') BY DEF EndInv
  <2> QED BY <1>2, <1>4, <1>5, <2>1, <2>2, <2>3, <2>4 DEF EndInv
<1> QED BY <1>6, <1>7
\* Every step preserves EndInv: one step per action.
LEMMA EndStep == RepairInv /\ EndInv /\ [Next]_vars => EndInv'
<1> SUFFICES ASSUME RepairInv, EndInv, [Next]_vars PROVE EndInv'
  OBVIOUS
<1> USE Fields
<1>d. DOMAIN p = DOMAIN Idle BY DEF RepairInv
<1>n. Dated(NoResults) BY DEF Dated, NoResults
<1>r. /\ runs \in Nat /\ (p.pc # "idle" => runs > 0) /\ Dated(files) /\ Dated(p.results)
      /\ pipeline # None => Dated(pipeline)
  BY DEF EndInv
<1>i. Idle.pc = "idle" /\ Idle.results = NoResults BY DEF Idle
<1>1. ASSUME NEW m \in Modes, NEW b \in BOOLEAN, deploy(m, b) \/ resume(m, b)
      PROVE  EndInv'
  <2>1. Started(m, FALSE) \/ Started(m, b) BY Zenon, <1>1 DEF deploy, resume
  <2>2. p'.pc = "mark" /\ p'.results = NoResults /\ runs' = runs + 1
    BY Zenon, <2>1 DEF Started, Idle
  <2>3. UNCHANGED <<files, pipeline>> BY Zenon, <1>1 DEF deploy, resume, disk
  <2>4. runs' \in Nat /\ runs' > 0 BY <1>r, <2>2
  <2> QED BY <1>n, <1>r, <2>2, <2>3, <2>4, EndQuiet
<1>2. CASE CloneFails
  <2>1. /\ p'.pc = "clone_failed" /\ p'.results = p.results /\ p'.verdict.status = "failed"
        /\ p.pc # "idle"
    BY <1>2, <1>d DEF CloneFails
  <2>2. UNCHANGED <<files, pipeline, runs>> /\ ctrl' = [status |-> "failed", run |-> runs, verified |-> 0]
    BY <1>2 DEF CloneFails
  <2>3. TerminalAgrees' BY <2>1 DEF TerminalAgrees
  <2> QED BY <1>r, <2>1, <2>2, <2>3 DEF EndInv
<1>3. CASE mark_controller_running
  <2>1. p'.pc \in {"plan_first", "pass"} /\ p'.results = p.results /\ p.pc # "idle"
    BY <1>3, <1>d DEF mark_controller_running
  <2>2. UNCHANGED <<files, pipeline, runs>> BY <1>3 DEF mark_controller_running
  <2> QED BY <1>r, <2>1, <2>2, EndQuiet
<1>4. CASE Crash
  <2>1. p' = Idle /\ UNCHANGED <<files, pipeline, runs>> BY <1>4 DEF Crash, disk
  <2>2. h'.cut BY <1>4 DEF Crash, RepairInv
  <2>3. TerminalAgrees' BY <2>2 DEF TerminalAgrees
  <2> QED BY <1>i, <1>n, <1>r, <2>1, <2>3 DEF EndInv
<1>5. CASE ControllerError
  <2>1. p.pc # "idle" /\ UNCHANGED <<disk, runs>> BY <1>5 DEF ControllerError
  <2>2. p' = [p EXCEPT !.pc = "sync", !.verdict = [status |-> "failed", verified |-> 0]]
    BY <1>5 DEF ControllerError
  <2> QED BY <1>d, <2>1, <2>2, EndFails
<1>6. CASE BeginPass
  <2>1. /\ p'.pc = "stage" /\ p.pc # "idle"
        /\ p'.results = NoResults \/ p'.results = _load_previous_results
    BY <1>6, <1>d DEF BeginPass
  <2>2. UNCHANGED <<files, pipeline, runs>> BY <1>6 DEF BeginPass, disk
  <2>3. Dated(_load_previous_results) BY <1>r DEF _load_previous_results
  <2>4. Dated(p'.results) BY <1>n, <2>1, <2>3
  <2> QED BY <1>r, <2>1, <2>2, <2>4, EndQuiet
<1>7. ASSUME NEW st \in {"passed", "failed"}, RunStage(st) PROVE EndInv'
  <2> DEFINE v == Result(st, None)
  <2>1. v.run = runs /\ v.status = st BY DEF Result
  <2>2. p.pc # "idle" /\ UNCHANGED <<runs, pipeline>> /\ files' = Put(files, p.at, v)
    BY <1>7 DEF RunStage
  <2>3. /\ st = "passed" => Advance(Put(p.results, p.at, v), p.at, st)
        /\ st = "failed" => p' = [p EXCEPT !.pc = "gate", !.results = Put(p.results, p.at, v)]
    BY <1>7 DEF RunStage
  <2> HIDE DEF v
  <2>4. CASE st = "passed" BY <1>d, <2>1, <2>2, <2>3, <2>4, EndAdvance
  <2>5. CASE st = "failed"
    <3>1. p'.pc = "gate" /\ p'.results = Put(p.results, p.at, v) BY Zenon, <1>d, <2>3, <2>5
    <3>2. v.run \in Nat \ {0} BY <1>r, <2>1, <2>2
    <3>3. Dated(files') BY <1>r, <2>2, <3>2, PutDated
    <3>4. Dated(p'.results) BY <1>r, <3>1, <3>2, PutDated
    <3> QED BY <1>r, <2>2, <3>1, <3>3, <3>4, EndQuiet
  <2> QED BY <2>4, <2>5
<1>8. CASE (\E r, a, k : gate(r, a, k)) \/ (\E x : ApplyRepair(x))
  <2>1. /\ p.pc \in {"gate", "apply"} /\ p'.pc \in {"apply", "applied"}
        /\ p'.results = p.results
    BY ZenonT(30), <1>8, <1>d DEF gate, ApplyRepair
  <2>2. UNCHANGED <<files, pipeline, runs>> BY Zenon, <1>8 DEF gate, ApplyRepair, disk
  <2> QED BY <1>r, <2>1, <2>2, EndQuiet
<1>9. CASE SaveRepair
  <2>1. PICK q : /\ files' = Put(files, p.at, Result("failed", q))
                 /\ Advance(Put(p.results, p.at, Result("failed", q)), p.at, "failed")
    BY <1>9 DEF SaveRepair
  <2>2. Result("failed", q).run = runs /\ Result("failed", q).status = "failed" BY DEF Result
  <2>3. p.pc # "idle" /\ UNCHANGED <<runs, pipeline>> BY <1>9 DEF SaveRepair
  <2> QED BY <1>d, <2>1, <2>2, <2>3, EndAdvance
<1>10. CASE WriteReport
  <2> DEFINE v == Result("passed", None)
  <2>1. /\ p.pc = "report" /\ p'.pc = "report_saved" /\ p'.results = Put(p.results, "report", v)
    BY <1>10, <1>d DEF WriteReport
  <2>2. report' /\ UNCHANGED <<runs, pipeline>> /\ files' = Put(files, "report", v)
    BY <1>10 DEF WriteReport
  <2>3. v.run \in Nat \ {0} BY <1>r, <2>1 DEF Result
  <2> HIDE DEF v
  <2>4. Dated(files') BY <1>r, <2>2, <2>3, PutDated
  <2>5. Dated(p'.results) BY <1>r, <2>1, <2>3, PutDated
  <2>6. Backed(p.results, runs) BY <2>1 DEF EndInv
  <2>7. Backed(p'.results, runs') BY <2>1, <2>2, <2>6, PutBacked
  <2>8. TerminalAgrees' BY <2>1 DEF TerminalAgrees
  <2> QED BY <1>r, <2>1, <2>2, <2>4, <2>5, <2>7, <2>8 DEF EndInv
<1>11. CASE update_stage_report
  <2>1. p.pc = "report_saved" /\ p'.pc = "pipeline" /\ p'.results = p.results
    BY <1>11, <1>d DEF update_stage_report, Goto
  <2>2. UNCHANGED <<runs, pipeline, files, report>> BY <1>11 DEF update_stage_report
  <2>3. TerminalAgrees' BY <2>1 DEF TerminalAgrees
  <2> QED BY <1>r, <2>1, <2>2, <2>3 DEF EndInv
<1>12. CASE WritePipeline
  <2>1. p.pc = "pipeline" /\ p'.pc = "decide" /\ p'.results = p.results /\ pipeline' = p.results
    BY <1>12, <1>d DEF WritePipeline, Goto
  <2>2. UNCHANGED <<runs, files, report>> BY <1>12 DEF WritePipeline
  <2>3. TerminalAgrees' BY <2>1 DEF TerminalAgrees
  <2>4. Backed(pipeline', runs') /\ Dated(pipeline') BY <1>r, <2>1, <2>2 DEF EndInv
  <2> QED BY <1>r, <2>1, <2>2, <2>3, <2>4 DEF EndInv
<1>13. CASE AutoResume
  <2>1. p.pc = "decide" /\ p'.pc = "pass" /\ p'.results = p.results BY <1>13, <1>d DEF AutoResume
  <2>2. UNCHANGED <<runs, files, pipeline>> BY <1>13 DEF AutoResume, disk
  <2> QED BY <1>r, <2>1, <2>2, EndQuiet
<1>14. CASE LastPass
  <2>1. p.pc = "decide" /\ p'.pc = "adapt" /\ p'.results = p.results
    BY <1>14, <1>d DEF LastPass, Goto
  <2>2. UNCHANGED <<runs, files, pipeline, report>> BY <1>14 DEF LastPass, disk
  <2>3. TerminalAgrees' BY <2>1 DEF TerminalAgrees
  <2>4. Backed(pipeline', runs') /\ report' BY <2>1, <2>2 DEF EndInv
  <2> QED BY <1>r, <2>1, <2>2, <2>3, <2>4 DEF EndInv
<1>15. CASE _legacy_command_approval
  <2>1. p.pc # "idle" /\ UNCHANGED <<disk, runs>> BY <1>15 DEF _legacy_command_approval
  <2>2. p' = [p EXCEPT !.pc = "sync", !.verdict = [status |-> "failed", verified |-> 0]]
    BY <1>15 DEF _legacy_command_approval
  <2> QED BY <1>d, <2>1, <2>2, EndFails
<1>16. ASSUME NEW o \in {"plan_not_ok", "policy_rejected", "approval_required"}, PlanStops(o)
       PROVE  EndInv'
  <2>1. p.pc # "idle" /\ p'.pc = "adapt" /\ p'.results = p.results
    BY <1>16, <1>d DEF PlanStops, Goto
  <2>2. UNCHANGED <<runs, files, pipeline>> /\ planFirst' = o BY <1>16 DEF PlanStops
  <2>3. TerminalAgrees' BY <2>1 DEF TerminalAgrees
  <2> QED BY <1>r, <2>1, <2>2, <2>3 DEF EndInv
<1>17. ASSUME NEW first, NEW last, NEW st \in {"passed", "failed"}, PlanRuns(first, last, st)
       PROVE  EndInv'
  <2> DEFINE S == {x \in EXECUTION_STAGES : At(x) \in At(first)..At(last)}
  <2>1. p.pc # "idle" /\ p'.pc = "plan_result" /\ p'.results = p.results
    BY <1>17, <1>d DEF PlanRuns, Goto
  <2>2. /\ UNCHANGED <<runs, files>>
        /\ pipeline' = [s \in S |-> Result(IF s = last THEN st ELSE "passed", None)]
    BY <1>17 DEF PlanRuns
  <2>3. runs \in Nat /\ runs > 0 BY <1>r, <2>1
  <2>4. S \subseteq Stages BY DEF EXECUTION_STAGES, RERUN_STAGES
  <2> HIDE DEF S
  <2>5. \A s \in S : pipeline'[s].run = runs BY <2>2 DEF Result
  <2>6. DOMAIN pipeline' = S BY <2>2
  <2>7. Dated(pipeline') BY <2>3, <2>5, <2>6 DEF Dated
  <2>8. Backed(pipeline', runs') BY <2>2, <2>5, <2>6 DEF Backed
  <2>9. pipeline' \in [S -> [status : {"passed", "failed"}, run : Nat, request : {None}]]
    <3>1. \A s \in S : Result(IF s = last THEN st ELSE "passed", None)
                         \in [status : {"passed", "failed"}, run : Nat, request : {None}]
      BY <2>3 DEF Result
    <3> QED BY <2>2, <3>1
  <2>10. pipeline' # None BY <2>4, <2>9, NoneAssumption
  <2>11. TerminalAgrees' BY <2>1 DEF TerminalAgrees
  <2> QED BY <1>r, <2>1, <2>2, <2>7, <2>8, <2>10, <2>11 DEF EndInv
<1>18. CASE PlanResult
  <2>1. p.pc = "plan_result" /\ p'.pc = "adapt" /\ p'.results = p.results
    BY <1>18, <1>d DEF PlanResult, Goto
  <2>2. UNCHANGED <<runs, files, pipeline>> BY <1>18 DEF PlanResult
  <2>3. TerminalAgrees' BY <2>1 DEF TerminalAgrees
  <2>4. Backed(pipeline', runs') /\ pipeline' # None BY <2>1, <2>2 DEF EndInv
  <2> QED BY <1>r, <2>1, <2>2, <2>3, <2>4 DEF EndInv
<1>19. CASE _result_adapter
  <2> DEFINE results == IF pipeline = None THEN NoResults ELSE pipeline
             verdict == [status |-> Verdict(VerifyOf(results)),
                         verified |-> IF VerifyOf(results) = "passed" THEN results["verify"].run ELSE 0]
  <2>1. /\ p.pc = "adapt" /\ p'.pc = "sync" /\ p'.results = p.results /\ p'.verdict = verdict
    BY <1>19, <1>d DEF _result_adapter
  <2>2. UNCHANGED <<runs, files, pipeline, report>> BY <1>19 DEF _result_adapter, disk
  <2>3. Dated(results) BY <1>n, <1>r
  <2>4. VerifyOf(results) = "passed" =>
           /\ "verify" \in DOMAIN results /\ results["verify"].status = "passed"
           /\ results = pipeline
    BY DEF VerifyOf, NoResults
  <2>5. Verdict(VerifyOf(results)) \in Verdicts BY DEF Verdict, Verdicts
  <2>6. Verdict(VerifyOf(results)) = "completed" =>
           /\ VerifyOf(results) = "passed"
           /\ planFirst \notin {"plan_not_ok", "policy_rejected", "approval_required"}
    BY DEF Verdict
  <2>7. Verdict(VerifyOf(results)) = "completed_dry_run" =>
           planFirst \notin {"plan_not_ok", "policy_rejected", "approval_required"}
    BY DEF Verdict
  <2>8. \/ planFirst \in {"plan_not_ok", "policy_rejected", "approval_required"}
        \/ Backed(pipeline, runs) /\ (report \/ pipeline # None)
    BY <2>1 DEF EndInv
  <2>9. verdict.verified \in Nat /\ (VerifyOf(results) = "passed" =>
                                       verdict.verified > 0 /\ verdict.verified = pipeline["verify"].run)
    BY <2>3, <2>4 DEF Dated
  <2>10. Sound(verdict, runs, pipeline, report)
    <3>1. verdict.status = Verdict(VerifyOf(results)) OBVIOUS
    <3> HIDE DEF verdict, results
    <3> QED BY <3>1, <2>4, <2>5, <2>6, <2>7, <2>8, <2>9 DEF Sound, Backed
  <2> HIDE DEF verdict
  <2>11. TerminalAgrees' BY <2>1 DEF TerminalAgrees
  <2> QED BY <1>r, <2>1, <2>2, <2>10, <2>11 DEF EndInv
<1>20. CASE sync_controller_state
  <2>1. status' = StateOf(p.verdict.status) /\ UNCHANGED <<runs, files, pipeline, report, ctrl, h>>
    BY <1>20 DEF sync_controller_state
  <2>2. CASE p.pc = "sync"
    <3>1. p'.pc = "result" /\ p'.results = p.results /\ p'.verdict = p.verdict
      BY <1>20, <1>d, <2>2 DEF sync_controller_state
    <3>2. TerminalAgrees' BY <3>1 DEF TerminalAgrees
    <3>3. Sound(p'.verdict, runs', pipeline', report') BY <2>1, <2>2, <3>1 DEF EndInv
    <3> QED BY <1>r, <2>1, <2>2, <3>1, <3>2, <3>3 DEF EndInv
  <2>3. CASE p.pc = "clone_failed"
    <3>1. p' = Idle BY <1>20, <2>3 DEF sync_controller_state
    <3>2. /\ p.verdict.status = "failed" /\ runs > 0
          /\ ctrl = [status |-> "failed", run |-> runs, verified |-> 0]
      BY <2>3 DEF EndInv
    <3>3. ctrl # None BY <3>2, <1>r, NoneAssumption
    <3>4. TerminalAgrees' BY <2>1, <3>2, <3>3 DEF TerminalAgrees
    <3> QED BY <1>i, <1>n, <1>r, <2>1, <3>1, <3>4 DEF EndInv
  <2> QED BY <1>20, <2>2, <2>3 DEF sync_controller_state
<1>21. CASE _persist_controller_result
  <2>1. /\ p.pc = "result" /\ p' = Idle /\ UNCHANGED <<status, runs, files, pipeline, report>>
        /\ ctrl' = [status |-> p.verdict.status, run |-> runs, verified |-> p.verdict.verified]
    BY <1>21 DEF _persist_controller_result
  <2>2. Sound(p.verdict, runs, pipeline, report) /\ status = StateOf(p.verdict.status)
    BY <2>1 DEF EndInv
  <2>3. ctrl' \in [status : Verdicts, run : Nat, verified : Nat]
    BY <1>r, <2>1, <2>2 DEF Sound, Verdicts
  <2>4. ctrl' # None BY <2>3, NoneAssumption DEF Verdicts
  <2>5. TerminalAgrees' BY <2>1, <2>2, <2>4 DEF TerminalAgrees, Sound
  <2> QED BY <1>i, <1>n, <1>r, <2>1, <2>5 DEF EndInv
<1>22. CASE UNCHANGED vars BY <1>22 DEF EndInv, TerminalAgrees, vars, disk
<1> QED
  BY <1>1, <1>2, <1>3, <1>4, <1>5, <1>6, <1>7, <1>8, <1>9, <1>10, <1>11, <1>12, <1>13,
     <1>14, <1>15, <1>16, <1>17, <1>18, <1>19, <1>20, <1>21, <1>22 DEF Next

\* EndInv in every reachable state.
LEMMA EndInvariant == Spec => []EndInv
<1>1. Init => EndInv
  <2> SUFFICES ASSUME Init PROVE EndInv OBVIOUS
  <2>1. /\ p.pc = "idle" /\ p.results = NoResults /\ files = NoResults /\ pipeline = None
        /\ runs = 0
    BY DEF Init, Idle
  <2>2. Dated(NoResults) BY DEF Dated, NoResults
  <2> QED BY <2>1, <2>2 DEF EndInv, TerminalAgrees
<1>2. RepairInv /\ EndInv /\ [Next]_vars => EndInv' BY EndStep
<1> QED BY <1>1, <1>2, RepairInvariant, PTL DEF Spec

\* What assert_terminal_consistency asserts, after every run that got to its end:
\* state.json and controller_result.json agree and are of that run, a completed task
\* was verified, and a success has a report or results to show.
THEOREM TerminalStatesAgree == Spec => []TerminalAgrees
<1>1. EndInv => TerminalAgrees BY DEF EndInv
<1> QED BY <1>1, EndInvariant, PTL

\* controller_result.json says completed only on a verification of the run that
\* writes it, or on one kept by a pass that a failed preflight has closed.
THEOREM CompletedIsVerified == Spec => CompletedVerified
<1> DEFINE Claim == ctrl' # ctrl /\ ctrl'.status = "completed" =>
                      \/ ctrl'.verified = runs
                      \/ ctrl'.verified > 0 /\ pipeline["host_preflight"].status = "failed"
<1>1. EndInv /\ [Next]_vars => [Claim]_vars
  <2> SUFFICES ASSUME EndInv, Next, ctrl' # ctrl, ctrl'.status = "completed"
               PROVE  \/ ctrl'.verified = runs
                      \/ ctrl'.verified > 0 /\ pipeline["host_preflight"].status = "failed"
    OBVIOUS
  <2>1. ~CloneFails BY SMTT(30) DEF CloneFails
  <2>2. _persist_controller_result
    BY Zenon, <2>1 DEF Next, deploy, resume, mark_controller_running, Crash, ControllerError, BeginPass,
       RunStage, gate, ApplyRepair, SaveRepair, WriteReport, update_stage_report, WritePipeline,
       AutoResume, LastPass, _legacy_command_approval, PlanStops, PlanRuns, PlanResult,
       _result_adapter, sync_controller_state, disk
  <2>3. /\ p.pc = "result"
        /\ ctrl' = [status |-> p.verdict.status, run |-> runs, verified |-> p.verdict.verified]
    BY <2>2 DEF _persist_controller_result
  <2>4. Sound(p.verdict, runs, pipeline, report) BY <2>3 DEF EndInv
  <2> QED BY <2>3, <2>4 DEF Sound
<1> QED BY <1>1, EndInvariant, PTL DEF Spec, CompletedVerified
=============================================================================
