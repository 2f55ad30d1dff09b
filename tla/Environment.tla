---------------------------- MODULE Environment ----------------------------
(***************************************************************************)
(* The stages host_preflight, env_solve and env_deploy of one task, as the *)
(* pipeline runs them: a first run, then resumes from one of the stages,   *)
(* with the results saved by the earlier runs.  A run may die anywhere.    *)
(* What survives it is the target prefix with its ownership marker, the    *)
(* operation journal of the run directory and the saved results.           *)
(*                                                                         *)
(* The task's operation is identified by the action and the specification  *)
(* (_build_environment_operation), which is the same in all runs, so the   *)
(* journal has a record for each action.  The pipeline prepares and closes *)
(* it itself (operation_prepared is False).  preflight_enabled and         *)
(* preflight_fail_closed have their default, True.                         *)
(***************************************************************************)
EXTENDS CondaPlan, OperationStatus

CONSTANTS Sites,      \* [repo, host, config]
          FirstPrefixes, \* what may be at the target prefix at first
          MaxJobs     \* bound on the runs of the task

VARIABLES site,       \* the repository, the host and the configuration
          fixed,      \* a repair has added a package to the install plan
          prefix,     \* the target prefix: made, pkgs, marker
          record,     \* the status of the operation of each action
          attempts,   \* the number of times it was begun
          disk,       \* the saved results: of the stages, and of the last
                      \* pipeline that got to its end
          job,        \* the current run
          jobs        \* number of runs begun

env_vars == <<site, fixed, prefix, record, attempts, disk, job, jobs>>

Actions == {"create", "reuse"}

\* The target prefix; "other" is the marker of another project or specification.
Absent == [made |-> FALSE, pkgs |-> {}, marker |-> "none"]

\* No earlier task has built this specification.
ASSUME PrefixAssumption ==
    \A q \in FirstPrefixes : DOMAIN q = DOMAIN Absent /\ q.marker # "own"

\* The results a stage works from: of host_preflight (pre), of env_solve (sol).
NoPre == [done |-> FALSE, d |-> Blocked("venv"), authorized |-> FALSE]
NoSol == [done |-> FALSE, d |-> Blocked("venv"), authorized |-> FALSE, plan |-> <<>>]
NoResults == [pre |-> NoPre, sol |-> NoSol]
NoJob == [pc |-> "none", execute |-> FALSE, results |-> NoResults, left |-> <<>>, status |-> "none"]

decision == job.results.sol.d
Conda == decision.backend \in CondaBackends
operation == decision.action

At(pc) == job.pc = pc
Goto(pc) == job' = [job EXCEPT !.pc = pc]
Finish(status) == job' = [job EXCEPT !.pc = "report", !.status = status, !.left = <<>>]

\* journal.transition and journal.begin
Move(status) ==
    /\ status \in AllowedTransitions[record[operation]]
    /\ record' = [record EXCEPT ![operation] = status]

BeginOperation ==
    /\ record' = [record EXCEPT ![operation] = "running"]
    /\ attempts' = [attempts EXCEPT ![operation] = @ + 1]

-----------------------------------------------------------------------------
(* The runs of the task                                                    *)

\* The results of the last whole pipeline hide those a later run has saved
\* stage by stage and died.
_load_previous_results == IF disk.whole THEN disk.pipeline ELSE disk.stages

\* A deployment, or a resume from a stage; without the results it needs the
\* resume falls back to the start.  It is dry or not.
StartJob ==
    /\ job.pc \in {"none", "ended"} /\ jobs < MaxJobs
    /\ \E stage \in {"analyze", "host_preflight", "env_solve", "env_deploy"}, execute \in BOOLEAN :
          /\ stage # "analyze" => jobs > 0
          /\ stage = "env_solve" => _load_previous_results.pre.done
          /\ stage = "env_deploy" => _load_previous_results.sol.done
          /\ job' = [NoJob EXCEPT !.pc = IF stage = "analyze" THEN "host_preflight" ELSE stage,
                                  !.execute = execute,
                                  !.results = IF stage = "analyze" THEN NoResults ELSE _load_previous_results]
    /\ jobs' = jobs + 1
    /\ UNCHANGED <<site, fixed, prefix, record, attempts, disk>>

\* The pipeline's end; a failed environment does not stop the stages before it.
EndJob ==
    /\ At("report")
    /\ disk' = [disk EXCEPT !.pipeline = job.results, !.whole = TRUE]
    /\ job' = [NoJob EXCEPT !.pc = "ended"]
    /\ UNCHANGED <<site, fixed, prefix, record, attempts, jobs>>

\* Between two runs a repair adds an install command to the overlay.
RepairPlan ==
    /\ At("ended") /\ ~fixed
    /\ fixed' = TRUE
    /\ UNCHANGED <<site, prefix, record, attempts, disk, job, jobs>>

\* Between two runs someone else removes the environment.
RemovePrefix ==
    /\ At("ended") /\ prefix.made
    /\ prefix' = Absent
    /\ UNCHANGED <<site, fixed, record, attempts, disk, job, jobs>>

-----------------------------------------------------------------------------
(* host_preflight and env_solve                                            *)

Save(results) == disk' = [disk EXCEPT !.stages = results]

\* HostPreflightService.run.  The inventory may lack the prefix: the tool's
\* list of environments fails, or is cut.
RunPreflight ==
    /\ At("host_preflight")
    /\ \E listed \in BOOLEAN :
          LET d == select_environment(site.repo, site.host, site.config, listed /\ prefix.marker = "own")
              results == [job.results EXCEPT !.pre =
                            [done |-> TRUE, d |-> d,
                             authorized |-> evaluate(d, job.execute).mutation_authorized]]
              passed == PreflightStatus(d) = "passed"
          IN  /\ Save([disk.stages EXCEPT !.pre = results.pre])
              /\ job' = [job EXCEPT !.results = results,
                                    !.pc = IF passed THEN "env_solve" ELSE "report",
                                    !.status = IF passed THEN "none" ELSE "failed"]
    /\ UNCHANGED <<site, fixed, prefix, record, attempts, jobs>>

\* EnvSolveModule.solve.  After a blocked preflight there is no solution, and
\* env_deploy is given the analysis as it is, whose plan is for a venv.
RunSolve ==
    /\ At("env_solve")
    /\ LET pre == job.results.pre
           d == IF pre.d.status = "blocked" THEN Decision("none", "venv", "create", FALSE, "cpu") ELSE pre.d
           plan == IF pre.d.status = "blocked" THEN merge_analysis(site.repo, fixed) ELSE solve(site.repo, d, fixed)
           sol == [done |-> TRUE, d |-> d, authorized |-> pre.authorized, plan |-> plan]
       IN  /\ Save([disk.stages EXCEPT !.sol = sol])
           /\ job' = [job EXCEPT !.results.sol = sol, !.pc = "env_deploy"]
    /\ UNCHANGED <<site, fixed, prefix, record, attempts, jobs>>

-----------------------------------------------------------------------------
(* EnvDeployModule.deploy                                                  *)

\* A dry run ends with the plan.  A Conda environment is only changed on the
\* authorization of the preflight whose results are used.
StartDeploy ==
    /\ At("env_deploy")
    /\ IF job.results.sol.plan = <<>> /\ operation # "reuse" THEN Finish("uncertain")
       ELSE IF ~job.execute THEN Finish("planned")
       ELSE IF Conda /\ operation # "reuse" /\ ~job.results.sol.authorized THEN Finish("failed")
       ELSE job' = [job EXCEPT !.pc = IF Conda THEN "prepare" ELSE "install", !.left = job.results.sol.plan]
    /\ UNCHANGED <<site, fixed, prefix, record, attempts, disk, jobs>>

\* DependencyReconciler.reconcile, for a Conda prefix: the decisions it may
\* come to.  A probe of the environment can time out.
reconcile_Unowned(there) ==
    IF there.made /\ check(site.repo, decision, there.pkgs) THEN {"reuse", "retry"} ELSE {"retry"}

reconcile(there) ==
    IF ~there.made THEN {"retry"}
    ELSE IF there.marker # "own" THEN {"conflict"}
    ELSE IF check(site.repo, decision, there.pkgs) THEN {"reuse", "retry"} ELSE {"retry"}

\* Fault: the record is taken for the environment.
ReuseCommitted_Blind ==
    /\ At("prepare") /\ record[operation] = "committed"
    /\ Finish("passed")
    /\ UNCHANGED <<site, fixed, prefix, record, attempts, disk, jobs>>

\* A committed operation is reused: its commands are not run again.
ReuseCommitted ==
    /\ At("prepare") /\ record[operation] = "committed"
    /\ job' = [job EXCEPT !.pc = "postcheck", !.left = <<>>]
    /\ UNCHANGED <<site, fixed, prefix, record, attempts, disk, jobs>>

\* A new operation, and one left retryable, is begun.
PrepareNew ==
    /\ At("prepare") /\ record[operation] \in Beginnable
    /\ BeginOperation
    /\ Goto("install")
    /\ UNCHANGED <<site, fixed, prefix, disk, jobs>>

\* An operation that a dead run left running is made unknown.
PrepareRecover ==
    /\ At("prepare") /\ record[operation] = "running"
    /\ Move("unknown")
    /\ UNCHANGED <<site, fixed, prefix, attempts, disk, job, jobs>>

\* An unknown one is reconciled with the prefix.
PrepareReconcile ==
    /\ At("prepare") /\ record[operation] = "unknown"
    /\ \E found \in reconcile(prefix) :
          CASE found = "reuse"    -> Move("committed") /\ UNCHANGED job
            [] found = "retry"    -> Move("retryable") /\ UNCHANGED job
            [] found = "conflict" -> Move("conflict") /\ Finish("failed")
    /\ UNCHANGED <<site, fixed, prefix, attempts, disk, jobs>>

\* Every other status needs an operator.
PrepareManual ==
    /\ At("prepare") /\ record[operation] \in {"failed", "conflict"}
    /\ Finish("failed")
    /\ UNCHANGED <<site, fixed, prefix, record, attempts, disk, jobs>>

\* _fail_owned_operation, then the failed result.
FailDeploy ==
    /\ record' = IF Conda /\ record[operation] = "running"
                 THEN [record EXCEPT ![operation] = "failed"] ELSE record
    /\ Finish("failed")

\* The next command is put to the policy; a Conda decision's commands to its
\* own, a venv's to the allowlist.
AuthorizeCommand ==
    /\ At("install") /\ job.left # <<>>
    /\ \E allowlisted \in IF Conda THEN {TRUE} ELSE BOOLEAN :
          IF allowlisted /\ (Conda => validate_mutation_command(Head(job.left), site.repo))
          THEN Goto("command") /\ UNCHANGED record ELSE FailDeploy
    /\ UNCHANGED <<site, fixed, prefix, attempts, disk, jobs>>

\* conda create on a prefix that exists removes it first, marker included.
StartCommand ==
    /\ At("command")
    /\ prefix' = IF Head(job.left) = "create" THEN [Absent EXCEPT !.made = TRUE] ELSE prefix
    /\ Goto("running")
    /\ UNCHANGED <<site, fixed, record, attempts, disk, jobs>>

\* What the command leaves when it fails or its run dies: all, or nothing.
Installed(pkgs) == IF Conda THEN [prefix EXCEPT !.pkgs = @ \cup pkgs] ELSE prefix

Outcomes == Effects(Head(job.left), site.repo, site.host, site.config, decision)

EndCommand ==
    /\ At("running")
    /\ \E pkgs \in Outcomes :
          \/ /\ prefix' = Installed(pkgs)
             /\ job' = [job EXCEPT !.left = Tail(@), !.pc = "install"]
             /\ UNCHANGED record
          \/ /\ prefix' \in {prefix, Installed(pkgs)}
             /\ FailDeploy
    /\ UNCHANGED <<site, fixed, attempts, disk, jobs>>

\* A venv has no postcheck.
EndInstall ==
    /\ At("install") /\ job.left = <<>>
    /\ IF Conda THEN Goto("postcheck") ELSE Finish("passed")
    /\ UNCHANGED <<site, fixed, prefix, record, attempts, disk, jobs>>

\* Fault: the marker is written as soon as the commands have run.
RunPostcheck_Late ==
    /\ At("postcheck")
    /\ Goto("mark")
    /\ UNCHANGED <<site, fixed, prefix, record, attempts, disk, jobs>>

\* The probe runs in the prefix; it may also time out.
RunPostcheck ==
    /\ At("postcheck")
    /\ \E timeout \in BOOLEAN :
          IF ~timeout /\ prefix.made /\ check(site.repo, decision, prefix.pkgs)
          THEN Goto("mark") /\ UNCHANGED record ELSE FailDeploy
    /\ UNCHANGED <<site, fixed, prefix, attempts, disk, jobs>>

WriteMarker ==
    /\ At("mark")
    /\ prefix' = [prefix EXCEPT !.marker = "own"]
    /\ Goto("commit")
    /\ UNCHANGED <<site, fixed, record, attempts, disk, jobs>>

CommitOperation ==
    /\ At("commit")
    /\ record' = IF record[operation] = "running"
                 THEN [record EXCEPT ![operation] = "committed"] ELSE record
    /\ Finish("passed")
    /\ UNCHANGED <<site, fixed, prefix, attempts, disk, jobs>>

\* The run dies; a command it had started may still have its effect.
CrashJob ==
    /\ job.pc \notin {"none", "ended"}
    /\ job' = [NoJob EXCEPT !.pc = "ended"]
    /\ IF At("running")
         THEN prefix' \in {prefix} \cup {Installed(pkgs) : pkgs \in Outcomes}
         ELSE UNCHANGED prefix
    /\ UNCHANGED <<site, fixed, record, attempts, disk, jobs>>

-----------------------------------------------------------------------------
EnvInit ==
    /\ site \in Sites /\ prefix \in FirstPrefixes
    /\ fixed = FALSE
    /\ record = [a \in Actions |-> NoRecord] /\ attempts = [a \in Actions |-> 0]
    /\ disk = [stages |-> NoResults, pipeline |-> NoResults, whole |-> FALSE]
    /\ job = NoJob /\ jobs = 0

EnvNext ==
    \/ StartJob \/ EndJob \/ RepairPlan \/ RemovePrefix
    \/ RunPreflight \/ RunSolve \/ StartDeploy
    \/ ReuseCommitted \/ PrepareNew \/ PrepareRecover \/ PrepareReconcile \/ PrepareManual
    \/ AuthorizeCommand \/ StartCommand \/ EndCommand \/ EndInstall
    \/ RunPostcheck \/ WriteMarker \/ CommitOperation
    \/ CrashJob

EnvSpec == EnvInit /\ [][EnvNext]_env_vars

-----------------------------------------------------------------------------
(* Correctness                                                             *)

\* What the specification asks for, whichever run asks.
Satisfied == prefix.made /\ check(site.repo, select_environment(site.repo, site.host, site.config, FALSE), prefix.pkgs)

\* A prefix that carries the marker of this project and specification holds an
\* environment that satisfies it.  host_preflight reuses an environment on the
\* strength of the marker, and the reconciler decides on it whether a retry may
\* build over the prefix: deploy must only write it after the postcheck, and no
\* command that is cut off may leave it on a half-built environment.
MarkerIsTrue == prefix.marker = "own" => Satisfied

\* A Conda deployment that was executed and reported as passed has left the
\* environment that was asked for, with its marker, whether the commands were
\* run, the decision was to reuse, or the journal had the operation committed,
\* by then possibly for a prefix that has gone.
PassedIsInstalled ==
    At("report") /\ job.status = "passed" /\ Conda => Satisfied /\ prefix.marker = "own"

\* Why the two hold.  The decisions in the results, of whichever run, fall back to
\* the CPU only where the resolver does, so that the postcheck of an old decision
\* is no weaker; the marker is written at once after the postcheck, and a pass is
\* reported at once after the marker.
ResultsAgree(results) ==
    LET agrees(d) == d.fallback => select_environment(site.repo, site.host, site.config, FALSE).fallback
    IN  /\ DOMAIN results = DOMAIN NoResults
        /\ agrees(results.pre.d) /\ agrees(results.sol.d)

EnvInv ==
    /\ DOMAIN prefix = DOMAIN Absent /\ DOMAIN job = DOMAIN NoJob
    /\ DOMAIN disk = {"stages", "pipeline", "whole"}
    /\ ResultsAgree(job.results) /\ ResultsAgree(disk.stages) /\ ResultsAgree(disk.pipeline)
    /\ At("mark") => Satisfied
    /\ At("commit") => prefix.marker = "own"
    /\ At("report") /\ job.status = "passed" /\ Conda => prefix.marker = "own"
    /\ MarkerIsTrue

\* An operation that is begun again builds on an absent prefix or on one that
\* carries its marker.  A prefix of unknown content, which the attempt before
\* it may have left half-built and which may be someone else's, is never built
\* over by a retry (the first attempt asks no such question).
NoRetryOverUnowned ==
    [][At("command") /\ Conda /\ Head(job.left) = "create" /\ prefix' # prefix
         /\ attempts[operation] > 1
       => ~prefix.made \/ prefix.marker = "own"]_env_vars

\* The repositories that preflight allows and env_solve plans, of which
\* env_deploy rejects a command or whose postcheck nothing can pass: a Conda
\* specification with a space, a direct pip reference, the project itself as a
\* requirement, a package that is no Python distribution, and a GPU for which a
\* CPU build of torch is chosen, or none.
NeverDeployed(r, h, c) ==
    \/ "spaced" \in r.conda \/ "url" \in r.pip \/ "native" \in r.conda
    \/ r.manifest \in {"pyproject", "unsafe_requirements"}
    \/ /\ r.gpu /\ _select_gpu(h)
       /\ ~torch_required(r) \/ c.torch_cuda_preference = "cpu" \/ h.gpu = "no_cuda"

\* Planner, policy and postcheck agree but for those: whatever env_deploy is
\* given to build, by this run or from the results of an earlier one, the policy
\* accepts every command, and the commands, all having succeeded, can leave an
\* environment that passes the postcheck.
SolvableIsDeployable ==
    LET r == site.repo
        plan == job.results.sol.plan
        accepted == \A i \in DOMAIN plan : validate_mutation_command(plan[i], r)
        all == UNION {UNION Effects(plan[i], r, site.host, site.config, decision) : i \in DOMAIN plan}
    IN  At("env_deploy") /\ Conda /\ operation = "create" =>
          (accepted /\ check(r, decision, all) <=> ~NeverDeployed(r, site.host, site.config))

=============================================================================
