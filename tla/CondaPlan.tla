----------------------------- MODULE CondaPlan -----------------------------
(***************************************************************************)
(* What host preflight, env_solve and env_deploy compute for a repository: *)
(* the backend and the action (preflight/compatibility.py), the commands   *)
(* that build the environment (modules/env_solve.py, env/conda.py), the    *)
(* policy on each of them (preflight/policy.py) and the check of what they *)
(* have built (env/postcheck.py).  Pure operators; Environment runs them.  *)
(*                                                                         *)
(* A repository r:                                                         *)
(*   found     it has an environment.yml, with the lists                   *)
(*   conda     of its Conda dependencies: "lib" is a Python distribution,  *)
(*             "native" is not one, "torch" is pytorch, "spaced" is        *)
(*             written with a space before its version                     *)
(*   pip       of its pip dependencies: "pkg", "torch_pin" is torch with a *)
(*             version, "url" is a direct reference                        *)
(*   channels  "none", "allowed" or "rejected" by the allowlist            *)
(*   manifest  the file the analyzer installs from (pyproject.toml only    *)
(*             without a requirements.txt)                                 *)
(*   torch, gpu, old_gradio   what its requirements and texts mention      *)
(* A host h: tools, the Conda runtimes that answer; gpu, the devices.      *)
(* A configuration c: the options of preflight.                            *)
(***************************************************************************)
EXTENDS Integers, Sequences, FiniteSets

CondaBackends == {"conda", "mamba", "micromamba"}

-----------------------------------------------------------------------------
(* EnvironmentCompatibilityResolver                                        *)

\* nvidia-smi lists devices ("no_cuda": without a CUDA version, "small": without
\* enough memory), there is none, or the probe cannot be trusted.
GpuStatus(h) == IF h.gpu \in {"cuda", "no_cuda", "small"} THEN "detected" ELSE h.gpu

_select_gpu(h) == h.gpu \in {"cuda", "no_cuda"}

\* The backend, before it is known whether its runtime answers.
_select_backend(r, h, c) ==
    IF c.env_backend # "auto" THEN c.env_backend
    ELSE IF ~r.found THEN "venv"
    ELSE IF "mamba" \in h.tools THEN "mamba"
    ELSE IF "conda" \in h.tools THEN "conda"
    ELSE IF "micromamba" \in h.tools THEN "micromamba"
    ELSE "conda"

_conda_only(r) == r.found /\ (r.conda # {} \/ r.channels = "allowed")

_torch_variant(h, c) ==
    IF ~_select_gpu(h) THEN "cpu"
    ELSE IF c.torch_cuda_preference # "auto" THEN c.torch_cuda_preference
    ELSE IF h.gpu = "cuda" THEN "cuda" ELSE "auto"

Decision(status, backend, action, fallback, variant) ==
    [status |-> status, backend |-> backend, action |-> action,
     fallback |-> fallback, variant |-> variant]

Blocked(backend) == Decision("blocked", backend, "block", FALSE, "cpu")

\* resolve: the decision, given whether the inventory lists the target prefix with a
\* marker of this project and this specification.
select_environment(r, h, c, reusable) ==
    LET backend == _select_backend(r, h, c)
        runtime == backend \in h.tools
        chosen == IF backend \in CondaBackends /\ ~runtime THEN "venv" ELSE backend
        action == IF chosen = "venv"
                  THEN IF r.found /\ c.env_backend # "venv" THEN "fallback_venv" ELSE "create"
                  ELSE IF reusable /\ c.conda_reuse_owned_env THEN "reuse" ELSE "create"
    IN  IF r.found /\ r.channels = "rejected" THEN Blocked("conda")
        ELSE IF r.gpu /\ GpuStatus(h) = "untrusted"
          THEN Decision("uncertain", "venv", "request_approval", FALSE, "cpu")
        ELSE IF r.gpu /\ ~_select_gpu(h) /\ ~c.conda_allow_cpu_fallback THEN Blocked("venv")
        ELSE IF backend = "venv" /\ _conda_only(r) THEN Blocked("venv")
        ELSE IF /\ backend \in CondaBackends /\ ~runtime
                /\ c.env_backend # "auto" \/ _conda_only(r) \/ ~c.conda_allow_venv_fallback
          THEN Blocked(backend)
        ELSE Decision("allowed", chosen, action, r.gpu /\ ~_select_gpu(h), _torch_variant(h, c))

\* EnvironmentPreflightPolicy.evaluate.  An allowed Conda decision has a tool,
\* and its prefix is below conda_envs_dir.
evaluate(d, allow_mutation) ==
    [allowed |-> d.status \in {"allowed", "uncertain"} /\ d.action # "block",
     mutation_authorized |-> d.status = "allowed" /\ allow_mutation]

\* HostPreflightModule.run
PreflightStatus(d) ==
    IF ~evaluate(d, FALSE).allowed THEN "failed"
    ELSE IF d.status = "uncertain" THEN "uncertain" ELSE "passed"

-----------------------------------------------------------------------------
(* EnvSolveModule: the install plan                                        *)

\* ProjectAnalyzer._install_plan
_install_plan(r) ==
    CASE r.manifest \in {"requirements", "unsafe_requirements"} -> <<"venv", "upgrade", "requirements">>
      [] r.manifest = "pyproject"    -> <<"venv", "upgrade", "dot">>
      [] r.manifest = "package_json" -> <<"npm_install">>
      [] r.manifest = "none"         -> <<>>

\* The constraints of an old gradio join the requirements command, or follow
\* the plan as a command of their own.
_apply_constraints(plan, r) ==
    IF ~r.old_gradio \/ plan = <<>> \/ \E i \in DOMAIN plan : plan[i] = "requirements" THEN plan
    ELSE Append(plan, "constraints")

\* A torch wheel is chosen when torch is declared; a pin of environment.yml
\* counts as a declaration.
torch_required(r) == r.torch \/ (r.found /\ ("torch" \in r.conda \/ "torch_pin" \in r.pip))

\* decision.variant overrides the plan's; otherwise the host's CUDA version,
\* when a GPU is required.
_select_torch_variant(r, h, c, d) ==
    IF c.torch_cuda_preference # "auto" THEN c.torch_cuda_preference
    ELSE IF d.fallback \/ d.variant = "cpu" THEN "cpu"
    ELSE IF d.variant = "cuda" THEN "cuda"
    ELSE IF r.gpu /\ h.gpu = "cuda" THEN "cuda" ELSE "cpu"

\* The wheel command goes after pip's upgrade, or after the bootstrap.
_apply_torch_solution(plan, r) ==
    LET at == CASE "upgrade" \in {plan[i] : i \in DOMAIN plan} -> 2
                [] plan = <<>>                               -> 0
                [] OTHER                                     -> 1
    IN  IF torch_required(r)
        THEN SubSeq(plan, 1, at) \o <<"torch">> \o SubSeq(plan, at + 1, Len(plan)) ELSE plan

\* The plan is pinned to the project's own .venv, which is bootstrapped first.
_normalize_venv_install_plan(plan) ==
    IF "venv" \in {plan[i] : i \in DOMAIN plan} THEN plan ELSE <<"venv">> \o plan

\* CondaBackend._conda_install: the dependencies and the torch packages.
_conda_install(r) == r.conda \cup (IF torch_required(r) THEN {"torch"} ELSE {})

\* CondaBackend._pip_commands: the pip dependencies but torch, which Conda
\* installs, and the pip commands of the plan but the torch wheel.
pip_dependencies(r) == IF torch_required(r) THEN r.pip \ {"torch_pin"} ELSE r.pip

_pip_commands(r, plan) ==
    (IF pip_dependencies(r) # {} THEN <<"pip_deps">> ELSE <<>>) \o
    SelectSeq(plan, LAMBDA cmd : cmd \in {"upgrade", "requirements", "dot", "constraints", "fix"})

\* CondaBackend.command_plan
command_plan(r, d, plan) ==
    IF d.action = "reuse" THEN <<>>
    ELSE <<"create">> \o (IF _conda_install(r) # {} THEN <<"conda_install">> ELSE <<>>)
                      \o _pip_commands(r, plan)

\* RepairOverlay.merge_analysis: a repair adds an install command ("fix").
merge_analysis(r, repaired) == _install_plan(r) \o (IF repaired THEN <<"fix">> ELSE <<>>)

\* The commands of the solution.
solve(r, d, repaired) ==
    LET plan == _apply_torch_solution(_apply_constraints(merge_analysis(r, repaired), r), r)
    IN  IF d.backend = "venv" THEN _normalize_venv_install_plan(plan)
        ELSE command_plan(r, d, plan)

-----------------------------------------------------------------------------
(* EnvironmentPreflightPolicy.validate_mutation_command                    *)

\* Conda specifications without white space.
_validate_conda_spec(spec) == spec # "spaced"

\* pip requirements that are no direct reference; the path "." is none.
_valid_pip_requirement(spec) == spec \notin {"url", "."}

\* Fault: the arguments of pip are not looked at.
validate_mutation_command_Tool(cmd, r) ==
    cmd = "conda_install" => \A s \in _conda_install(r) : _validate_conda_spec(s)

validate_mutation_command(cmd, r) ==
    CASE cmd = "conda_install" -> \A s \in _conda_install(r) : _validate_conda_spec(s)
      [] cmd = "pip_deps"      -> \A s \in pip_dependencies(r) : _valid_pip_requirement(s)
      [] cmd = "requirements"  -> r.manifest = "requirements"
      [] cmd = "dot"           -> _valid_pip_requirement(".")
      [] OTHER                 -> TRUE

-----------------------------------------------------------------------------
(* The commands' effects, and EnvironmentPostchecker                       *)

\* What a command adds to the environment.  Conda installs the torch it finds,
\* which may have the version a pip pin asks for.
Effects(cmd, r, h, c, d) ==
    LET variant == _select_torch_variant(r, h, c, d)
        torch == IF torch_required(r)
                 THEN {"torch"} \cup (IF variant = "cuda" THEN {"cuda"} ELSE {}) ELSE {}
        conda == (_conda_install(r) \ {"torch"}) \cup torch
    IN  CASE cmd = "create"        -> {{"python"}}
          [] cmd = "conda_install" -> {conda} \cup {conda \cup {"torch_pin"} : s \in torch}
          [] cmd = "pip_deps"      -> {pip_dependencies(r)}
          [] OTHER                 -> {{cmd}}

\* Only names of Python distributions have a version that the probe can read.
_package_satisfied(spec, pkgs) == spec \in pkgs /\ spec # "native"

gpu_required(r, d) == r.gpu /\ ~d.fallback

check(r, d, pkgs) ==
    /\ "python" \in pkgs
    /\ \A s \in r.conda \cup r.pip : _package_satisfied(s, pkgs)
    /\ gpu_required(r, d) => "cuda" \in pkgs

=============================================================================
