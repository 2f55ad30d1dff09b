------------------------- MODULE MCPipelineStages -------------------------
(***************************************************************************)
(* The stages of the pipeline that touch the host, in one run of TLC: from *)
(* host_preflight to env_deploy (Environment), and runner and verify       *)
(* (ServiceRun).  The two groups share the order and no state: the runner  *)
(* starts whatever env_deploy came to.  So each behaviour is one of either *)
(* group, the other being over.                                            *)
(***************************************************************************)
EXTENDS ServiceRun, Environment, TLC

-----------------------------------------------------------------------------
(* Runner and verify: two runs over one repository and one host.  The      *)
(* repositories cover every adapter of the discovery; the ones with        *)
(* several candidates give the runner something to fall back on.           *)

\* The analysis found entry points, and the analyzer's own candidate is first.
Discovered == {[repo |-> {"manage_py", "django"}, scope |-> "discovery"]}

\* A contract lists what the registry declares.
Contracts == {[repo |-> r, scope |-> "contract"] : r \in
    {{"wsgi_py", "gunicorn"}, {"gradle", "gradlew", "jar", "poetry_script", "pep621_script", "target_module"},
     {"pep621_script", "readme_cli"},
     {"poetry_script", "readme_cli", "frontend_option", "frontend_output"},
     {"poetry_script", "readme_cli", "readme_setup"},
     {"pep621_script", "target_module"},
     {"package_json", "lockfile", "readme_npm", "start_script", "make_build_frontend"},
     {"package_json", "lockfile", "start_script"},
     {"make_target", "readme_make", "readme_shell_script"},
     {"readme_python_script", "app_py"},
     {"procfile", "procfile_file", "procfile_port_variable", "dockerfile"},
     {"manage_py", "django", "manage_subdir", "procfile", "procfile_operator"},
     {"pom", "mvnw", "wrapper_jar", "jar"},
     {"go_mod", "go_sum", "go_main", "binary"},
     {"cargo_toml", "cargo_lock", "cargo_bin", "binary"},
     {"go_mod", "cargo_toml", "cargo_lock", "pom", "gradle"}}}

MCTasks == Discovered \cup Contracts

RunSymmetry == Permutations(Runs)

-----------------------------------------------------------------------------
(* The environment: a site for every branch of the resolver, and what was  *)
(* at the target prefix before.                                            *)

Repo(found, conda, pip, manifest, torch, gpu) ==
    [found |-> found, conda |-> conda, pip |-> pip, channels |-> "none", manifest |-> manifest,
     torch |-> torch, gpu |-> gpu, old_gradio |-> FALSE]

Host(tools, gpu) == [tools |-> tools, gpu |-> gpu]

Default == [env_backend |-> "auto", conda_reuse_owned_env |-> TRUE, conda_allow_cpu_fallback |-> TRUE,
            conda_allow_venv_fallback |-> TRUE, torch_cuda_preference |-> "auto"]

Plain == Repo(TRUE, {"lib"}, {"pkg"}, "requirements", FALSE, FALSE)
Here == Host({"conda"}, "not_found")

Site(r, h, c) == [repo |-> r, host |-> h, config |-> c]

MCSites ==
    {Site(r, h, Default) : r \in
        {Plain, [Plain EXCEPT !.channels = "rejected"], [Plain EXCEPT !.old_gradio = TRUE, !.manifest = "none"],
         Repo(TRUE, {"lib", "torch"}, {"torch_pin"}, "none", TRUE, TRUE),
         Repo(TRUE, {"native"}, {}, "none", FALSE, FALSE),
         Repo(TRUE, {"spaced"}, {}, "none", FALSE, FALSE),
         Repo(TRUE, {}, {"url"}, "none", FALSE, FALSE),
         Repo(TRUE, {}, {"pkg"}, "pyproject", FALSE, FALSE),
         Repo(FALSE, {}, {}, "requirements", TRUE, FALSE)},
        h \in {Here, Host({}, "untrusted"), Host({"mamba"}, "cuda"), Host({"micromamba"}, "no_cuda")}}
    \cup {Site(Plain, Here, [Default EXCEPT !.conda_reuse_owned_env = FALSE]),
          Site(Repo(FALSE, {}, {}, "package_json", FALSE, FALSE), Here, [Default EXCEPT !.env_backend = "conda"]),
          Site(Repo(TRUE, {"torch"}, {}, "none", TRUE, TRUE), Host({"conda"}, "cuda"),
               [Default EXCEPT !.torch_cuda_preference = "cpu"]),
          Site(Repo(TRUE, {"torch"}, {}, "none", TRUE, TRUE), Host({"conda"}, "small"),
               [Default EXCEPT !.conda_allow_cpu_fallback = FALSE])}

MCPrefixes ==
    {Absent, [made |-> TRUE, pkgs |-> {"python", "old"}, marker |-> "none"],
     [made |-> TRUE, pkgs |-> {"python", "lib"}, marker |-> "other"]}

-----------------------------------------------------------------------------
EnvironmentOver ==
    /\ site = Site(Plain, Here, Default) /\ prefix = Absent /\ fixed = TRUE
    /\ record = [a \in Actions |-> NoRecord] /\ attempts = [a \in Actions |-> 0]
    /\ disk = [stages |-> NoResults, pipeline |-> NoResults, whole |-> FALSE]
    /\ job = [NoJob EXCEPT !.pc = "ended"] /\ jobs = MaxJobs

ServiceOver ==
    /\ repo = {} /\ scope = "none" /\ fresh = FALSE /\ approval = {} /\ consumed = {}
    /\ services = <<>> /\ p = [r \in Runs |-> Ended("none", "none")]

StagesInit == (Init /\ EnvironmentOver) \/ (EnvInit /\ ServiceOver)

StagesNext == (Next /\ UNCHANGED env_vars) \/ (EnvNext /\ UNCHANGED vars)

StagesSpec == StagesInit /\ [][StagesNext]_<<vars, env_vars>>

=============================================================================
