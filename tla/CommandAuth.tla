--------------------------- MODULE CommandAuth ---------------------------
(***************************************************************************)
(* command_auth/: which commands of a repository may be executed.          *)
(*                                                                         *)
(* A repository is the set of facts the discovery adapters look for (a     *)
(* Procfile, a lockfile, a README line that documents a command, ...).     *)
(* discover turns it into a registry: the evidence collected, and the      *)
(* candidates, each naming the evidence it rests on.  authorize is the     *)
(* single verdict every entry point asks for before it executes one.       *)
(*                                                                         *)
(* Command lines are kept as far as the policy tells them apart: exe is    *)
(* the class of the executable, arg whether an argument holds a shell      *)
(* metacharacter.  Hashes, scores, ports and profiles are left out.        *)
(***************************************************************************)
EXTENDS Naturals, FiniteSets, Sequences

\* A CommandCandidate; ids are the evidence it names.
Candidate(kind, phase, exe, ids) ==
    [kind |-> kind, phase |-> phase, exe |-> exe, arg |-> "plain", ids |-> ids]

\* What an adapter returns: the evidence and the candidates.
Found(evidence, candidates) == [evidence |-> evidence, candidates |-> candidates]
Nothing == Found({}, {})
Both(a, b) == Found(a.evidence \cup b.evidence, a.candidates \cup b.candidates)
If(condition, found) == IF condition THEN found ELSE Nothing

\* Evidence is named by its source type, except the jar of a Maven wrapper,
\* which is a second piece of evidence of its type.
TypeOfEvidence(id) == IF id = "wrapper_jar" THEN "maven_wrapper" ELSE id

-----------------------------------------------------------------------------
\* A declared console script: documented in the README, or else with its target
\* module in the repository.  A documented init or setup verb is a setup command.
_source_frontend_variant(r, kind) ==
    If({"frontend_option", "frontend_output"} \subseteq r,
       Found({"python_cli_option", "frontend_build_output"},
             {Candidate(kind, "run", "venv",
                 {kind, "readme_reference", "python_cli_option", "frontend_build_output"})}))

_script(r, kind) ==
    LET phase == IF "readme_setup" \in r THEN "setup" ELSE "run" IN
    If(kind \in r,
       IF "readme_cli" \in r
       THEN Both(Found({kind, "readme_reference"},
                       {Candidate(kind, phase, "venv", {kind, "readme_reference"})}),
                 If(phase = "run", _source_frontend_variant(r, kind)))
       ELSE Both(Found({kind}, {}),
                 If("target_module" \in r,
                    Found({"repository_file"},
                          {Candidate(kind, "run", "venv", {kind, "repository_file"})}))))

discover_python_cli(r) == Both(_script(r, "pep621_script"), _script(r, "poetry_script"))

\* A package.json with a lockfile beside it: the frozen install, the frontend
\* build a Make target needs, the documented script, and start or serve, which
\* is skipped when the documented script is already the same command.
discover_node(r) ==
    LET locked == {"package_json", "lockfile"} \subseteq r
        documented == locked /\ "readme_npm" \in r
    IN  Both(Both(If(locked,
                     Found({"package_manifest", "lockfile"},
                           {Candidate("node_install", "install", "system",
                                      {"package_manifest", "lockfile"})})),
                  If(locked /\ "make_build_frontend" \in r,
                     Found({"package_json_script", "make_reference"},
                           {Candidate("source_build", "install", "system",
                                      {"package_json_script", "lockfile", "make_reference"})}))),
             Both(If(documented,
                     Found({"package_json_script", "lockfile", "readme_reference"},
                           {Candidate("package_json_script", "run", "system",
                                      {"package_json_script", "lockfile", "readme_reference"})})),
                  If(locked /\ "start_script" \in r /\ ~documented,
                     Found({"package_json_script", "lockfile"},
                           {Candidate("node_run_script", "run", "system",
                                      {"package_json_script", "lockfile"})}))))

\* A Make target the README documents.
discover_make_Bare(r) ==
    If({"make_target", "readme_make"} \subseteq r,
       Found({"make_target"}, {Candidate("make_target", "run", "system", {"make_target"})}))

discover_make(r) ==
    If({"make_target", "readme_make"} \subseteq r,
       Found({"make_target", "readme_reference"},
             {Candidate("make_target", "run", "system", {"make_target", "readme_reference"})}))

\* A script the README documents, run by the environment's Python or by sh, and
\* an undocumented common entry point (app.py, main.py, ...).
discover_repository_scripts(r) ==
    Both(Both(If("readme_python_script" \in r,
                 Found({"repository_script", "readme_reference"},
                       {Candidate("repository_script", "run", "venv",
                                  {"repository_script", "readme_reference"})})),
              If("readme_shell_script" \in r,
                 Found({"repository_script", "readme_reference"},
                       {Candidate("repository_script", "run", "sh",
                                  {"repository_script", "readme_reference"})}))),
         If("app_py" \in r,
            Found({"repository_script"},
                  {Candidate("python_entrypoint", "run", "venv", {"repository_script"})})))

\* A Procfile's web process, when it names a file of the repository.  A value
\* with a shell operator is refused; a plain $PORT is no operator of that list.
_procfile_discovery(r) ==
    LET c == Candidate("procfile_web", "run", "system", {"procfile_web", "repository_file"}) IN
    If("procfile" \in r /\ "procfile_operator" \notin r /\ "procfile_file" \in r,
       Found({"procfile_web", "repository_file"},
             {[c EXCEPT !.arg = IF "procfile_port_variable" \in r THEN "meta" ELSE "plain"]}))

\* Dockerfile lines are evidence only.
_dockerfile_discovery(r) ==
    If("dockerfile" \in r, Found({"dockerfile_entrypoint", "dockerfile_expose"}, {}))

\* manage.py with Django declared, an ASGI or WSGI module with its server
\* declared, a Procfile and a Dockerfile.  The interpreter of a manage.py that
\* is not at the root is written relative to its own directory.
discover_python_services(r) ==
    Both(Both(If({"manage_py", "django"} \subseteq r,
                 Found({"django_manage", "python_dependency"},
                       {Candidate("django_manage", "run",
                                  IF "manage_subdir" \in r THEN "parent_venv" ELSE "venv",
                                  {"django_manage", "python_dependency"})})),
              If({"wsgi_py", "gunicorn"} \subseteq r,
                 Found({"asgi_wsgi_module", "python_dependency"},
                       {Candidate("asgi_wsgi_entrypoint", "run", "venv",
                                  {"asgi_wsgi_module", "python_dependency"})}))),
         Both(_procfile_discovery(r), _dockerfile_discovery(r)))

\* A build output already present, run by java or by itself.
_artifact_run_candidate(r) ==
    If("jar" \in r, Found({"jvm_build_artifact"},
                          {Candidate("jvm_artifact_run", "run", "system", {"jvm_build_artifact"})}))

_binary_run_candidate(r, kind, artifact) ==
    If("binary" \in r, Found({artifact}, {Candidate(kind, "run", "artifact", {artifact})}))

\* Maven: the wrapper is required; its jar is named by the candidate, and the
\* evidence built for it is not returned.
_maven(r) ==
    If("pom" \in r,
       IF "mvnw" \notin r THEN Found({"jvm_maven_pom"}, {})
       ELSE Both(Found({"jvm_maven_pom", "maven_wrapper"},
                       {Candidate("jvm_maven_build", "install", "wrapper",
                           {"jvm_maven_pom", "maven_wrapper"} \cup (r \cap {"wrapper_jar"}))}),
                 _artifact_run_candidate(r)))

_gradle(r) ==
    If("gradle" \in r,
       IF "gradlew" \notin r THEN Found({"jvm_gradle_build"}, {})
       ELSE Both(Found({"jvm_gradle_build", "gradle_wrapper"},
                       {Candidate("jvm_gradle_build", "install", "wrapper",
                                  {"jvm_gradle_build", "gradle_wrapper"})}),
                 _artifact_run_candidate(r)))

\* Go and Cargo: a lockfile and a main package or binary target are required.
_go(r) ==
    If("go_mod" \in r,
       IF ~({"go_sum", "go_main"} \subseteq r)
       THEN Found({"go_module"} \cup {e \in {"go_lockfile"} : "go_sum" \in r}, {})
       ELSE Both(Found({"go_module", "go_lockfile", "go_main_package"},
                       {Candidate("go_build", "install", "system",
                                  {"go_module", "go_lockfile", "go_main_package"})}),
                 _binary_run_candidate(r, "go_binary_run", "go_build_artifact")))

_cargo(r) ==
    If("cargo_toml" \in r,
       IF ~({"cargo_lock", "cargo_bin"} \subseteq r)
       THEN Found({"cargo_manifest"} \cup {e \in {"cargo_lockfile"} : "cargo_lock" \in r}, {})
       ELSE Both(Found({"cargo_manifest", "cargo_lockfile", "cargo_bin_target"},
                       {Candidate("cargo_build", "install", "system",
                                  {"cargo_manifest", "cargo_lockfile", "cargo_bin_target"})}),
                 _binary_run_candidate(r, "cargo_binary_run", "cargo_build_artifact")))

discover_native_builds(r) == Both(Both(_maven(r), _gradle(r)), Both(_go(r), _cargo(r)))

\* CommandDiscoveryService.discover: all the adapters, without duplicates.
discover(r) ==
    Both(Both(Both(discover_python_cli(r), discover_node(r)),
              Both(discover_make(r), discover_repository_scripts(r))),
         Both(discover_python_services(r), discover_native_builds(r)))

-----------------------------------------------------------------------------
\* The evidence types a kind needs; a kind that is not named needs a README
\* reference besides.
RequiredEvidence ==
    [manifest_command |-> {"manifest_command"},
     node_install |-> {"package_manifest", "lockfile"},
     jvm_maven_build |-> {"jvm_maven_pom", "maven_wrapper"},
     jvm_gradle_build |-> {"jvm_gradle_build", "gradle_wrapper"},
     jvm_artifact_run |-> {"jvm_build_artifact"},
     go_build |-> {"go_module", "go_lockfile"},
     go_binary_run |-> {"go_build_artifact"},
     cargo_build |-> {"cargo_manifest", "cargo_lockfile"},
     cargo_binary_run |-> {"cargo_build_artifact"},
     pep621_script |-> {"pep621_script"},
     poetry_script |-> {"poetry_script"},
     package_json_script |-> {"package_json_script", "lockfile"},
     node_run_script |-> {"package_json_script", "lockfile"},
     django_manage |-> {"django_manage", "python_dependency"},
     asgi_wsgi_entrypoint |-> {"asgi_wsgi_module", "python_dependency"},
     procfile_web |-> {"procfile_web", "repository_file"},
     source_build |-> {"package_json_script", "lockfile", "make_reference"},
     python_entrypoint |-> {"repository_script"},
     make_target |-> {"make_target", "readme_reference"},
     repository_script |-> {"repository_script", "readme_reference"}]

\* Evidence of which a command requested by a model needs one piece.
GroundedEvidence ==
    {"readme_reference", "python_dependency", "package_json_script", "pep621_script",
     "poetry_script", "repository_file", "django_manage", "asgi_wsgi_module", "procfile_web"}

_evidence_reason(c, types) ==
    IF c.kind = "llm_candidate_request" THEN types \cap GroundedEvidence = {}
    ELSE ~(RequiredEvidence[c.kind] \subseteq types)

\* A path that leaves the repository, a metacharacter, or a shell that does not
\* run a repository script is denied whatever the evidence.
hard_deny_reason(c) ==
    \/ c.exe = "parent_venv"
    \/ c.arg = "meta"
    \/ c.exe = "sh" /\ c.kind # "repository_script"

\* The executable must exist where the harness owns it: the environment's own
\* scripts with their ownership marker, the build outputs, and the system tools
\* and interpreters.  Any other path is unbound.
resolve(c, env) ==
    /\ c.exe = "venv" => env.marker
    /\ c.exe = "artifact" => env.built
    /\ c.exe \notin {"wrapper", "parent_venv"}

ApprovalKinds == {"make_target", "repository_script", "python_entrypoint",
                  "manifest_command", "llm_candidate_request"}

\* The approval names this very command, and was not used up.
approval_valid(approval, c) == c \in approval.granted /\ approval.execution_count = 0

\* The verdict, in the order of the early returns; fresh: the files behind the
\* evidence still have their hashes.
authorize(c, registry, fresh, env, approval) ==
    IF hard_deny_reason(c) THEN "hard_denied"
    ELSE IF \/ ~(c.ids # {} /\ c.ids \subseteq registry.evidence)
            \/ ~fresh
            \/ _evidence_reason(c, {TypeOfEvidence(e) : e \in c.ids})
            \/ env.require /\ ~resolve(c, env)
         THEN "candidate_rejected"
    ELSE IF c.kind \in ApprovalKinds /\ ~approval_valid(approval, c) THEN "approval_required"
    ELSE "auto_allowed"

=============================================================================
