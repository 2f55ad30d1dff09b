------------------------- MODULE ServiceRun_proofs -------------------------
(***************************************************************************)
(* Proofs about the runner and verify stages, for any repository, number   *)
(* of runs and budgets.  Discovery and policy agree on what can be         *)
(* authorized: each adapter finds sound candidates (SoundFound), and so do *)
(* they together.  ServInv follows an approval from the selection over the *)
(* file that uses it up to the process, and a docker service from its      *)
(* start to the checks of verify.                                          *)
(***************************************************************************)
EXTENDS ServiceRun, FiniteSetTheorems, TLAPS

-----------------------------------------------------------------------------
(* Discovery: every adapter finds sound candidates, and so do all together *)

(* A candidate that the policy accepts but for the reasons NeverAuthorized *)
(* names: its evidence was collected and is what its kind requires.        *)
SoundCandidate(c, evidence) ==
    /\ c.kind \in DOMAIN RequiredEvidence
    /\ c.ids # {} /\ c.ids \ {"wrapper_jar"} \subseteq evidence
    /\ RequiredEvidence[c.kind] \subseteq c.ids
    /\ "wrapper_jar" \notin RequiredEvidence[c.kind]
    /\ c.exe = "sh" => c.kind = "repository_script"
    /\ c.phase = "setup" => c.exe = "venv"
    /\ c.exe = "venv" /\ c.phase # "run" => c.phase = "setup"

SoundFound(f) ==
    /\ "wrapper_jar" \notin f.evidence
    /\ IsFiniteSet(f.candidates)
    /\ \A c \in f.candidates : SoundCandidate(c, f.evidence)

LEMMA SoundNothing == SoundFound(Nothing)
BY FS_EmptySet DEF SoundFound, Nothing, Found

(* The candidates of the second may also rest on the evidence of the first.*)
LEMMA SoundJoined ==
    ASSUME NEW a, NEW b, SoundFound(a), "wrapper_jar" \notin b.evidence,
           IsFiniteSet(b.candidates),
           \A c \in b.candidates : SoundCandidate(c, a.evidence \cup b.evidence)
    PROVE  SoundFound(Both(a, b))
<1>1. /\ Both(a, b).evidence = a.evidence \cup b.evidence
      /\ Both(a, b).candidates = a.candidates \cup b.candidates
  BY DEF Both, Found
<1>2. IsFiniteSet(a.candidates \cup b.candidates)
  BY Zenon, FS_Union DEF SoundFound
<1>3. \A c \in a.candidates : SoundCandidate(c, a.evidence \cup b.evidence)
  BY DEF SoundFound, SoundCandidate
<1> QED  BY <1>1, <1>2, <1>3 DEF SoundFound

LEMMA SoundBoth ==
    ASSUME NEW a, NEW b, SoundFound(a), SoundFound(b)
    PROVE  SoundFound(Both(a, b))
<1>1. \A c \in b.candidates : SoundCandidate(c, a.evidence \cup b.evidence)
  BY DEF SoundFound, SoundCandidate
<1> QED  BY <1>1, SoundJoined DEF SoundFound

LEMMA SoundIf ==
    ASSUME NEW condition, NEW f, condition => SoundFound(f)
    PROVE  SoundFound(If(condition, f))
BY SoundNothing DEF If

(* An adapter's result with one candidate, or with evidence only.          *)
LEMMA SoundOne ==
    ASSUME NEW evidence, NEW c, "wrapper_jar" \notin evidence, SoundCandidate(c, evidence)
    PROVE  SoundFound(Found(evidence, {c}))
BY Zenon, FS_Singleton DEF SoundFound, Found

LEMMA SoundEvidence ==
    ASSUME NEW evidence, "wrapper_jar" \notin evidence
    PROVE  SoundFound(Found(evidence, {}))
BY FS_EmptySet DEF SoundFound, Found

(* A candidate built by an adapter, from what the adapter gives it.        *)
LEMMA SoundCommand ==
    ASSUME NEW kind \in DOMAIN RequiredEvidence, NEW phase, NEW exe, NEW ids, NEW evidence,
           ids # {}, ids \ {"wrapper_jar"} \subseteq evidence, RequiredEvidence[kind] \subseteq ids,
           "wrapper_jar" \notin RequiredEvidence[kind],
           exe = "sh" => kind = "repository_script", phase = "setup" => exe = "venv",
           exe = "venv" /\ phase # "run" => phase = "setup"
    PROVE  SoundCandidate(Candidate(kind, phase, exe, ids), evidence)
BY DEF SoundCandidate, Candidate

LEMMA SoundScript ==
    ASSUME NEW r, NEW kind \in {"pep621_script", "poetry_script"}
    PROVE  SoundFound(_script(r, kind))
<1> DEFINE phase == IF "readme_setup" \in r THEN "setup" ELSE "run"
           documented == Found({kind, "readme_reference"},
                               {Candidate(kind, phase, "venv", {kind, "readme_reference"})})
           frontend == {"python_cli_option", "frontend_build_output"}
           variant == Candidate(kind, "run", "venv", {kind, "readme_reference"} \cup frontend)
           other == If(phase = "run", _source_frontend_variant(r, kind))
           module == Found({"repository_file"},
                           {Candidate(kind, "run", "venv", {kind, "repository_file"})})
<1>0. /\ kind \in DOMAIN RequiredEvidence /\ RequiredEvidence[kind] = {kind}
      /\ "wrapper_jar" # kind
  BY DEF RequiredEvidence
<1>1. SoundFound(documented)
  <2>1. SoundCandidate(Candidate(kind, phase, "venv", {kind, "readme_reference"}),
                       {kind, "readme_reference"})
    BY <1>0, SoundCommand
  <2> QED  BY <1>0, <2>1, SoundOne
<1>2. SoundFound(Both(documented, other))
  <2>1. documented.evidence = {kind, "readme_reference"}
    BY DEF Found
  <2>2. other = Nothing \/ other = Found(frontend, {variant})
    <3>1. {kind, "readme_reference"} \cup frontend =
            {kind, "readme_reference", "python_cli_option", "frontend_build_output"}
      OBVIOUS
    <3> QED  BY <3>1 DEF If, _source_frontend_variant
  <2>3. CASE other = Nothing
    BY <1>1, <2>3, SoundNothing, SoundBoth
  <2>4. CASE other = Found(frontend, {variant})
    <3>1. SoundCandidate(variant, {kind, "readme_reference"} \cup frontend)
      <4> DEFINE ids == {kind, "readme_reference"} \cup frontend
      <4>1. kind \in ids /\ {kind} \subseteq ids
        OBVIOUS
      <4> HIDE DEF ids
      <4>2. ids # {} /\ ids \ {"wrapper_jar"} \subseteq ids
        BY <4>1
      <4>3. SoundCandidate(Candidate(kind, "run", "venv", ids), ids)
        BY <1>0, <4>1, <4>2, SoundCommand
      <4> QED  BY <4>3 DEF ids
    <3>2. other.evidence = frontend /\ other.candidates = {variant}
      BY <2>4 DEF Found
    <3>3. IsFiniteSet(other.candidates) /\ "wrapper_jar" \notin other.evidence
      <4>1. IsFiniteSet({variant})
        BY ONLY Zenon, FS_Singleton
      <4>2. "wrapper_jar" \notin frontend
        OBVIOUS
      <4> QED  BY ONLY <3>2, <4>1, <4>2
    <3>4. \A c \in other.candidates :
             SoundCandidate(c, documented.evidence \cup other.evidence)
      BY <2>1, <3>1, <3>2
    <3> HIDE DEF documented, other
    <3> QED  BY <1>1, <3>3, <3>4, SoundJoined
  <2> QED  BY <2>2, <2>3, <2>4
<1>3. SoundFound(Both(Found({kind}, {}), If("target_module" \in r, module)))
  <2>1. IF "target_module" \in r THEN TRUE ELSE If("target_module" \in r, module) = Nothing
    BY DEF If
  <2>2. SoundFound(Found({kind}, {})) /\ Found({kind}, {}).evidence = {kind}
    BY <1>0, SoundEvidence DEF Found
  <2>3. CASE "target_module" \notin r
    BY <2>1, <2>2, <2>3, SoundNothing, SoundBoth
  <2>4. CASE "target_module" \in r
    <3>1. SoundCandidate(Candidate(kind, "run", "venv", {kind, "repository_file"}),
                         {kind} \cup {"repository_file"})
      BY <1>0, SoundCommand
    <3>2. /\ module.evidence = {"repository_file"}
          /\ module.candidates = {Candidate(kind, "run", "venv", {kind, "repository_file"})}
      BY DEF Found
    <3>3. IsFiniteSet(module.candidates) /\ "wrapper_jar" \notin module.evidence
      BY Zenon, <3>2, FS_Singleton
    <3>4. \A c \in module.candidates :
             SoundCandidate(c, Found({kind}, {}).evidence \cup module.evidence)
      BY Zenon, <2>2, <3>1, <3>2
    <3>5. If("target_module" \in r, module) = module
      BY <2>4 DEF If
    <3> HIDE DEF module
    <3> QED  BY <2>2, <3>3, <3>4, <3>5, SoundJoined
  <2> QED  BY <2>3, <2>4
<1>4. _script(r, kind) = Nothing \/ _script(r, kind) = Both(documented, other)
      \/ _script(r, kind) = Both(Found({kind}, {}), If("target_module" \in r, module))
  BY DEF _script, If
<1> QED  BY <1>2, <1>3, <1>4, SoundNothing

(* What most adapters return: one command, with all of its evidence.       *)
LEMMA SoundPlain ==
    ASSUME NEW kind \in DOMAIN RequiredEvidence, NEW phase \in {"install", "run"}, NEW exe, NEW ids,
           NEW evidence, ids # {}, ids \ {"wrapper_jar"} \subseteq evidence,
           RequiredEvidence[kind] \subseteq ids, "wrapper_jar" \notin evidence,
           "wrapper_jar" \notin RequiredEvidence[kind],
           exe = "sh" => kind = "repository_script", exe = "venv" => phase = "run"
    PROVE  SoundFound(Found(evidence, {Candidate(kind, phase, exe, ids)}))
<1>1. SoundCandidate(Candidate(kind, phase, exe, ids), evidence)
  BY SoundCommand
<1> QED  BY <1>1, SoundOne

(* The frontend build rests on the lockfile the install has found.         *)
LEMMA SoundNode == ASSUME NEW r PROVE SoundFound(discover_node(r))
<1> DEFINE locked == {"package_json", "lockfile"} \subseteq r
           documented == locked /\ "readme_npm" \in r
           install == Found({"package_manifest", "lockfile"},
                            {Candidate("node_install", "install", "system",
                                       {"package_manifest", "lockfile"})})
           command == Candidate("source_build", "install", "system",
                                {"package_json_script", "lockfile", "make_reference"})
           build == Found({"package_json_script", "make_reference"}, {command})
           script == Found({"package_json_script", "lockfile", "readme_reference"},
                           {Candidate("package_json_script", "run", "system",
                                      {"package_json_script", "lockfile", "readme_reference"})})
           start == Found({"package_json_script", "lockfile"},
                          {Candidate("node_run_script", "run", "system",
                                     {"package_json_script", "lockfile"})})
           made == locked /\ "make_build_frontend" \in r
<1>1. SoundFound(install)
  BY SoundPlain DEF RequiredEvidence
<1>2. SoundFound(script)
  BY SoundPlain DEF RequiredEvidence
<1>3. SoundFound(start)
  BY SoundPlain DEF RequiredEvidence
<1>4. SoundFound(Both(install, build))
  <2>1. SoundCandidate(command, {"package_manifest", "lockfile"}
                                    \cup {"package_json_script", "make_reference"})
    BY SoundCommand DEF RequiredEvidence
  <2>2. /\ install.evidence = {"package_manifest", "lockfile"}
        /\ build.evidence = {"package_json_script", "make_reference"}
        /\ build.candidates = {command}
    BY DEF Found
  <2>3. IsFiniteSet({command})
    BY ONLY FS_Singleton
  <2>4. "wrapper_jar" \notin build.evidence
    BY <2>2
  <2> HIDE DEF install, build, command
  <2> QED  BY <1>1, <2>1, <2>2, <2>3, <2>4, SoundJoined
<1>5. SoundFound(Both(If(locked, install), If(made, build)))
  <2> HIDE DEF install, build
  <2>1. CASE made
    BY <1>4, <2>1 DEF If
  <2>2. CASE ~made
    <3>1. If(made, build) = Nothing
      BY <2>2 DEF If
    <3>2. SoundFound(If(locked, install))
      BY <1>1, SoundIf
    <3> QED  BY <3>1, <3>2, SoundNothing, SoundBoth
  <2> QED  BY <2>1, <2>2
<1>6. SoundFound(If(documented, script))
  BY <1>2, SoundIf
<1>7. SoundFound(If(locked /\ "start_script" \in r /\ ~documented, start))
  BY <1>3, SoundIf
<1>8. SoundFound(Both(If(documented, script),
                      If(locked /\ "start_script" \in r /\ ~documented, start)))
  BY <1>6, <1>7, SoundBoth
<1>9. discover_node(r) =
        Both(Both(If(locked, install), If(made, build)),
             Both(If(documented, script),
                  If(locked /\ "start_script" \in r /\ ~documented, start)))
  BY DEF discover_node
<1> HIDE DEF install, build, script, start, locked, made, documented
<1> QED  BY <1>5, <1>8, <1>9, SoundBoth

LEMMA SoundMake == ASSUME NEW r PROVE SoundFound(discover_make(r))
<1>1. SoundFound(Found({"make_target", "readme_reference"},
             {Candidate("make_target", "run", "system", {"make_target", "readme_reference"})}))
  BY SoundPlain DEF RequiredEvidence
<1> QED  BY <1>1, SoundIf DEF discover_make

LEMMA SoundScripts == ASSUME NEW r PROVE SoundFound(discover_repository_scripts(r))
<1> DEFINE ids == {"repository_script", "readme_reference"}
           python == Found(ids, {Candidate("repository_script", "run", "venv", ids)})
           shell == Found(ids, {Candidate("repository_script", "run", "sh", ids)})
           app == Found({"repository_script"},
                        {Candidate("python_entrypoint", "run", "venv", {"repository_script"})})
<1>1. SoundFound(python)
  BY SoundPlain DEF RequiredEvidence
<1>2. SoundFound(shell)
  BY SoundPlain DEF RequiredEvidence
<1>3. SoundFound(app)
  BY SoundPlain DEF RequiredEvidence
<1>4. discover_repository_scripts(r) =
        Both(Both(If("readme_python_script" \in r, python), If("readme_shell_script" \in r, shell)),
             If("app_py" \in r, app))
  BY DEF discover_repository_scripts
<1> HIDE DEF python, shell, app
<1>5. /\ SoundFound(If("readme_python_script" \in r, python))
      /\ SoundFound(If("readme_shell_script" \in r, shell))
      /\ SoundFound(If("app_py" \in r, app))
  BY <1>1, <1>2, <1>3, SoundIf
<1>6. SoundFound(Both(If("readme_python_script" \in r, python), If("readme_shell_script" \in r, shell)))
  BY <1>5, SoundBoth
<1> QED  BY <1>4, <1>5, <1>6, SoundBoth

LEMMA SoundProcfile == ASSUME NEW r PROVE SoundFound(_procfile_discovery(r))
<1> DEFINE ids == {"procfile_web", "repository_file"}
           c == Candidate("procfile_web", "run", "system", ids)
           arg == IF "procfile_port_variable" \in r THEN "meta" ELSE "plain"
<1>1. SoundCandidate(c, ids)
  BY SoundCommand DEF RequiredEvidence
<1>2. SoundCandidate([c EXCEPT !.arg = arg], ids)
  BY <1>1 DEF SoundCandidate, Candidate
<1>3. SoundFound(Found(ids, {[c EXCEPT !.arg = arg]}))
  BY <1>2, SoundOne
<1> QED  BY <1>3, SoundIf DEF _procfile_discovery

LEMMA SoundServices == ASSUME NEW r PROVE SoundFound(discover_python_services(r))
<1> DEFINE django == Found({"django_manage", "python_dependency"},
                       {Candidate("django_manage", "run",
                                  IF "manage_subdir" \in r THEN "parent_venv" ELSE "venv",
                                  {"django_manage", "python_dependency"})})
           wsgi == Found({"asgi_wsgi_module", "python_dependency"},
                       {Candidate("asgi_wsgi_entrypoint", "run", "venv",
                                  {"asgi_wsgi_module", "python_dependency"})})
<1>1. SoundFound(django)
  BY SoundPlain DEF RequiredEvidence
<1>2. SoundFound(wsgi)
  BY SoundPlain DEF RequiredEvidence
<1>3. discover_python_services(r) =
        Both(Both(If({"manage_py", "django"} \subseteq r, django),
                  If({"wsgi_py", "gunicorn"} \subseteq r, wsgi)),
             Both(_procfile_discovery(r), _dockerfile_discovery(r)))
  BY DEF discover_python_services
<1> HIDE DEF django, wsgi
<1>4. SoundFound(_dockerfile_discovery(r))
  <2>1. SoundFound(Found({"dockerfile_entrypoint", "dockerfile_expose"}, {}))
    BY SoundEvidence
  <2> QED  BY <2>1, SoundIf DEF _dockerfile_discovery
<1>5. SoundFound(If({"manage_py", "django"} \subseteq r, django))
  BY <1>1, SoundIf
<1>6. SoundFound(If({"wsgi_py", "gunicorn"} \subseteq r, wsgi))
  BY <1>2, SoundIf
<1>7. SoundFound(Both(_procfile_discovery(r), _dockerfile_discovery(r)))
  BY <1>4, SoundProcfile, SoundBoth
<1>8. SoundFound(Both(If({"manage_py", "django"} \subseteq r, django),
                      If({"wsgi_py", "gunicorn"} \subseteq r, wsgi)))
  BY <1>5, <1>6, SoundBoth
<1> QED  BY <1>3, <1>7, <1>8, SoundBoth

LEMMA SoundArtifacts ==
    ASSUME NEW r
    PROVE  /\ SoundFound(_artifact_run_candidate(r))
           /\ SoundFound(_binary_run_candidate(r, "go_binary_run", "go_build_artifact"))
           /\ SoundFound(_binary_run_candidate(r, "cargo_binary_run", "cargo_build_artifact"))
<1>1. SoundFound(Found({"jvm_build_artifact"},
                   {Candidate("jvm_artifact_run", "run", "system", {"jvm_build_artifact"})}))
  BY SoundPlain DEF RequiredEvidence
<1>2. SoundFound(Found({"go_build_artifact"},
                   {Candidate("go_binary_run", "run", "artifact", {"go_build_artifact"})}))
  BY SoundPlain DEF RequiredEvidence
<1>3. SoundFound(Found({"cargo_build_artifact"},
                   {Candidate("cargo_binary_run", "run", "artifact", {"cargo_build_artifact"})}))
  BY SoundPlain DEF RequiredEvidence
<1>4. SoundFound(_artifact_run_candidate(r))
  BY <1>1, SoundIf DEF _artifact_run_candidate
<1>5. SoundFound(_binary_run_candidate(r, "go_binary_run", "go_build_artifact"))
  BY <1>2, SoundIf DEF _binary_run_candidate
<1>6. SoundFound(_binary_run_candidate(r, "cargo_binary_run", "cargo_build_artifact"))
  BY <1>3, SoundIf DEF _binary_run_candidate
<1> QED  BY <1>4, <1>5, <1>6

(* Each build tool: evidence alone, or the build and what it has produced. *)
LEMMA SoundBuild ==
    ASSUME NEW condition, NEW complete, NEW partial, NEW build, NEW artifact,
           "wrapper_jar" \notin partial, SoundFound(build), SoundFound(artifact)
    PROVE  SoundFound(If(condition, IF complete THEN Found(partial, {})
                                    ELSE Both(build, artifact)))
<1>1. SoundFound(Found(partial, {}))
  BY SoundEvidence
<1>2. SoundFound(Both(build, artifact))
  BY SoundBoth
<1>3. SoundFound(IF complete THEN Found(partial, {}) ELSE Both(build, artifact))
  BY <1>1, <1>2
<1> QED  BY <1>3, SoundIf

LEMMA SoundMaven == ASSUME NEW r PROVE SoundFound(_maven(r))
<1> DEFINE jar == r \cap {"wrapper_jar"}
           ids == {"jvm_maven_pom", "maven_wrapper"} \cup jar
<1>1. SoundFound(Found({"jvm_maven_pom", "maven_wrapper"},
                       {Candidate("jvm_maven_build", "install", "wrapper", ids)}))
  BY SoundPlain DEF RequiredEvidence
<1>2. "wrapper_jar" \notin {"jvm_maven_pom"}
  OBVIOUS
<1> QED  BY Zenon, <1>1, <1>2, SoundBuild, SoundArtifacts DEF _maven

LEMMA SoundGradle == ASSUME NEW r PROVE SoundFound(_gradle(r))
<1>1. SoundFound(Found({"jvm_gradle_build", "gradle_wrapper"},
                       {Candidate("jvm_gradle_build", "install", "wrapper",
                                  {"jvm_gradle_build", "gradle_wrapper"})}))
  BY SoundPlain DEF RequiredEvidence
<1>2. "wrapper_jar" \notin {"jvm_gradle_build"}
  OBVIOUS
<1> QED  BY Zenon, <1>1, <1>2, SoundBuild, SoundArtifacts DEF _gradle

LEMMA SoundGo == ASSUME NEW r PROVE SoundFound(_go(r))
<1>1. SoundFound(Found({"go_module", "go_lockfile", "go_main_package"},
                       {Candidate("go_build", "install", "system",
                                  {"go_module", "go_lockfile", "go_main_package"})}))
  BY SoundPlain DEF RequiredEvidence
<1>2. "wrapper_jar" \notin {"go_module"} \cup {e \in {"go_lockfile"} : "go_sum" \in r}
  OBVIOUS
<1> QED  BY Zenon, <1>1, <1>2, SoundBuild, SoundArtifacts DEF _go

LEMMA SoundCargo == ASSUME NEW r PROVE SoundFound(_cargo(r))
<1>1. SoundFound(Found({"cargo_manifest", "cargo_lockfile", "cargo_bin_target"},
                       {Candidate("cargo_build", "install", "system",
                                  {"cargo_manifest", "cargo_lockfile", "cargo_bin_target"})}))
  BY SoundPlain DEF RequiredEvidence
<1>2. "wrapper_jar" \notin {"cargo_manifest"} \cup {e \in {"cargo_lockfile"} : "cargo_lock" \in r}
  OBVIOUS
<1> QED  BY Zenon, <1>1, <1>2, SoundBuild, SoundArtifacts DEF _cargo

LEMMA SoundDiscovery == ASSUME NEW r PROVE SoundFound(discover(r))
<1>1. SoundFound(discover_python_cli(r))
  BY SoundScript, SoundBoth DEF discover_python_cli
<1>2. SoundFound(discover_native_builds(r))
  <2>1. SoundFound(Both(_maven(r), _gradle(r)))
    BY SoundMaven, SoundGradle, SoundBoth
  <2>2. SoundFound(Both(_go(r), _cargo(r)))
    BY SoundGo, SoundCargo, SoundBoth
  <2> QED  BY <2>1, <2>2, SoundBoth DEF discover_native_builds
<1>3. SoundFound(Both(discover_python_cli(r), discover_node(r)))
  BY <1>1, SoundNode, SoundBoth
<1>4. SoundFound(Both(discover_make(r), discover_repository_scripts(r)))
  BY SoundMake, SoundScripts, SoundBoth
<1>5. SoundFound(Both(discover_python_services(r), discover_native_builds(r)))
  BY <1>2, SoundServices, SoundBoth
<1>6. SoundFound(Both(Both(discover_python_cli(r), discover_node(r)),
                      Both(discover_make(r), discover_repository_scripts(r))))
  BY <1>3, <1>4, SoundBoth
<1> QED  BY <1>5, <1>6, SoundBoth DEF discover

(* A sound candidate of unchanged files, with its environment and approval,*)
(* is refused for the reasons named and no other.                          *)
LEMMA SoundIsAuthorizable ==
    ASSUME NEW found, NEW c \in found.candidates, SoundFound(found)
    PROVE  (authorize(c, found, TRUE, EnvOf(c), [granted |-> {c}, execution_count |-> 0])
                = "auto_allowed") <=> ~NeverAuthorized(c)
<1> DEFINE types == {TypeOfEvidence(e) : e \in c.ids}
           given == [granted |-> {c}, execution_count |-> 0]
<1>0. SoundCandidate(c, found.evidence) /\ "wrapper_jar" \notin found.evidence
  BY DEF SoundFound
<1>1. ~_evidence_reason(c, types)
  <2>1. c.kind # "llm_candidate_request"
    BY <1>0 DEF SoundCandidate, RequiredEvidence
  <2>2. ASSUME NEW e \in RequiredEvidence[c.kind] PROVE e \in types
    <3>1. e \in c.ids /\ e # "wrapper_jar"
      BY <1>0, <2>2 DEF SoundCandidate
    <3>2. TypeOfEvidence(e) = e
      BY <3>1 DEF TypeOfEvidence
    <3> QED  BY <3>1, <3>2
  <2> HIDE DEF types
  <2> QED  BY <2>1, <2>2 DEF _evidence_reason
<1>2. approval_valid(given, c)
  BY DEF approval_valid
<1>3. hard_deny_reason(c) <=> c.exe = "parent_venv" \/ c.arg = "meta"
  BY <1>0 DEF hard_deny_reason, SoundCandidate
<1>4. c.ids # {} /\ (c.ids \subseteq found.evidence <=> "wrapper_jar" \notin c.ids)
  BY <1>0 DEF SoundCandidate
<1>5. /\ EnvOf(c).require
      /\ resolve(c, EnvOf(c)) <=> /\ c.exe \notin {"wrapper", "parent_venv"}
                                  /\ c.phase # "setup"
  BY Zenon, <1>0 DEF resolve, EnvOf, SoundCandidate
<1> HIDE DEF types, given
<1>6. authorize(c, found, TRUE, EnvOf(c), given) = "auto_allowed" <=>
        /\ ~hard_deny_reason(c) /\ c.ids \subseteq found.evidence /\ resolve(c, EnvOf(c))
  <2>1. authorize(c, found, TRUE, EnvOf(c), given) =
            IF hard_deny_reason(c) THEN "hard_denied"
            ELSE IF \/ ~(c.ids # {} /\ c.ids \subseteq found.evidence)
                    \/ ~TRUE
                    \/ _evidence_reason(c, types)
                    \/ EnvOf(c).require /\ ~resolve(c, EnvOf(c))
                 THEN "candidate_rejected"
            ELSE IF c.kind \in ApprovalKinds /\ ~approval_valid(given, c) THEN "approval_required"
            ELSE "auto_allowed"
    BY DEF authorize, types
  <2> QED  BY Zenon, <1>1, <1>2, <1>4, <1>5, <2>1
<1>7. authorize(c, found, TRUE, EnvOf(c), given) = "auto_allowed" <=> ~NeverAuthorized(c)
  BY Zenon, <1>3, <1>4, <1>5, <1>6 DEF NeverAuthorized
<1> QED  BY Zenon, <1>7 DEF given

(* For every repository, whatever facts the adapters find in it: discovery *)
(* and policy agree on which candidates can ever be authorized             *)
(* (command_auth/discovery.py, policy.py).                                 *)
THEOREM DiscoveredAlwaysAuthorizable == Spec => []DiscoveredIsAuthorizable
<1>1. DiscoveredIsAuthorizable
  <2> SUFFICES ASSUME NEW c \in registry.candidates
               PROVE  (authorize(c, registry, TRUE, EnvOf(c), [granted |-> {c}, execution_count |-> 0])
                          = "auto_allowed") <=> ~NeverAuthorized(c)
    BY Zenon DEF DiscoveredIsAuthorizable
  <2>1. SoundFound(registry)
    BY SoundDiscovery DEF registry
  <2> HIDE DEF registry
  <2> QED  BY Zenon, <2>1, SoundIsAuthorizable
<1> QED  BY <1>1, PTL

-----------------------------------------------------------------------------
(* What the runner's selection computes                                    *)

LEMMA LeastMember ==
    ASSUME NEW T \in SUBSET Nat, T # {}
    PROVE  Min(T) \in T
<1> DEFINE R == OpToRel(<, Nat)
<1>1. IsWellFoundedOn(R, Nat)
  BY Zenon, NatLessThanWellFounded
<1>2. \A y, x \in Nat : (<<y, x>> \in R) <=> y < x
  BY DEF OpToRel
<1> HIDE DEF R
<1>3. PICK x \in T : \A y \in T : ~ (<<y, x>> \in R)
  BY Zenon, <1>1, WFMin
<1>4. ASSUME NEW y \in T PROVE x =< y
  <2>1. y \in Nat /\ x \in Nat /\ ~(y < x)
    BY Zenon, <1>2, <1>3
  <2> QED  BY <2>1
<1>5. \E z \in T : \A y \in T : z =< y
  BY <1>4
<1> QED  BY Zenon, <1>5 DEF Min

LEMMA OfTwo ==
    ASSUME NEW a \in Int, NEW b \in Int
    PROVE  /\ Max({a, b}) \in Int /\ Max({a, b}) >= a
           /\ Min({a, b}) \in Int /\ Min({a, b}) <= a
<1>1. \E x \in {a, b} : \A y \in {a, b} : x >= y
  <2>1. CASE a >= b  BY <2>1
  <2>2. CASE ~(a >= b)  BY <2>2
  <2> QED  BY <2>1, <2>2
<1>2. \E x \in {a, b} : \A y \in {a, b} : x =< y
  <2>1. CASE a <= b  BY <2>1
  <2>2. CASE ~(a <= b)  BY <2>2
  <2> QED  BY <2>1, <2>2
<1>3. Max({a, b}) \in {a, b} /\ \A y \in {a, b} : Max({a, b}) >= y
  BY <1>1 DEF Max
<1>4. Min({a, b}) \in {a, b} /\ \A y \in {a, b} : Min({a, b}) =< y
  BY <1>2 DEF Min
<1> QED  BY <1>3, <1>4

(* A finite set is listed by its own members.                              *)
LEMMA ListedRange ==
    ASSUME NEW S, IsFiniteSet(S)
    PROVE  Listed(S) \in Seq(S)
<1>1. Cardinality(S) \in Nat /\ ExistsBijection(1 .. Cardinality(S), S)
  BY FS_CardinalityType
<1>2. Bijection(1 .. Cardinality(S), S) # {}
  BY <1>1 DEF ExistsBijection
<1>3. Listed(S) \in Bijection(1 .. Cardinality(S), S)
  BY <1>2 DEF Listed
<1>4. Listed(S) \in [1 .. Cardinality(S) -> S]
  BY <1>3 DEF Bijection, Injection, Surjection
<1> QED  BY <1>1, <1>4

(* The commands a run chooses from.                                        *)
Commands ==
    {Legacy("python"), Legacy("uvicorn")} \cup {c \in registry.candidates : scope # "none"}

LEMMA CandidatesAreCommands ==
    ASSUME scope \in {"none", "discovery", "contract"}
    PROVE  run_candidates \in Seq(Commands)
<1>1. IsFiniteSet(registry.candidates)
  BY SoundDiscovery DEF registry, SoundFound
<1> HIDE DEF registry
<1>2. CASE scope = "none"
  BY <1>2 DEF run_candidates, Commands
<1>3. CASE scope = "discovery"
  <2> DEFINE S == {c \in registry.candidates : c.phase = "run" /\ c.kind \in ENTRYPOINT_SOURCE_KINDS}
  <2>1. IsFiniteSet(S)
    BY <1>1, FS_Subset
  <2>2. S \subseteq Commands
    BY <1>3 DEF Commands
  <2>3. Listed(S) \in Seq(S)
    BY <2>1, ListedRange
  <2>4. run_candidates = <<Legacy("python")>> \o Listed(S)
    BY <1>3 DEF run_candidates, _merge_entrypoint_candidates
  <2>5. Legacy("python") \in Commands
    BY DEF Commands
  <2> HIDE DEF S
  <2>6. Listed(S) \in Seq(Commands)
    BY <2>2, <2>3
  <2>7. <<Legacy("python")>> \in Seq(Commands)
    BY <2>5
  <2> QED  BY <2>4, <2>6, <2>7
<1>4. CASE scope = "contract"
  <2> DEFINE S == {c \in registry.candidates : c.phase = "run"}
  <2>1. IsFiniteSet(S)
    BY <1>1, FS_Subset
  <2>2. S \subseteq Commands
    BY <1>4 DEF Commands
  <2>3. Listed(S) \in Seq(S)
    BY <2>1, ListedRange
  <2>4. run_candidates = Listed(S) \o <<Legacy("python")>>
    BY <1>4 DEF run_candidates
  <2>5. Legacy("python") \in Commands
    BY DEF Commands
  <2> HIDE DEF S
  <2>6. Listed(S) \in Seq(Commands)
    BY <2>2, <2>3
  <2>7. <<Legacy("python")>> \in Seq(Commands)
    BY <2>5
  <2> QED  BY <2>4, <2>6, <2>7
<1> QED  BY <1>2, <1>3, <1>4

LEMMA CommandKinds ==
    ASSUME NEW c \in Commands, c \notin registry.candidates \/ scope = "none"
    PROVE  c.kind \notin ApprovalKinds
BY DEF Commands, Legacy, ApprovalKinds

-----------------------------------------------------------------------------
(* The inductive invariant                                                 *)

RunFields == DOMAIN Idle
ServiceFields == {"run", "cmd", "port", "backend", "st"}
Sensitive(c) == c.kind \in ApprovalKinds

\* A run that has started a service knows its port, and reports a docker
\* service ready only when the port it listens on is its own.
Served(q) ==
    /\ q.pc \in {"wait", "window", "probe", "browser"} =>
          q.svc \in DOMAIN services /\ services[q.svc].port = q.port
    /\ q.pc \in {"probe", "browser"} /\ q.ready /\ services[q.svc].backend = "docker" =>
          services[q.svc].st \in {"listening", "gone"}

\* What holds of a run between two steps: a command that needs an approval has
\* it, has used it up when it is about to start, and runs nowhere yet.
RunSound(q) ==
    /\ DOMAIN q = RunFields
    /\ q.cands \in Seq(Commands) /\ q.budget \in Nat /\ q.n \in Int
    /\ q.pc = "consume" => q.choice \in approval
    /\ q.pc = "start" /\ Sensitive(q.choice) =>
          /\ q.choice \in approval /\ q.choice \in consumed
          /\ \A s \in DOMAIN services : services[s].cmd # q.choice
    /\ Served(q)

ServiceSound(s) ==
    /\ DOMAIN s = ServiceFields
    /\ s.st \in {"starting", "silent", "listening", "gone"}
    /\ s.backend = "docker" /\ s.st = "silent" => s.port = 0
    /\ Sensitive(s.cmd) => s.cmd \in approval /\ s.cmd \in consumed

\* Two runs about to start the same command that needs an approval.
Rivals(q1, q2) ==
    q1.pc = "start" /\ q2.pc = "start" /\ q1.choice = q2.choice /\ Sensitive(q1.choice)

ServInv ==
    /\ scope \in {"none", "discovery", "contract"}
    /\ DOMAIN p = Runs
    /\ \A r \in Runs : RunSound(p[r])
    /\ services \in Seq(Range(services))
    /\ \A s \in DOMAIN services : ServiceSound(services[s])
    /\ ApprovalOnce
    /\ \A r1, r2 \in Runs : Rivals(p[r1], p[r2]) => r1 = r2

LEMMA RunIdle ==
    /\ RunFields = {"pc", "cands", "budget", "attempted", "n", "choice", "port", "svc", "ready",
                    "seen", "checks", "steps", "by", "status"}
    /\ DOMAIN Idle = RunFields
    /\ Idle.pc = "idle" /\ Idle.cands = <<>> /\ Idle.budget = 0 /\ Idle.n = 0
BY DEF RunFields, Idle

LEMMA SeqOfRange == ASSUME NEW S, NEW s \in Seq(S) PROVE s \in Seq(Range(s))
BY DEF Range

(* Most steps move one run to a place where it is not about to start what  *)
(* needs an approval.                                                      *)
LEMMA MoveKeeps ==
    ASSUME ServInv, NEW r \in Runs, NEW q, p' = [p EXCEPT ![r] = q],
           UNCHANGED <<repo, scope, approval, consumed, services>>,
           RunSound(q), q.pc # "start" \/ ~Sensitive(q.choice)
    PROVE  ServInv'
<1>1. DOMAIN p' = Runs /\ p'[r] = q /\ \A o \in Runs \ {r} : p'[o] = p[o]
  BY DEF ServInv
<1>2. Commands' = Commands
  BY DEF Commands, registry
<1>3. ASSUME NEW o \in Runs PROVE RunSound(p[o])'
  <2>1. RunSound(p'[o])
    BY <1>1 DEF ServInv
  <2> QED  BY <1>2, <2>1 DEF RunSound, Served
<1>4. ASSUME NEW r1 \in Runs, NEW r2 \in Runs, Rivals(p'[r1], p'[r2]) PROVE r1 = r2
  <2>1. r1 # r /\ r2 # r
    BY <1>1, <1>4 DEF Rivals
  <2>2. Rivals(p[r1], p[r2])
    BY <1>1, <1>4, <2>1
  <2> QED  BY <2>2 DEF ServInv
<1>5. (services \in Seq(Range(services)))' /\ (\A s \in DOMAIN services : ServiceSound(services[s]))'
  BY DEF ServInv, ServiceSound, Range
<1>6. ApprovalOnce' /\ (scope \in {"none", "discovery", "contract"})'
  BY DEF ServInv, ApprovalOnce
<1>7. (\A r1, r2 \in Runs : Rivals(p[r1], p[r2]) => r1 = r2)'
  BY <1>4 DEF Rivals, Sensitive
<1> QED  BY <1>1, <1>3, <1>5, <1>6, <1>7 DEF ServInv

LEMMA EndedSound ==
    ASSUME NEW status, NEW by
    PROVE  RunSound(Ended(status, by)) /\ Ended(status, by).pc = "done"
<1> DEFINE q == Ended(status, by)
<1>1. /\ DOMAIN q = RunFields /\ q.pc = "done" /\ q.cands = <<>> /\ q.budget = 0 /\ q.n = 0
  BY RunIdle DEF Ended
<1> HIDE DEF q
<1>2. <<>> \in Seq(Commands)
  OBVIOUS
<1>3. RunSound(q)
  BY <1>1, <1>2 DEF RunSound, Served
<1> QED  BY <1>1, <1>3 DEF q

LEMMA FallbackSound ==
    ASSUME NEW q, RunSound(q)
    PROVE  /\ RunSound(_fallback_after_failure(q))
           /\ _fallback_after_failure(q).pc # "start"
<1> DEFINE same == {i \in DOMAIN q.cands : q.cands[i] = q.choice}
           index == IF same = {} THEN Len(q.cands) ELSE Min(same)
           remaining == SubSeq(q.cands, index + 1, Len(q.cands))
           left == Max({0, q.budget - q.n})
           key == _attempt_key(q.choice, effective_backend(q.choice))
           next == [Idle EXCEPT !.pc = "select", !.cands = remaining, !.budget = left,
                                !.attempted = q.attempted \cup {key}]
<1>1. q.cands \in Seq(Commands) /\ q.budget \in Nat /\ q.n \in Int
  BY DEF RunSound
<1>2. index \in Nat
  <2>1. same \subseteq Nat /\ Len(q.cands) \in Nat
    BY <1>1
  <2> HIDE DEF same
  <2> QED  BY Zenon, <2>1, LeastMember
<1>3. remaining \in Seq(Commands)
  <2> HIDE DEF index
  <2> QED  BY <1>1, <1>2
<1>4. left \in Nat
  <2> DEFINE rest == q.budget - q.n
  <2>1. rest \in Int /\ 0 \in Int
    BY <1>1
  <2> HIDE DEF rest
  <2>2. Max({0, rest}) \in Int /\ Max({0, rest}) >= 0
    BY ONLY <2>1, OfTwo
  <2> QED  BY <2>2 DEF rest
<1>5. RunSound(next) /\ next.pc = "select"
  <2> HIDE DEF remaining, left, key
  <2>1. /\ DOMAIN next = RunFields /\ next.pc = "select" /\ next.cands = remaining
        /\ next.budget = left /\ next.n = 0
    BY RunIdle
  <2> HIDE DEF next
  <2> QED  BY <1>3, <1>4, <2>1 DEF RunSound, Served
<1>6. _fallback_after_failure(q) \in {next, Ended("failed", "none")}
  BY DEF _fallback_after_failure
<1> HIDE DEF next
<1> QED  BY <1>5, <1>6, EndedSound

-----------------------------------------------------------------------------
(* The steps                                                               *)

LEMMA BeginKeeps == ASSUME ServInv, NEW r \in Runs, Begin(r) PROVE ServInv'
<1> DEFINE q == [p[r] EXCEPT !.pc = "select", !.cands = run_candidates,
                             !.budget = max_candidate_attempts]
<1>1. RunSound(p[r]) /\ DOMAIN p[r] = RunFields /\ DOMAIN p = Runs /\ p[r].n \in Int
  BY DEF ServInv, RunSound
<1>2. p' = [p EXCEPT ![r] = q]
  BY Zenon, <1>1, RunIdle DEF Begin
<1>3. /\ DOMAIN q = RunFields /\ q.pc = "select" /\ q.cands = run_candidates
      /\ q.budget = max_candidate_attempts /\ q.n = p[r].n
  BY <1>1, RunIdle
<1> HIDE DEF q
<1>4. run_candidates \in Seq(Commands)
  BY CandidatesAreCommands DEF ServInv
<1>5. RunSound(q)
  BY <1>1, <1>3, <1>4, ServiceBounds DEF RunSound, Served
<1> QED  BY Zenon, <1>2, <1>3, <1>5, MoveKeeps DEF Begin

(* Without a registry every candidate is one of the analyzer's own.        *)
LEMMA FirstSound ==
    ASSUME NEW q, RunSound(q), scope = "none"
    PROVE  LET sel == _first_unattempted_candidate(q)
           IN  sel.n \in Int /\ (sel.choice = None \/ ~Sensitive(sel.choice))
<1> DEFINE open == {i \in DOMAIN q.cands : _attempt_key(q.cands[i], Backend) \notin q.attempted}
<1>1. open \subseteq Nat /\ q.cands \in Seq(Commands)
  BY DEF RunSound
<1>2. /\ _first_unattempted_candidate(q).n = 0
      /\ _first_unattempted_candidate(q).choice = IF open = {} THEN None ELSE q.cands[Min(open)]
  BY DEF _first_unattempted_candidate
<1>3. ASSUME open # {} PROVE ~Sensitive(q.cands[Min(open)])
  <2>1. Min(open) \in open
    BY Zenon, <1>1, <1>3, LeastMember
  <2>2. Min(open) \in DOMAIN q.cands
    BY <2>1
  <2>3. q.cands[Min(open)] \in Commands
    <3> HIDE DEF open
    <3> QED  BY <1>1, <2>2
  <2> QED  BY <2>3, CommandKinds DEF Sensitive
<1> HIDE DEF open
<1> QED  BY <1>2, <1>3

(* With one, what is chosen and needs an approval has it.                  *)
LEMMA AuthorizedSound ==
    ASSUME NEW q, RunSound(q)
    PROVE  LET sel == _select_authorized_candidate(q)
           IN  /\ sel.n \in Int
               /\ sel.choice = None \/ (Sensitive(sel.choice) => sel.choice \in approval)
<1> DEFINE considered == 1 .. Min({Len(q.cands), Max({1, q.budget})})
           isnew(i) == _attempt_key(q.cands[i], Backend) \notin q.attempted
           declared(i) == q.cands[i] \in registry.candidates
           verdict(i) == authorize(q.cands[i], registry, fresh, env, ApprovalSeen(q.cands[i]))
           asked == {i \in considered : isnew(i) /\ declared(i)}
           allowed == {i \in asked : verdict(i) = "auto_allowed"}
           undeclared == {i \in considered : isnew(i) /\ ~declared(i)}
           sel == _select_authorized_candidate(q)
<1>1. q.cands \in Seq(Commands) /\ q.budget \in Nat
  BY DEF RunSound
<1>2. considered \subseteq DOMAIN q.cands /\ considered \subseteq Nat /\ Cardinality(considered) \in Nat
  <2>1. Len(q.cands) \in Nat /\ DOMAIN q.cands = 1 .. Len(q.cands)
    BY <1>1
  <2> DEFINE first == Max({1, q.budget})
             length == Len(q.cands)
             m == Min({length, first})
  <2>2. first \in Int
    <3>1. 1 \in Int /\ q.budget \in Int
      BY <1>1
    <3> QED  BY ONLY <3>1, OfTwo
  <2>3. m \in Int /\ m <= Len(q.cands)
    <3>1. length \in Int
      BY <2>1
    <3> HIDE DEF first, length
    <3>2. m \in Int /\ m <= length
      BY ONLY Zenon, <2>2, <3>1, OfTwo
    <3> QED  BY <3>2 DEF length
  <2> HIDE DEF m
  <2>4. IsFiniteSet(1 .. m)
    BY <2>3, FS_Interval
  <2>5. Cardinality(1 .. m) \in Nat
    BY <2>4, FS_CardinalityType
  <2>6. 1 .. m \subseteq 1 .. Len(q.cands)
    BY <2>1, <2>3
  <2>7. 1 .. m \subseteq Nat
    BY <2>3
  <2> QED  BY Zenon, <2>1, <2>5, <2>6, <2>7 DEF m
<1>3. \/ /\ allowed # {} /\ sel = [choice |-> q.cands[Min(allowed)], n |-> Min(allowed)]
      \/ sel = [n |-> Cardinality(considered), choice |-> None]
      \/ /\ undeclared # {}
         /\ sel = [n |-> Cardinality(considered), choice |-> q.cands[Min(undeclared)]]
  BY Zenon DEF _select_authorized_candidate
<1> HIDE DEF considered, sel
<1>4. ASSUME allowed # {}
      PROVE  /\ Min(allowed) \in Nat
             /\ Sensitive(q.cands[Min(allowed)]) => q.cands[Min(allowed)] \in approval
  <2>1. Min(allowed) \in allowed
    BY <1>2, <1>4, LeastMember
  <2>2. Min(allowed) \in Nat /\ verdict(Min(allowed)) = "auto_allowed"
    BY <1>2, <2>1
  <2> DEFINE c == q.cands[Min(allowed)]
  <2>3. authorize(c, registry, fresh, env, ApprovalSeen(c)) = "auto_allowed"
    BY <2>2
  <2> HIDE DEF c
  <2>4. Sensitive(c) => approval_valid(ApprovalSeen(c), c)
    BY <2>3 DEF authorize, Sensitive
  <2>5. Sensitive(c) => c \in approval
    BY <2>4 DEF approval_valid, ApprovalSeen
  <2> QED  BY <2>2, <2>5 DEF c
<1>5. ASSUME undeclared # {} PROVE ~Sensitive(q.cands[Min(undeclared)])
  <2>1. Min(undeclared) \in undeclared
    BY <1>2, <1>5, LeastMember
  <2>2. Min(undeclared) \in DOMAIN q.cands
    BY <1>2, <2>1
  <2>3. q.cands[Min(undeclared)] \in Commands
    <3> HIDE DEF undeclared
    <3> QED  BY <1>1, <2>2
  <2>4. q.cands[Min(undeclared)] \notin registry.candidates
    BY <2>1
  <2> QED  BY <2>3, <2>4, CommandKinds DEF Sensitive
<1> HIDE DEF allowed, undeclared
<1>6. sel.n \in Int /\ (sel.choice = None \/ (Sensitive(sel.choice) => sel.choice \in approval))
  BY <1>2, <1>3, <1>4, <1>5
<1> QED  BY <1>6 DEF sel

LEMMA SelectKeeps == ASSUME ServInv, NEW r \in Runs, Select(r) PROVE ServInv'
<1> DEFINE sel == IF scope = "none" THEN _first_unattempted_candidate(p[r])
                  ELSE _select_authorized_candidate(p[r])
           place == IF sel.choice.kind \in ApprovalKinds THEN "consume" ELSE "start"
           q == [p[r] EXCEPT !.choice = sel.choice, !.n = sel.n,
                             !.port = _effective_candidate(sel.choice), !.pc = place]
<1>1. RunSound(p[r]) /\ DOMAIN p[r] = RunFields /\ p[r].cands \in Seq(Commands)
      /\ p[r].budget \in Nat
  BY DEF ServInv, RunSound
<1>2. sel.n \in Int /\ (sel.choice = None \/ (Sensitive(sel.choice) => sel.choice \in approval))
  BY <1>1, FirstSound, AuthorizedSound
<1>3. p' = [p EXCEPT ![r] = Ended("failed", "none")]
      \/ (sel.choice # None /\ p' = [p EXCEPT ![r] = q])
  BY Zenon DEF Select
<1>4. CASE p' = [p EXCEPT ![r] = Ended("failed", "none")]
  BY Zenon, <1>4, EndedSound, MoveKeeps DEF Select
<1>5. CASE sel.choice # None /\ p' = [p EXCEPT ![r] = q]
  <2> HIDE DEF sel
  <2>1. /\ DOMAIN q = RunFields /\ q.pc = place /\ q.cands = p[r].cands
        /\ q.budget = p[r].budget /\ q.n = sel.n /\ q.choice = sel.choice
    BY <1>1, RunIdle
  <2> HIDE DEF q
  <2>2. q.pc = "start" => ~Sensitive(q.choice)
    BY <2>1 DEF Sensitive
  <2>3. q.pc = "consume" => q.choice \in approval
    BY <1>2, <1>5, <2>1 DEF Sensitive
  <2>4. RunSound(q)
    BY <1>1, <1>2, <2>1, <2>2, <2>3 DEF RunSound, Served
  <2> QED  BY Zenon, <1>5, <2>2, <2>4, MoveKeeps DEF Select
<1> QED  BY <1>3, <1>4, <1>5

(* The first of two runs that come to the file uses the approval up; the   *)
(* other finds it used.                                                    *)
LEMMA ConsumeKeeps == ASSUME ServInv, NEW r \in Runs, _consume_command_approval(r) PROVE ServInv'
<1>1. /\ RunSound(p[r]) /\ DOMAIN p[r] = RunFields /\ DOMAIN p = Runs
      /\ p[r].pc = "consume" /\ p[r].choice \in approval
  BY DEF ServInv, RunSound, _consume_command_approval
<1>2. CASE p[r].choice \in consumed
  <2>1. consumed' = consumed /\ p' = [p EXCEPT ![r] = _fallback_after_failure(p[r])]
    BY <1>2 DEF _consume_command_approval
  <2> QED  BY Zenon, <1>1, <2>1, FallbackSound, MoveKeeps DEF _consume_command_approval
<1>3. CASE p[r].choice \notin consumed
  <2> DEFINE q == [p[r] EXCEPT !.pc = "start"]
             c == p[r].choice
  <2>1. /\ consumed' = consumed \cup {c} /\ p' = [p EXCEPT ![r] = q]
        /\ UNCHANGED <<repo, scope, approval, services>>
    BY <1>3 DEF _consume_command_approval
  <2>2. DOMAIN p' = Runs /\ p'[r] = q /\ \A o \in Runs \ {r} : p'[o] = p[o]
    BY <1>1, <2>1
  <2>3. /\ DOMAIN q = RunFields /\ q.pc = "start" /\ q.choice = c /\ q.cands = p[r].cands
        /\ q.budget = p[r].budget /\ q.n = p[r].n
    BY <1>1, RunIdle
  <2> HIDE DEF q
  <2>4. Commands' = Commands
    BY <2>1 DEF Commands, registry
  <2>5. ASSUME Sensitive(c)
        PROVE  /\ \A s \in DOMAIN services : services[s].cmd # c
               /\ \A o \in Runs : p[o].pc = "start" => p[o].choice # c
    <3>1. ASSUME NEW s \in DOMAIN services PROVE services[s].cmd # c
      BY <1>3, <2>5 DEF ServInv, ServiceSound
    <3>2. ASSUME NEW o \in Runs, p[o].pc = "start" PROVE p[o].choice # c
      <4>1. RunSound(p[o])
        BY DEF ServInv
      <4> QED  BY <1>3, <2>5, <3>2, <4>1 DEF RunSound
    <3> QED  BY <3>1, <3>2
  <2>6. ASSUME NEW o \in Runs PROVE RunSound(p[o])'
    <3>1. CASE o = r
      <4>1. p'[o] = q
        BY <2>2, <3>1
      <4> QED  BY <1>1, <2>1, <2>3, <2>4, <2>5, <4>1 DEF RunSound, Served, Sensitive
    <3>2. CASE o # r
      <4>1. RunSound(p[o]) /\ p'[o] = p[o]
        BY <2>2, <3>2 DEF ServInv
      <4> QED  BY <2>1, <2>4, <4>1 DEF RunSound, Served
    <3> QED  BY <3>1, <3>2
  <2>7. ASSUME NEW r1 \in Runs, NEW r2 \in Runs, Rivals(p'[r1], p'[r2]) PROVE r1 = r2
    <3>1. CASE r1 = r \/ r2 = r
      BY <2>2, <2>3, <2>5, <2>7, <3>1 DEF Rivals
    <3>2. CASE r1 # r /\ r2 # r
      <4>1. Rivals(p[r1], p[r2])
        BY <2>2, <2>7, <3>2
      <4> QED  BY <4>1 DEF ServInv
    <3> QED  BY <3>1, <3>2
  <2>10. (\A r1, r2 \in Runs : Rivals(p[r1], p[r2]) => r1 = r2)'
    BY <2>7 DEF Rivals, Sensitive
  <2>8. (services \in Seq(Range(services)))' /\ (\A s \in DOMAIN services : ServiceSound(services[s]))'
    BY <2>1 DEF ServInv, ServiceSound, Range
  <2>9. ApprovalOnce' /\ (scope \in {"none", "discovery", "contract"})'
    BY <2>1 DEF ServInv, ApprovalOnce
  <2> QED  BY <2>2, <2>6, <2>8, <2>9, <2>10 DEF ServInv
<1> QED  BY <1>2, <1>3

(* A process more.                                                         *)
LEMMA StartKeeps == ASSUME ServInv, NEW r \in Runs, Start(r) PROVE ServInv'
<1> DEFINE new == [run |-> r, cmd |-> p[r].choice, port |-> p[r].port,
                   backend |-> effective_backend(p[r].choice),
                   st |-> IF p[r].port = 0 THEN "silent" ELSE "starting"]
           n == Len(services) + 1
           q == [p[r] EXCEPT !.pc = "wait", !.svc = n]
<1>1. /\ RunSound(p[r]) /\ DOMAIN p[r] = RunFields /\ DOMAIN p = Runs
      /\ p[r].pc = "start" /\ services \in Seq(Range(services))
  BY DEF ServInv, RunSound, Start
<1>2. CASE p' = [p EXCEPT ![r] = _fallback_after_failure(p[r])] /\ UNCHANGED services
  BY Zenon, <1>1, <1>2, FallbackSound, MoveKeeps DEF Start
<1>3. CASE services' = Append(services, new) /\ p' = [p EXCEPT ![r].pc = "wait", ![r].svc = n]
  <2>1. p' = [p EXCEPT ![r] = q] /\ UNCHANGED <<repo, scope, approval, consumed>>
    BY Zenon, <1>1, <1>3, RunIdle DEF Start
  <2>2. DOMAIN p' = Runs /\ p'[r] = q /\ \A o \in Runs \ {r} : p'[o] = p[o]
    BY <1>1, <2>1
  <2>3. /\ DOMAIN q = RunFields /\ q.pc = "wait" /\ q.svc = n /\ q.port = p[r].port
        /\ q.ready = p[r].ready
        /\ q.cands = p[r].cands /\ q.budget = p[r].budget /\ q.n = p[r].n
    BY <1>1, RunIdle
  <2> HIDE DEF q
  <2>4. /\ new.cmd = p[r].choice /\ new.port = p[r].port /\ DOMAIN new = ServiceFields
        /\ new.st \in {"starting", "silent"}
        /\ new.st = "silent" => new.port = 0
    BY DEF ServiceFields
  <2> HIDE DEF new
  <2>5. /\ n \in Nat /\ DOMAIN services' = 1 .. n /\ services'[n] = new
        /\ \A s \in DOMAIN services : s \in DOMAIN services' /\ services'[s] = services[s]
        /\ \A s \in DOMAIN services' : s = n \/ s \in DOMAIN services
        /\ n \in DOMAIN services' /\ n \notin DOMAIN services
    BY <1>1, <1>3
  <2>6. services' \in Seq(Range(services'))
    <3>1. services' \in Seq(Range(services) \cup {new})
      BY <1>1, <1>3
    <3> QED  BY <3>1, SeqOfRange
  <2> HIDE DEF n
  <2>7. Commands' = Commands
    BY <2>1 DEF Commands, registry
  <2>8. Sensitive(new.cmd) =>
          /\ new.cmd \in approval /\ new.cmd \in consumed
          /\ \A s \in DOMAIN services : services[s].cmd # new.cmd
    BY <1>1, <2>4 DEF RunSound
  <2>9. ASSUME NEW s \in DOMAIN services' PROVE ServiceSound(services[s])'
    <3>1. CASE s = n
      <4>1. services'[s] = new
        BY <2>5, <3>1
      <4> QED  BY <2>1, <2>4, <2>8, <4>1 DEF ServiceSound, Sensitive
    <3>2. CASE s \in DOMAIN services
      <4>1. ServiceSound(services[s]) /\ services'[s] = services[s]
        BY <2>5, <3>2 DEF ServInv
      <4> QED  BY <2>1, <4>1 DEF ServiceSound, Sensitive
    <3> QED  BY <2>5, <3>1, <3>2
  <2>10. ApprovalOnce'
    <3> SUFFICES ASSUME NEW s \in DOMAIN services', NEW t \in DOMAIN services',
                        Sensitive(services'[s].cmd)
                 PROVE  /\ services'[s].cmd \in approval
                        /\ services'[t].cmd = services'[s].cmd => s = t
      BY <2>1 DEF ApprovalOnce, Sensitive
    <3>1. CASE s \in DOMAIN services /\ t \in DOMAIN services
      BY <2>5, <3>1 DEF ServInv, ApprovalOnce, Sensitive
    <3>2. CASE s = n
      BY <2>5, <2>8, <3>2
    <3>3. CASE s \in DOMAIN services /\ t = n
      <4>1. services'[s].cmd \in approval
        BY <2>5, <3>3 DEF ServInv, ApprovalOnce, Sensitive
      <4> QED  BY <2>5, <2>8, <3>3, <4>1
    <3> QED  BY <2>5, <3>1, <3>2, <3>3
  <2>11. ASSUME NEW o \in Runs PROVE RunSound(p[o])'
    <3>1. CASE o = r
      <4>1. p'[o] = q
        BY <2>2, <3>1
      <4> QED  BY SMTT(30), <1>1, <2>1, <2>3, <2>4, <2>5, <2>7, <4>1 DEF RunSound, Served
    <3>2. CASE o # r
      <4>1. RunSound(p[o]) /\ p'[o] = p[o]
        BY <2>2, <3>2 DEF ServInv
      <4>2. p[o].pc = "start" /\ Sensitive(p[o].choice) => p[o].choice # new.cmd
        <5>1. Rivals(p[r], p[o]) => r = o
          BY DEF ServInv
        <5> QED  BY <1>1, <2>4, <3>2, <5>1 DEF Rivals
      <4>3. p[o].pc = "start" /\ Sensitive(p[o].choice) =>
              \A s \in DOMAIN services' : services'[s].cmd # p[o].choice
        BY <2>5, <4>1, <4>2 DEF RunSound
      <4>4. Served(p[o]) => Served(p[o])'
        BY <2>5, <4>1 DEF Served
      <4> QED  BY <2>1, <2>7, <4>1, <4>3, <4>4 DEF RunSound, Sensitive
    <3> QED  BY <3>1, <3>2
  <2>12. (\A r1, r2 \in Runs : Rivals(p[r1], p[r2]) => r1 = r2)'
    <3>1. ASSUME NEW r1 \in Runs, NEW r2 \in Runs, Rivals(p'[r1], p'[r2]) PROVE r1 = r2
      <4>1. r1 # r /\ r2 # r
        BY <2>2, <2>3, <3>1 DEF Rivals
      <4>2. Rivals(p[r1], p[r2])
        BY <2>2, <3>1, <4>1
      <4> QED  BY <4>2 DEF ServInv
    <3> QED  BY <3>1 DEF Rivals, Sensitive
  <2>13. (scope \in {"none", "discovery", "contract"})'
    BY <2>1 DEF ServInv
  <2> QED  BY <2>2, <2>6, <2>9, <2>10, <2>11, <2>12, <2>13 DEF ServInv
<1> QED  BY <1>2, <1>3 DEF Start

LEMMA WaitKeeps == ASSUME ServInv, NEW r \in Runs, WaitForPort(r) PROVE ServInv'
<1> DEFINE window == [p[r] EXCEPT !.pc = "window"]
           report == Reported(p[r], FALSE)
<1>1. RunSound(p[r]) /\ DOMAIN p[r] = RunFields /\ p[r].pc = "wait"
  BY DEF ServInv, RunSound, WaitForPort
<1>2. /\ DOMAIN window = RunFields /\ window.pc = "window" /\ window.cands = p[r].cands
      /\ window.budget = p[r].budget /\ window.n = p[r].n /\ window.svc = p[r].svc
      /\ window.port = p[r].port
  BY <1>1, RunIdle
<1>3. /\ DOMAIN report = RunFields /\ report.pc = "probe" /\ report.cands = <<>>
      /\ report.budget = 0 /\ report.n = 0 /\ report.svc = p[r].svc
      /\ report.port = p[r].port /\ report.ready = FALSE
  BY RunIdle DEF Reported
<1>4. p' \in {[p EXCEPT ![r] = _fallback_after_failure(p[r])], [p EXCEPT ![r] = window],
              [p EXCEPT ![r] = report]}
  BY Zenon DEF WaitForPort
<1> HIDE DEF window, report
<1>5. RunSound(window)
  BY <1>1, <1>2 DEF RunSound, Served
<1>6. RunSound(report)
  <2>1. <<>> \in Seq(Commands)
    OBVIOUS
  <2> QED  BY <1>1, <1>3, <2>1 DEF RunSound, Served
<1> QED  BY Zenon, <1>1, <1>2, <1>3, <1>4, <1>5, <1>6, FallbackSound, MoveKeeps DEF WaitForPort

(* Docker has bound the port by now, so an open port is the service's own. *)
LEMMA WindowKeeps == ASSUME ServInv, NEW r \in Runs, SurvivalWindow(r) PROVE ServInv'
<1> DEFINE ready == is_port_open(p[r].port)
           report == Reported(p[r], ready)
           s == services[p[r].svc]
<1>1. RunSound(p[r]) /\ DOMAIN p[r] = RunFields /\ p[r].pc = "window"
  BY DEF ServInv, RunSound, SurvivalWindow
<1>2. \/ p' = [p EXCEPT ![r] = _fallback_after_failure(p[r])]
      \/ s.st # "gone" /\ p' = [p EXCEPT ![r] = report]
  BY Zenon DEF SurvivalWindow
<1>3. CASE p' = [p EXCEPT ![r] = _fallback_after_failure(p[r])]
  BY Zenon, <1>1, <1>3, FallbackSound, MoveKeeps DEF SurvivalWindow
<1>4. CASE s.st # "gone" /\ p' = [p EXCEPT ![r] = report]
  <2>1. p[r].svc \in DOMAIN services /\ s.port = p[r].port /\ ServiceSound(s)
    BY <1>1 DEF ServInv, RunSound, Served
  <2>2. ready /\ s.backend = "docker" => s.st = "listening"
    <3>1. s.backend = "docker" => s.st # "starting"
      BY DEF SurvivalWindow
    <3>2. ready => p[r].port # 0
      BY DEF is_port_open
    <3> HIDE DEF ready, s
    <3> QED  BY <1>4, <2>1, <3>1, <3>2 DEF ServiceSound
  <2> HIDE DEF ready
  <2>3. /\ DOMAIN report = RunFields /\ report.pc = "probe" /\ report.cands = <<>>
        /\ report.budget = 0 /\ report.n = 0 /\ report.svc = p[r].svc
        /\ report.port = p[r].port /\ report.ready = ready
    BY RunIdle DEF Reported
  <2> HIDE DEF report
  <2>4. <<>> \in Seq(Commands)
    OBVIOUS
  <2>5. RunSound(report)
    BY <1>1, <2>1, <2>2, <2>3, <2>4 DEF RunSound, Served
  <2> QED  BY Zenon, <1>4, <2>3, <2>5, MoveKeeps DEF SurvivalWindow
<1> QED  BY <1>2, <1>3, <1>4

(* Verification: a run that goes on knows its service as before.           *)
LEMMA CheckedSound ==
    ASSUME NEW q, RunSound(q), NEW a, a.pc \in {"browser", "hint", "agent"}, DOMAIN a = RunFields,
           a.cands = q.cands, a.budget = q.budget, a.n = q.n, a.svc = q.svc, a.port = q.port,
           a.ready = q.ready, a.pc = "browser" => q.pc = "probe"
    PROVE  RunSound(a) /\ a.pc # "start"
BY DEF RunSound, Served

LEMMA VerifyKeeps ==
    ASSUME ServInv, NEW r \in Runs, NEW q, DOMAIN q = RunFields, NEW checks, NEW by,
           NEW next \in {"browser", "hint", "agent"}, next = "browser" => p[r].pc = "probe",
           q.cands = p[r].cands, q.budget = p[r].budget, q.n = p[r].n, q.svc = p[r].svc,
           q.port = p[r].port, q.ready = p[r].ready,
           p' = [p EXCEPT ![r] = Checked(q, checks, by, next)],
           UNCHANGED <<repo, scope, approval, consumed, services>>
    PROVE  ServInv'
<1> DEFINE a == [q EXCEPT !.checks = checks, !.pc = next]
<1>1. /\ DOMAIN a = RunFields /\ a.pc = next /\ a.cands = q.cands /\ a.budget = q.budget
      /\ a.n = q.n /\ a.svc = q.svc /\ a.port = q.port /\ a.ready = q.ready
  BY RunIdle
<1>2. Checked(q, checks, by, next) \in {Ended("passed", by), a}
  BY DEF Checked
<1> HIDE DEF a
<1>3. RunSound(p[r])
  BY DEF ServInv
<1>4. RunSound(a) /\ a.pc # "start"
  BY <1>1, <1>3, CheckedSound
<1> QED  BY ZenonT(30), <1>2, <1>4, EndedSound, MoveKeeps

LEMMA VerificationKeeps ==
    ASSUME ServInv, NEW r \in Runs,
           Probe(r) \/ _execute_browser_probe(r) \/ _plan_and_execute_verify_hint(r) \/ act_verify(r)
    PROVE  ServInv'
<1>1. DOMAIN p[r] = RunFields /\ RunSound(p[r])
  BY SMTT(30) DEF ServInv, RunSound
<1>2. CASE Probe(r)
  <2> DEFINE q == [p[r] EXCEPT !.seen = p[r].ready \/ is_port_open(p[r].port)]
  <2>1. PICK checks, by : p' = [p EXCEPT ![r] = Checked(q, checks, by, "browser")]
    BY Zenon, <1>2 DEF Probe
  <2>2. /\ DOMAIN q = RunFields /\ q.cands = p[r].cands /\ q.budget = p[r].budget
        /\ q.n = p[r].n /\ q.svc = p[r].svc /\ q.port = p[r].port /\ q.ready = p[r].ready
    BY <1>1, RunIdle
  <2>3. p[r].pc = "probe" /\ UNCHANGED <<repo, scope, approval, consumed, services>>
    BY <1>2 DEF Probe
  <2> HIDE DEF q
  <2> QED  BY Zenon, <2>1, <2>2, <2>3, VerifyKeeps
<1>3. CASE _execute_browser_probe(r)
  <2>1. PICK checks : p' = [p EXCEPT ![r] = Checked(p[r], checks, "answer", "hint")]
    BY Zenon, <1>3 DEF _execute_browser_probe
  <2>2. UNCHANGED <<repo, scope, approval, consumed, services>>
    BY <1>3 DEF _execute_browser_probe
  <2> QED  BY Zenon, <1>1, <2>1, <2>2, VerifyKeeps
<1>4. CASE _plan_and_execute_verify_hint(r)
  <2>1. PICK checks : p' = [p EXCEPT ![r] = Checked(p[r], checks, "hint", "agent")]
    BY Zenon, <1>4 DEF _plan_and_execute_verify_hint
  <2>2. UNCHANGED <<repo, scope, approval, consumed, services>>
    BY <1>4 DEF _plan_and_execute_verify_hint
  <2> QED  BY Zenon, <1>1, <2>1, <2>2, VerifyKeeps
<1>5. CASE act_verify(r)
  <2> DEFINE a == [p[r] EXCEPT !.steps = @ + 1]
  <2>1. p' \in {[p EXCEPT ![r] = Ended("uncertain", "none")],
                [p EXCEPT ![r] = Ended("passed", "agent")], [p EXCEPT ![r] = a]}
    BY Zenon, <1>5 DEF act_verify
  <2>2. p[r].pc = "agent" /\ UNCHANGED <<repo, scope, approval, consumed, services>>
    BY <1>5 DEF act_verify
  <2>3. /\ DOMAIN a = RunFields /\ a.pc = p[r].pc /\ a.cands = p[r].cands
        /\ a.budget = p[r].budget /\ a.n = p[r].n /\ a.svc = p[r].svc /\ a.port = p[r].port
        /\ a.ready = p[r].ready
    BY <1>1, RunIdle
  <2> HIDE DEF a
  <2>4. RunSound(a) /\ a.pc # "start"
    BY <1>1, <2>2, <2>3, CheckedSound
  <2> QED  BY <2>1, <2>2, <2>4, EndedSound, MoveKeeps
<1> QED  BY <1>2, <1>3, <1>4, <1>5

(* A service that binds its port or ends: the other services and all runs  *)
(* are as before.                                                          *)
LEMMA HostKeeps ==
    ASSUME ServInv, NEW s \in DOMAIN services, NEW st,
           services' = [services EXCEPT ![s].st = st],
           UNCHANGED <<repo, scope, approval, consumed, p>>,
           \/ services[s].st = "starting" /\ st \in {"listening", "gone"}
           \/ services[s].st = "starting" /\ services[s].backend # "docker" /\ st = "silent"
           \/ st = "gone"
    PROVE  ServInv'
<1> DEFINE new == [services[s] EXCEPT !.st = st]
<1>1. ServiceSound(services[s]) /\ services \in Seq(Range(services))
  BY DEF ServInv
<1>2. /\ DOMAIN new = ServiceFields /\ new.st = st /\ new.cmd = services[s].cmd
      /\ new.port = services[s].port /\ new.backend = services[s].backend
  BY <1>1 DEF ServiceSound, ServiceFields
<1>3. /\ DOMAIN services' = DOMAIN services /\ services'[s] = new
      /\ \A t \in DOMAIN services : t # s => services'[t] = services[t]
  OBVIOUS
<1> HIDE DEF new
<1>4. services' \in Seq(Range(services'))
  <2>1. services' = [services EXCEPT ![s] = new]
    BY DEF new
  <2>2. services' \in Seq(Range(services) \cup {new})
    BY <1>1, <2>1
  <2> QED  BY Zenon, <2>2, SeqOfRange
<1>5. ASSUME NEW t \in DOMAIN services' PROVE ServiceSound(services[t])'
  <2>1. CASE t = s
    <3>1. services'[t] = new
      BY <1>3, <2>1
    <3> QED  BY <1>1, <1>2, <3>1 DEF ServiceSound, Sensitive
  <2>2. CASE t # s
    <3>1. ServiceSound(services[t]) /\ services'[t] = services[t]
      BY <1>3, <2>2 DEF ServInv
    <3> QED  BY <3>1 DEF ServiceSound, Sensitive
  <2> QED  BY <2>1, <2>2
<1>6. \A t \in DOMAIN services :
        /\ services'[t].cmd = services[t].cmd /\ services'[t].port = services[t].port
        /\ services'[t].backend = services[t].backend
        /\ services[t].st \in {"listening", "gone"} => services'[t].st \in {"listening", "gone"}
  BY <1>2, <1>3
<1>7. ApprovalOnce'
  BY <1>3, <1>6 DEF ServInv, ApprovalOnce
<1>8. ASSUME NEW o \in Runs PROVE RunSound(p[o])'
  <2>1. RunSound(p[o])
    BY DEF ServInv
  <2>2. Commands' = Commands
    BY DEF Commands, registry
  <2> QED  BY <1>3, <1>6, <2>1, <2>2 DEF RunSound, Served, Sensitive
<1>9. (\A r1, r2 \in Runs : Rivals(p[r1], p[r2]) => r1 = r2)'
  BY DEF ServInv, Rivals, Sensitive
<1> QED  BY Zenon, <1>4, <1>5, <1>7, <1>8, <1>9 DEF ServInv

LEMMA ServInit == ASSUME Init PROVE ServInv
<1>1. scope \in {"none", "discovery", "contract"}
  BY ServiceBounds DEF Init
<1>2. <<>> \in Seq(Commands)
  OBVIOUS
<1>3. RunSound(Idle) /\ Idle.pc = "idle"
  BY <1>2, RunIdle DEF RunSound, Served
<1>4. services = <<>> /\ p = [r \in Runs |-> Idle]
  BY DEF Init
<1>5. services \in Seq(Range(services)) /\ DOMAIN services = {}
  BY <1>4
<1> QED  BY <1>1, <1>3, <1>4, <1>5 DEF ServInv, ApprovalOnce, Rivals

LEMMA ServInvHolds == Spec => []ServInv
<1>1. ASSUME ServInv, [Next]_vars PROVE ServInv'
  <2>1. CASE UNCHANGED vars
    <3>1. Commands' = Commands
      BY <2>1 DEF vars, Commands, registry
    <3>2. \A r \in Runs : RunSound(p[r])'
      BY <1>1, <2>1, <3>1 DEF vars, ServInv, RunSound, Served, Sensitive
    <3> QED  BY <1>1, <2>1, <3>2 DEF vars, ServInv, ServiceSound, ApprovalOnce, Rivals, Sensitive, Range
  <2>2. ASSUME NEW r \in Runs, RunStep(r) PROVE ServInv'
    BY <1>1, <2>2, BeginKeeps, SelectKeeps, ConsumeKeeps, StartKeeps, WaitKeeps, WindowKeeps,
       VerificationKeeps DEF RunStep
  <2>3. ASSUME NEW r \in Runs, Crash(r) PROVE ServInv'
    BY Zenon, <1>1, <2>3, EndedSound, MoveKeeps DEF Crash
  <2>4. ASSUME NEW s \in DOMAIN services, Bind(s) PROVE ServInv'
    <3>1. PICK st : /\ services' = [services EXCEPT ![s].st = st]
                    /\ \/ st \in {"listening", "gone"}
                       \/ services[s].backend # "docker" /\ st = "silent"
      BY Zenon, <2>4 DEF Bind
    <3>2. services[s].st = "starting" /\ UNCHANGED <<repo, scope, approval, consumed, p>>
      BY <2>4 DEF Bind
    <3> QED  BY Zenon, <1>1, <3>1, <3>2, HostKeeps
  <2>5. ASSUME NEW s \in DOMAIN services, Exit(s) PROVE ServInv'
    BY Zenon, <1>1, <2>5, HostKeeps DEF Exit
  <2>6. ASSUME RepositoryChanges PROVE ServInv'
    <3>1. UNCHANGED <<repo, scope, approval, consumed, services, p>>
      BY <2>6 DEF RepositoryChanges
    <3>2. Commands' = Commands
      BY <3>1 DEF Commands, registry
    <3>3. \A r \in Runs : RunSound(p[r])'
      BY <1>1, <3>1, <3>2 DEF ServInv, RunSound, Served, Sensitive
    <3> QED  BY <1>1, <3>1, <3>3 DEF ServInv, ServiceSound, ApprovalOnce, Rivals, Sensitive, Range
  <2> QED  BY <1>1, <2>1, <2>2, <2>3, <2>4, <2>5, <2>6 DEF Next
<1> QED  BY <1>1, ServInit, PTL DEF Spec

(* For any repository, runs and budgets, wherever runs die: a command that *)
(* needs an approval is started at most once, and only with its approval   *)
(* (runner.py: _consume_command_approval).                                 *)
THEOREM ApprovedOnce == Spec => []ApprovalOnce
<1>1. ServInv => ApprovalOnce
  BY DEF ServInv
<1> QED  BY <1>1, ServInvHolds, PTL

(* A docker service that was reported ready and passed by verify's checks  *)
(* answered itself, unless it has ended since (runner.py: the survival     *)
(* window; verify.py).                                                     *)
THEOREM OwnServiceAlwaysAnswers == Spec => OwnServiceAnswers
<1>1. ASSUME ServInv, NEW r \in Runs, p[r].pc \in {"probe", "browser"}, p[r].ready,
             services[p[r].svc].backend = "docker"
      PROVE  p[r].svc \in Listeners(p[r].port) \/ services[p[r].svc].st = "gone"
  BY <1>1 DEF ServInv, RunSound, Served, Listeners
<1>2. ServInv => [\A r \in Runs :
        LET q == p[r] IN
        /\ q.pc \in {"probe", "browser"} /\ p'[r].by = "answer"
        /\ q.ready /\ services[q.svc].backend = "docker"
        => q.svc \in Listeners(q.port) \/ services[q.svc].st = "gone"]_vars
  BY <1>1
<1> QED  BY <1>2, ServInvHolds, PTL DEF OwnServiceAnswers

=============================================================================
