----------------------------- MODULE PlanPolicy -----------------------------
(***************************************************************************)
(* What stands between the text a model returns and the stages that deploy *)
(* it: the project snapshot, the plan parser, the policy gate and the      *)
(* compiler of plan-first deployment, as operators.                        *)
(*                                                                         *)
(* A plan keeps what the gate tells apart: its status, the files it cites, *)
(* its install commands, its run candidates, the candidates it selects by  *)
(* id or requests, its verify request, and whether its text is clean.      *)
(***************************************************************************)
EXTENDS CommandAuth, FiniteSetsExt

CONSTANT Files       \* the readable files of the repository; "README" is always read

\* A command as a plan writes it: the command of the registry it denotes, written
\* exactly as the registry has it or as the documentation does.
Command(form, c) == [form |-> form, c |-> c]

-----------------------------------------------------------------------------
(* ProjectSnapshotBuilder                                                  *)

\* The initializer of a declared console script, when the README documents a
\* form of it that asks nothing.
_documented_setup_commands(facts) ==
    LET setup == {c \in discover(facts).candidates : c.phase = "setup" /\ c.kind = "pep621_script"}
    IN IF setup # {} /\ "noninteractive" \in facts
       THEN <<Command("documented", CHOOSE c \in setup : TRUE)>> ELSE <<>>

\* A front end with a lockfile, whose build the repository itself documents and
\* whose output is missing: its frozen install and its build.
_source_build_commands(facts) ==
    IF /\ {"package_json", "lockfile"} \subseteq facts /\ "frontend_output" \notin facts
       /\ {"make_build_frontend", "readme_console_build"} \cap facts # {}
    THEN <<Command("documented", Candidate("node_install", "install", "system",
                                           {"package_manifest", "lockfile"})),
           Command("exact", Candidate("source_build", "install", "system",
                                      {"package_json_script", "lockfile", "make_reference"}))>>
    ELSE <<>>

\* The snapshot: the repository's fingerprint and digests as they are now, the
\* commands discovered in it, and the signals the gate uses.
snapshot_of(tree, mode) ==
    [mode |-> mode, stamp |-> tree.stamp, digest |-> tree.digest,
     registry |-> discover(tree.facts),
     setup |-> _documented_setup_commands(tree.facts),
     builds |-> _source_build_commands(tree.facts)]

-----------------------------------------------------------------------------
(* DeploymentPlanParser                                                    *)

\* The text parses: a known status and, when it is ok, the sections that must
\* not be empty.
parses(text) ==
    /\ text.status # "garbled"
    /\ text.status = "ok" => /\ text.cites # {}
                             /\ text.install # {} \/ text.envsel # {}
                             /\ text.run # <<>> \/ text.runsel # <<>>

-----------------------------------------------------------------------------
(* Grounding                                                               *)

\* enrich_plan_grounding: a cited file that was observed gets the digest of the
\* observation with the most lines, the first of equals: the core evidence of
\* the snapshot, else the earliest passed record of the ledger.
enrich_plan_grounding(cites, snapshot, observed) ==
    LET read(f) == {e \in observed : e.path = f /\ e.status = "passed"}
        sha(f) == IF f = "README" THEN snapshot.digest[f]
                  ELSE IF read(f) # {}
                  THEN (CHOOSE e \in read(f) : \A d \in read(f) : e.stamp <= d.stamp).sha
                  ELSE -1
    IN {[file |-> g.file, sha |-> IF sha(g.file) = -1 THEN g.sha ELSE sha(g.file)] : g \in cites}

\* The observations the gate accepts as proof.
_grounding_observations(snapshot, observed) ==
    {[file |-> "README", sha |-> snapshot.digest["README"]]}
        \cup {[file |-> e.path, sha |-> e.sha] : e \in {x \in observed : x.status = "passed"}}

\* Every cited file is in the tree; in layered mode it was observed, and its
\* content still has the digest it was observed with.
_validate_grounding(plan, snapshot, observed, tree) ==
    \A g \in plan.cites :
        /\ g.file \in Files
        /\ snapshot.mode = "layered" =>
              /\ g \in _grounding_observations(snapshot, observed)
              /\ g.sha = tree.digest[g.file]

-----------------------------------------------------------------------------
(* PlanPolicyGate                                                          *)

\* The public name of a PEP 621 script becomes the environment's own.
_normalize_declared_console_script(cmd) ==
    IF cmd.form = "documented" /\ cmd.c.kind = "pep621_script" THEN Command("exact", cmd.c) ELSE cmd

\* The registry's candidate for a command: its own form, or the documented form
\* of a frozen install, a Make target, a package script or a repository script.
_registry_candidate_for_command(registry, cmd) ==
    {c \in registry.candidates :
        /\ c = cmd.c
        /\ \/ cmd.form = "exact"
           \/ c.kind = "node_install"
              /\ Cardinality({d \in registry.candidates : d.kind = "node_install"}) = 1
           \/ c.kind \in {"make_target", "package_json_script", "repository_script"}}

\* A command that is not of the registry: an allowed program and no shell.
_validate_command(cmd) ==
    cmd.form = "exact" /\ cmd.c.arg = "plain" /\ cmd.c.exe \in {"venv", "system"}
        /\ cmd.c.kind # "make_target"

_looks_repository_command(cmd) == cmd.c.kind # "package"

\* The gate does not resolve executables: the environment is not built yet.
Unresolved == [require |-> FALSE, marker |-> FALSE, built |-> FALSE]

Authorized(c, at) == authorize(c, at.registry, at.fresh, Unresolved, at.approval)

\* The verdict on an install command; declared: it must be of the registry when
\* it looks like a command of the repository.
InstallVerdict(raw, at, declared) ==
    LET cmd == _normalize_declared_console_script(raw)
        found == _registry_candidate_for_command(at.registry, cmd)
    IN IF found # {} THEN Authorized(cmd.c, at)
       ELSE IF _validate_command(cmd) /\ ~(declared /\ _looks_repository_command(cmd))
       THEN "auto_allowed" ELSE "candidate_rejected"

\* The verdict on a run candidate: only a command of the registry, and none that
\* the operator has rejected.
RunVerdict(raw, at) ==
    LET cmd == _normalize_declared_console_script(raw) IN
    IF _registry_candidate_for_command(at.registry, cmd) = {} \/ cmd.c \in at.excluded
    THEN "candidate_rejected" ELSE Authorized(cmd.c, at)

MAX_CANDIDATE_REQUESTS_PER_ROUND == 2

\* Requested commands join a copy of the registry when nothing denies them and
\* the evidence they name exists and is unchanged.
_register_candidate_requests(plan, registry, fresh) ==
    LET kept == SubSeq(plan.requests, 1, Min({Len(plan.requests), MAX_CANDIDATE_REQUESTS_PER_ROUND}))
        ok(c) == ~hard_deny_reason(c) /\ c.ids \subseteq registry.evidence /\ fresh
    IN [registry |-> [registry EXCEPT !.candidates = @ \cup {c \in Range(kept) : ok(c)}],
        rejected |-> kept # plan.requests \/ \E c \in Range(kept) : ~ok(c)]

_validate_verify(plan) == plan.verify # "weak"
_check_text(plan) == plan.clean

Rejected == [status |-> "rejected", allowed |-> FALSE, install |-> {}, run |-> <<>>,
             preview |-> <<>>, request |-> {}, raises |-> FALSE, verify |-> ""]

\* The install section: the plan's commands, or the environment it selects, then
\* the documented initializer and the source builds it has left out.
Installs(plan, snapshot, at) ==
    LET own == IF plan.install # {} THEN plan.install
               ELSE {Command("exact", c) : c \in {d \in plan.envsel :
                        d \in at.registry.candidates /\ d.phase \in {"install", "setup"}}}
        more == Range(snapshot.setup) \cup Range(snapshot.builds)
        verdict(cmd) == InstallVerdict(cmd, at, cmd \in own)
        With(v) == {cmd \in own \cup more : verdict(cmd) = v}
    IN [safe |-> {cmd.c : cmd \in With("auto_allowed")},
        approval |-> {cmd.c : cmd \in With("approval_required")},
        critical |-> \E cmd \in own : verdict(cmd) \notin {"auto_allowed", "approval_required"},
        rejected |-> \/ plan.install = {} /\ own = {}
                     \/ \E cmd \in more : verdict(cmd) \notin {"auto_allowed", "approval_required"}]

\* The members of a list at some of its positions, in their order.
Kept(s, positions) ==
    LET kept[i \in 0 .. Len(s)] ==
            IF i = 0 THEN <<>>
            ELSE IF i \in positions THEN Append(kept[i - 1], s[i]) ELSE kept[i - 1]
    IN kept[Len(s)]

\* The run section: the plan's candidates, then the one it selects by id.
RunCandidates(plan, at) ==
    LET chosen == Kept(plan.runsel, {i \in DOMAIN plan.runsel :
                           /\ plan.runsel[i] \in at.registry.candidates
                           /\ plan.runsel[i].phase = "run"})
        all == plan.run \o [i \in DOMAIN chosen |-> Command("exact", chosen[i])]
        With(v) == Kept(all, {i \in DOMAIN all : RunVerdict(all[i], at) = v})
        commands(s) == [i \in DOMAIN s |-> s[i].c]
    IN [safe |-> commands(With("auto_allowed")),
        approval |-> commands(With("approval_required")),
        rejected |-> \E cmd \in Range(all) : RunVerdict(cmd, at) \notin
                                               {"auto_allowed", "approval_required"},
        unknown |-> Len(chosen) < Len(plan.runsel)]

\* The overall status, in the order of the code: what needs an approval, then an
\* unblemished plan, then a critical rejection or a plan without a safe candidate.
PolicyStatus(install, runnable, verified, critical, rejected) ==
    IF (install.approval # {} \/ (runnable.safe = <<>> /\ runnable.approval # <<>>)) /\ verified
    THEN "approval_required"
    ELSE IF ~critical /\ ~rejected THEN "accepted"
    ELSE IF critical \/ runnable.safe = <<>> \/ ~verified THEN "rejected"
    ELSE "partially_accepted"

\* validate: the sections, the status and, when an approval is required, the
\* candidate that is proposed about.  When the operator has rejected every one of
\* them the selection is empty and the gate raises.
validate(plan, snapshot, observed, tree, approval, excluded) ==
    LET fresh == tree.digest["README"] = snapshot.digest["README"]
        proposed == _register_candidate_requests(plan, snapshot.registry, fresh)
        at == [registry |-> proposed.registry, fresh |-> fresh, approval |-> approval,
               excluded |-> excluded]
        install == Installs(plan, snapshot, at)
        runnable == RunCandidates(plan, at)
        verified == _validate_verify(plan)
        critical == \/ install.critical \/ ~verified \/ ~_check_text(plan)
                    \/ ~_validate_grounding(plan, snapshot, observed, tree)
                    \/ runnable.rejected /\ runnable.safe = <<>>
        status == PolicyStatus(install, runnable, verified, critical,
                      proposed.rejected \/ install.rejected \/ runnable.rejected \/ runnable.unknown)
        selectable == (install.approval \cup IF runnable.safe = <<>> THEN Range(runnable.approval) ELSE {})
                         \ excluded
    IN IF status = "rejected" THEN Rejected
       ELSE [status |-> status, allowed |-> status # "approval_required",
             install |-> install.safe, run |-> runnable.safe, preview |-> runnable.approval,
             request |-> IF status = "approval_required" THEN selectable ELSE {},
             raises |-> status = "approval_required" /\ selectable = {}, verify |-> plan.verify]

-----------------------------------------------------------------------------
(* DeploymentPlanCompiler and the loop's helpers                           *)

\* compile: what the stages get.  The selected candidate is the first safe one.
compile(policy) == [install |-> policy.install, run |-> policy.run]

\* _plan_decision_hash: what makes two accepted plans the same decision.
_plan_decision_hash(plan, policy) ==
    <<policy.install, policy.run, plan.envsel, plan.runsel, policy.verify>>

\* The stage a revised plan resumes from: the first section that differs.
_determine_resume_stage(old, new) ==
    IF old.install # new.install THEN "env_deploy"
    ELSE IF old.assets # new.assets THEN "model_prepare"
    ELSE IF old.run # new.run THEN "runner"
    ELSE IF old.verify # new.verify THEN "verify"
    ELSE "runner"

=============================================================================
