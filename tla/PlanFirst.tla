----------------------------- MODULE PlanFirst -----------------------------
(***************************************************************************)
(* The plan-first loop (PlanFirstDeploymentLoop) of one task.  A run takes *)
(* a snapshot, lets the model observe the repository for a bounded number  *)
(* of rounds, gates and compiles its plan, executes the stages, and lets   *)
(* the model revise the plan while they fail and the budgets last.  Runs   *)
(* follow one another on the files of the task: the observation ledger and *)
(* the request for an approval that an operator has answered.  Meanwhile   *)
(* the repository may change, by an edit or by what an install builds.     *)
(***************************************************************************)
EXTENDS PlanPolicy

CONSTANTS Facts,          \* what the discovery adapters find in the repository
          Plans,          \* the texts a model returns
          Requests,       \* the sequences of files a model asks to read
          Categories,     \* the failure categories
          Configs,        \* agent_repo_context_mode and dry_run of a run
          max_replans,    \* agent_plan_first_max_replans
          max_rounds,     \* agent_repo_max_observation_rounds
          max_tokens,     \* agent_repo_observation_budget_tokens
          max_files,      \* agent_repo_max_observed_files
          MaxRuns, MaxEdits

ASSUME PlanBounds == {max_replans, max_rounds, max_tokens, max_files, MaxRuns, MaxEdits} \subseteq Nat

VARIABLES
    repo,      \* the facts, the fingerprint of the tree and the digest of each file
    ledger,    \* observation_ledger.jsonl
    operator,  \* the command asked about in plan_first_result.json, and the answers
    executed,  \* the commands that need an approval and were run for real
    p          \* the process and the locals of run

vars == <<repo, ledger, operator, executed, p>>

EXECUTION_STAGES == <<"analyze", "resource_plan", "host_preflight", "env_solve", "env_deploy",
                      "model_prepare", "runner", "verify">>
At(stage) == CHOOSE i \in DOMAIN EXECUTION_STAGES : EXECUTION_STAGES[i] = stage

\* The results of one execution: the first stage that failed or is uncertain, the
\* revision that started the runner (-1: none) and whether it names a process.
NoResults == [failed |-> "", runner |-> -1, pid |-> FALSE, verify |-> ""]

NoText == [status |-> "none", cites |-> {}, install |-> {}, envsel |-> {}, run |-> <<>>,
           runsel |-> <<>>, requests |-> <<>>, verify |-> "", assets |-> {}, clean |-> TRUE]

\* What the parser returns: the sections of a plan, its run candidates as lists.
ASSUME PlanTexts ==
    \A t \in Plans : /\ DOMAIN t = DOMAIN NoText
                      /\ t.run \in Seq(Range(t.run)) /\ t.runsel \in Seq(Range(t.runsel))

NoApproval == [granted |-> {}, execution_count |-> 0]
NoBudget == [rounds |-> 0, tokens |-> 0, files |-> 0]

Idle == [pc |-> "idle", run |-> 0, dry |-> TRUE, phase |-> "plan", snapshot |-> <<>>,
    budget |-> NoBudget, round |-> 0, approval |-> NoApproval, excluded |-> {},
    text |-> NoText, plan |-> NoText, policy |-> Rejected, stage |-> 1, results |-> NoResults,
    used |-> [runner |-> 0, verify |-> 0], signatures |-> <<>>, signature |-> <<>>,
    seen |-> {}, replans |-> 0, revision |-> 0, stop_reason |-> ""]

Init ==
    /\ repo = [facts |-> Facts, stamp |-> 0, digest |-> [f \in Files |-> 0]]
    /\ ledger = {} /\ executed = {}
    /\ operator = [request |-> {}, granted |-> {}, rejected |-> {}]
    /\ p = Idle

-----------------------------------------------------------------------------
(* Planning with observations                                              *)

Tokens(entries) == MapThenSumSet(LAMBDA e : e.tokens, entries)
Passed(entries) == {e \in entries : e.status = "passed"}
Rounds(entries) == Max({e.round : e \in entries} \cup {0})
Left(limit, used) == Max({0, limit - used})

\* The budget left at the head of _plan_with_observations: whatever the ledger
\* holds counts, whichever run and fingerprint it is from.
ObservationBudgetLeft(entries) ==
    [rounds |-> Left(max_rounds, Rounds(entries)),
     tokens |-> Left(max_tokens, Tokens(entries)),
     files |-> Left(max_files, Cardinality({e.path : e \in Passed(entries)}))]

Planning(q, entries, of_phase) ==
    [q EXCEPT !.pc = "turn", !.phase = of_phase, !.budget = ObservationBudgetLeft(entries),
              !.round = Rounds(entries)]

\* _legacy_command_approval and the head of run.  An operator answers the request
\* of the run before; a plain rerun answers nothing.
Start(mode, dry, answer) ==
    /\ p.pc = "idle" /\ p.run < MaxRuns
    /\ answer # "none" => operator.request # {}
    /\ LET granted == IF answer = "approve" THEN operator.request ELSE {}
           rejected == IF answer = "reject" THEN operator.request ELSE {}
       IN /\ operator' = [operator EXCEPT !.granted = @ \cup granted, !.rejected = @ \cup rejected]
          /\ p' = Planning([Idle EXCEPT !.run = p.run + 1, !.dry = dry,
                               !.snapshot = snapshot_of(repo, mode),
                               !.approval.granted = granted, !.excluded = rejected], ledger, "plan")
    /\ UNCHANGED <<repo, ledger, executed>>

Cost(path) == IF path = "large" THEN 2 ELSE 1

Entry(path, status, tokens) ==
    [path |-> path, status |-> status, tokens |-> tokens, round |-> p.round + 1,
     stamp |-> p.snapshot.stamp, sha |-> IF status = "passed" THEN repo.digest[path] ELSE -1]

\* One request of a round: refused by the policy, answered from an earlier record
\* of this fingerprint, refused by the budget, or read and charged.
Observe(acc, path) ==
    LET log(status, tokens) == acc.ledger \cup {Entry(path, status, tokens)} IN
    IF path \notin Files THEN [acc EXCEPT !.ledger = log("rejected", 0)]
    ELSE IF \E e \in Passed(acc.ledger) : e.path = path /\ e.stamp = p.snapshot.stamp
    THEN [acc EXCEPT !.ledger = log("cache_hit", 0)]
    ELSE IF acc.tokens < Cost(path) \/ acc.files < 1
    THEN [acc EXCEPT !.ledger = log("rejected", 0)]
    ELSE [ledger |-> log("passed", Cost(path)), tokens |-> acc.tokens - Cost(path),
          files |-> acc.files - 1]

\* The round, under the smaller of the budget it was handed and what the records
\* of this fingerprint have left of it.
execute_round(requests) ==
    LET same == {e \in Passed(ledger) : e.stamp = p.snapshot.stamp}
        before == [ledger |-> ledger,
                   tokens |-> Min({p.budget.tokens, Left(max_tokens, Tokens(same))}),
                   files |-> Min({p.budget.files,
                                  Left(max_files, Cardinality({e.path : e \in same}))})]
    IN MapThenFoldSet(LAMBDA path, acc : Observe(acc, path), before,
                      LAMBDA i : requests[i], Max, DOMAIN requests)

\* The run ends; its results, and a request for an approval, are written.
Ended(q, reason, request) ==
    /\ p' = [Idle EXCEPT !.run = q.run, !.stop_reason = reason,
                !.results = q.results, !.revision = q.revision]
    /\ operator' = [operator EXCEPT !.request = request]

\* An exception leaves run: nothing is written.
Raise == p' = [Idle EXCEPT !.run = p.run, !.stop_reason = "raised"] /\ UNCHANGED operator

\* parse: a plan that does not parse gets one repair round before the first
\* execution and none afterwards; a plan that is not ok ends the run.
Parse(text) ==
    LET initial == p.phase = "plan" IN
    IF ~parses(text)
    THEN IF initial THEN p' = [p EXCEPT !.pc = "repair"] /\ UNCHANGED operator
         ELSE Ended(p, "replan_parse_failed", {})
    ELSE IF text.status # "ok"
    THEN Ended(p, IF initial THEN "plan_not_ok" ELSE "replan_not_ok", {})
    ELSE p' = [p EXCEPT !.pc = "gate", !.text = text] /\ UNCHANGED operator

\* One turn of the planner.  The tree is scanned first; in eager mode there is
\* one call and nothing to observe.
FinalTurn(text) ==
    /\ p.pc = "turn" /\ UNCHANGED <<repo, ledger, executed>>
    /\ IF p.snapshot.mode = "layered"
       THEN IF repo.stamp # p.snapshot.stamp THEN Raise
            ELSE Parse([text EXCEPT !.cites = enrich_plan_grounding(@, p.snapshot, ledger)])
       ELSE Parse(text)

ObserveTurn(requests) ==
    /\ p.pc = "turn" /\ p.snapshot.mode = "layered" /\ UNCHANGED <<repo, executed>>
    /\ IF repo.stamp # p.snapshot.stamp \/ p.budget.rounds = 0
       THEN Raise /\ UNCHANGED ledger
       ELSE LET after == execute_round(requests)
            IN /\ ledger' = after.ledger
               /\ p' = [p EXCEPT !.round = @ + 1,
                           !.budget = [rounds |-> Left(max_rounds, p.round + 1),
                                       tokens |-> after.tokens, files |-> after.files]]
               /\ UNCHANGED operator

\* The provider fails, or its turn is no turn.
FailedTurn == p.pc = "turn" /\ Raise /\ UNCHANGED <<repo, ledger, executed>>

\* The repair round: one plain call of the planner, outside the observation
\* protocol, so its citations carry the digests the model was shown or none.
ParseRepair(text) ==
    /\ p.pc = "repair" /\ UNCHANGED <<repo, ledger, executed>>
    /\ IF parses(text) /\ text.status = "ok"
       THEN p' = [p EXCEPT !.pc = "gate", !.text = text] /\ UNCHANGED operator
       ELSE Ended(p, "plan_not_ok", {})

-----------------------------------------------------------------------------
(* The policy gate                                                         *)

\* Fault: the results of the execution before are kept.
Execution_Keeps(q, policy, stage) ==
    [q EXCEPT !.pc = "stage", !.plan = q.text, !.text = NoText, !.policy = policy,
              !.stage = At(stage), !.results.failed = "", !.results.verify = "",
              !.revision = @ + 1,
              !.approval = NoApproval, !.excluded = {}, !.budget = NoBudget, !.round = 0]

\* _execute_stages begins with no results, from the given stage on.  What only
\* the gate has used is dropped.
Execution(q, policy, stage) ==
    [q EXCEPT !.pc = "stage", !.plan = q.text, !.text = NoText, !.policy = policy,
              !.stage = At(stage), !.results = NoResults, !.revision = @ + 1,
              !.approval = NoApproval, !.excluded = {}, !.budget = NoBudget, !.round = 0]

\* Fault: the preview of a dry run is taken in every run.
Previewed_Always(policy) ==
    IF policy.status = "approval_required" /\ policy.preview # <<>>
    THEN [policy EXCEPT !.run = policy.preview, !.status = "accepted_dry_run", !.allowed = TRUE]
    ELSE policy

\* A dry run goes on with the candidates that would need an approval.
Previewed(policy) ==
    IF p.dry /\ policy.status = "approval_required" /\ policy.preview # <<>>
    THEN [policy EXCEPT !.run = policy.preview, !.status = "accepted_dry_run", !.allowed = TRUE]
    ELSE policy

\* The gate before the first execution.
GatePlan ==
    /\ p.pc = "gate" /\ p.phase = "plan" /\ UNCHANGED <<repo, ledger, executed>>
    /\ LET verdict == validate(p.text, p.snapshot, ledger, repo, p.approval, p.excluded)
           policy == Previewed(verdict)
       IN IF verdict.raises THEN Raise
          ELSE IF policy.allowed
          THEN p' = Execution(p, policy, "analyze") /\ UNCHANGED operator
          ELSE \E c \in IF policy.status = "approval_required" THEN policy.request ELSE {<<>>} :
                  Ended(p, IF policy.status = "approval_required" THEN "approval_required"
                           ELSE "policy_rejected",
                        IF policy.status = "approval_required" THEN {c} ELSE {})

\* The gate of a revised plan: no approval and no rejection of an operator is
\* passed to it, and a decision already tried by a revision ends the run.
GateReplan ==
    /\ p.pc = "gate" /\ p.phase = "replan" /\ UNCHANGED <<repo, ledger, executed>>
    /\ LET policy == validate(p.text, p.snapshot, ledger, repo, NoApproval, {})
           hash == _plan_decision_hash(p.text, policy)
           resume == _determine_resume_stage(p.plan, p.text)
       IN IF ~policy.allowed THEN Ended(p, "replan_policy_rejected", {})
          ELSE IF hash \in p.seen THEN Ended(p, "replan_no_material_change", {})
          ELSE p' = [Execution(p, policy, resume) EXCEPT !.seen = @ \cup {hash}]
               /\ UNCHANGED operator

-----------------------------------------------------------------------------
(* _execute_stages                                                         *)

Stage == EXECUTION_STAGES[p.stage]

\* The next stage, or the end of the execution after a stage other than verify
\* that failed.
After(q, status) ==
    LET noted == IF status \in {"failed", "uncertain"} /\ q.results.failed = ""
                 THEN [q EXCEPT !.results.failed = Stage] ELSE q
    IN IF Stage = "verify" \/ status = "failed" THEN [noted EXCEPT !.pc = "decide"]
       ELSE [noted EXCEPT !.stage = @ + 1]

_execute_plain(status) ==
    /\ p.pc = "stage" /\ UNCHANGED <<repo, ledger, operator, executed>>
    /\ CASE Stage = "analyze" -> status \in {"passed", "failed"}
         [] Stage = "host_preflight" -> status = "skipped"
         [] Stage = "resource_plan" -> status \in {"passed", "uncertain"}
         [] Stage = "env_solve" -> status \in {"passed", "uncertain", "failed"}
         [] Stage = "model_prepare" -> status = "passed"
         [] OTHER -> FALSE
    /\ p' = After(p, status)

Sensitive(commands) == {c \in commands : c.kind \in ApprovalKinds}

\* env_deploy executes the install commands unless the run is dry; a build leaves
\* its output in the tree.
_execute_env_deploy(status) ==
    /\ p.pc = "stage" /\ Stage = "env_deploy" /\ UNCHANGED <<ledger, operator>>
    /\ LET real == IF p.dry THEN {} ELSE compile(p.policy).install
           built == {c \in real : c.kind = "source_build"}
       IN /\ executed' = executed \cup Sensitive(real)
          /\ repo' = IF built # {} /\ "frontend_output" \notin repo.facts
                     THEN [repo EXCEPT !.facts = @ \cup {"frontend_output"}, !.stamp = @ + 1]
                     ELSE repo
    /\ status \in IF compile(p.policy).install = {} THEN {"uncertain"}
                  ELSE IF p.dry THEN {"passed"} ELSE {"passed", "failed"}
    /\ p' = After(p, status)

\* runner starts a candidate unless the run is dry, and names its process.
_execute_runner(status, pid) ==
    /\ p.pc = "stage" /\ Stage = "runner" /\ UNCHANGED <<repo, ledger, operator>>
    /\ IF p.dry THEN status = "passed" /\ ~pid
       ELSE status \in {"passed", "failed"} /\ (pid <=> status = "passed")
    /\ executed' = executed \cup IF p.dry THEN {} ELSE Sensitive(Range(compile(p.policy).run))
    /\ p' = After([p EXCEPT !.results.runner = p.revision, !.results.pid = pid], status)

\* verify gets the runner's data of this execution, and passes only with a process.
_execute_verify(status) ==
    /\ p.pc = "stage" /\ Stage = "verify" /\ UNCHANGED <<repo, ledger, operator, executed>>
    /\ status \in {"uncertain"} \cup IF p.results.pid THEN {"passed"} ELSE {}
    /\ p' = After([p EXCEPT !.results.verify = status], status)

-----------------------------------------------------------------------------
(* The replan loop                                                         *)

Count(x, s) == Cardinality({i \in DOMAIN s : s[i] = x})
replan_budget == 2

\* The end of an execution: the counters of the replan that led to it, then the
\* question whether to replan, with the failure's category.
Decide(category) ==
    /\ p.pc = "decide" /\ UNCHANGED <<repo, ledger, executed>>
    /\ LET q == IF p.phase = "plan" THEN p
                ELSE [p EXCEPT !.replans = @ + 1, !.signatures = Append(@, p.signature[1]),
                         !.used[p.signature[2]] = @ + 1, !.signature = <<>>]
           failed == q.results.failed
           key == IF failed = "verify" THEN "verify" ELSE "runner"
           signature == <<failed, category>>
       IN IF q.results.verify = "passed" THEN Ended(q, "verify_passed", {})
          ELSE IF q.replans >= max_replans \/ failed = "" THEN Ended(q, "verify_failed", {})
          ELSE IF Count(signature, q.signatures) >= 2
          THEN Ended(q, "same_failure_signature_budget_exhausted", {})
          ELSE IF q.used[key] >= replan_budget THEN Ended(q, "replan_budget_exhausted", {})
          ELSE /\ p' = Planning([q EXCEPT !.signature = <<signature, key>>], ledger, "replan")
               /\ UNCHANGED operator
-----------------------------------------------------------------------------
\* A file of the repository is edited between any two steps.
Edit(f) ==
    /\ repo.stamp < MaxEdits
    /\ repo' = [repo EXCEPT !.stamp = @ + 1, !.digest[f] = repo.stamp + 1]
    /\ UNCHANGED <<ledger, operator, executed, p>>

Loop ==
    \/ \E text \in Plans : FinalTurn(text) \/ ParseRepair(text)
    \/ \E requests \in Requests : ObserveTurn(requests)
    \/ FailedTurn \/ GatePlan \/ GateReplan
    \/ \E status \in {"passed", "uncertain", "failed", "skipped"} :
          \/ _execute_plain(status) \/ _execute_env_deploy(status) \/ _execute_verify(status)
          \/ \E pid \in BOOLEAN : _execute_runner(status, pid)
    \/ \E category \in Categories : Decide(category)

Next ==
    \/ \E config \in Configs, answer \in {"none", "approve", "reject"} :
          Start(config.mode, config.dry, answer)
    \/ Loop
    \/ \E f \in Files : Edit(f)

Spec == Init /\ [][Next]_vars

-----------------------------------------------------------------------------
(* Properties                                                              *)

\* A command that needs an approval is executed only when an operator has given
\* it, whatever the later revisions of the plan and the dry runs before; one that
\* was rejected and never granted is not executed.
OperatorDecides ==
    executed \subseteq operator.granted

\* A run that reports verify_passed has verified the service that its last
\* revision started: a revision that resumes at verify cannot pass on the service
\* of an earlier one (_determine_resume_stage).
PassIsOfLastRevision ==
    p.stop_reason = "verify_passed" => p.results.pid /\ p.results.runner = p.revision

=============================================================================
