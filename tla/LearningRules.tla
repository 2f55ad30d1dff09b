---------------------------- MODULE LearningRules ----------------------------
(***************************************************************************)
(* The pure rules of the memory and skill packages: what a deployment run  *)
(* leaves in the issue memory, which entries may teach, which skill and    *)
(* which regression cases a lesson is bound to, what the curator's answer  *)
(* must satisfy, and how a candidate is judged against a finished run.     *)
(***************************************************************************)
EXTENDS Integers, Sequences, FiniteSets, Functions

\* memory/lifecycle.py: the moves a candidate may make.
ALLOWED_TRANSITIONS ==
  [proposed          |-> {"approved", "rejected"},
   approved          |-> {"regression_passed", "regression_failed", "rejected"},
   regression_failed |-> {"approved", "regression_passed", "rejected"},
   regression_passed |-> {"shadow_passed", "shadow_failed", "active", "rejected"},
   shadow_failed     |-> {"regression_passed", "rejected"},
   shadow_passed     |-> {"shadow_failed", "active", "rejected"},
   active            |-> {"rolled_back"},
   rejected          |-> {},
   rolled_back       |-> {}]

-----------------------------------------------------------------------------
(* What a run leaves in memory.  A report is what the finished run knows of *)
(* itself: the key (stage, category, frameworks) of its failure, whether    *)
(* the final verify passed with a trace, and what its repair did.           *)

\* An action counts only if it was executed with exit code 0, or is a tool
\* result with a strong verification; metadata_only actions do not.
_effective_repair(rep) == rep.actions \cap {"executed", "strong"} # {}

\* The early returns of record_if_verified, in order.
RecordsSuccess(rep) ==
  /\ rep.verify = "passed" /\ rep.trace
  /\ rep.repair = "applied"
  /\ rep.repair_verified # "no"
  /\ _effective_repair(rep)
  /\ ~rep.high_risk

SuccessEntry(run, rep) ==
  [id |-> <<"success", run>>, run |-> run, key |-> rep.key, verified_success |-> TRUE, trace |-> TRUE,
   repair_hash |-> TRUE, high_risk |-> FALSE, repair_action_status |-> "executed",
   metadata_only |-> FALSE, suggested |-> "clean", regression |-> "passed"]

\* remember_issue: the failure of a stage; the id is the signature of the
\* stage, the category, the frameworks and the symptom, so one entry per key.
IssueEntry(run, rep) ==
  [id |-> <<"issue", rep.key>>, run |-> run, key |-> rep.key, verified_success |-> FALSE, trace |-> FALSE,
   repair_hash |-> FALSE, high_risk |-> FALSE, repair_action_status |-> "",
   metadata_only |-> FALSE, suggested |-> "clean", regression |-> ""]

_has_entry(entries, id) == \E i \in DOMAIN entries : entries[i].id = id
Remember_Again(entries, e) == Append(entries, e)
Remember(entries, e) == IF _has_entry(entries, e.id) THEN entries ELSE Append(entries, e)

-----------------------------------------------------------------------------
(* The quality gate and the clusters of a proposal.                         *)

classify(e) ==
  IF \/ ~e.verified_success \/ ~e.trace \/ ~e.repair_hash \/ e.high_risk
     \/ e.repair_action_status \notin {"", "executed", "success", "passed", "succeeded"}
     \/ e.metadata_only \/ e.suggested # "clean" \/ e.regression = "failed"
  THEN [level |-> IF e.verified_success THEN "diagnosed_issue" ELSE "raw_issue", eligible |-> FALSE]
  ELSE [level |-> IF e.regression = "passed" THEN "regression_proven" ELSE "verified_resolution",
        eligible |-> TRUE]

filter_verified(entries) == SelectSeq(entries, LAMBDA e : classify(e).eligible)

\* The memory ids of the cluster of one key, in file order.
_clusters(entries, key) ==
  LET own == SelectSeq(entries, LAMBDA e : e.key = key)
  IN  [i \in DOMAIN own |-> own[i].id]

_target_skill(key) ==
  IF key.stage = "verify" THEN "verify-evidence"
  ELSE IF key.stage \in {"resource_plan", "model_prepare"} \/ key.category = "model" THEN "prepare-model-assets"
  ELSE IF key.stage = "env_solve" \/ key.category = "dependency" THEN "solve-python-cuda-env"
  ELSE IF key.stage \in {"env_deploy", "runner"} THEN "deploy-python-webui"
  ELSE "diagnose-runtime-failure"

_regression_binding(key) ==
  (IF key.stage = "verify" /\ "gradio" \in key.frameworks
     THEN {"gradio_config_discovery", "gradio_api_shape_variation"} ELSE {})
  \cup (IF key.stage = "verify" /\ "streamlit" \in key.frameworks THEN {"streamlit_error_page"} ELSE {})
  \cup (IF key.stage \in {"resource_plan", "model_prepare"} \/ key.category = "model"
          THEN {"model_download_resume", "cache_hit"} ELSE {})
  \cup (IF key.stage = "env_solve" \/ key.category = "dependency"
          THEN {"env_solve_legacy_gradio_constraints"} ELSE {})

-----------------------------------------------------------------------------
(* The curator's answer.  A draft is [shape, markdown, tools, rule]: whether *)
(* the text parses to a complete object, the first reason its markdown would *)
(* be refused, the tools its rule recommends, and whether the rule itself    *)
(* recommends something harmful (neither validator reads the rule).          *)

parse_response(d) == d.shape \in {"json", "fenced"}
_validate_candidate(d) == d.markdown \notin {"secret", "path", "http_200", "privilege"}
validate(d) == d.markdown \notin {"empty", "long", "secret", "path", "http_200", "privilege", "deletes"}
curate(d) == parse_response(d) /\ _validate_candidate(d)

-----------------------------------------------------------------------------
(* Judging a candidate against a finished run.                              *)

\* The context is the run's agent_verify_result, which carries neither a
\* stage nor frameworks: any run that has one matches a non-empty pattern.
_check_match(rep) == rep.agent # "none"

\* The result carries no trace_id either, so only a strong verification does.
_has_evidence_trace_support(rep) == rep.agent = "passed" /\ rep.llm_helped /\ rep.strong

\* Only records with a tool_name and a status of their own are read.  The
\* harness's step writer nests both (decision, execution): "nested" records
\* name no tool; "flat" ones are what tests/test_skill_shadow.py writes.
_extract_successful_tools(rep) == IF rep.steps = "flat" THEN rep.tools ELSE {}

WouldHarm(d, rep) == _check_match(rep) /\ d.rule = "harmful"
evaluate_run(d, rep) ==
  LET overlap == _check_match(rep) /\ d.tools \cap _extract_successful_tools(rep) # {}
      harm    == WouldHarm(d, rep)
  IN  [help |-> overlap /\ (harm \/ _has_evidence_trace_support(rep)), harm |-> harm]
=============================================================================
