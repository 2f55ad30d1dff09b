---------------------------- MODULE DecisionGate ----------------------------
(***************************************************************************)
(* The decision gate of the agent runtime: which tool call of a model      *)
(* passes from the reply of the provider to a state change.  A call is its *)
(* tool and the class of its input: "ok", "bad" (the tool's own rule       *)
(* refuses it) or "secret" (a field or value that looks like a credential).*)
(* The gate's loop over steps is in AgentLoop, one action per model call.  *)
(***************************************************************************)
EXTENDS Naturals, Sequences

PIPELINE_STAGES == <<"analyze", "resource_plan", "host_preflight", "env_solve",
    "env_deploy", "model_prepare", "runner", "verify", "report">>

RUNNER_TOOLS == {"select_runner_candidate", "add_runner_candidate", "reject_runner_candidate"}
ENV_TOOLS == {"inspect_env_log", "propose_dependency_constraint",
    "apply_dependency_constraint", "select_environment_backend", "select_torch_variant"}
MODEL_TOOLS == {"select_model_source", "select_model_asset_strategy", "download_model_asset",
    "link_cached_model_asset", "inspect_model_config", "inspect_git_lfs_pointers"}
REPAIR_TOOLS == {"inspect_log", "classify_failure", "apply_dependency_constraint",
    "apply_repair", "resume_from_stage", "verify_after_repair"}
PLAN_TOOLS == {"set_deployment_strategy", "set_stage_hint"}
VERIFY_TOOLS == {"probe_http", "discover_gradio_api", "discover_openapi_schema",
    "discover_openai_compatible_model", "probe_browser_dom"}

STAGE_TOOLS == [analyze |-> PLAN_TOOLS, resource_plan |-> PLAN_TOOLS, host_preflight |-> {},
    env_solve |-> ENV_TOOLS, env_deploy |-> ENV_TOOLS, model_prepare |-> MODEL_TOOLS,
    runner |-> RUNNER_TOOLS, verify |-> VERIFY_TOOLS, report |-> {}, repair |-> REPAIR_TOOLS]

NoCall == [tool |-> "", input |-> "ok"]

(* What a provider call can end in: an exception, a text that is not a     *)
(* decision, a refusal to act, or a tool call.                             *)
Replies(tools) ==
    [kind: {"exception", "garbled", "no_action"}, call: {NoCall}]
        \cup [kind: {"call"}, call: [tool: tools, input: {"ok", "bad", "secret"}]]

Decision(status, call) == [status |-> status, call |-> call]

parse_gate_decision(reply, allowed_tools) ==
    CASE reply.kind = "no_action" -> Decision("no_action", NoCall)
      [] reply.kind = "call" /\ reply.call.tool \in allowed_tools -> Decision("ok", reply.call)
      [] OTHER -> Decision("invalid", NoCall)

(* _governed_complete raises what the call executor raises; every planner  *)
(* turns that into an invalid decision.                                    *)
GovernedPlan(reply, allowed_tools) ==
    IF reply.kind = "exception" THEN Decision("invalid", NoCall)
    ELSE parse_gate_decision(reply, allowed_tools)

RunnerPlanner(reply) == GovernedPlan(reply, RUNNER_TOOLS)
EnvPlanner(reply) == GovernedPlan(reply, ENV_TOOLS)
ModelPlanner(reply) == GovernedPlan(reply, MODEL_TOOLS)
RepairActuatorPlanner(reply) == GovernedPlan(reply, REPAIR_TOOLS)
VerifyPlanner(reply) == GovernedPlan(reply, VERIFY_TOOLS)

(* The stages without a planner of their own get one that never acts.      *)
Planned(stage, reply) ==
    CASE stage = "runner" -> RunnerPlanner(reply)
      [] stage = "env_solve" -> EnvPlanner(reply)
      [] stage = "model_prepare" -> ModelPlanner(reply)
      [] stage = "repair" -> RepairActuatorPlanner(reply)
      [] stage = "verify" -> VerifyPlanner(reply)
      [] OTHER -> Decision("no_action", NoCall)

(* GateCritic.evaluate; the stages outside its table accept every tool.    *)
CriticStages == {"runner", "env_solve", "model_prepare", "repair"}
CriticAllows(call, stage) ==
    /\ call.input # "secret"
    /\ stage \in CriticStages => call.tool \in STAGE_TOOLS[stage]

_validate_runner(call) ==
    \/ call.tool = "reject_runner_candidate"
    \/ call.tool \in {"select_runner_candidate", "add_runner_candidate"} /\ call.input = "ok"

_validate_env(call) ==
    \/ call.tool \in {"inspect_env_log", "propose_dependency_constraint", "select_torch_variant"}
    \/ call.tool \in {"apply_dependency_constraint", "select_environment_backend"}
       /\ call.input = "ok"

_validate_model(call) ==
    \/ call.tool \in {"inspect_model_config", "inspect_git_lfs_pointers"}
    \/ call.tool \in {"select_model_source", "select_model_asset_strategy",
                      "download_model_asset", "link_cached_model_asset"}
       /\ call.input = "ok"

_validate_repair(call) ==
    \/ call.tool \in {"inspect_log", "classify_failure", "verify_after_repair"}
    \/ call.tool = "apply_dependency_constraint" /\ _validate_env(call)
    \/ call.tool \in {"apply_repair", "resume_from_stage"} /\ call.input = "ok"

PolicyAllows(call, stage) ==
    CASE stage = "runner" -> _validate_runner(call)
      [] stage = "env_solve" -> _validate_env(call)
      [] stage = "model_prepare" -> _validate_model(call)
      [] stage = "repair" -> _validate_repair(call)
      [] OTHER -> TRUE

DeltaTools == {"select_runner_candidate", "add_runner_candidate", "reject_runner_candidate",
    "select_environment_backend", "select_torch_variant", "select_model_source",
    "select_model_asset_strategy", "apply_dependency_constraint",
    "propose_dependency_constraint", "resume_from_stage", "verify_after_repair"}

(* What _apply_state_delta does for a call: the file it writes ("" for     *)
(* none), and whether the delta is applied.  add_runner_candidate computes *)
(* the default id of the candidate with "..%d" % h % 10000, which raises   *)
(* whether or not the default is needed.                                   *)
_apply_state_delta(tool) ==
    [applied |-> tool \notin {"propose_dependency_constraint", "add_runner_candidate"},
     raises |-> tool = "add_runner_candidate",
     writes |-> CASE tool = "apply_dependency_constraint" -> "constraints.txt"
                  [] tool \in {"select_model_source", "select_model_asset_strategy"} ->
                        "model_asset_strategy.json"
                  [] OTHER -> ""]

(* The agent loop builds the gate without an executor, so that a tool that *)
(* is no state delta is only marked.                                       *)
_execute_or_apply(call) ==
    IF call.tool \in DeltaTools THEN _apply_state_delta(call.tool)
    ELSE [applied |-> FALSE, raises |-> FALSE, writes |-> ""]
=============================================================================
