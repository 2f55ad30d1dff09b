--------------------------- MODULE ProviderSetup ---------------------------
(***************************************************************************)
(* Building an LLM provider from its configuration: the registry, the      *)
(* precedence of runtime overrides, environment, provider settings and     *)
(* defaults, the eager checks of the DeepSeek provider, and the capability *)
(* profile the context layer budgets with.                                 *)
(*                                                                         *)
(* A configuration is a record                                             *)
(*   name      the registered provider                                     *)
(*   purpose   what the provider is created for                            *)
(*   over      the runtime overrides of the command line                   *)
(*   env       the provider's own environment variables                    *)
(*   generic   the AUTO_HARNESS_LLM_* environment variables                *)
(*   settings  provider_configs[name]                                      *)
(*   harness   the agent_context_* fields of HarnessConfig                 *)
(* A name that is not set is the empty string and a number that is not set *)
(* is 0: both are what the code skips.                                     *)
(***************************************************************************)
EXTENDS Integers, Sequences, FiniteSets

CONSTANTS
    V4Window,           \* context window of the known DeepSeek models
    V4Output,           \* and the longest output they give
    DefaultOutput,      \* max_tokens of a provider that configures none
    FallbackWindow      \* window assumed for a model nobody describes

ValidPurposes == {"plan_first", "agent", "memory_evolution", "llm_test", "live_smoke"}
V4Models == {"v4_flash", "v4_pro"}
Retired == {"retired"}
Builtins == {"xunfei", "deepseek", "openai"}

(***************************************************************************)
(* Precedence: the first source that sets a value wins.                    *)
(***************************************************************************)
_first_nonempty(values) ==
    LET set == {i \in DOMAIN values : values[i] # ""} IN
    IF set = {} THEN "" ELSE values[CHOOSE i \in set : \A j \in set : i <= j]

_positive_int(values, default) ==
    LET set == {i \in DOMAIN values : values[i] > 0} IN
    IF set = {} THEN default ELSE values[CHOOSE i \in set : \A j \in set : i <= j]

ConfiguredModel(c) ==
    _first_nonempty(<<c.over.model, c.env.model, c.generic.model, c.settings.model>>)

ConfiguredWindow(c) ==
    _positive_int(<<c.over.window, c.env.window, c.generic.window, c.settings.window,
                    c.harness.window>>, 0)

ConfiguredOutput(c) ==
    _positive_int(<<c.over.output, c.env.output, c.generic.output, c.settings.output>>,
                  DefaultOutput)

\* set_runtime_overrides refuses an empty model and a number that is not positive,
\* so an override that is present is usable.
set_runtime_overrides(over) ==
    over.window >= 0 /\ over.output >= 0

has_explicit_model_override(c) ==
    "" # _first_nonempty(<<c.over.model, c.env.model, c.generic.model>>)

(***************************************************************************)
(* DeepSeek: purpose-specific settings and the eager checks.  A mapping of *)
(* the settings is a function from purposes to values.                     *)
(***************************************************************************)
DefaultThinking(purpose) == IF purpose = "plan_first" THEN "enabled" ELSE "disabled"
DefaultEffort(purpose) == IF purpose = "plan_first" THEN "high" ELSE ""
DefaultJson(purpose) == IF purpose = "llm_test" THEN "false" ELSE "true"

PurposeModel(c) ==
    LET models == c.settings.models IN
    IF has_explicit_model_override(c) THEN ConfiguredModel(c)
    ELSE IF c.purpose \in DOMAIN models /\ models[c.purpose] # "" THEN models[c.purpose]
    ELSE IF c.purpose \notin DOMAIN models /\ ConfiguredModel(c) = "" THEN "v4_flash"
    ELSE ConfiguredModel(c)

_resolve_purpose_config(c) ==
    LET OfPurpose(mapping, default) ==
            IF c.purpose \in DOMAIN mapping THEN mapping[c.purpose] ELSE default IN
    [model    |-> PurposeModel(c),
     thinking |-> IF c.env.thinking # "" THEN c.env.thinking
                  ELSE OfPurpose(c.settings.thinking, DefaultThinking(c.purpose)),
     effort   |-> OfPurpose(c.settings.effort, DefaultEffort(c.purpose)),
     json     |-> OfPurpose(c.settings.json, DefaultJson(c.purpose))]

\* A setting is "true", "false", "" when absent, or "text" when it is not a boolean.
_validate_feature_flag_types(c) ==
    "text" \notin {c.settings.native, c.settings.beta, c.settings.custom, c.settings.unknown}

\* Only the provider's own settings and environment count as explicit here.
_require_explicit_unknown_model_capacity(c) ==
    /\ c.settings.window # 0 \/ c.env.window # 0
    /\ c.settings.output # 0 \/ c.env.output # 0

ModelAllowed(c, model) ==
    /\ model \notin Retired
    /\ model \in V4Models \/ /\ c.settings.unknown = "true"
                             /\ _require_explicit_unknown_model_capacity(c)

_validate_all_purpose_settings(c) ==
    LET s == c.settings IN
    /\ UNION {DOMAIN s.models, DOMAIN s.thinking, DOMAIN s.effort, DOMAIN s.json}
           \subseteq ValidPurposes
    /\ \A purpose \in DOMAIN s.models :
           s.models[purpose] # "" /\ ModelAllowed(c, s.models[purpose])
    /\ \A purpose \in DOMAIN s.thinking : s.thinking[purpose] \in {"enabled", "disabled"}
    /\ \A purpose \in DOMAIN s.effort : s.effort[purpose] \in {"high", "max"}
    /\ \A purpose \in DOMAIN s.json : s.json[purpose] \in {"true", "false"}

_validate_models(c) ==
    PurposeModel(c) = "" \/ ModelAllowed(c, PurposeModel(c))

_validate_token_limits(c) ==
    LET window == ConfiguredWindow(c)
        output == ConfiguredOutput(c) IN
    window > 0 =>
        /\ output < window
        /\ PurposeModel(c) \in V4Models => window <= V4Window /\ output <= V4Output

_validate_thinking(c) ==
    LET purpose == _resolve_purpose_config(c) IN
    /\ purpose.thinking \in {"enabled", "disabled"}
    /\ purpose.thinking = "enabled" /\ purpose.effort # "" => purpose.effort \in {"high", "max"}

_validate_json_mode(c) ==
    _resolve_purpose_config(c).json \in {"true", "false"}

\* The effective endpoint: api_url before api_base; "" when neither is set.
_validate_api_base(c) ==
    LET endpoint == c.settings.endpoint IN
    endpoint # "" =>
        /\ endpoint # "http"
        /\ endpoint = "custom" => c.settings.custom = "true"
        /\ endpoint = "beta" => c.settings.beta = "true"

RetrySettings(c) ==
    /\ c.settings.retries >= 0
    /\ c.settings.base > 0 /\ c.settings.max > 0
    /\ c.settings.max >= c.settings.base

Constructs(c) ==
    IF c.name = "deepseek"
    THEN /\ c.purpose \in ValidPurposes
         /\ _validate_feature_flag_types(c)
         /\ _validate_all_purpose_settings(c)
         /\ RetrySettings(c)
         /\ _validate_models(c)
         /\ _validate_token_limits(c)
         /\ _validate_thinking(c)
         /\ _validate_json_mode(c)
         /\ _validate_api_base(c)
    ELSE c.settings.native # "text"

(***************************************************************************)
(* The provider object: the attributes the calls and the budget read.      *)
(***************************************************************************)
missing_configuration(c, model) ==
    \/ c.settings.endpoint = ""
    \/ model = ""
    \/ ~c.settings.key
    \/ ConfiguredWindow(c) = 0

OpenAI(c) ==
    [class    |-> "openai",
     model    |-> ConfiguredModel(c),
     window   |-> ConfiguredWindow(c),
     output   |-> ConfiguredOutput(c),
     native   |-> c.settings.native = "true",
     json     |-> FALSE,
     thinking |-> "disabled",
     retries  |-> 0,
     base     |-> 0,
     max      |-> 0,
     missing  |-> missing_configuration(c, ConfiguredModel(c))]

DeepSeek(c) ==
    LET purpose == _resolve_purpose_config(c) IN
    [OpenAI(c) EXCEPT !.class = "deepseek", !.model = purpose.model,
                      !.json = purpose.json = "true", !.thinking = purpose.thinking,
                      !.retries = c.settings.retries,
                      !.base = c.settings.base, !.max = c.settings.max,
                      !.missing = missing_configuration(c, purpose.model)]

\* Xunfei reads its own environment, and the window of the harness configuration.
\* A call asks for an endpoint only: missing_configuration is not consulted by it.
Xunfei(c) ==
    [OpenAI(c) EXCEPT !.class = "xunfei", !.model = c.env.model,
                      !.window = _positive_int(<<c.env.window, c.harness.window>>, 0),
                      !.output = _positive_int(<<c.env.output>>, DefaultOutput),
                      !.native = FALSE, !.missing = c.settings.endpoint = ""]

\* A name nobody registered still gets the generic provider when it is configured.
Known(c) == c.name \in Builtins \/ c.settings.configured

create(c) ==
    IF c.name = "xunfei" THEN Xunfei(c)
    ELSE IF c.name = "deepseek" THEN DeepSeek(c)
    ELSE OpenAI(c)

(***************************************************************************)
(* What the context layer believes of the provider.                        *)
(***************************************************************************)
ProviderWindow(c, made) ==
    IF made.model \in V4Models
    THEN [tokens |-> IF made.window > 0 /\ made.window < V4Window THEN made.window ELSE V4Window,
          source |-> IF made.window > 0 /\ made.window < V4Window
                     THEN "provider_config" ELSE "deepseek_model_registry"]
    ELSE IF made.window > 0 THEN [tokens |-> made.window, source |-> "provider"]
    ELSE [tokens |-> 0, source |-> "provider"]

ProviderOutput(made) ==
    IF made.model \in V4Models /\ (made.output = 0 \/ made.output > V4Output) THEN V4Output ELSE made.output

resolve_provider_capabilities(c, made) ==
    LET own  == ProviderWindow(c, made)
        out  == ProviderOutput(made)
        budgeted == c.harness.window > 0 IN
    [window |-> IF budgeted
                THEN IF own.tokens > 0 /\ own.tokens < c.harness.window
                     THEN own.tokens ELSE c.harness.window
                ELSE IF own.tokens > 0 THEN own.tokens ELSE FallbackWindow,
     source |-> IF budgeted THEN "explicit_config"
                ELSE IF own.tokens > 0 THEN own.source ELSE "fallback",
     output |-> IF c.harness.reserve > 0 /\ c.harness.reserve < out
                     THEN c.harness.reserve ELSE out,
     tools  |-> made.class \in {"deepseek", "openai"} /\ made.native]

\* select_provider_protocol: "raise" stands for the ProviderProtocolError.
select_provider_protocol(configured, made, capabilities) ==
    LET implemented == made.class \in {"deepseek", "openai"} IN
    IF configured \notin {"json_action", "native_tools", "auto"} THEN "raise"
    ELSE IF configured = "json_action" THEN "json_action"
    ELSE IF implemented /\ capabilities.tools THEN "native_tools"
    ELSE IF configured = "native_tools" THEN "raise" ELSE "json_action"
=============================================================================
