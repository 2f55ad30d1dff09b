------------------------------ MODULE MCPlanning ------------------------------
(***************************************************************************)
(* The plan-first loop and the call of the model it plans with, in one run *)
(* of TLC.  The loop sees of a call only its answer, which PlanFirst       *)
(* leaves open, so each behaviour is one of either.                        *)
(***************************************************************************)
EXTENDS PlanFirst, LLMCall, TLC

-----------------------------------------------------------------------------
(* The loop: a repository with a console script, a documented Make target  *)
(* and a front end to build, and the plans that take the gate through all  *)
(* its verdicts.                                                           *)

MCFiles == {"README", "large"}
MCFacts == {"pep621_script", "readme_cli", "make_target", "readme_make", "package_json", "lockfile",
            "make_build_frontend"}
MCConfigs == {[mode |-> "layered", dry |-> FALSE], [mode |-> "eager", dry |-> TRUE]}
MCRequests == {<<"large", "README">>, <<"denied", "large">>}

Cli == Candidate("pep621_script", "run", "venv", {"pep621_script", "readme_reference"})
Target == Candidate("make_target", "run", "system", {"make_target", "readme_reference"})
Pip == Candidate("package", "install", "system", {})
Tool == Candidate("undeclared", "run", "venv", {})
Asked == Candidate("llm_candidate_request", "run", "system", {"readme_reference"})
Forged == Candidate("llm_candidate_request", "run", "system", {"wrapper_jar"})

Cites(files) == {[file |-> f, sha |-> -1] : f \in files}
FirstPlan == [NoText EXCEPT !.status = "ok", !.cites = Cites({"README"}), !.verify = "first",
    !.install = {Command("exact", Pip)}, !.run = <<Command("documented", Cli)>>]

MCPlans == {
    FirstPlan,
    [FirstPlan EXCEPT !.verify = "second", !.cites = {[file |-> "README", sha |-> 0]}],
    [FirstPlan EXCEPT !.cites = Cites({"large"}), !.run = <<Command("documented", Target)>>],
    [FirstPlan EXCEPT !.install = {Command("documented", Target)}],
    [FirstPlan EXCEPT !.run = <<Command("exact", Asked), Command("exact", Tool)>>,
                 !.requests = <<Asked, Forged>>],
    [FirstPlan EXCEPT !.run = <<>>, !.runsel = <<Cli>>, !.verify = "weak"],
    [FirstPlan EXCEPT !.install = {}],
    [NoText EXCEPT !.status = "needs_human_input"]}

-----------------------------------------------------------------------------
(* The call: every way a configuration is accepted or refused, prompts     *)
(* that fit at once, after compaction, only as the retry variant, and not  *)
(* at all.                                                                 *)

NoPurpose == [x \in {} |-> ""]
Unset == [model |-> "", window |-> 0, output |-> 0]

Settings ==
    [model |-> "v4_flash", window |-> 30, output |-> 6, models |-> NoPurpose, thinking |-> NoPurpose,
     effort |-> NoPurpose, json |-> NoPurpose, native |-> "true", beta |-> "", custom |-> "",
     unknown |-> "", endpoint |-> "official", key |-> TRUE, configured |-> TRUE,
     retries |-> 1, base |-> 1, max |-> 2]

Base == [name |-> "deepseek", purpose |-> "agent", over |-> Unset,
         env |-> Unset @@ [thinking |-> ""], generic |-> Unset, settings |-> Settings,
         harness |-> [window |-> 0, reserve |-> 0]]

With(field, value) == [Base EXCEPT !.settings[field] = value]
Unknown == [Base EXCEPT !.settings.model = "other", !.settings.unknown = "true"]
Generic == [Base EXCEPT !.name = "openai", !.settings.model = "other"]
Spark == [Base EXCEPT !.name = "xunfei", !.env.model = "spark", !.env.output = 6]

Accepted ==
    {Base,
     [Base EXCEPT !.purpose = "plan_first"],
     [Base EXCEPT !.purpose = "llm_test"],
     [Base EXCEPT !.over.model = "v4_pro", !.over.window = 24],
     With("models", [x \in {"agent"} |-> "v4_pro"]),
     With("retries", 2),
     Unknown,
     Generic,
     [Generic EXCEPT !.name = "acme"],
     [Spark EXCEPT !.env.window = 30],
     [Spark EXCEPT !.harness.window = 28],
     [Base EXCEPT !.harness.window = 24, !.harness.reserve = 4]}

Refused ==
    {With("model", "retired"),
     With("window", 0),
     With("window", 90),
     With("output", 40),
     With("native", "text"),
     With("thinking", [x \in {"other"} |-> "enabled"]),
     With("json", [x \in {"agent"} |-> "text"]),
     With("endpoint", "custom"),
     With("retries", -1),
     With("key", FALSE),
     [Unknown EXCEPT !.settings.output = 0],
     [Base EXCEPT !.env.thinking = "maybe"],
     [Base EXCEPT !.purpose = "chat"],
     [Base EXCEPT !.over.window = -1],
     [Generic EXCEPT !.name = "acme", !.settings.configured = FALSE],
     Spark}

Sys == [role |-> "system", size |-> 5, json |-> FALSE, head |-> {"rules"}, tail |-> {}]
User(n, h, t) == [role |-> "user", size |-> n, json |-> FALSE, head |-> h, tail |-> t]
Asks(n) == <<Sys, User(n, {"task"}, {"evidence"})>>

Prompt(original, candidate, retry) ==
    [original |-> original, candidate |-> candidate, retry |-> retry,
     required |-> {"rules", "task"}, sections |-> <<>>]

Fitting == Prompt(Asks(8), <<>>, Asks(4))
Compacted == Prompt(Asks(22), Asks(12), Asks(4))
Small == Prompt(Asks(22), Asks(16), <<Sys, User(4, {"task"}, {}), User(4, {}, {"evidence"})>>)
Large == Prompt(Asks(22), Asks(20), Asks(18))
Lossy == [Compacted EXCEPT !.required = {"task", "evidence"},
                           !.retry = <<Sys, User(4, {"task"}, {})>>]
UserOnly == [Prompt(<<User(8, {"rules", "task"}, {})>>, <<>>, <<User(4, {"rules", "task"}, {})>>)
                EXCEPT !.sections = [v \in {"original", "retry"} |->
                                         IF v = "retry" THEN {"task"} ELSE {"instructions"}]]

Ask(c, e, m, protocol) == [config |-> c, envelope |-> e, mode |-> m, protocol |-> protocol]

MCRetryAfters == {-1, 0, 3}

MCCalls ==
    {Ask(c, Compacted, "enforce", "json_action") : c \in Accepted \union Refused}
    \union {Ask(Base, e, m, "json_action") :
                e \in {Fitting, Compacted, Small, Large, Lossy, UserOnly},
                m \in {"observe", "enforce", "off"}}
    \union {Ask([Base EXCEPT !.settings.native = n], Fitting, "observe", x) :
                n \in {"true", "false"}, x \in {"native_tools", "auto", "text"}}
    \union {Ask(Generic, Fitting, "observe", "native_tools")}

-----------------------------------------------------------------------------
VARIABLE part

planning_vars == <<vars, call_vars, part>>

CallOver ==
    /\ asked = Ask(Base, Fitting, "off", "json_action") /\ provider = <<>> /\ phase = "stopped"
    /\ run = NotStarted /\ req = <<>> /\ now = 0

PlanningInit ==
    /\ Init
    /\ \/ part = "loop" /\ CallOver
       \/ part = "call" /\ CallInit

PlanningNext ==
    /\ UNCHANGED part
    /\ \/ part = "loop" /\ Next /\ UNCHANGED call_vars
       \/ part = "call" /\ CallNext /\ UNCHANGED vars

PlanningSpec == PlanningInit /\ [][PlanningNext]_planning_vars

=============================================================================
