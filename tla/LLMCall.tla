------------------------------- MODULE LLMCall -------------------------------
(***************************************************************************)
(* One call of a language model: LLMCallExecutor.execute chooses the       *)
(* variant of the prompt that fits the context budget, the provider sends  *)
(* it and retries what may be retried, and the executor sends the smallest *)
(* variant once more when the server says the context overflowed.  The     *)
(* native-tools turn uses the same transport without the executor.         *)
(*                                                                         *)
(* A message is a record: its role, its size in estimated tokens, whether  *)
(* it mentions JSON, and the required fragments it holds, the ones near    *)
(* its head and the ones near its tail.  Time is counted in ticks and      *)
(* passes on the wire and in the sleep before a retry.                     *)
(***************************************************************************)
EXTENDS ProviderSetup, FiniteSetsExt

CONSTANTS
    Calls,              \* the calls: [config, envelope, mode, protocol]
    Requested,          \* requested_output_tokens of the envelope
    Margin,             \* agent_context_safety_margin_tokens
    ProfileCap,         \* total_input_cap_tokens of the context profile
    CompactPercent,     \* agent_context_compact_ratio
    OverflowRetries,    \* agent_context_max_overflow_retries
    RequestOverhead, MessageOverhead,
    ShortMin, ShortMax, \* what a message is cut to after an empty answer
    CutNote, RetryNote, JsonHint,  \* sizes of the texts the provider adds
    DecisionTimeout,    \* agent_decision_timeout_seconds
    RequestTimeout,     \* timeout_seconds of the provider
    Statuses,           \* HTTP statuses the server answers with
    RetryAfters,        \* Retry-After values, -1 when the header is missing
    MaxDrip             \* how long a slow body outlasts the socket timeout

\* The times and the retry settings are numbers, the deadline not before the call.
ASSUME CallBounds ==
    /\ {DecisionTimeout, RequestTimeout, MaxDrip} \subseteq Nat /\ RetryAfters \subseteq Int
    /\ \A call \in Calls : LET s == call.config.settings IN {s.retries, s.base, s.max} \subseteq Int

VARIABLES
    asked,      \* the call this behaviour makes
    provider,   \* the provider object, a sequence of at most one
    phase,      \* "new", "ready", "ask", "wire", or how the call ended
    run,        \* the local variables of execute and of the retry loop
    req,        \* the request on the wire, a sequence of at most one
    now

call_vars == <<asked, provider, phase, run, req, now>>

P == provider[1]
Capabilities == resolve_provider_capabilities(asked.config, P)
Envelope == asked.envelope

(***************************************************************************)
(* The budget.                                                             *)
(***************************************************************************)
Least(a, b) == IF a < b THEN a ELSE b
Most(a, b) == IF a > b THEN a ELSE b

estimate_request(messages) ==
    RequestOverhead
        + MapThenSumSet(LAMBDA i : MessageOverhead + messages[i].size, DOMAIN messages)

Reserved == Least(Requested, Capabilities.output)

MaxInput_NoMargin == Most(0, Least(Capabilities.window - Reserved, ProfileCap))
MaxInput == Most(0, Least(Capabilities.window - Reserved - Margin, ProfileCap))

\* A candidate that the envelope does not carry is the original.
Variant(name) ==
    IF name = "retry" THEN Envelope.retry
    ELSE IF name = "candidate" /\ Envelope.candidate # <<>> THEN Envelope.candidate
    ELSE Envelope.original

build ==
    LET original == estimate_request(Variant("original")) IN
    IF /\ asked.mode = "enforce"
       /\ MaxInput > 0
       /\ original > (MaxInput * CompactPercent) \div 100
       /\ estimate_request(Variant("candidate")) < original
    THEN "candidate" ELSE "original"

(***************************************************************************)
(* The checks on a compacted prompt.                                       *)
(***************************************************************************)
System(messages) == {messages[i] : i \in {j \in DOMAIN messages : messages[j].role = "system"}}
Fragments(messages) == UNION {messages[i].head \union messages[i].tail : i \in DOMAIN messages}

_preserves_required_content(messages) ==
    /\ System(Envelope.original) \subseteq {messages[i] : i \in DOMAIN messages}
    /\ Envelope.required \subseteq Fragments(messages)

\* An envelope without sections gets one for each message; without a system message
\* the application's policy frames the request as the instructions.
_default_sections ==
    {"instructions"} \union
        IF \E i \in DOMAIN Envelope.original : Envelope.original[i].role # "system"
        THEN {"task"} ELSE {}

_sections_for_variant(name) ==
    IF Envelope.sections = <<>> THEN _default_sections
    ELSE IF name \in DOMAIN Envelope.sections THEN Envelope.sections[name]
    ELSE Envelope.sections["original"]

\* Every profile requires the instructions and the task.
_preserves_profile_requirements(messages, name) ==
    /\ System(messages) # {} \/ "instructions" \in _sections_for_variant(name)
    /\ \E i \in DOMAIN messages : messages[i].role # "system" /\ messages[i].size > 0

Fits(messages) == estimate_request(messages) <= MaxInput

(***************************************************************************)
(* Errors.  A category decides whether the transport retries; the executor *)
(* looks for an overflow only.                                             *)
(***************************************************************************)
NON_RETRYABLE_CATEGORIES ==
    {"invalid_request", "authentication_failed", "insufficient_balance",
     "invalid_parameter", "configuration_error", "invalid_response",
     "empty_content", "context_overflow", "deadline_exceeded"}

_classify_http_error(answer) ==
    IF answer.status = 400
    THEN IF answer.marker THEN "context_overflow" ELSE "invalid_request"
    ELSE IF answer.status = 401 THEN "authentication_failed"
    ELSE IF answer.status = 402 THEN "insufficient_balance"
    ELSE IF answer.status = 422 THEN "invalid_parameter"
    ELSE IF answer.status = 429 THEN "rate_limited"
    ELSE IF answer.status = 503 THEN "server_overloaded"
    ELSE "server_error"

\* Xunfei puts the server's words in the error, so the words decide.
is_context_overflow_error(category, answer) ==
    \/ category = "context_overflow"
    \/ P.class = "xunfei" /\ answer.kind = "http" /\ answer.marker

(***************************************************************************)
(* What comes back.  A body holds the content of the first choice, or      *)
(* "null" when it has none, or "bare" when there is no choice at all: of   *)
(* those the text is the whole body again, which is a JSON object.         *)
(***************************************************************************)
Http == [kind : {"http"}, status : Statuses, marker : BOOLEAN, after : RetryAfters]
Bodies == [kind : {"body"}, content : {"object", "list", "prose", "empty", "null", "bare"},
           calls : BOOLEAN]
Failures == [kind : {"url_error", "timeout", "not_json", "unexpected"}]
Answers == {a \in Http : (a.marker => a.status = 400) /\ (a.after >= 0 => a.status = 429)}
           \union {b \in Bodies : b.content = "bare" => ~b.calls}
           \union Failures

_extract_text(answer) ==
    IF answer.content \in {"null", "bare"} THEN "object" ELSE answer.content

\* DeepSeek's reading of an answer to a JSON action: a category, or "ok".
_complete_once(answer) ==
    IF answer.kind = "http" THEN _classify_http_error(answer)
    ELSE IF answer.kind = "url_error" THEN "network_error"
    ELSE IF answer.kind = "timeout" THEN "network_timeout"
    ELSE IF answer.kind = "unexpected" THEN "provider_unavailable"
    ELSE IF answer.kind = "not_json" THEN "invalid_response"
    ELSE IF _extract_text(answer) = "empty"
         THEN IF answer.calls THEN "invalid_response" ELSE "empty_content"
    ELSE IF P.json /\ _extract_text(answer) # "object" THEN "invalid_response"
    ELSE "ok"

\* Of a native-tools turn: an unexpected exception is not wrapped, and only an
\* answer with neither calls nor text is empty.
ToolsAnswer(answer) ==
    IF answer.kind = "unexpected" THEN "raised"
    ELSE IF answer.kind # "body" THEN _complete_once(answer)
    ELSE IF _extract_text(answer) = "empty" /\ ~answer.calls THEN "empty_content"
    ELSE "ok"

\* The generic provider answers with whatever text there is; it classifies HTTP errors
\* by the same statuses and wraps no other exception than URLError.
GenericHttpError(answer) == _classify_http_error(answer)

GenericAnswer(answer) ==
    IF answer.kind \in {"body", "not_json"} THEN "ok"
    ELSE IF answer.kind = "http" THEN GenericHttpError(answer)
    ELSE IF answer.kind = "url_error" THEN "network_error"
    ELSE "raised"

GenericToolsAnswer(answer) == GenericAnswer(answer)

XunfeiAnswer(answer) == IF answer.kind \in {"body", "not_json"} THEN "ok" ELSE "raised"

Read(answer) ==
    LET tools == asked.protocol # "json_action" IN
    IF P.class = "xunfei" THEN XunfeiAnswer(answer)
    ELSE IF P.class = "openai"
         THEN IF tools THEN GenericToolsAnswer(answer) ELSE GenericAnswer(answer)
    ELSE IF tools THEN ToolsAnswer(answer) ELSE _complete_once(answer)

(***************************************************************************)
(* The payload.                                                            *)
(***************************************************************************)
Mentions(messages) == \E i \in DOMAIN messages : messages[i].json
Hint == [role |-> "system", size |-> JsonHint, json |-> TRUE, head |-> {}, tail |-> {}]

DeepSeekPayload(messages) ==
    IF P.json /\ ~Mentions(messages) THEN <<Hint>> \o messages ELSE messages

\* The tools payload and the other providers send the messages as they are; Xunfei
\* moves the system messages to a field of their own.
_build_tools_payload(messages) == messages
GenericPayload(messages) == messages
_build_anthropic_payload(messages) ==
    SelectSeq(messages, LAMBDA m : m.role = "system")
        \o SelectSeq(messages, LAMBDA m : m.role # "system")

_build_payload(messages) ==
    IF asked.protocol # "json_action" THEN _build_tools_payload(messages)
    ELSE IF P.class = "deepseek" THEN DeepSeekPayload(messages)
    ELSE IF P.class = "xunfei" THEN _build_anthropic_payload(messages)
    ELSE GenericPayload(messages)

_shorter_json_retry_messages(messages) ==
    LET Short(m) ==
            LET target == Least(ShortMax, Most(ShortMin, m.size \div 2)) IN
            IF m.role = "system" \/ m.size <= target THEN m
            ELSE [m EXCEPT !.size = target + CutNote, !.tail = {}]
        again == [role |-> "user", size |-> RetryNote, json |-> TRUE,
                  head |-> {}, tail |-> {}] IN
    Append([i \in DOMAIN messages |-> Short(messages[i])], again)

(***************************************************************************)
(* The deadline.  Only DeepSeek accepts the request context: the other     *)
(* providers are called without it.                                        *)
(***************************************************************************)
Bounded == P.class = "deepseek" /\ run.deadline >= 0
_remaining_seconds == run.deadline - now

_request_timeout_NoDeadline == RequestTimeout
_request_timeout == IF Bounded THEN Least(RequestTimeout, _remaining_seconds) ELSE RequestTimeout

\* The delays a retry may choose: the server's wish, or backoff with jitter.
_retry_delay(attempt, answer) ==
    LET backoff == Least(P.max, P.base * (2 ^ attempt)) IN
    IF answer.kind = "http" /\ answer.after >= 0 THEN {Most(1, Least(answer.after, P.max))}
    ELSE {Most(1, d) : d \in (3 * backoff) \div 4 .. (5 * backoff + 3) \div 4}

(***************************************************************************)
(* Init and the actions.                                                   *)
(***************************************************************************)
NotStarted == [variant |-> "", sent |-> "", messages |-> <<>>, attempts |-> 0, transport |-> 0,
               transient |-> 0, emptied |-> FALSE, deadline |-> -1, estimate |-> 0, stop |-> "",
               total |-> 0]

CallInit ==
    /\ asked \in Calls
    /\ provider = <<>>
    /\ phase = "new"
    /\ run = NotStarted
    /\ req = <<>>
    /\ now = 0

Stops(why) == phase' = "stopped" /\ run' = [run EXCEPT !.stop = why]

CreateProvider ==
    /\ phase = "new"
    /\ IF set_runtime_overrides(asked.config.over) /\ Known(asked.config) /\ Constructs(asked.config)
       THEN /\ phase' = "ready"
            /\ provider' = <<create(asked.config)>>
            /\ UNCHANGED run
       ELSE Stops("configuration_error") /\ UNCHANGED provider
    /\ UNCHANGED <<asked, req, now>>

\* Starting one complete(): a provider that lacks configuration raises at once.
Begins(name, messages, attempts, variant, deadline) ==
    LET started == [run EXCEPT !.sent = name, !.variant = variant, !.messages = messages,
                               !.attempts = attempts, !.transport = 0, !.transient = 0,
                               !.emptied = FALSE, !.deadline = deadline,
                               !.estimate = estimate_request(Variant(variant))] IN
    IF P.missing
    THEN phase' = "stopped" /\ run' = [started EXCEPT !.stop = "configuration_error"]
    ELSE phase' = "ask" /\ run' = started

\* The variant that is sent: the selected one, or in enforce mode the retry variant
\* when only that fits; "" stands for context_budget_exceeded.
Preflight ==
    LET fits == MaxInput > 0 /\ Fits(Variant(build)) IN
    IF asked.mode # "enforce" \/ fits THEN build
    ELSE IF Envelope.retry # <<>> /\ MaxInput > 0 /\ Fits(Envelope.retry) THEN "retry" ELSE ""

execute ==
    /\ phase = "ready" /\ asked.protocol = "json_action"
    /\ IF asked.mode \notin {"observe", "shadow", "enforce"} THEN Stops("context_invalid_mode")
       ELSE IF asked.mode = "enforce" /\ Capabilities.source = "fallback"
            THEN Stops("context_capability_unknown")
       ELSE IF Preflight = "" THEN Stops("context_budget_exceeded")
       ELSE IF /\ asked.mode = "enforce"
               /\ \/ ~_preserves_required_content(Variant(Preflight))
                  \/ ~_preserves_profile_requirements(Variant(Preflight), Preflight)
            THEN Stops("context_required_section_missing")
       ELSE Begins(Preflight, Variant(Preflight), 1, Preflight, now + DecisionTimeout)
    /\ UNCHANGED <<asked, provider, req, now>>

\* NativeToolTurnLoop passes its messages straight to the provider; AgentRuntime gives
\* it no request context, so a native turn has no deadline.
execute_native_tool_turn ==
    /\ phase = "ready" /\ asked.protocol # "json_action"
    /\ LET selected == select_provider_protocol(asked.protocol, P, Capabilities) IN
       IF selected # "native_tools" THEN Stops(selected)   \* raised, or json_action_selected
       ELSE Begins("original", Envelope.original, 1, "original", -1)
    /\ UNCHANGED <<asked, provider, req, now>>

Send ==
    /\ phase = "ask"
    /\ IF Bounded /\ _remaining_seconds <= 0
       THEN Stops("deadline_exceeded") /\ UNCHANGED req
       ELSE /\ phase' = "wire"
            /\ req' = <<[messages |-> _build_payload(run.messages), at |-> now,
                         timeout |-> _request_timeout, output |-> Least(P.output, Reserved)]>>
            /\ run' = [run EXCEPT !.total = @ + 1]
    /\ UNCHANGED <<asked, provider, now>>

\* The executor's reaction to an error of the provider.  Of a second attempt only an
\* overflow makes the telemetry name the retry variant.
OverflowRetry(category, answer) ==
    IF \/ Envelope.retry = <<>>
       \/ run.variant = "retry"
       \/ run.attempts > 1
       \/ OverflowRetries < 1
       \/ ~is_context_overflow_error(category, answer)
    THEN /\ phase' = "stopped"
         /\ run' = IF is_context_overflow_error(category, answer)
                   THEN [run EXCEPT !.stop = "provider_context_limit_exceeded",
                                    !.variant = run.sent]
                   ELSE [run EXCEPT !.stop = category]
    ELSE IF ~Fits(Envelope.retry) THEN Stops("context_budget_exceeded")
    ELSE IF \/ ~_preserves_required_content(Envelope.retry)
            \/ ~_preserves_profile_requirements(Envelope.retry, "retry")
         THEN Stops("context_required_section_missing")
    ELSE Begins("retry", Envelope.retry, 2, run.variant, run.deadline)

Raises(category, answer) ==
    IF asked.protocol = "json_action" THEN OverflowRetry(category, answer) ELSE Stops(category)

\* A transient error sleeps and asks again, unless the retries are used up or the
\* sleep would outlast the deadline.
Retries(category, answer, arrived) ==
    IF \/ P.class # "deepseek"
       \/ category \in NON_RETRYABLE_CATEGORIES \union {"raised"}
       \/ run.transient >= P.retries
    THEN Raises(category, answer) /\ now' = arrived
    ELSE \E delay \in _retry_delay(run.transient, answer) :
             IF Bounded /\ delay >= run.deadline - arrived
             THEN Raises("deadline_exceeded", answer) /\ now' = arrived
             ELSE /\ phase' = "ask"
                  /\ run' = [run EXCEPT !.transient = @ + 1, !.transport = @ + 1]
                  /\ now' = arrived + delay

\* The answer of complete(): build records the retry variant once it answered.
Answered ==
    /\ phase' = "answered"
    /\ run' = [run EXCEPT !.variant = run.sent,
                          !.estimate = estimate_request(Variant(run.sent))]

EmptyRetry_Always(category) ==
    P.class = "deepseek" /\ asked.protocol = "json_action" /\ category = "empty_content"

EmptyRetry(category) ==
    /\ P.class = "deepseek" /\ asked.protocol = "json_action"
    /\ category = "empty_content" /\ ~run.emptied

Receive ==
    /\ phase = "wire"
    /\ \E answer \in Answers, elapsed \in {0, 1, req[1].timeout} :
           \E drip \in IF answer.kind = "body" /\ elapsed > 0 THEN {0, MaxDrip} ELSE {0} :
               LET category == Read(answer)
                   arrived == now + elapsed + drip IN
               /\ answer.kind = "timeout" => elapsed = req[1].timeout
               /\ IF category = "ok" THEN Answered /\ now' = arrived
                  ELSE IF EmptyRetry(category)
                  THEN /\ phase' = "ask"
                       /\ run' = [run EXCEPT !.emptied = TRUE, !.transport = @ + 1,
                                   !.messages = _shorter_json_retry_messages(Variant(run.sent))]
                       /\ now' = arrived
                  ELSE Retries(category, answer, arrived)
    /\ req' = <<>>
    /\ UNCHANGED <<asked, provider>>

Done == phase \in {"answered", "stopped"} /\ UNCHANGED call_vars

CallNext == CreateProvider \/ execute \/ execute_native_tool_turn \/ Send \/ Receive \/ Done

CallSpec == CallInit /\ [][CallNext]_call_vars

(***************************************************************************)
(* Properties.                                                             *)
(***************************************************************************)
\* In enforce mode every request on the wire, with the JSON hint and the retry note
\* the provider adds after the budget was checked, and the output it asks for, fits
\* the context window: the safety margin pays for what the provider adds.
SentFits ==
    phase = "wire" /\ asked.mode = "enforce" /\ asked.protocol = "json_action" =>
        estimate_request(req[1].messages) + req[1].output <= Capabilities.window

\* A DeepSeek request starts before the deadline of the decision and its socket
\* timeout ends by it, through transport retries, the retry after an empty answer
\* and the executor's second attempt, which share one deadline.
SentInTime ==
    phase = "wire" /\ Bounded => /\ req[1].at < DecisionTimeout
                                 /\ req[1].at + req[1].timeout <= DecisionTimeout

\* However errors and empty answers alternate, a call sends at most two rounds of
\* one request, its transient retries and one retry of an empty answer.
RequestsBounded ==
    provider # <<>> => run.total <= 2 * (P.retries + 2)
=============================================================================
