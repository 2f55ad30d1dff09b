---------------------------- MODULE ServiceRun ----------------------------
(***************************************************************************)
(* modules/runner.py and modules/verify.py: a deployment task starts the   *)
(* service of a repository and verifies it.                                *)
(*                                                                         *)
(* Each member of Runs is one execution of the two stages over the same    *)
(* run directory and the same host: a rerun after a repair, or a second    *)
(* harness process.  What they share is on disk and on the host: the       *)
(* approvals already consumed, the services started (nothing stops them),  *)
(* and the ports these listen on.                                          *)
(***************************************************************************)
EXTENDS CommandAuth, FiniteSetsExt

CONSTANTS Tasks,                    \* repositories, with where run_candidates come from
          Runs,                     \* the executions of the two stages
          Backend,                  \* execution_backend of the task
          max_candidate_attempts,   \* the runner's budget of candidates
          agent_verify_max_steps    \* the agent's budget in verify

ASSUME ServiceBounds ==
    /\ \A t \in Tasks : t.scope \in {"none", "discovery", "contract"}
    /\ Backend \in {"local", "docker"}
    /\ max_candidate_attempts \in Nat \ {0}
    /\ agent_verify_max_steps \in Nat

VARIABLES repo,        \* the facts of the repository
          scope,       \* analysis["command_registry_scope"], or no registry
          fresh,       \* the evidence files are as discovery saw them
          approval,    \* analysis["command_approval"]
          consumed,    \* approvals/consumed_*.json of the run directory
          services,    \* the processes started, in the order of their start
          p            \* where each run is

vars == <<repo, scope, fresh, approval, consumed, services, p>>

None == [kind |-> "none", phase |-> "run", exe |-> "system", arg |-> "plain", ids |-> {}]

-----------------------------------------------------------------------------
(* The candidates of a run                                                 *)

\* A candidate of the analyzer's own rules, declared by no registry.
Legacy(n) == [kind |-> "legacy", phase |-> "run", exe |-> n, arg |-> "plain", ids |-> {}]

ENTRYPOINT_SOURCE_KINDS ==
    {"django_manage", "asgi_wsgi_entrypoint", "procfile_web", "pep621_script",
     "poetry_script", "node_run_script", "jvm_artifact_run", "go_binary_run",
     "cargo_binary_run"}

registry == discover(repo)

\* The candidates in some order: the registry lists them, the model keeps a set.
Listed(candidates) == CHOOSE list \in Bijection(1 .. Cardinality(candidates), candidates) : TRUE

\* The analyzer keeps its own candidates first and appends the discovered
\* entry points; a plan or a contract lists the registry's run candidates, of
\* every kind, and possibly a command the registry does not declare.
_merge_entrypoint_candidates(found) ==
    <<Legacy("python")>> \o
    Listed({c \in found.candidates : c.phase = "run" /\ c.kind \in ENTRYPOINT_SOURCE_KINDS})

run_candidates ==
    CASE scope = "none" -> <<Legacy("python"), Legacy("python"), Legacy("uvicorn")>>
      [] scope = "discovery" -> _merge_entrypoint_candidates(registry)
      [] scope = "contract" ->
            Listed({c \in registry.candidates : c.phase = "run"}) \o <<Legacy("python")>>

\* A declared candidate is confined to docker, whatever the task's backend.
effective_backend(c) == IF c.kind = "legacy" THEN Backend ELSE "docker"

\* Candidates are told apart by command and backend: in the list, by the task's
\* backend; once authorized, by the one they were confined to.
_attempt_key(c, backend) == <<c, backend>>

expected_port(c) ==
    IF \/ c.kind \in {"legacy", "django_manage", "asgi_wsgi_entrypoint"}
       \/ c.kind \in {"procfile_web", "node_run_script"} /\ "listen_port" \in repo
    THEN 1 ELSE 0

-----------------------------------------------------------------------------
(* Ports and processes of the host                                         *)

Listeners(port) == {s \in DOMAIN services : services[s].port = port /\ services[s].st = "listening"}
is_port_open(port) == port # 0 /\ Listeners(port) # {}

\* Docker publishes another port when the expected one is taken.
_select_host_port(port) ==
    IF port # 0 /\ is_port_open(port)
    THEN CHOOSE q \in 2 .. (2 + Len(services)) :
            /\ ~is_port_open(q)
            /\ \A o \in 2 .. (q - 1) : is_port_open(o)
    ELSE port

_effective_candidate(c) ==
    IF effective_backend(c) = "docker" THEN _select_host_port(expected_port(c)) ELSE expected_port(c)

\* The port, if any, is bound: docker's client exits when it is taken; a local program
\* exits or goes on without it.
Bind(s) ==
    /\ services[s].st = "starting"
    /\ \E st \in IF ~is_port_open(services[s].port) THEN {"listening"}
                 ELSE IF services[s].backend = "docker" THEN {"gone"}
                 ELSE {"silent", "gone"} :
          services' = [services EXCEPT ![s].st = st]
    /\ UNCHANGED <<repo, scope, fresh, approval, consumed, p>>

\* A service may end at any time.
Exit(s) ==
    /\ services[s].st # "gone"
    /\ services' = [services EXCEPT ![s].st = "gone"]
    /\ UNCHANGED <<repo, scope, fresh, approval, consumed, p>>

\* The install commands and the service write into the repository's workspace.
RepositoryChanges ==
    /\ fresh
    /\ fresh' = FALSE
    /\ UNCHANGED <<repo, scope, approval, consumed, services, p>>

-----------------------------------------------------------------------------
(* RunnerModule.run                                                        *)

\* The environment is installed and its owner marker written by env_deploy.
env == [require |-> TRUE, marker |-> TRUE, built |-> TRUE]

\* analysis["command_approval"], with execution_count 1 once it was consumed.
ApprovalSeen(c) == [granted |-> approval, execution_count |-> IF c \in consumed THEN 1 ELSE 0]

_first_unattempted_candidate(q) ==
    LET open == {i \in DOMAIN q.cands : _attempt_key(q.cands[i], Backend) \notin q.attempted}
    IN  [choice |-> IF open = {} THEN None ELSE q.cands[Min(open)], n |-> 0]

\* With a registry: the first candidate within the budget that the policy
\* allows; the ones passed over count as attempts.  In discovery mode an
\* undeclared candidate may still run, unless one waits for an approval.
_select_authorized_candidate(q) ==
    LET considered == 1 .. Min({Len(q.cands), Max({1, q.budget})})
        isnew(i) == _attempt_key(q.cands[i], Backend) \notin q.attempted
        declared(i) == q.cands[i] \in registry.candidates
        verdict(i) == authorize(q.cands[i], registry, fresh, env, ApprovalSeen(q.cands[i]))
        asked == {i \in considered : isnew(i) /\ declared(i)}
        allowed == {i \in asked : verdict(i) = "auto_allowed"}
        undeclared == {i \in considered : isnew(i) /\ ~declared(i)}
    IN  IF allowed # {} THEN [choice |-> q.cands[Min(allowed)], n |-> Min(allowed)]
        ELSE [n |-> Cardinality(considered),
              choice |-> IF /\ scope = "discovery" /\ undeclared # {}
                            /\ \A i \in asked : verdict(i) # "approval_required"
                         THEN q.cands[Min(undeclared)] ELSE None]

Idle == [pc |-> "idle", cands |-> <<>>, budget |-> 0, attempted |-> {}, n |-> 0,
         choice |-> None, port |-> 0, svc |-> 0, ready |-> FALSE, seen |-> FALSE,
         checks |-> {}, steps |-> 0, by |-> "none", status |-> "none"]

\* A run that has ended keeps its outcome, and what made verify pass it.
Ended(status, by) == [Idle EXCEPT !.pc = "done", !.status = status, !.by = by]

\* What verify knows of the service.
Reported(q, ready) ==
    [Idle EXCEPT !.pc = "probe", !.port = q.port, !.svc = q.svc, !.ready = ready]

\* The next candidate of the list, if there is one and a budget left for it.
_fallback_after_failure(q) ==
    LET same == {i \in DOMAIN q.cands : q.cands[i] = q.choice}
        index == IF same = {} THEN Len(q.cands) ELSE Min(same)
        remaining == SubSeq(q.cands, index + 1, Len(q.cands))
        remaining_budget == Max({0, q.budget - q.n})
        key == _attempt_key(q.choice, effective_backend(q.choice))
    IN  IF remaining # <<>> /\ remaining_budget # 0
        THEN [Idle EXCEPT !.pc = "select", !.cands = remaining, !.budget = remaining_budget,
                          !.attempted = q.attempted \cup {key}]
        ELSE Ended("failed", "none")

Begin(r) ==
    /\ p[r].pc = "idle"
    /\ p' = [p EXCEPT ![r].pc = "select", ![r].cands = run_candidates,
                      ![r].budget = max_candidate_attempts]
    /\ UNCHANGED <<repo, scope, fresh, approval, consumed, services>>

\* Selection, then the command policy: a declared candidate was authorized, an
\* undeclared one must be on the allowlist.
Select(r) ==
    LET q == p[r]
        sel == IF scope = "none" THEN _first_unattempted_candidate(q)
               ELSE _select_authorized_candidate(q)
    IN  /\ q.pc = "select"
        /\ \E allowlisted \in BOOLEAN :
              LET ok == sel.choice # None /\ (sel.choice.kind # "legacy" \/ allowlisted)
              IN  p' = [p EXCEPT ![r] =
                    IF ~ok THEN Ended("failed", "none")
                    ELSE [q EXCEPT
                       !.choice = sel.choice, !.n = sel.n,
                       !.port = _effective_candidate(sel.choice),
                       !.pc = IF sel.choice.kind \in ApprovalKinds THEN "consume" ELSE "start"]]
        /\ UNCHANGED <<repo, scope, fresh, approval, consumed, services>>

\* The consumption file is created exclusively: a second run finds it there.
Consume_Overwrite(r) ==
    /\ p[r].pc = "consume"
    /\ consumed' = consumed \cup {p[r].choice}
    /\ p' = [p EXCEPT ![r].pc = "start"]
    /\ UNCHANGED <<repo, scope, fresh, approval, services>>

_consume_command_approval(r) ==
    /\ p[r].pc = "consume"
    /\ consumed' = consumed \cup {p[r].choice}
    /\ p' = [p EXCEPT ![r] = IF p[r].choice \in consumed THEN _fallback_after_failure(p[r])
                             ELSE [p[r] EXCEPT !.pc = "start"]]
    /\ UNCHANGED <<repo, scope, fresh, approval, services>>

\* Popen: the executable may be missing.
Start(r) ==
    LET q == p[r] IN
    /\ q.pc = "start"
    /\ \/ /\ p' = [p EXCEPT ![r] = _fallback_after_failure(q)]
          /\ UNCHANGED services
       \/ /\ services' = Append(services,
                [run |-> r, cmd |-> q.choice, port |-> q.port,
                 backend |-> effective_backend(q.choice),
                 st |-> IF q.port = 0 THEN "silent" ELSE "starting"])
          /\ p' = [p EXCEPT ![r].pc = "wait", ![r].svc = Len(services) + 1]
    /\ UNCHANGED <<repo, scope, fresh, approval, consumed>>

\* The port is polled until it is open, the process has ended, or the deadline
\* has passed; a process that is alive has passed, ready or not.
WaitForPort(r) ==
    LET q == p[r] IN
    /\ q.pc = "wait"
    /\ p' = [p EXCEPT ![r] =
                IF services[q.svc].st = "gone" THEN _fallback_after_failure(q)
                ELSE IF is_port_open(q.port) THEN [q EXCEPT !.pc = "window"]
                ELSE Reported(q, FALSE)]
    /\ UNCHANGED <<repo, scope, fresh, approval, consumed, services>>

\* The survival window.  Docker has published the port, or failed to, within it.
SurvivalWindow_Skipped(r) ==
    LET q == p[r] IN
    /\ q.pc = "window"
    /\ p' = [p EXCEPT ![r] =
                IF services[q.svc].st = "gone" THEN _fallback_after_failure(q)
                ELSE Reported(q, is_port_open(q.port))]
    /\ UNCHANGED <<repo, scope, fresh, approval, consumed, services>>

SurvivalWindow(r) ==
    LET q == p[r] IN
    /\ q.pc = "window"
    /\ services[q.svc].backend = "docker" => services[q.svc].st # "starting"
    /\ p' = [p EXCEPT ![r] =
                IF services[q.svc].st = "gone" THEN _fallback_after_failure(q)
                ELSE Reported(q, is_port_open(q.port))]
    /\ UNCHANGED <<repo, scope, fresh, approval, consumed, services>>

-----------------------------------------------------------------------------
(* VerifyModule.verify                                                     *)

\* No failed check, and a strong one that passed.  process_alive is whether the
\* runner reported a pid, which every run that comes here did.
_can_pass(checks) ==
    /\ \A c \in checks : c[2] # "fail"
    /\ \E c \in checks : c[2] = "pass" /\ c[1] \in {"artifact", "http", "browser"}

\* A request is answered by whatever listens on the port when it is sent.
Answers(port, s) == IF is_port_open(port) THEN s \in Listeners(port) ELSE s = 0

Checked(q, checks, by, next) ==
    IF _can_pass(checks) THEN Ended("passed", by)
    ELSE [q EXCEPT !.checks = checks, !.pc = next]

\* Service discovery, the traced request, the artifacts it wrote and the
\* streamlit probe, which is no strong check.
_execute_http_trace(q, s) == IF q.port = 0 THEN {} ELSE
    {{<<"http", st>>} : st \in IF s = 0 THEN {"uncertain"} ELSE {"pass", "uncertain"}}

_artifact_checks == {{<<"artifact", st>>} : st \in {"pass", "fail", "uncertain"}}

Probe(r) ==
    LET q == p[r]
        discovered == [q EXCEPT !.seen = q.ready \/ is_port_open(q.port)]
    IN  /\ q.pc = "probe"
        /\ \E s \in 0 .. Len(services), artifact \in _artifact_checks :
              /\ Answers(q.port, s)
              /\ \E http \in _execute_http_trace(q, s) \cup {{}} :
                    /\ (http = {}) <=> (q.port = 0)
                    /\ p' = [p EXCEPT ![r] =
                                Checked(discovered, http \cup artifact,
                                        IF <<"http", "pass">> \in http THEN "answer" ELSE "artifact", "browser")]
        /\ UNCHANGED <<repo, scope, fresh, approval, consumed, services>>

\* The browser probe, for a web interface with an endpoint.
_execute_browser_probe(r) ==
    LET q == p[r] IN
    /\ q.pc = "browser"
    /\ \E s \in 0 .. Len(services), webui \in BOOLEAN, st \in {"pass", "uncertain"} :
          /\ Answers(q.port, s)
          /\ st = "pass" => webui /\ s # 0
          /\ p' = [p EXCEPT ![r] =
                      Checked(q, q.checks \cup {c \in {<<"browser", st>>} : webui /\ q.port # 0},
                              "answer", "hint")]
    /\ UNCHANGED <<repo, scope, fresh, approval, consumed, services>>

\* The planner's requests, at most three: only while nothing has passed and the
\* service was seen ready.  A hint may name its own endpoint.
_plan_and_execute_verify_hint(r) ==
    LET q == p[r]
        asked == q.seen /\ \A c \in q.checks : c[2] # "pass"
    IN  /\ q.pc = "hint"
        /\ \E tried \in 0 .. 3, passed \in BOOLEAN :
              /\ passed => asked /\ tried > 0 /\ \E port \in 1 .. 2 + Len(services) : is_port_open(port)
              /\ tried > 0 => asked
              /\ LET hints == {<<"http", "uncertain">> : i \in 1 .. tried}
                              \cup {c \in {<<"http", "pass">>} : passed}
                 IN  p' = [p EXCEPT ![r] = Checked(q, q.checks \cup hints, "hint", "agent")]
        /\ UNCHANGED <<repo, scope, fresh, approval, consumed, services>>

\* _should_trigger_agent_verify, then one round of AgentRuntime.act_verify:
\* an invalid answer or none ends it, a rejected call and one that planner mode
\* only notes use up a step, an executed one may find the trace.
act_verify(r) ==
    LET q == p[r] IN
    /\ q.pc = "agent"
    /\ \E mode \in {"off", "planner", "gated_actor"},
          call \in {"invalid", "rejected", "uncertain", "strong"} :
          /\ call = "strong" => \E port \in 1 .. 2 + Len(services) : is_port_open(port)
          /\ p' = [p EXCEPT ![r] =
                IF mode = "off" \/ ~q.seen \/ q.steps >= agent_verify_max_steps \/ call = "invalid"
                THEN Ended("uncertain", "none")
                ELSE IF mode = "gated_actor" /\ call = "strong"
                THEN Ended("passed", "agent")
                ELSE [q EXCEPT !.steps = @ + 1]]
    /\ UNCHANGED <<repo, scope, fresh, approval, consumed, services>>

\* The harness process dies; the services it started go on.
Crash(r) ==
    /\ p[r].pc \notin {"idle", "done"}
    /\ p' = [p EXCEPT ![r] = Ended("crashed", "none")]
    /\ UNCHANGED <<repo, scope, fresh, approval, consumed, services>>

-----------------------------------------------------------------------------
Init ==
    /\ \E t \in Tasks : repo = t.repo /\ scope = t.scope
    /\ fresh = TRUE
    /\ approval \in {{}} \cup {{c} : c \in {d \in registry.candidates : d.kind \in ApprovalKinds}}
    /\ consumed = {}
    /\ services = <<>>
    /\ p = [r \in Runs |-> Idle]

RunStep(r) ==
    \/ Begin(r)
    \/ Select(r)
    \/ _consume_command_approval(r)
    \/ Start(r)
    \/ WaitForPort(r)
    \/ SurvivalWindow(r)
    \/ Probe(r)
    \/ _execute_browser_probe(r)
    \/ _plan_and_execute_verify_hint(r)
    \/ act_verify(r)

Next ==
    \/ \E r \in Runs : RunStep(r) \/ Crash(r)
    \/ \E s \in DOMAIN services : Bind(s) \/ Exit(s)
    \/ RepositoryChanges

Spec == Init /\ [][Next]_vars

-----------------------------------------------------------------------------
(* Properties                                                              *)

\* Candidates that the policy refuses in every state of the repository: the JVM
\* wrappers, whose path the resolver does not bind, and a Maven build naming the
\* jar whose evidence discovery drops; a manage.py below the root and a Procfile
\* with a $ variable, which are hard-denied; and a documented setup command, as
\* env_deploy passes no owner marker.
NeverAuthorized(c) ==
    \/ c.exe \in {"wrapper", "parent_venv"} \/ c.arg = "meta"
    \/ "wrapper_jar" \in c.ids
    \/ c.phase = "setup"

\* What env_deploy passes for the install and setup commands, and the runner for
\* the others, once the environment is complete.
EnvOf(c) == [require |-> TRUE, marker |-> c.phase = "run", built |-> TRUE]

\* Discovery and policy agree: with its files unchanged, its environment built
\* and its approval given, a discovered candidate is authorized, except the
\* kinds named above, which never are.
DiscoveredIsAuthorizable ==
    \A c \in registry.candidates :
        (authorize(c, registry, TRUE, EnvOf(c), [granted |-> {c}, execution_count |-> 0])
            = "auto_allowed") <=> ~NeverAuthorized(c)

\* One approval starts one process: however two runs interleave, and wherever
\* one dies, a command that needs an approval is started at most once, and only
\* with its approval.
ApprovalOnce ==
    \A s, t \in DOMAIN services :
        services[s].cmd.kind \in ApprovalKinds =>
            /\ services[s].cmd \in approval
            /\ services[t].cmd = services[s].cmd => s = t

\* When the runner reported a docker service ready and verify's own checks passed
\* it, the answer was its own, not that of a listener that was there before,
\* unless the service ended after the report.
OwnServiceAnswers ==
    [][\A r \in Runs :
        LET q == p[r] IN
        /\ q.pc \in {"probe", "browser"} /\ p'[r].by = "answer"
        /\ q.ready /\ services[q.svc].backend = "docker"
        => q.svc \in Listeners(q.port) \/ services[q.svc].st = "gone"]_vars

=============================================================================
