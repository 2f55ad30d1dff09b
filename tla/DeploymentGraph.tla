---------------------------- MODULE DeploymentGraph ----------------------------
(***************************************************************************)
(* The LangGraph deployment controller: one action per graph node together *)
(* with the route that leaves it, the operator who answers approval        *)
(* interrupts, and a process that may die inside a node and be resumed     *)
(* from the last checkpoint.  A node's state update is checkpointed as a   *)
(* whole; what it did to the journal or outside before it died stays.      *)
(***************************************************************************)
EXTENDS OperationStatus, FiniteSets

CONSTANTS
    Candidates,     \* repository commands the plan may propose, as numbers > 0
    Stale,          \* may an answer be one to an earlier request?
    MaxReplans, MaxDiagnoses, MaxRepairs, MaxSameFailure, MaxRounds,
    MaxCrash,       \* bound on the crashes
    MaxAnswers      \* bound on the operator's answers

ASSUME GraphAssumption ==
    /\ Candidates \subseteq Nat \ {0} /\ Stale \in BOOLEAN
    /\ MaxReplans \in Nat /\ MaxDiagnoses \in Nat /\ MaxRepairs \in Nat
    /\ MaxSameFailure \in Nat /\ MaxRounds \in Nat
    /\ MaxCrash \in Nat /\ MaxAnswers \in Nat

EffectStages == {"env_deploy", "model_prepare", "runner"}
PlainStages == {"analyze", "resource_plan", "host_preflight", "env_solve"}
Gates == {"recover_env_deploy", "recover_model_prepare", "recover_runner"}

GateOf == [env_deploy |-> "recover_env_deploy", model_prepare |-> "recover_model_prepare",
           runner |-> "recover_runner"]

\* The node a stage is entered through, and the node after a stage.
Entry(s) == IF s \in EffectStages THEN GateOf[s] ELSE s
After == [analyze |-> "resource_plan", resource_plan |-> "host_preflight",
          host_preflight |-> "env_solve", env_solve |-> "recover_env_deploy",
          env_deploy |-> "recover_model_prepare", model_prepare |-> "recover_runner",
          runner |-> "verify"]

Nodes == EffectStages \cup PlainStages \cup Gates \cup
         {"plan", "observe_repo", "parse", "policy", "compile", "verify",
          "observe_failure", "diagnose", "replan", "repair_policy", "repair_apply",
          "select_repair_resume", "approval", "cleanup", "report", "stop", "end"}

\* An operation id is a stage with the version of its normalized input.
Operation == EffectStages \X (0..MaxReplans + 1)

\* An approval request: its kind, its operation, and the repair or candidate
\* it is about; the request hash tells any two of them apart.
Request == [kind : {"recovery", "repair", "repository_command"},
            op : Operation \cup {<<>>}, action : {"retry", "cleanup_then_retry", "apply"},
            n : 0..MaxRepairs \cup Candidates]
NoRequest == [kind |-> "none", op |-> <<>>, action |-> "none", n |-> 0]

VARIABLES
    pc,        \* the node to run next (the checkpoint's next)
    down,      \* the process is dead
    journal,   \* status of every operation
    version,   \* version[s]: version of the input of stage s
    g,         \* the graph state (GraphState)
    verify,    \* verify_status
    pending,   \* pending_approval
    asked,     \* history: every request ever made
    rejected,  \* rejected_command_candidate_ids
    granted,   \* the candidate of approved_command_approval
    h          \* history: what was applied, approved and executed
vars == <<pc, down, journal, version, g, verify, pending, asked, rejected, granted, h>>
approvals == <<pending, asked, rejected, granted>>

Op(s) == <<s, version[s]>>

GraphState ==
    [stop : BOOLEAN,                                     \* stop_reason is set
     rounds : 0..MaxRounds, replans : 0..MaxReplans + 1,
     diagnoses : 0..MaxDiagnoses, repairs : 0..MaxRepairs, same : 0..MaxSameFailure,
     failed : EffectStages \cup PlainStages \cup {"", "verify"},   \* failed_stage
     gate : EffectStages \cup {""}, decision : {"", "run", "reuse", "other"},
     resume : EffectStages \cup {"", "verify"},          \* repair_resume_stage
     resumed : BOOLEAN,                                  \* repair_resume_executed
     effective : BOOLEAN,                                \* effective_action_count > 0
     candidate : Candidates \cup {0},                    \* the selected run candidate
     kind : {"", "recovery", "repair", "repository_command"},
     target : EffectStages \cup {"", "repair_apply", "policy"},
     last : {"", "approve", "reject"},                   \* last of approval_history
     action : {"", "retry", "cleanup_then_retry", "apply"},
     approved : Operation \cup {<<>>}]

History ==
    [crashes : 0..MaxCrash, answers : 0..MaxAnswers,
     grants : SUBSET (1..MaxRepairs),         \* repairs the operator approved
     needs : BOOLEAN,                         \* the current repair needs approval
     refused : BOOLEAN,                       \* the operator rejected a request
     ran : Nodes]                             \* last node that acted outside

Init ==
    /\ pc = "plan" /\ down = FALSE
    /\ journal = [o \in Operation |-> NoRecord]
    /\ version = [s \in EffectStages |-> 0]
    /\ g = [stop |-> FALSE, rounds |-> MaxRounds, replans |-> 0, diagnoses |-> 0,
            repairs |-> 0, same |-> 0, failed |-> "", gate |-> "", decision |-> "",
            resume |-> "", resumed |-> FALSE, effective |-> FALSE, candidate |-> 0,
            kind |-> "", target |-> "", last |-> "", action |-> "", approved |-> <<>>]
    /\ verify = ""
    /\ pending = NoRequest /\ asked = {} /\ rejected = {} /\ granted = 0
    /\ h = [crashes |-> 0, answers |-> 0, grants |-> {}, needs |-> FALSE,
            refused |-> FALSE, ran |-> "plan"]

At(node) == pc = node /\ ~down
Ask(r) == pending' = r /\ asked' = asked \cup {r}

-----------------------------------------------------------------------------
(* Planning                                                                *)

\* A final plan, a request to look at the repository, or a provider failure.
Plan ==
    /\ At("plan")
    /\ \/ pc' = "parse" /\ UNCHANGED g
       \/ g.rounds > 0 /\ pc' = "observe_repo" /\ UNCHANGED g
       \/ pc' = "stop" /\ g' = [g EXCEPT !.stop = TRUE]
    /\ UNCHANGED <<down, journal, version, verify, approvals, h>>

\* Fault: a round of observation is free.
ObserveRepo_Free ==
    /\ At("observe_repo") /\ pc' = "plan"
    /\ UNCHANGED <<g, down, journal, version, verify, approvals, h>>

ObserveRepo ==
    /\ At("observe_repo")
    /\ \/ pc' = "plan" /\ g' = [g EXCEPT !.rounds = @ - 1]
       \/ pc' = "stop" /\ g' = [g EXCEPT !.stop = TRUE]
    /\ UNCHANGED <<down, journal, version, verify, approvals, h>>

Parse ==
    /\ At("parse")
    /\ \E ok \in BOOLEAN : /\ g' = [g EXCEPT !.stop = ~ok]
                           /\ pc' = IF ok THEN "policy" ELSE "stop"
    /\ UNCHANGED <<down, journal, version, verify, approvals, h>>

\* excluded_candidate_ids are not considered.
Eligible == Candidates \ rejected

\* The plan is accepted with a candidate that needs no approval or has it, one
\* is sent to the operator, or the plan is rejected.
PlanPolicy ==
    /\ At("policy")
    /\ \/ \E c \in Eligible :
            \/ /\ pc' = IF pending # NoRequest THEN "approval" ELSE "compile"
               /\ g' = [g EXCEPT !.stop = FALSE, !.candidate = c]
               /\ UNCHANGED approvals
            \/ /\ granted # c
               /\ Ask([kind |-> "repository_command", op |-> <<>>, action |-> "apply", n |-> c])
               /\ g' = [g EXCEPT !.stop = FALSE, !.kind = "repository_command", !.target = "policy"]
               /\ pc' = "approval" /\ UNCHANGED <<rejected, granted>>
       \/ /\ g' = [g EXCEPT !.stop = TRUE]
          /\ pc' = IF pending # NoRequest THEN "approval" ELSE "stop"
          /\ UNCHANGED approvals
    /\ UNCHANGED <<down, journal, version, verify, h>>

\* compile and select_resume.  A first plan starts with analyze.  A new plan
\* resumes at the first part that changed; a stage whose part changed may have
\* a new operation id.
Compile ==
    /\ At("compile")
    /\ IF g.replans = 0
         THEN pc' = "analyze" /\ UNCHANGED version
         ELSE \E changed \in SUBSET (EffectStages \cup {"verify"}) :
              /\ pc' = Entry(CASE "env_deploy" \in changed    -> "env_deploy"
                               [] "env_deploy" \notin changed /\ "model_prepare" \in changed -> "model_prepare"
                               [] changed = {"verify"}        -> "verify"
                               [] OTHER                       -> "runner")
              /\ \E new \in SUBSET (changed \ {"verify"}) :
                   version' = [s \in EffectStages |-> IF s \in new THEN version[s] + 1 ELSE version[s]]
    /\ UNCHANGED <<down, journal, g, verify, approvals, h>>

-----------------------------------------------------------------------------
(* Stages                                                                  *)

PlainStage(s) ==
    /\ At(s)
    /\ \/ pc' = After[s] /\ UNCHANGED g
       \/ pc' = "observe_failure" /\ g' = [g EXCEPT !.failed = s]
    /\ UNCHANGED <<down, journal, version, verify, approvals, h>>

\* Fault: a committed operation is executed again.
GateVerdicts_NoReuse(s) ==
    IF journal[Op(s)] = "committed" THEN {[to |-> "committed", decision |-> "run"]}
                                    ELSE {[to |-> "running", decision |-> "run"]}

\* prepare_or_reconcile: the record's new status and the decision.
GateVerdicts(s) ==
    LET st == journal[Op(s)] IN
    CASE st \in Beginnable -> {[to |-> "running", decision |-> "run"]}
      [] st = "committed"  -> {[to |-> "committed", decision |-> "reuse"]}
      [] st \in {"running", "unknown"} ->
           {[to |-> "committed", decision |-> "reuse"], [to |-> "running", decision |-> "run"],
            [to |-> "manual", decision |-> "cleanup_then_retry"], [to |-> "conflict", decision |-> "stop"]}
      [] st = "failed" ->
           {IF g.resumed /\ g.repairs > 0 /\ g.failed = s /\ g.effective
              THEN [to |-> "retryable", decision |-> "run"]
              ELSE [to |-> "failed", decision |-> "retry"]}
      [] OTHER -> {[to |-> st, decision |-> "stop"]}

\* The recovery gate of a side-effect stage and _route_after_recovery.
RecoveryGate(s) ==
    /\ At(GateOf[s])
    /\ \E v \in GateVerdicts(s) :
       /\ journal' = [journal EXCEPT ![Op(s)] = v.to]
       /\ g' = [g EXCEPT !.gate = s,
                  !.decision = IF v.decision \in {"run", "reuse"} THEN v.decision ELSE "other",
                  !.stop = @ \/ v.decision = "stop",
                  !.kind = IF v.decision \in {"retry", "cleanup_then_retry"} THEN "recovery" ELSE @,
                  !.target = IF v.decision \in {"retry", "cleanup_then_retry"} THEN s ELSE @]
       /\ IF v.decision \in {"retry", "cleanup_then_retry"}
            THEN Ask([kind |-> "recovery", op |-> Op(s), action |-> v.decision, n |-> 0])
            ELSE UNCHANGED <<pending, asked>>
       /\ pc' = IF g'.stop THEN "stop"
                ELSE IF pending' # NoRequest THEN "approval"
                ELSE IF v.decision = "reuse" THEN After[s] ELSE s
    /\ UNCHANGED <<down, version, verify, rejected, granted, h>>

\* A side-effect stage node: its effect, then the journal, then the checkpoint.
EffectStage(s) ==
    /\ At(s)
    /\ \E ok \in BOOLEAN :
         LET to == IF ok THEN "committed" ELSE "failed" IN
         /\ to \in AllowedTransitions[journal[Op(s)]]
         /\ journal' = [journal EXCEPT ![Op(s)] = to]
         /\ g' = [g EXCEPT !.failed = IF ok THEN @ ELSE s]
         /\ pc' = IF ok THEN After[s] ELSE "observe_failure"
    /\ h' = [h EXCEPT !.ran = s]
    /\ UNCHANGED <<down, version, verify, approvals>>

\* Fault: the route knows only one spelling of a pass.
Verify_OneSpelling ==
    /\ At("verify")
    /\ verify' = "pass" /\ pc' \in {"report", "observe_failure"}
    /\ g' = [g EXCEPT !.failed = "verify"]
    /\ h' = [h EXCEPT !.ran = "verify"]
    /\ UNCHANGED <<down, journal, version, approvals>>

Verify ==
    /\ At("verify")
    /\ \/ verify' = "pass" /\ pc' = "report" /\ UNCHANGED g
       \/ /\ verify' \in {"failed", "uncertain"}
          /\ pc' = "observe_failure" /\ g' = [g EXCEPT !.failed = "verify"]
    /\ h' = [h EXCEPT !.ran = "verify"]
    /\ UNCHANGED <<down, journal, version, approvals>>

\* finalize_learning and report, or stop.
Finish ==
    /\ At("report") \/ At("stop")
    /\ pc' = "end"
    /\ UNCHANGED <<down, journal, version, g, verify, approvals, h>>

-----------------------------------------------------------------------------
(* Failures                                                                *)

\* Seen again, a failure signature counts up to max_same_failure; the edge to
\* diagnose is taken all the same.
ObserveFailure ==
    /\ At("observe_failure") /\ pc' = "diagnose"
    /\ \E n \in {1, g.same + 1} :
         g' = [g EXCEPT !.same = n, !.stop = @ \/ n >= MaxSameFailure]
    /\ UNCHANGED <<down, journal, version, verify, approvals, h>>

\* Repair actions, a new plan, or the end.
Diagnose ==
    /\ At("diagnose")
    /\ \/ /\ g.diagnoses >= MaxDiagnoses
          /\ g' = [g EXCEPT !.stop = TRUE] /\ pc' = "stop"
       \/ /\ g.diagnoses < MaxDiagnoses
          /\ \E to \in {"repair_policy", "replan", "stop"} :
               /\ g' = [g EXCEPT !.diagnoses = @ + 1, !.stop = @ \/ to = "stop"]
               /\ pc' = IF g.stop THEN "stop" ELSE to
    /\ UNCHANGED <<down, journal, version, verify, approvals, h>>

Replan ==
    /\ At("replan")
    /\ \/ g' = [g EXCEPT !.replans = @ + 1, !.stop = TRUE] /\ pc' = "stop"
       \/ /\ g' = [g EXCEPT !.replans = @ + 1, !.stop = FALSE]
          /\ pc' \in IF g.replans + 1 > MaxReplans THEN {"stop"} ELSE {"plan", "parse"}
    /\ UNCHANGED <<down, journal, version, verify, approvals, h>>

-----------------------------------------------------------------------------
(* Repair                                                                  *)

RepairLimit == g.repairs >= MaxRepairs

\* repair_plan and repair_policy: the limit, the policy, the operator.
RepairPolicy ==
    /\ At("repair_policy")
    /\ \/ /\ g' = [g EXCEPT !.stop = TRUE] /\ pc' = "stop"
          /\ UNCHANGED <<pending, asked, h>>
       \/ /\ ~RepairLimit
          /\ pc' = IF pending # NoRequest THEN "approval" ELSE "repair_apply"
          /\ h' = [h EXCEPT !.needs = FALSE]
          /\ UNCHANGED <<g, pending, asked>>
       \/ /\ ~RepairLimit
          /\ g' = [g EXCEPT !.kind = "repair", !.target = "repair_apply"]
          /\ Ask([kind |-> "repair", op |-> IF g.gate = "" THEN <<>> ELSE Op(g.gate),
                  action |-> "apply", n |-> g.repairs + 1])
          /\ h' = [h EXCEPT !.needs = TRUE]
          /\ pc' = "approval"
    /\ UNCHANGED <<down, journal, version, verify, rejected, granted>>

RepairApply ==
    /\ At("repair_apply")
    /\ \E s \in EffectStages \cup {"verify"}, e \in BOOLEAN :
         /\ g' = [g EXCEPT !.repairs = @ + 1, !.resume = s, !.resumed = FALSE, !.effective = e]
         /\ h' = [h EXCEPT !.ran = "repair_apply"]
    /\ pc' = "select_repair_resume"
    /\ UNCHANGED <<down, journal, version, verify, approvals>>

SelectRepairResume ==
    /\ At("select_repair_resume")
    /\ g' = [g EXCEPT !.resumed = TRUE]
    /\ pc' = Entry(IF g.resume = "" THEN "env_deploy" ELSE g.resume)
    /\ UNCHANGED <<down, journal, version, verify, approvals, h>>

-----------------------------------------------------------------------------
(* Approval                                                                *)

\* route_after_approval reads the last entry of the history, not stop_reason.
RouteAfterApproval(s) ==
    CASE s.last = ""                       -> "stop"
      [] s.last # "" /\ s.kind = "repository_command" -> "policy"
      [] s.last = "reject" /\ s.kind # "repository_command" -> "stop"
      [] s.last = "approve" /\ s.kind # "repository_command" ->
           IF s.action = "cleanup_then_retry" THEN "cleanup"
           ELSE IF s.target = "repair_apply" THEN "repair_apply" ELSE "select_repair_resume"

\* Fault: an answer to another request is ignored.
Mismatched_Ignored == g

\* An answer to another request only sets stop_reason.
Mismatched == [g EXCEPT !.stop = TRUE]

\* The operator's answer r to a request and the rest of approval_node.
Answer(r, d) ==
    /\ At("approval") /\ h.answers < MaxAnswers
    /\ IF r = pending
         THEN LET command == r.kind = "repository_command" IN
              /\ pending' = NoRequest
              /\ g' = [g EXCEPT !.last = d,
                         !.approved = IF d = "approve" THEN r.op ELSE <<>>,
                         !.action = IF d = "approve" THEN r.action ELSE "",
                         !.stop = d = "reject" /\ ~command]
              /\ granted' = IF command THEN (IF d = "approve" THEN r.n ELSE 0) ELSE granted
              /\ rejected' = IF command /\ d = "reject" THEN rejected \cup {r.n} ELSE rejected
              /\ h' = [h EXCEPT !.answers = @ + 1,
                         !.refused = @ \/ (d = "reject" /\ ~command),
                         !.grants = IF d = "approve" /\ r.kind = "repair" THEN @ \cup {r.n} ELSE @]
         ELSE /\ g' = Mismatched
              /\ h' = [h EXCEPT !.answers = @ + 1]
              /\ UNCHANGED <<pending, rejected, granted>>
    /\ pc' = RouteAfterApproval(g')
    /\ UNCHANGED <<down, journal, version, verify, asked>>

\* cleanup_node: the owned resource is removed and the operation is retryable,
\* or one of its checks sets stop_reason.  Both go on to select_repair_resume.
Cleanup ==
    /\ At("cleanup") /\ pc' = "select_repair_resume"
    /\ \/ /\ g.action = "cleanup_then_retry" /\ g.approved # <<>>
          /\ journal[g.approved] = "manual"
          /\ journal' = [journal EXCEPT ![g.approved] = "retryable"]
          /\ g' = [g EXCEPT !.approved = <<>>, !.action = "", !.stop = FALSE]
          /\ h' = [h EXCEPT !.ran = "cleanup"]
       \/ g' = [g EXCEPT !.stop = TRUE] /\ UNCHANGED <<journal, h>>
    /\ UNCHANGED <<down, version, verify, approvals>>

-----------------------------------------------------------------------------
(* Crashes                                                                 *)

\* What the node that dies may have done: nothing, the gate's or the stage's
\* journal writes, the repair, or the cleanup.
Crash ==
    /\ ~down /\ pc \notin {"end", "approval"} /\ h.crashes < MaxCrash
    /\ down' = TRUE
    /\ \/ UNCHANGED journal /\ h' = [h EXCEPT !.crashes = @ + 1]
       \/ /\ \E s \in EffectStages :
               \/ /\ pc = GateOf[s]
                  /\ \E v \in GateVerdicts(s) : journal' = [journal EXCEPT ![Op(s)] = v.to]
               \/ /\ pc = s
                  /\ \E to \in {"committed", "failed"} : journal' = [journal EXCEPT ![Op(s)] = to]
          /\ h' = [h EXCEPT !.crashes = @ + 1]
       \/ /\ pc = "repair_apply" /\ UNCHANGED journal
          /\ h' = [h EXCEPT !.crashes = @ + 1, !.ran = pc]
       \/ /\ pc = "cleanup" /\ g.approved # <<>> /\ journal[g.approved] = "manual"
          /\ \/ journal' = [journal EXCEPT ![g.approved] = "retryable"]
             \/ UNCHANGED journal
          /\ h' = [h EXCEPT !.crashes = @ + 1, !.ran = pc]
    /\ UNCHANGED <<pc, version, g, verify, approvals>>

\* resume(): refused when the next node is a raw side-effect stage.
Resume ==
    /\ down /\ pc \notin EffectStages
    /\ down' = FALSE
    /\ UNCHANGED <<pc, journal, version, g, verify, approvals, h>>

-----------------------------------------------------------------------------
Node == \/ Plan \/ ObserveRepo \/ Parse \/ PlanPolicy \/ Compile
        \/ (\E s \in PlainStages : PlainStage(s))
        \/ (\E s \in EffectStages : RecoveryGate(s) \/ EffectStage(s))
        \/ Verify \/ Finish \/ ObserveFailure \/ Diagnose \/ Replan
        \/ RepairPolicy \/ RepairApply \/ SelectRepairResume \/ Cleanup

Operator == \E d \in {"approve", "reject"} :
              \/ Answer(pending, d)
              \/ Stale /\ \E r \in asked : Answer(r, d)

Next == Node \/ Operator \/ Crash \/ Resume

Spec == Init /\ [][Next]_vars

\* The graph runtime takes the next node, and a dead run is resumed.
FairSpec == Spec /\ WF_vars(Node) /\ WF_vars(Resume)

-----------------------------------------------------------------------------
\* Every variable has its type.
TypeOK ==
    /\ pc \in Nodes /\ down \in BOOLEAN
    /\ journal \in [Operation -> Status \cup {NoRecord}]
    /\ version \in [EffectStages -> 0..MaxReplans + 1]
    /\ g \in GraphState /\ h \in History
    /\ verify \in {"", "pass", "failed", "uncertain"}
    /\ pending \in Request \cup {NoRequest} /\ asked \subseteq Request
    /\ rejected \subseteq Candidates /\ granted \in Candidates \cup {0}

\* A side-effect stage is about to run only through its own gate, with its
\* operation open in the journal and no stop_reason: no path of repairs,
\* approvals, replans and resumes reaches it otherwise.
StageIsBegun ==
    pc \in EffectStages /\ ~down =>
        /\ g.gate = pc /\ g.decision = "run" /\ ~g.stop
        /\ journal[Op(pc)] \in {"running", "retryable"}

\* "Approval only authorizes one operation_id + requested_action": a repair
\* that needs the operator is applied only if this repair was approved.
ApprovedRepairsOnly ==
    pc = "repair_apply" /\ h.needs => g.repairs + 1 \in h.grants

\* An answer to an earlier request can let a repair through that nobody has
\* approved, but then stop_reason is set: the next gate ends the graph and no
\* stage runs on it.
UnapprovedRepairEnds ==
    pc = "repair_apply" /\ h.needs => g.repairs + 1 \in h.grants \/ g.stop

\* A deployment that counts as verified was verified after everything else it
\* did: the pass is never older than a stage, a repair or a cleanup.
VerifiedLast == verify = "pass" => h.ran = "verify"

\* The graph always comes to rest: it ends, waits for the operator, or stays
\* blocked at a side-effect stage it died in.
Settles == []<>(pc \in {"end", "approval"} \/ (down /\ pc \in EffectStages))

=============================================================================
