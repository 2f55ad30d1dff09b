---------------------------- MODULE Drivers_proofs ----------------------------
(***************************************************************************)
(* The two drivers of a deployment, which share no state.                  *)
(*                                                                         *)
(* Three safety properties of the deployment graph, for any number of      *)
(* candidates, replans, diagnoses, repairs, answers and crashes, with or   *)
(* without answers to earlier requests.                                    *)
(*                                                                         *)
(* A success the unified agent loop reports is one it verified itself, for *)
(* any tools, iterations, runs and crashes.                                *)
(***************************************************************************)
EXTENDS DeploymentGraph, AgentLoop, TLAPS

-----------------------------------------------------------------------------
(* The deployment graph                                                    *)

GFields == {"stop", "rounds", "replans", "diagnoses", "repairs", "same", "failed", "gate", "decision",
            "resume", "resumed", "effective", "candidate", "kind", "target", "last", "action", "approved"}
HFields == {"crashes", "answers", "grants", "needs", "refused", "ran"}

\* What the steps need to know of the types.
Shape ==
    /\ GFields \subseteq DOMAIN g /\ HFields \subseteq DOMAIN h
    /\ DOMAIN journal = Operation /\ version \in [EffectStages -> Nat]
    /\ g.replans \in Nat /\ g.resume \in EffectStages \cup {"", "verify"}
    /\ g.last \in {"", "approve", "reject"}

\* A plan is being made, and no stage has run on it yet.
Drafting ==
    \/ pc \in {"plan", "observe_repo", "parse", "policy", "compile"}
    \/ pc = "approval" /\ g.kind = "repository_command"
Over == pc \in {"stop", "end"}

\* Each new plan gives a stage at most one new operation id, so the ids stay
\* within Operation: nothing leads from a stage to compile but a replan.
Versions ==
    /\ \A s \in EffectStages : version[s] <= g.replans
    /\ Drafting => \A s \in EffectStages : version[s] = 0 \/ version[s] < g.replans
    /\ ~Over => g.replans <= MaxReplans
    /\ g.replans <= MaxReplans + 1
    /\ pc = "compile" => pending = NoRequest
    /\ ~Drafting /\ ~Over /\ pending # NoRequest => g.kind # "repository_command"

\* A repair was applied on an answer to an earlier request: whatever is still
\* pending, the graph is on its way to the end.
Ending ==
    /\ g.stop
    /\ pc \in Gates \cup {"select_repair_resume", "verify", "report", "observe_failure", "diagnose",
                          "stop", "end"}

\* What is pending is what g says it is, and a pending repair is the next one.
Requests ==
    /\ pc = "approval" => pending # NoRequest
    /\ pc = "repair_apply" /\ pending # NoRequest => g.stop
    /\ pending # NoRequest => /\ pending.kind = g.kind
                              /\ g.target = "repair_apply" => pending.kind = "repair"
    /\ pending # NoRequest /\ pending.kind = "repair" => pending.n = g.repairs + 1 \/ Ending

\* After a pass only the report is left.
Passed == verify = "pass" => pc \in {"report", "end"} /\ h.ran = "verify"

\* The inductive invariant.
GraphInv == Shape /\ Versions /\ Requests /\ Passed /\ StageIsBegun /\ UnapprovedRepairEnds

\* Planning touches no version, request, verdict or stage.
LEMMA PlanKeeps == ASSUME GraphInv, Plan PROVE GraphInv'
<1> USE DEF Plan, At, approvals
<1>1. Shape' BY Zenon DEF GraphInv, Shape, GFields, HFields
<1>2. Versions' BY Zenon, GraphAssumption DEF GraphInv, Shape, GFields, Versions, Drafting, Over
<1>3. Requests' BY Zenon DEF GraphInv, Shape, GFields, Requests, Ending, Gates
<1>4. Passed' BY Zenon DEF GraphInv, Shape, HFields, Passed
<1>5. StageIsBegun' BY DEF StageIsBegun, EffectStages
<1>6. UnapprovedRepairEnds' BY DEF UnapprovedRepairEnds
<1> QED BY <1>1, <1>2, <1>3, <1>4, <1>5, <1>6 DEF GraphInv

\* An observation uses up a round, or stops the graph.
LEMMA ObserveRepoKeeps == ASSUME GraphInv, ObserveRepo PROVE GraphInv'
<1> USE DEF ObserveRepo, At, approvals
<1>1. Shape' BY Zenon DEF GraphInv, Shape, GFields, HFields
<1>2. Versions' BY Zenon, GraphAssumption DEF GraphInv, Shape, GFields, Versions, Drafting, Over
<1>3. Requests' BY Zenon DEF GraphInv, Shape, GFields, Requests, Ending, Gates
<1>4. Passed' BY Zenon DEF GraphInv, Shape, HFields, Passed
<1>5. StageIsBegun' BY DEF StageIsBegun, EffectStages
<1>6. UnapprovedRepairEnds' BY DEF UnapprovedRepairEnds
<1> QED BY <1>1, <1>2, <1>3, <1>4, <1>5, <1>6 DEF GraphInv

\* Parsing only sets or clears stop_reason.
LEMMA ParseKeeps == ASSUME GraphInv, Parse PROVE GraphInv'
<1> USE DEF Parse, At, approvals
<1>1. Shape' BY Zenon DEF GraphInv, Shape, GFields, HFields
<1>2. Versions' BY Zenon, GraphAssumption DEF GraphInv, Shape, GFields, Versions, Drafting, Over
<1>3. Requests' BY Zenon DEF GraphInv, Shape, GFields, Requests, Ending, Gates
<1>4. Passed' BY Zenon DEF GraphInv, Shape, HFields, Passed
<1>5. StageIsBegun' BY DEF StageIsBegun, EffectStages
<1>6. UnapprovedRepairEnds' BY SMTT(30) DEF UnapprovedRepairEnds
<1> QED BY <1>1, <1>2, <1>3, <1>4, <1>5, <1>6 DEF GraphInv

\* The plan policy may ask about a candidate, and then says so in kind and target.
LEMMA PlanPolicyKeeps == ASSUME GraphInv, PlanPolicy PROVE GraphInv'
<1> USE DEF PlanPolicy, Ask, At, approvals
<1>1. Shape' BY ZenonT(30) DEF GraphInv, Shape, GFields, HFields
<1>2. Versions' BY ZenonT(30), GraphAssumption DEF GraphInv, Shape, GFields, Versions, Drafting, Over
<1>3. Requests'
  <2> HIDE DEF PlanPolicy, Ask, At, approvals
  <2>1. /\ pc = "policy" /\ GFields \subseteq DOMAIN g
        /\ pending # NoRequest => /\ pending.kind = g.kind
                                  /\ g.target = "repair_apply" => pending.kind = "repair"
                                  /\ pending.kind = "repair" => pending.n = g.repairs + 1
    BY Zenon DEF PlanPolicy, At, GraphInv, Shape, Requests, Ending, Gates
  <2>2. CASE /\ UNCHANGED pending /\ g'.kind = g.kind /\ g'.target = g.target /\ g'.repairs = g.repairs
             /\ pc' \in {"approval", "compile", "stop"} /\ (pc' = "approval" => pending # NoRequest)
    BY <2>1, <2>2 DEF Requests
  <2>3. CASE /\ pending' # NoRequest /\ pending'.kind = "repository_command"
             /\ g'.kind = "repository_command" /\ g'.target = "policy" /\ pc' = "approval"
    BY <2>3 DEF Requests
  <2>4. ASSUME NEW c \in Eligible,
               Ask([kind |-> "repository_command", op |-> <<>>, action |-> "apply", n |-> c])
        PROVE  pending' # NoRequest /\ pending'.kind = "repository_command"
    BY SMTT(30), <2>4 DEF Ask, NoRequest
  <2> QED BY ZenonT(30), <2>1, <2>2, <2>3, <2>4 DEF PlanPolicy, approvals, GFields
<1>4. Passed' BY ZenonT(30) DEF GraphInv, Shape, HFields, Passed
<1>5. StageIsBegun' BY Zenon DEF StageIsBegun, EffectStages
<1>6. UnapprovedRepairEnds' BY DEF UnapprovedRepairEnds
<1> QED BY ZenonT(30), <1>1, <1>2, <1>3, <1>4, <1>5, <1>6 DEF GraphInv

\* A pass is recorded with verify as the last node, and only the report follows.
LEMMA VerifyKeeps == ASSUME GraphInv, Verify PROVE GraphInv'
<1> USE DEF Verify, At, approvals
<1>1. Shape' BY Zenon DEF GraphInv, Shape, GFields, HFields
<1>2. Versions' BY Zenon, GraphAssumption DEF GraphInv, Shape, GFields, Versions, Drafting, Over
<1>3. Requests' BY Zenon DEF GraphInv, Shape, GFields, Requests, Ending, Gates
<1>4. Passed' BY Zenon DEF GraphInv, Shape, HFields, Passed
<1>5. StageIsBegun' BY DEF StageIsBegun, EffectStages
<1>6. UnapprovedRepairEnds' BY DEF UnapprovedRepairEnds
<1> QED BY <1>1, <1>2, <1>3, <1>4, <1>5, <1>6 DEF GraphInv

\* The end changes nothing but the node.
LEMMA FinishKeeps == ASSUME GraphInv, Finish PROVE GraphInv'
<1> USE DEF Finish, At, approvals
<1>1. Shape' BY Zenon DEF GraphInv, Shape, GFields, HFields
<1>2. Versions' BY Zenon, GraphAssumption DEF GraphInv, Shape, GFields, Versions, Drafting, Over
<1>3. Requests' BY Zenon DEF GraphInv, Shape, GFields, Requests, Ending, Gates
<1>4. Passed' BY Zenon DEF GraphInv, Shape, HFields, Passed
<1>5. StageIsBegun' BY DEF StageIsBegun, EffectStages
<1>6. UnapprovedRepairEnds' BY DEF UnapprovedRepairEnds
<1> QED BY <1>1, <1>2, <1>3, <1>4, <1>5, <1>6 DEF GraphInv

\* Observing a failure never clears stop_reason.
LEMMA ObserveFailureKeeps == ASSUME GraphInv, ObserveFailure PROVE GraphInv'
<1> USE DEF ObserveFailure, At, approvals
<1>1. Shape' BY Zenon DEF GraphInv, Shape, GFields, HFields
<1>2. Versions' BY Zenon, GraphAssumption DEF GraphInv, Shape, GFields, Versions, Drafting, Over
<1>3. Requests' BY Zenon DEF GraphInv, Shape, GFields, Requests, Ending, Gates
<1>4. Passed' BY Zenon DEF GraphInv, Shape, HFields, Passed
<1>5. StageIsBegun' BY DEF StageIsBegun, EffectStages
<1>6. UnapprovedRepairEnds' BY DEF UnapprovedRepairEnds
<1> QED BY <1>1, <1>2, <1>3, <1>4, <1>5, <1>6 DEF GraphInv

\* A diagnosis under stop_reason leads to stop.
LEMMA DiagnoseKeeps == ASSUME GraphInv, Diagnose PROVE GraphInv'
<1> USE DEF Diagnose, At, approvals
<1>1. Shape' BY Zenon DEF GraphInv, Shape, GFields, HFields
<1>2. Versions' BY Zenon, GraphAssumption DEF GraphInv, Shape, GFields, Versions, Drafting, Over
<1>3. Requests' BY Zenon DEF GraphInv, Shape, GFields, Requests, Ending, Gates
<1>4. Passed' BY Zenon DEF GraphInv, Shape, HFields, Passed
<1>5. StageIsBegun' BY DEF StageIsBegun, EffectStages
<1>6. UnapprovedRepairEnds' BY DEF UnapprovedRepairEnds
<1> QED BY <1>1, <1>2, <1>3, <1>4, <1>5, <1>6 DEF GraphInv

\* A replan makes room for one more version, or ends the graph.
LEMMA ReplanKeeps == ASSUME GraphInv, Replan PROVE GraphInv'
<1>1. pc = "replan" /\ UNCHANGED <<journal, version, verify, pending, h>> BY DEF Replan, At, approvals
<1>2. /\ g'.replans = g.replans + 1 /\ GFields \subseteq DOMAIN g'
      /\ g'.resume = g.resume /\ g'.last = g.last /\ g'.kind = g.kind /\ g'.target = g.target /\ g'.repairs = g.repairs
  BY Zenon DEF Replan, GraphInv, Shape, GFields
<1>3. pc' = "stop" \/ (pc' \in {"plan", "parse"} /\ ~(g.replans + 1 > MaxReplans)) BY DEF Replan
<1>4. g.replans \in Nat /\ g.replans <= MaxReplans /\ MaxReplans \in Nat
  BY Zenon, <1>1, GraphAssumption DEF GraphInv, Shape, Versions, Over
<1>5. Shape'
  <2>1. g'.replans \in Nat BY <1>2, <1>4
  <2> QED BY Zenon, <1>1, <1>2, <2>1 DEF GraphInv, Shape
<1>6. ASSUME NEW s \in EffectStages PROVE version'[s] < g'.replans /\ version'[s] <= g'.replans
  <2>1. version[s] \in Nat /\ version[s] <= g.replans BY Zenon DEF GraphInv, Shape, Versions
  <2> QED BY <1>1, <1>2, <1>4, <2>1
<1>7. g'.replans <= MaxReplans + 1 /\ (pc' # "stop" => g'.replans <= MaxReplans) BY <1>2, <1>3, <1>4
<1>8. Versions'
  <2>1. pc' # "compile" /\ (Drafting' \/ Over') BY <1>3 DEF Drafting, Over
  <2> QED BY <1>6, <1>7, <2>1 DEF Versions, Over
<1>9. Requests' BY <1>1, <1>2, <1>3 DEF GraphInv, Requests, Ending, Gates
<1>10. Passed' BY <1>1 DEF GraphInv, Passed
<1>11. StageIsBegun' BY <1>3 DEF StageIsBegun, EffectStages
<1>12. UnapprovedRepairEnds' BY <1>3 DEF UnapprovedRepairEnds
<1> QED BY <1>5, <1>8, <1>9, <1>10, <1>11, <1>12 DEF GraphInv

\* A stage without side effects leads to the next, or to observe_failure.
LEMMA PlainStageKeeps == ASSUME GraphInv, NEW s \in PlainStages, PlainStage(s) PROVE GraphInv'
<1>0. pc \in PlainStages /\ pc' \in PlainStages \cup {"recover_env_deploy", "observe_failure"}
  BY DEF PlainStage, At, After, PlainStages
<1> USE DEF PlainStage, approvals
<1>1. Shape' BY Zenon DEF GraphInv, Shape, GFields, HFields
<1>2. Versions' BY Zenon, <1>0, GraphAssumption DEF GraphInv, Shape, GFields, Versions, Drafting, Over, PlainStages
<1>3. Requests' BY Zenon, <1>0 DEF GraphInv, Shape, GFields, Requests, Ending, Gates, PlainStages
<1>4. Passed' BY Zenon, <1>0 DEF GraphInv, Shape, HFields, Passed, PlainStages
<1>5. StageIsBegun' BY <1>0 DEF StageIsBegun, EffectStages, PlainStages
<1>6. UnapprovedRepairEnds' BY <1>0 DEF UnapprovedRepairEnds, PlainStages
<1> QED BY <1>1, <1>2, <1>3, <1>4, <1>5, <1>6 DEF GraphInv

\* A side-effect stage leads to the next gate, to verify or to observe_failure.
LEMMA EffectStageKeeps == ASSUME GraphInv, NEW s \in EffectStages, EffectStage(s) PROVE GraphInv'
<1>0. pc \in EffectStages /\ pc' \in {"recover_model_prepare", "recover_runner", "verify", "observe_failure"}
  BY DEF EffectStage, At, After, EffectStages
<1> USE DEF EffectStage, approvals
<1>1. Shape' BY Zenon DEF GraphInv, Shape, GFields, HFields
<1>2. Versions' BY Zenon, <1>0, GraphAssumption DEF GraphInv, Shape, GFields, Versions, Drafting, Over, EffectStages
<1>3. Requests' BY Zenon, <1>0 DEF GraphInv, Shape, GFields, Requests, Ending, Gates, EffectStages
<1>4. Passed' BY Zenon, <1>0 DEF GraphInv, Shape, HFields, Passed, EffectStages
<1>5. StageIsBegun' BY <1>0 DEF StageIsBegun, EffectStages
<1>6. UnapprovedRepairEnds' BY <1>0 DEF UnapprovedRepairEnds
<1> QED BY <1>1, <1>2, <1>3, <1>4, <1>5, <1>6 DEF GraphInv

\* Every side-effect stage has a gate.
LEMMA GateIn == ASSUME NEW s \in EffectStages PROVE GateOf[s] \in Gates
<1>1. /\ GateOf["env_deploy"] = "recover_env_deploy" /\ GateOf["model_prepare"] = "recover_model_prepare"
      /\ GateOf["runner"] = "recover_runner"
  BY DEF GateOf
<1> QED BY <1>1 DEF EffectStages, Gates

\* Compiling is where a stage may get a new version, once per replan.
LEMMA CompileKeeps == ASSUME GraphInv, Compile PROVE GraphInv'
<1>0. pc = "compile" /\ UNCHANGED <<journal, g, verify, pending, h, down>> BY DEF Compile, At, approvals
<1>1. pc' \in Gates \cup {"analyze", "verify"} BY DEF Compile, Entry, GateOf, Gates, EffectStages
<1>2. \/ g.replans = 0 /\ version' = version
      \/ /\ g.replans # 0
         /\ \E new : version' = [s \in EffectStages |-> IF s \in new THEN version[s] + 1 ELSE version[s]]
  BY DEF Compile
<1>3. g.replans \in Nat /\ version \in [EffectStages -> Nat] BY Zenon DEF GraphInv, Shape
<1>4. \A s \in EffectStages : version[s] = 0 \/ version[s] < g.replans
  BY <1>0 DEF GraphInv, Versions, Drafting
<1>5. version' \in [EffectStages -> Nat] BY <1>2, <1>3
<1>6. \A s \in EffectStages : version'[s] <= g.replans BY <1>2, <1>3, <1>4
<1>7. Shape' BY Zenon, <1>0, <1>5 DEF GraphInv, Shape
<1>8. Versions'
  <2>1. ~Drafting' /\ pc' # "compile" /\ pending' = NoRequest
    BY <1>0, <1>1 DEF Drafting, Gates, GraphInv, Versions
  <2> QED BY <1>0, <1>6, <2>1 DEF GraphInv, Versions, Over
<1>9. Requests' BY <1>0, <1>1 DEF GraphInv, Requests, Versions, Gates
<1>10. Passed' BY <1>0 DEF GraphInv, Passed
<1>11. StageIsBegun' BY <1>1 DEF StageIsBegun, EffectStages, Gates
<1>12. UnapprovedRepairEnds' BY <1>1 DEF UnapprovedRepairEnds, Gates
<1> QED BY <1>7, <1>8, <1>9, <1>10, <1>11, <1>12 DEF GraphInv

\* A repair resumes at a gate or at verify, never at a stage.
LEMMA SelectRepairResumeKeeps == ASSUME GraphInv, SelectRepairResume PROVE GraphInv'
<1>0. /\ pc = "select_repair_resume" /\ UNCHANGED <<journal, version, verify, pending, h, down>>
      /\ g' = [g EXCEPT !.resumed = TRUE]
  BY Zenon DEF SelectRepairResume, At, approvals
<1>1. pc' \in Gates \cup {"verify"}
  <2>1. g.resume \in EffectStages \cup {"", "verify"} BY Zenon DEF GraphInv, Shape
  <2>2. (IF g.resume = "" THEN "env_deploy" ELSE g.resume) \in EffectStages \cup {"verify"}
    BY Zenon, <2>1 DEF EffectStages
  <2> QED BY Zenon, <2>2, GateIn DEF SelectRepairResume, Entry
<1>2. /\ GFields \subseteq DOMAIN g' /\ g'.stop = g.stop /\ g'.replans = g.replans /\ g'.resume = g.resume /\ g'.last = g.last
      /\ g'.kind = g.kind /\ g'.target = g.target /\ g'.repairs = g.repairs
  BY Zenon, <1>0 DEF GraphInv, Shape, GFields
<1>3. Shape' BY Zenon, <1>0, <1>2 DEF GraphInv, Shape
<1>4. Versions' BY <1>0, <1>1, <1>2 DEF GraphInv, Versions, Drafting, Over, Gates
<1>5. Requests' BY <1>0, <1>1, <1>2 DEF GraphInv, Requests, Ending, Gates
<1>6. Passed' BY <1>0 DEF GraphInv, Passed
<1>7. StageIsBegun' BY <1>1 DEF StageIsBegun, EffectStages, Gates
<1>8. UnapprovedRepairEnds' BY <1>1 DEF UnapprovedRepairEnds, Gates
<1> QED BY <1>3, <1>4, <1>5, <1>6, <1>7, <1>8 DEF GraphInv

\* A repair is applied with a request still pending only under stop_reason.
LEMMA RepairApplyKeeps == ASSUME GraphInv, RepairApply PROVE GraphInv'
<1>0. /\ pc = "repair_apply" /\ pc' = "select_repair_resume" /\ UNCHANGED <<journal, version, verify, pending, down>>
      /\ HFields \subseteq DOMAIN h'
  BY ZenonT(30) DEF RepairApply, At, approvals, GraphInv, Shape, HFields
<1>1. PICK s \in EffectStages \cup {"verify"}, e \in BOOLEAN :
        g' = [g EXCEPT !.repairs = @ + 1, !.resume = s, !.resumed = FALSE, !.effective = e]
  BY Zenon DEF RepairApply
<1>2. /\ GFields \subseteq DOMAIN g' /\ g'.stop = g.stop /\ g'.replans = g.replans /\ g'.resume = s /\ g'.last = g.last
      /\ g'.kind = g.kind /\ g'.target = g.target
  BY Zenon, <1>1 DEF GraphInv, Shape, GFields
<1>3. Shape' BY Zenon, <1>0, <1>2 DEF GraphInv, Shape
<1>4. Versions' BY <1>0, <1>2 DEF GraphInv, Versions, Drafting, Over
<1>5. Requests' BY <1>0, <1>2 DEF GraphInv, Requests, Ending
<1>6. Passed' BY <1>0 DEF GraphInv, Passed
<1>7. StageIsBegun' BY <1>0 DEF StageIsBegun, EffectStages
<1>8. UnapprovedRepairEnds' BY <1>0 DEF UnapprovedRepairEnds
<1> QED BY <1>3, <1>4, <1>5, <1>6, <1>7, <1>8 DEF GraphInv

\* The repair policy asks about the next repair, or lets through one that needs no approval.
LEMMA RepairPolicyKeeps == ASSUME GraphInv, RepairPolicy PROVE GraphInv'
<1>0. /\ pc = "repair_policy" /\ UNCHANGED <<journal, version, verify, down>>
      /\ HFields \subseteq DOMAIN h' /\ GFields \subseteq DOMAIN g'
      /\ g'.replans = g.replans /\ g'.resume = g.resume /\ g'.last = g.last /\ g'.repairs = g.repairs
  BY Zenon DEF RepairPolicy, At, GraphInv, Shape, HFields, GFields
<1>1. \/ /\ pc' = "stop" /\ UNCHANGED pending /\ g'.kind = g.kind /\ g'.target = g.target
      \/ /\ pc' = IF pending # NoRequest THEN "approval" ELSE "repair_apply"
         /\ UNCHANGED <<g, pending>> /\ ~h'.needs
      \/ /\ pc' = "approval" /\ g'.kind = "repair" /\ g'.target = "repair_apply"
         /\ pending' # NoRequest /\ pending'.kind = "repair" /\ pending'.n = g.repairs + 1
  <2>0. GFields \subseteq DOMAIN g /\ HFields \subseteq DOMAIN h BY Zenon DEF GraphInv, Shape
  <2>1. CASE g' = [g EXCEPT !.stop = TRUE] /\ pc' = "stop" /\ UNCHANGED <<pending, asked, h>>
    BY <2>0, <2>1 DEF GFields
  <2>2. CASE /\ pc' = IF pending # NoRequest THEN "approval" ELSE "repair_apply"
             /\ h' = [h EXCEPT !.needs = FALSE] /\ UNCHANGED <<g, pending, asked>>
    BY <2>0, <2>2 DEF HFields
  <2>3. CASE /\ g' = [g EXCEPT !.kind = "repair", !.target = "repair_apply"]
             /\ Ask([kind |-> "repair", op |-> IF g.gate = "" THEN <<>> ELSE Op(g.gate),
                     action |-> "apply", n |-> g.repairs + 1])
             /\ pc' = "approval"
    <3>1. pending' # NoRequest /\ pending'.kind = "repair" /\ pending'.n = g.repairs + 1
      BY Zenon, <2>3 DEF Ask, NoRequest
    <3>2. g'.kind = "repair" /\ g'.target = "repair_apply" BY Zenon, <2>0, <2>3 DEF GFields
    <3> QED BY Zenon, <2>3, <3>1, <3>2
  <2> QED BY Zenon, <2>1, <2>2, <2>3 DEF RepairPolicy
<1>2. Shape' BY Zenon, <1>0 DEF GraphInv, Shape
<1>3. Versions' BY <1>0, <1>1 DEF GraphInv, Versions, Drafting, Over
<1>4. Requests' BY <1>0, <1>1 DEF GraphInv, Requests, Ending, Gates
<1>5. Passed' BY <1>0 DEF GraphInv, Passed
<1>6. StageIsBegun' BY <1>1 DEF StageIsBegun, EffectStages
<1>7. UnapprovedRepairEnds' BY <1>1 DEF UnapprovedRepairEnds
<1> QED BY <1>2, <1>3, <1>4, <1>5, <1>6, <1>7 DEF GraphInv

\* A cleanup changes at most one record, and resumes like a repair.
LEMMA CleanupKeeps == ASSUME GraphInv, Cleanup PROVE GraphInv'
<1>0. /\ pc = "cleanup" /\ pc' = "select_repair_resume" /\ UNCHANGED <<version, verify, pending, down>>
      /\ HFields \subseteq DOMAIN h' /\ GFields \subseteq DOMAIN g' /\ DOMAIN journal' = Operation
  BY Zenon DEF Cleanup, At, approvals, GraphInv, Shape, HFields, GFields
<1>1. /\ g'.replans = g.replans /\ g'.resume = g.resume /\ g'.last = g.last /\ g'.repairs = g.repairs
      /\ g'.kind = g.kind /\ g'.target = g.target
  BY ZenonT(30) DEF Cleanup, GraphInv, Shape, GFields
<1>2. Shape' BY Zenon, <1>0, <1>1 DEF GraphInv, Shape
<1>3. Versions' BY <1>0, <1>1 DEF GraphInv, Versions, Drafting, Over
<1>4. Requests' BY <1>0, <1>1 DEF GraphInv, Requests, Ending, Gates
<1>5. Passed' BY <1>0 DEF GraphInv, Passed
<1>6. StageIsBegun' BY <1>0 DEF StageIsBegun, EffectStages
<1>7. UnapprovedRepairEnds' BY <1>0 DEF UnapprovedRepairEnds
<1> QED BY <1>2, <1>3, <1>4, <1>5, <1>6, <1>7 DEF GraphInv

\* An operation id of a stage that may run is one the journal is about.
LEMMA OpIsOperation == ASSUME GraphInv, NEW s \in EffectStages PROVE Op(s) \in Operation
<1>1. version[s] \in Nat /\ version[s] <= g.replans /\ g.replans \in Nat /\ g.replans <= MaxReplans + 1
  BY Zenon DEF GraphInv, Shape, Versions
<1>2. MaxReplans \in Nat BY GraphAssumption
<1>3. version[s] \in 0 .. MaxReplans + 1 BY <1>1, <1>2
<1> QED BY <1>3 DEF Op, Operation

\* A crash changes the journal and the history, and stops the process.
LEMMA CrashKeeps == ASSUME GraphInv, Crash PROVE GraphInv'
<1>0. down' = TRUE /\ UNCHANGED <<pc, version, g, verify, pending>> BY DEF Crash, approvals
<1>1. HFields \subseteq DOMAIN h' /\ h'.needs = h.needs /\ h'.grants = h.grants
  BY Zenon DEF Crash, GraphInv, Shape, HFields
<1>2. h'.ran = h.ran \/ pc \in {"repair_apply", "cleanup"} BY Zenon DEF Crash, GraphInv, Shape, HFields
<1>3. DOMAIN journal' = Operation BY Zenon DEF Crash, GraphInv, Shape
<1>4. Shape' BY Zenon, <1>0, <1>1, <1>3 DEF GraphInv, Shape
<1>5. Versions' BY <1>0 DEF GraphInv, Versions, Drafting, Over
<1>6. Requests' BY <1>0 DEF GraphInv, Requests, Ending
<1>7. Passed' BY <1>0, <1>2 DEF GraphInv, Passed
<1>8. StageIsBegun' BY <1>0 DEF StageIsBegun
<1>9. UnapprovedRepairEnds' BY <1>0, <1>1 DEF GraphInv, UnapprovedRepairEnds
<1> QED BY <1>4, <1>5, <1>6, <1>7, <1>8, <1>9 DEF GraphInv

\* A resume never starts in a side-effect stage.
LEMMA ResumeKeeps == ASSUME GraphInv, Resume PROVE GraphInv'
<1>0. pc \notin EffectStages /\ UNCHANGED <<pc, journal, version, g, verify, pending, h>> BY DEF Resume, approvals
<1>1. Shape' /\ Versions' BY Zenon, <1>0 DEF GraphInv, Shape, Versions, Drafting, Over
<1>2. Requests' /\ Passed' BY <1>0 DEF GraphInv, Requests, Ending, Passed
<1>3. StageIsBegun' BY <1>0 DEF StageIsBegun
<1>4. UnapprovedRepairEnds' BY <1>0 DEF GraphInv, UnapprovedRepairEnds
<1> QED BY <1>1, <1>2, <1>3, <1>4 DEF GraphInv

\* A stuttering step.
LEMMA SameKeeps == ASSUME GraphInv, UNCHANGED vars PROVE GraphInv'
<1>0. UNCHANGED <<pc, down, journal, version, g, verify, pending, h>> BY DEF vars
<1>1. Shape' /\ Versions' BY Zenon, <1>0 DEF GraphInv, Shape, Versions, Drafting, Over
<1>2. Requests' /\ Passed' BY <1>0 DEF GraphInv, Requests, Ending, Passed
<1>3. StageIsBegun' BY <1>0 DEF GraphInv, StageIsBegun, Op
<1>4. UnapprovedRepairEnds' BY <1>0 DEF GraphInv, UnapprovedRepairEnds
<1> QED BY <1>1, <1>2, <1>3, <1>4 DEF GraphInv

\* A gate that decides to run leaves the operation open.
LEMMA Verdicts ==
    ASSUME NEW s, NEW v \in GateVerdicts(s)
    PROVE  /\ v.decision \in {"run", "reuse", "retry", "cleanup_then_retry", "stop"}
           /\ v.decision = "run" => v.to \in {"running", "retryable"}
<1> DEFINE st == journal[Op(s)]
<1>1. CASE st \in Beginnable BY <1>1 DEF GateVerdicts
<1>2. CASE st = "committed" BY <1>2 DEF GateVerdicts, Beginnable, NoRecord
<1>3. CASE st \in {"running", "unknown"} BY <1>3 DEF GateVerdicts, Beginnable, NoRecord
<1>4. CASE st = "failed" BY <1>4 DEF GateVerdicts, Beginnable, NoRecord
<1>5. CASE st \notin Beginnable \cup {"committed", "running", "unknown", "failed"} BY <1>5 DEF GateVerdicts
<1> QED BY <1>1, <1>2, <1>3, <1>4, <1>5

\* What follows a side-effect stage is no side-effect stage.
LEMMA AfterStage == ASSUME NEW s \in EffectStages PROVE After[s] \in {"recover_model_prepare", "recover_runner", "verify"}
<1>1. /\ After["env_deploy"] = "recover_model_prepare" /\ After["model_prepare"] = "recover_runner"
      /\ After["runner"] = "verify"
  BY DEF After
<1> QED BY <1>1 DEF EffectStages

\* The gate is the only way into a side-effect stage, and stop_reason ends the graph there.
LEMMA RecoveryGateKeeps == ASSUME GraphInv, NEW s \in EffectStages, RecoveryGate(s) PROVE GraphInv'
<1>0. pc \in Gates /\ ~down /\ UNCHANGED <<down, version, verify, h>> BY SMTT(30), GateIn DEF RecoveryGate, At
<1>1. PICK v \in GateVerdicts(s) :
       /\ journal' = [journal EXCEPT ![Op(s)] = v.to]
       /\ g' = [g EXCEPT !.gate = s,
                  !.decision = IF v.decision \in {"run", "reuse"} THEN v.decision ELSE "other",
                  !.stop = @ \/ v.decision = "stop",
                  !.kind = IF v.decision \in {"retry", "cleanup_then_retry"} THEN "recovery" ELSE @,
                  !.target = IF v.decision \in {"retry", "cleanup_then_retry"} THEN s ELSE @]
       /\ IF v.decision \in {"retry", "cleanup_then_retry"}
            THEN Ask([kind |-> "recovery", op |-> Op(s), action |-> v.decision, n |-> 0])
            ELSE UNCHANGED <<pending, asked>>
       /\ pc' = IF g'.stop THEN "stop"
                ELSE IF pending' # NoRequest THEN "approval"
                ELSE IF v.decision = "reuse" THEN After[s] ELSE s
  BY Zenon DEF RecoveryGate
<1>2. GFields \subseteq DOMAIN g BY Zenon DEF GraphInv, Shape
<1>3. /\ GFields \subseteq DOMAIN g' /\ g'.gate = s
      /\ g'.replans = g.replans /\ g'.resume = g.resume /\ g'.last = g.last /\ g'.repairs = g.repairs
      /\ g'.decision = IF v.decision \in {"run", "reuse"} THEN v.decision ELSE "other"
  BY <1>1, <1>2 DEF GFields
<1>4. (g.stop => g'.stop) /\ (v.decision = "stop" => g'.stop) BY Zenon, <1>1, <1>2 DEF GFields
<1>5. /\ DOMAIN journal' = Operation /\ Op(s)' = Op(s) /\ journal'[Op(s)] = v.to
  BY Zenon, <1>0, <1>1, OpIsOperation DEF Op, GraphInv, Shape
<1>6. Shape' BY Zenon, <1>0, <1>3, <1>5 DEF GraphInv, Shape
<1>7. Passed' BY <1>0 DEF GraphInv, Passed, Gates
<1>8. CASE v.decision \in {"retry", "cleanup_then_retry"}
  <2>1. pending' # NoRequest /\ pending'.kind = "recovery" BY <1>1, <1>8 DEF Ask, NoRequest
  <2>2. g'.kind = "recovery" /\ g'.target = s BY <1>1, <1>2, <1>8 DEF GFields
  <2>3. pc' \in {"stop", "approval"} BY <1>1, <2>1
  <2>4. Versions' BY <1>0, <1>3, <2>2, <2>3 DEF GraphInv, Versions, Drafting, Over, Gates
  <2>5. Requests' BY <2>1, <2>2, <2>3 DEF Requests, EffectStages
  <2>6. StageIsBegun' BY <2>3 DEF StageIsBegun, EffectStages
  <2>7. UnapprovedRepairEnds' BY <2>3 DEF UnapprovedRepairEnds
  <2> QED BY <1>6, <1>7, <2>4, <2>5, <2>6, <2>7 DEF GraphInv
<1>9. CASE v.decision \notin {"retry", "cleanup_then_retry"}
  <2>1. pending' = pending BY <1>1, <1>9
  <2>2. g'.kind = g.kind /\ g'.target = g.target BY <1>1, <1>2, <1>9 DEF GFields
  <2>3. \/ g'.stop /\ pc' = "stop"
        \/ ~g'.stop /\ pc' = "approval" /\ pending # NoRequest
        \/ ~g'.stop /\ pc' \in {"recover_model_prepare", "recover_runner", "verify"}
        \/ ~g'.stop /\ pc' = s /\ v.decision = "run"
    <3>1. v.decision \in {"run", "reuse", "stop"} BY <1>9, Verdicts
    <3> QED BY <1>1, <1>4, <2>1, <3>1, AfterStage
  <2>4. Versions' BY <1>0, <1>3, <2>1, <2>2, <2>3 DEF GraphInv, Versions, Drafting, Over, Gates, EffectStages
  <2>5. Requests'
    <3>1. pc' # "repair_apply" BY <2>3 DEF EffectStages
    <3>2. pc' = "approval" => pending # NoRequest BY <2>3 DEF EffectStages
    <3>3. pending # NoRequest => /\ pending.kind = g.kind
                                 /\ g.target = "repair_apply" => pending.kind = "repair"
      BY DEF GraphInv, Requests
    <3>4. pending # NoRequest /\ pending.kind = "repair" => pending.n = g.repairs + 1 \/ g.stop
      BY DEF GraphInv, Requests, Ending
    <3>5. g.stop => Ending' BY <1>4, <2>3 DEF Ending
    <3> QED BY <1>3, <2>1, <2>2, <3>1, <3>2, <3>3, <3>4, <3>5 DEF Requests
  <2>6. StageIsBegun'
    <3>1. CASE pc' = s
      <4>1. ~g'.stop /\ v.decision = "run" BY <2>3, <3>1 DEF EffectStages
      <4>2. v.to \in {"running", "retryable"} BY <4>1, Verdicts
      <4>3. g'.gate = s /\ g'.decision = "run" BY <1>3, <4>1
      <4>4. Op(pc)' = Op(s) BY <1>5, <3>1 DEF Op
      <4> QED BY <1>5, <3>1, <4>1, <4>2, <4>3, <4>4 DEF StageIsBegun
    <3>2. CASE pc' # s BY <2>3, <3>2 DEF StageIsBegun, EffectStages
    <3> QED BY <3>1, <3>2
  <2>7. UnapprovedRepairEnds' BY <2>3 DEF UnapprovedRepairEnds, EffectStages
  <2> QED BY <1>6, <1>7, <2>4, <2>5, <2>6, <2>7 DEF GraphInv
<1> QED BY <1>8, <1>9

\* Where an answer leads, to the node given, when the state after it is x.
Routed(x, node) ==
    /\ node \in {"stop", "policy", "cleanup", "repair_apply", "select_repair_resume"}
    /\ node = "policy" => x.kind = "repository_command"
    /\ x.kind = "repository_command" => node \in {"stop", "policy"}
    /\ node = "repair_apply" => x.last = "approve" /\ x.target = "repair_apply"
Answered(x) == x.last \in {"", "approve", "reject"}

\* The routes of route_after_approval.
LEMMA Route == ASSUME NEW x, Answered(x) PROVE Routed(x, RouteAfterApproval(x))
<1> USE DEF Routed
<1>1. CASE x.last = "" BY Zenon, <1>1 DEF RouteAfterApproval
<1>2. CASE x.last # "" /\ x.kind = "repository_command" BY Zenon, <1>2 DEF RouteAfterApproval
<1>3. CASE x.last = "reject" /\ x.kind # "repository_command" BY <1>3 DEF RouteAfterApproval
<1>4. CASE x.last = "approve" /\ x.kind # "repository_command" BY <1>4 DEF RouteAfterApproval
<1> QED BY Zenon, <1>1, <1>2, <1>3, <1>4 DEF Answered

\* The matching answer approves exactly what is pending; any other sets stop_reason.
LEMMA AnswerKeeps == ASSUME GraphInv, NEW r, NEW d \in {"approve", "reject"}, Answer(r, d) PROVE GraphInv'
<1>0. /\ pc = "approval" /\ UNCHANGED <<down, journal, version, verify>> /\ pc' = RouteAfterApproval(g')
  BY DEF Answer, At
<1>1. GFields \subseteq DOMAIN g /\ HFields \subseteq DOMAIN h BY Zenon DEF GraphInv, Shape
<1>2. /\ pending # NoRequest /\ pending.kind = g.kind
      /\ g.target = "repair_apply" => pending.kind = "repair"
      /\ pending.kind = "repair" => pending.n = g.repairs + 1
  BY <1>0 DEF GraphInv, Requests, Ending, Gates
<1>3. /\ GFields \subseteq DOMAIN g' /\ HFields \subseteq DOMAIN h'
      /\ g'.replans = g.replans /\ g'.resume = g.resume /\ g'.repairs = g.repairs
      /\ g'.kind = g.kind /\ g'.target = g.target
  BY Zenon, <1>1 DEF Answer, Mismatched, GFields, HFields
<1>4. g'.last \in {"", "approve", "reject"}
  BY Zenon, <1>1 DEF Answer, Mismatched, GFields, GraphInv, Shape
<1>5. /\ pc' \in {"stop", "policy", "cleanup", "repair_apply", "select_repair_resume"}
      /\ pc' = "policy" => g.kind = "repository_command"
      /\ g.kind = "repository_command" => pc' \in {"stop", "policy"}
      /\ pc' = "repair_apply" => g'.last = "approve" /\ g.target = "repair_apply"
  <2>1. Answered(g') BY Zenon, <1>4 DEF Answered
  <2>2. Routed(g', pc') BY <1>0, <2>1, Route
  <2> QED BY <1>3, <2>2 DEF Routed
<1>6. \/ r = pending /\ pending' = NoRequest /\ g'.last = d
      \/ r # pending /\ pending' = pending /\ g'.stop
  BY Zenon, <1>1 DEF Answer, Mismatched, GFields
<1>7. r = pending /\ d = "approve" /\ r.kind = "repair" => r.n \in h'.grants
  <2>1. SUFFICES ASSUME r = pending, d = "approve", r.kind = "repair" PROVE r.n \in h'.grants OBVIOUS
  <2>2. h' = [h EXCEPT !.answers = @ + 1,
                       !.refused = @ \/ (d = "reject" /\ ~(r.kind = "repository_command")),
                       !.grants = IF d = "approve" /\ r.kind = "repair" THEN @ \cup {r.n} ELSE @]
    BY <2>1 DEF Answer
  <2> QED BY <1>1, <2>1, <2>2 DEF HFields
<1>8. Shape' BY Zenon, <1>0, <1>3, <1>4 DEF GraphInv, Shape
<1>9. Versions'
  <2>1. Drafting' => Drafting BY <1>0, <1>5 DEF Drafting
  <2>2. ~Drafting' /\ ~Over' => g.kind # "repository_command" BY <1>5 DEF Drafting, Over
  <2> QED BY <1>0, <1>3, <1>5, <2>1, <2>2 DEF GraphInv, Versions, Over
<1>10. Requests' BY <1>2, <1>3, <1>5, <1>6 DEF Requests
<1>11. Passed' BY <1>0 DEF GraphInv, Passed
<1>12. StageIsBegun' BY <1>5 DEF StageIsBegun, EffectStages
<1>13. UnapprovedRepairEnds'
  <2>1. CASE r = pending /\ g'.last = d BY <1>2, <1>3, <1>5, <1>7, <2>1 DEF UnapprovedRepairEnds
  <2>2. CASE g'.stop BY <2>2 DEF UnapprovedRepairEnds
  <2> QED BY <1>6, <2>1, <2>2
<1> QED BY <1>8, <1>9, <1>10, <1>11, <1>12, <1>13 DEF GraphInv

-----------------------------------------------------------------------------
\* The initial state satisfies the invariant.
LEMMA GraphInit == Init => GraphInv
<1> SUFFICES ASSUME Init PROVE GraphInv OBVIOUS
<1>1. Shape BY Zenon DEF Init, Shape, GFields, HFields
<1>2. Versions
  <2>1. g.replans = 0 /\ pc = "plan" /\ \A s \in EffectStages : version[s] = 0 BY Zenon DEF Init
  <2>2. 0 <= MaxReplans /\ 0 <= MaxReplans + 1 BY GraphAssumption
  <2> QED BY <2>1, <2>2 DEF Versions, Drafting
<1>3. Requests /\ Passed BY Zenon DEF Init, Requests, Passed
<1>4. StageIsBegun /\ UnapprovedRepairEnds BY Zenon DEF Init, StageIsBegun, UnapprovedRepairEnds, EffectStages
<1> QED BY <1>1, <1>2, <1>3, <1>4 DEF GraphInv

\* Every step preserves the invariant.
LEMMA GraphStep == GraphInv /\ [Next]_vars => GraphInv'
<1> SUFFICES ASSUME GraphInv, [Next]_vars PROVE GraphInv' OBVIOUS
<1>1. CASE Plan \/ ObserveRepo \/ Parse \/ PlanPolicy \/ Compile
  BY <1>1, PlanKeeps, ObserveRepoKeeps, ParseKeeps, PlanPolicyKeeps, CompileKeeps
<1>2. ASSUME NEW s \in PlainStages, PlainStage(s) PROVE GraphInv' BY <1>2, PlainStageKeeps
<1>3. ASSUME NEW s \in EffectStages, RecoveryGate(s) \/ EffectStage(s) PROVE GraphInv'
  BY <1>3, RecoveryGateKeeps, EffectStageKeeps
<1>4. CASE Verify \/ Finish \/ ObserveFailure \/ Diagnose \/ Replan
  BY <1>4, VerifyKeeps, FinishKeeps, ObserveFailureKeeps, DiagnoseKeeps, ReplanKeeps
<1>5. CASE RepairPolicy \/ RepairApply \/ SelectRepairResume \/ Cleanup
  BY <1>5, RepairPolicyKeeps, RepairApplyKeeps, SelectRepairResumeKeeps, CleanupKeeps
<1>6. CASE Operator BY <1>6, AnswerKeeps DEF Operator
<1>7. CASE Crash \/ Resume BY <1>7, CrashKeeps, ResumeKeeps
<1>8. CASE UNCHANGED vars BY <1>8, SameKeeps
<1> QED BY <1>1, <1>2, <1>3, <1>4, <1>5, <1>6, <1>7, <1>8 DEF Next, Node

\* A side-effect stage only ever runs behind its own gate, with its operation
\* open in the journal and no stop_reason, however many replans, repairs,
\* approvals and crashes lead there (graph/nodes.py, graph/routes.py).
THEOREM StagesAlwaysBegun == Spec => []StageIsBegun
<1>1. GraphInv => StageIsBegun BY DEF GraphInv
<1> QED BY <1>1, GraphInit, GraphStep, PTL DEF Spec

\* A repair nobody approved is applied only on an answer to an earlier
\* request, and then with stop_reason set, so that no gate lets a stage run on
\* it (graph/approval.py: approval_node; graph/routes.py: route_after_approval).
THEOREM UnapprovedAlwaysEnds == Spec => []UnapprovedRepairEnds
<1>1. GraphInv => UnapprovedRepairEnds BY DEF GraphInv
<1> QED BY <1>1, GraphInit, GraphStep, PTL DEF Spec

\* A pass is never older than a stage, a repair or a cleanup of the graph
\* (graph/routes.py: route_after_verify).
THEOREM AlwaysVerifiedLast == Spec => []VerifiedLast
<1>1. GraphInv => VerifiedLast BY DEF GraphInv, Passed, VerifiedLast
<1> QED BY <1>1, GraphInit, GraphStep, PTL DEF Spec

-----------------------------------------------------------------------------
(* The unified agent loop: a verify that passed is carried to the report   *)

LoopFields == DOMAIN Idle
VerifyPassed(run) == [status |-> "passed", run |-> run, pid |-> FALSE]

(* After verify has passed only the three files are left to be written, the*)
(* state holds the result of this run, and what is on disk is the state.   *)
LoopInv ==
    /\ DOMAIN p = LoopFields
    /\ DOMAIN p.stage_status = Stages
    /\ p.verify = "passed" =>
          /\ p.pc \in {"results", "evidence", "report"}
          /\ p.stage_status["verify"] = VerifyPassed(p.run)
    /\ p.pc \in {"evidence", "report"} => pipeline = WrittenResults
    /\ p.pc = "report" => evidence.run = p.run

LEMMA IdleFields ==
    /\ LoopFields = {"pc", "run", "provider", "iteration", "index", "stage_status",
                     "gate", "decision", "stop_reason", "verify"}
    /\ DOMAIN Idle = LoopFields
    /\ Idle.pc = "idle" /\ Idle.verify = "unknown" /\ DOMAIN Idle.stage_status = Stages
BY DEF LoopFields, Idle

LEMMA NamedStages == "verify" \in Stages /\ "report" \in Stages
<1>1. /\ PIPELINE_STAGES[8] = "verify" /\ 8 \in DOMAIN PIPELINE_STAGES
      /\ PIPELINE_STAGES[9] = "report" /\ 9 \in DOMAIN PIPELINE_STAGES
  BY DEF PIPELINE_STAGES
<1> QED  BY <1>1 DEF Stages

(* A process that is idle again has nothing to keep.                       *)
LEMMA IdleKeeps ==
    ASSUME p' = [Idle EXCEPT !.run = p.run]
    PROVE  LoopInv'
<1>1. /\ DOMAIN p' = LoopFields /\ p'.pc = "idle" /\ p'.verify = "unknown"
      /\ DOMAIN p'.stage_status = Stages
  BY IdleFields
<1> QED  BY <1>1 DEF LoopInv

(* Steps before the end, which neither pass verify nor write a file.       *)
LEMMA OnTheWay ==
    ASSUME LoopInv, NEW q, p' = q, DOMAIN q = LoopFields, DOMAIN q.stage_status = Stages,
           q.pc \notin {"evidence", "report"}, q.verify = p.verify,
           p.pc \notin {"results", "evidence", "report"}
    PROVE  LoopInv'
BY DEF LoopInv

LEMMA StartKeeps ==
    ASSUME LoopInv, NEW results, NEW provider, Start(results, provider)
    PROVE  LoopInv'
<1>1. /\ DOMAIN p' = LoopFields /\ p'.pc = "head" /\ p'.verify = "unknown"
      /\ DOMAIN p'.stage_status = Stages
  BY IdleFields DEF Start
<1> QED  BY <1>1 DEF LoopInv

LEMMA LoopHeadKeeps == ASSUME LoopInv, LoopHead PROVE LoopInv'
<1>1. /\ DOMAIN p' = LoopFields /\ p'.stage_status = p.stage_status
      /\ p'.verify = p.verify /\ p'.pc \in {"results", "gate", "execute"}
      /\ p.pc = "head" /\ DOMAIN p.stage_status = Stages
  BY Zenon, IdleFields DEF LoopHead, LoopInv
<1> QED  BY <1>1, OnTheWay

LEMMA decideKeeps == ASSUME LoopInv, NEW reply, decide(reply) PROVE LoopInv'
<1> DEFINE after == AfterCall(p.gate, Planned(p.gate.stage, reply))
<1> HIDE DEF after
<1>1. /\ p.pc = "gate"
      /\ p' = IF after.pc = "raised" THEN [Idle EXCEPT !.run = p.run]
              ELSE [p EXCEPT !.pc = after.pc, !.gate = after.gate]
  BY Zenon DEF decide, after
<1>2. after.pc \in {"gate", "gated", "raised"}
  BY DEF after, AfterCall
<1>3. CASE after.pc = "raised"
  BY <1>1, <1>3, IdleKeeps
<1>4. CASE after.pc # "raised"
  <2>1. p' = [p EXCEPT !.pc = after.pc, !.gate = after.gate]
    BY <1>1, <1>4
  <2>2. /\ DOMAIN p' = LoopFields /\ p'.stage_status = p.stage_status
        /\ p'.verify = p.verify /\ p'.pc = after.pc /\ DOMAIN p.stage_status = Stages
    BY <2>1, IdleFields DEF LoopInv
  <2> QED  BY Zenon, <1>1, <1>2, <1>4, <2>2, OnTheWay
<1> QED  BY <1>3, <1>4

LEMMA RecordDecisionKeeps == ASSUME LoopInv, RecordDecision PROVE LoopInv'
<1>1. /\ DOMAIN p' = LoopFields /\ p'.stage_status = p.stage_status
      /\ p'.verify = p.verify /\ p'.pc = "execute"
      /\ p.pc = "gated" /\ DOMAIN p.stage_status = Stages
  BY IdleFields DEF RecordDecision, LoopInv
<1> QED  BY <1>1, OnTheWay

(* A verify passes only with the result of its own execution.              *)
LEMMA VerifyResult ==
    ASSUME NEW o, o \in execute_stage("verify"), o.after_status = "passed"
    PROVE  o.result = TRUE /\ o.pid = FALSE
<1>1. o \in {Raised} \cup _execute_verify
  BY DEF execute_stage
<1>2. o # Raised
  BY DEF Raised
<1>3. PICK s : o = Result(s)
  BY <1>1, <1>2 DEF _execute_verify, Results
<1> QED  BY <1>3 DEF Result

LEMMA ExecuteKeeps == ASSUME LoopInv, NEW o, Execute(o) PROVE LoopInv'
<1> DEFINE q == [p EXCEPT !.stage_status = _record_stage_result(Stage, o)]
<1>1. p.pc = "execute" /\ o \in execute_stage(Stage)
  BY DEF Execute
<1>2. /\ DOMAIN q = LoopFields /\ q.verify = p.verify /\ q.run = p.run
      /\ q.stage_status = _record_stage_result(Stage, o)
  BY IdleFields DEF LoopInv
<1>3. /\ DOMAIN q.stage_status = Stages
      /\ Stage = "verify" => q.stage_status["verify"] =
            [status |-> o.after_status, run |-> IF o.result THEN p.run ELSE 0, pid |-> o.pid]
  BY <1>2, NamedStages DEF _record_stage_result, LoopInv
<1>4. CASE /\ Stage = "verify" /\ o.after_status = "passed"
           /\ p' = [q EXCEPT !.pc = "results", !.stop_reason = "verify_passed",
                              !.verify = "passed"]
  <2> HIDE DEF q
  <2>1. /\ DOMAIN p' = LoopFields /\ p'.stage_status = q.stage_status
        /\ p'.pc = "results" /\ p'.run = p.run
    BY <1>2, <1>4, IdleFields
  <2>2. o.result = TRUE /\ o.pid = FALSE
    BY Zenon, <1>1, <1>4, VerifyResult
  <2>3. p'.stage_status["verify"] = VerifyPassed(p'.run)
    BY Zenon, <1>3, <1>4, <2>1, <2>2 DEF VerifyPassed
  <2> QED  BY <1>3, <2>1, <2>3 DEF LoopInv
<1>5. CASE p' = [q EXCEPT !.pc = IF p.provider THEN "gate" ELSE "repaired",
                           !.gate = NewGate("repair")]
  <2> HIDE DEF q
  <2>1. /\ DOMAIN p' = LoopFields /\ p'.stage_status = q.stage_status
        /\ p'.verify = p.verify /\ p'.pc \in {"gate", "repaired"}
    BY <1>2, <1>5, IdleFields
  <2> QED  BY <1>1, <1>3, <2>1, OnTheWay
<1>6. CASE p' = Advance(q)
  <2> HIDE DEF q
  <2>1. /\ DOMAIN p' = LoopFields /\ p'.stage_status = q.stage_status
        /\ p'.verify = p.verify /\ p'.pc = "head"
    BY <1>2, <1>6, IdleFields DEF Advance
  <2> QED  BY <1>1, <1>3, <2>1, OnTheWay
<1> QED  BY <1>4, <1>5, <1>6 DEF Execute

LEMMA RepairDoneKeeps == ASSUME LoopInv, RepairDone PROVE LoopInv'
<1> DEFINE q == [p EXCEPT !.gate = NewGate("")]
<1>1. p.pc \in {"repaired", "gated"} /\ DOMAIN p.stage_status = Stages
  BY Zenon DEF RepairDone, LoopInv
<1>2. /\ DOMAIN q = LoopFields /\ q.verify = p.verify /\ q.stage_status = p.stage_status
  BY SMTT(30), IdleFields DEF LoopInv
<1>3. \/ \E i, n : p' = [q EXCEPT !.pc = "head", !.iteration = n, !.index = i]
      \/ \E reason : p' = [q EXCEPT !.pc = "results", !.stop_reason = reason]
      \/ p' = Advance(q)
  BY ZenonT(30) DEF RepairDone
<1> HIDE DEF q
<1>4. /\ DOMAIN p' = LoopFields /\ p'.stage_status = q.stage_status
      /\ p'.verify = q.verify /\ p'.pc \in {"head", "results"}
  BY Zenon, <1>2, <1>3, IdleFields DEF Advance
<1> QED  BY <1>1, <1>2, <1>4, OnTheWay

LEMMA WriteResultsKeeps == ASSUME LoopInv, _write_pipeline_results PROVE LoopInv'
<1>1. /\ p.pc = "results" /\ pipeline' = WrittenResults
      /\ DOMAIN p' = LoopFields /\ p'.stage_status = p.stage_status
      /\ p'.verify = p.verify /\ p'.run = p.run /\ p'.pc = "evidence"
  BY IdleFields DEF _write_pipeline_results, LoopInv
<1>2. pipeline' = WrittenResults'
  BY <1>1 DEF WrittenResults
<1> QED  BY <1>1, <1>2 DEF LoopInv, VerifyPassed

LEMMA WriteEvidenceKeeps == ASSUME LoopInv, _write_llm_contribution_evidence PROVE LoopInv'
<1>1. /\ p.pc = "evidence" /\ pipeline' = pipeline /\ evidence'.run = p.run
      /\ DOMAIN p' = LoopFields /\ p'.stage_status = p.stage_status
      /\ p'.verify = p.verify /\ p'.run = p.run /\ p'.pc = "report"
  BY IdleFields DEF _write_llm_contribution_evidence, LoopInv
<1>2. pipeline' = WrittenResults'
  BY <1>1 DEF WrittenResults, LoopInv
<1> QED  BY <1>1, <1>2 DEF LoopInv, VerifyPassed

LEMMA LoopInvHolds == LoopSpec => []LoopInv
<1>1. ASSUME LoopInit PROVE LoopInv
  BY <1>1, IdleFields DEF LoopInit, LoopInv
<1>2. ASSUME LoopInv, [LoopNext]_loop_vars PROVE LoopInv'
  <2>1. CASE UNCHANGED loop_vars
    BY Zenon, <1>2, <2>1 DEF loop_vars, LoopInv, WrittenResults, VerifyPassed
  <2>2. CASE \E results, provider : Start(results, provider)
    BY <1>2, <2>2, StartKeeps
  <2>3. CASE Step
    <3>1. CASE _write_report
      BY <3>1, IdleKeeps DEF _write_report
    <3> QED  BY Zenon, <1>2, <2>3, <3>1, LoopHeadKeeps, RecordDecisionKeeps, RepairDoneKeeps,
               decideKeeps, ExecuteKeeps, WriteResultsKeeps, WriteEvidenceKeeps DEF Step
  <2>4. CASE LoopCrash
    BY <2>4, IdleKeeps DEF LoopCrash
  <2> QED  BY SMTT(30), <1>2, <2>1, <2>2, <2>3, <2>4 DEF LoopNext
<1> QED  BY <1>1, <1>2, PTL DEF LoopSpec

(* Only _write_report touches the report.                                  *)
LEMMA ReportedByReport ==
    ASSUME LoopInv, [LoopNext]_loop_vars, report'.run # report.run
    PROVE  _write_report
<1>1. report' # report
  OBVIOUS
<1> QED  BY Zenon, <1>1 DEF LoopNext, loop_vars, Start, Step, LoopHead, decide, RecordDecision,
         Execute, RepairDone, _write_pipeline_results, _write_llm_contribution_evidence,
         LoopCrash

(* For any tools, iterations, runs and crashes: a run reports success only *)
(* when it executed verify itself and verify passed, and the results and   *)
(* the evidence on disk are that run's (loop.py: run, _write_report).      *)
THEOREM PassAlwaysVerified == LoopSpec => PassIsVerified
<1>1. ASSUME LoopInv, [LoopNext]_loop_vars, report'.run # report.run, report'.final = "passed"
      PROVE  /\ pipeline["verify"] = VerifyPassed(p.run)
             /\ pipeline["report"].run = p.run
             /\ evidence.run = p.run
  <2>1. p.pc = "report" /\ p.verify = "passed"
    BY <1>1, ReportedByReport DEF _write_report
  <2>2. /\ pipeline = WrittenResults /\ evidence.run = p.run
        /\ p.stage_status["verify"] = VerifyPassed(p.run)
    BY <1>1, <2>1 DEF LoopInv
  <2> QED  BY <2>1, <2>2, NamedStages DEF WrittenResults
<1> DEFINE Reported == (report'.run # report.run /\ report'.final = "passed") =>
            /\ pipeline["verify"] = [status |-> "passed", run |-> p.run, pid |-> FALSE]
            /\ pipeline["report"].run = p.run
            /\ evidence.run = p.run
<1>2. LoopInv /\ [LoopNext]_loop_vars => [Reported]_loop_vars
  BY <1>1 DEF VerifyPassed
<1> QED  BY <1>2, LoopInvHolds, PTL DEF LoopSpec, PassIsVerified
=============================================================================
