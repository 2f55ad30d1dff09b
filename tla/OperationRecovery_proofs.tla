---------------------- MODULE OperationRecovery_proofs ----------------------
(***************************************************************************)
(* Proofs about OperationRecovery.                                         *)
(***************************************************************************)
EXTENDS OperationRecovery, TLAPS

\* The variables have the types the proofs need; no bound is involved.
Types ==
    /\ team \subseteq Procs /\ repairs \in BOOLEAN
    /\ status \in Status \cup {NoRecord}
    /\ open \in BOOLEAN
    /\ pc \in [Procs -> Steps] /\ seen \in [Procs -> Status \cup {NoRecord}]

\* Each step of the model is one of the actions, whatever group it is in.
LEMMA NextCases ==
    ASSUME Next
    PROVE  \E p \in team :
             \/ GateLoad(p) \/ GateBegin(p) \/ GateRecover(p) \/ GateReconcile(p)
             \/ Apply(p) \/ ApplyRestart(p) \/ GateFailed(p) \/ GateStop(p)
             \/ StartEffect(p) \/ FinishEffect(p) \/ PersistResult(p) \/ Commit(p) \/ Fail(p)
             \/ Cleanup(p) \/ CleanupRecorded(p) \/ Crash(p)
BY DEF Next, Gate, Stage

\* What a journal transition of the gate leaves in status and pc.
LEMMA TransitionEffect ==
    ASSUME NEW p, NEW s \in Status, NEW l, Transition(p, s, l)
    PROVE  \/ status' = s /\ s \in AllowedTransitions[status] /\ pc' = [pc EXCEPT ![p] = l]
           \/ status' = status /\ pc' = [pc EXCEPT ![p] = "idle"]
BY DEF Transition, Goto

\* Every step either leaves the status alone or is a step of the atomic
\* journal: the gate, the stage node and the cleanup never leave the table.
LEMMA StatusStep ==
    ASSUME Next
    PROVE  \/ status' = status
           \/ status = NoRecord /\ status' = "running"
           \/ status' \in Status /\ status' \in AllowedTransitions[status]
<1>1. PICK p \in team :
             \/ GateLoad(p) \/ GateBegin(p) \/ GateRecover(p) \/ GateReconcile(p)
             \/ Apply(p) \/ ApplyRestart(p) \/ GateFailed(p) \/ GateStop(p)
             \/ StartEffect(p) \/ FinishEffect(p) \/ PersistResult(p) \/ Commit(p) \/ Fail(p)
             \/ Cleanup(p) \/ CleanupRecorded(p) \/ Crash(p)
  BY NextCases
<1>2. {"committed", "retryable", "conflict", "manual", "running", "failed"} \subseteq Status
  BY DEF Status
<1>3. CASE GateBegin(p)
  BY <1>3 DEF GateBegin, Beginnable, AllowedTransitions, Status, journal, NoRecord
<1>4. CASE GateRecover(p)
  BY <1>4 DEF GateRecover, AllowedTransitions, Status
<1>5. CASE Apply(p)
  <2>1. \/ status' = status
        \/ \E s \in {"committed", "retryable", "conflict", "manual"}, l \in {"idle", "restart"} :
             Transition(p, s, l)
    <3>1. CASE verdict[p] = "reuse" BY <1>5, <3>1 DEF Apply
    <3>2. CASE verdict[p] \in {"continue", "retry"} BY <1>5, <3>2 DEF Apply
    <3>3. CASE verdict[p] = "conflict" BY <1>5, <3>3 DEF Apply
    <3>4. CASE verdict[p] \notin {"reuse", "continue", "retry", "conflict"}
      BY <1>5, <3>4 DEF Apply
    <3> QED BY <3>1, <3>2, <3>3, <3>4
  <2> QED BY <1>2, <2>1, TransitionEffect
<1>6. CASE ApplyRestart(p) BY Zenon, <1>2, <1>6, TransitionEffect DEF ApplyRestart
<1>7. CASE GateFailed(p) BY Zenon, <1>2, <1>7, TransitionEffect DEF GateFailed
<1>8. CASE Commit(p) BY Zenon, <1>2, <1>8, TransitionEffect DEF Commit
<1>9. CASE Fail(p) BY Zenon, <1>2, <1>9, TransitionEffect DEF Fail
<1>10. CASE CleanupRecorded(p) BY <1>2, <1>10, TransitionEffect DEF CleanupRecorded
<1>11. CASE \/ GateLoad(p) \/ GateReconcile(p) \/ GateStop(p) \/ StartEffect(p)
            \/ FinishEffect(p) \/ PersistResult(p) \/ Cleanup(p) \/ Crash(p)
  BY <1>11 DEF GateLoad, GateReconcile, GateStop, StartEffect, FinishEffect, PersistResult,
               Cleanup, Crash, journal
<1> QED BY <1>1, <1>3, <1>4, <1>5, <1>6, <1>7, <1>8, <1>9, <1>10, <1>11

\* The recovery gate, the stage node and the cleanup implement the atomic
\* journal: for every resource, any number of processes and any crashes, the
\* record moves only along the transition table.
THEOREM RecoveryImplementsJournal == Spec => ImplementsJournal
<1> DEFINE st == [o \in {"operation"} |-> status]
<1>0. /\ Journal!NoRecord = NoRecord
      /\ Journal!Status = Status
      /\ Journal!AllowedTransitions = AllowedTransitions
  BY Zenon DEF Journal!NoRecord, NoRecord, Journal!Status, Status,
               Journal!AllowedTransitions, AllowedTransitions
<1>1. Init => Journal!Init BY <1>0 DEF Init, Journal!Init
<1>2. [Next]_vars => [Journal!Next]_st
  <2> SUFFICES ASSUME [Next]_vars PROVE [Journal!Next]_st OBVIOUS
  <2>1. CASE status' = status BY <2>1
  <2>2. CASE status' # status
    <3>1. Next BY <2>2 DEF vars
    <3>2. /\ status' \in Status
          /\ \/ status = NoRecord /\ status' \in {"planned", "running"}
             \/ status' \in AllowedTransitions[status]
      BY <2>2, <3>1, StatusStep DEF Status
    <3>3. Journal!Step("operation", status') BY <1>0, <3>2 DEF Journal!Step
    <3> QED BY <1>0, <3>2, <3>3 DEF Journal!Next
  <2> QED BY <2>1, <2>2
<1> QED BY <1>1, <1>2, PTL DEF Spec, ImplementsJournal, Journal!Spec

\* No step changes who runs the deployment, or the authorization.
LEMMA FixedStep == Next => UNCHANGED <<team, repairs>>
<1> SUFFICES ASSUME Next PROVE UNCHANGED <<team, repairs>> OBVIOUS
<1>1. PICK p \in team :
             \/ GateLoad(p) \/ GateBegin(p) \/ GateRecover(p) \/ GateReconcile(p)
             \/ Apply(p) \/ ApplyRestart(p) \/ GateFailed(p) \/ GateStop(p)
             \/ StartEffect(p) \/ FinishEffect(p) \/ PersistResult(p) \/ Commit(p) \/ Fail(p)
             \/ Cleanup(p) \/ CleanupRecorded(p) \/ Crash(p)
  BY NextCases
<1> QED
  BY <1>1 DEF GateLoad, GateBegin, GateRecover, GateReconcile, Apply, ApplyRestart, GateFailed,
              GateStop, StartEffect, FinishEffect, PersistResult, Commit, Fail, Cleanup,
              CleanupRecorded, Crash, fixed

\* Every step keeps the types.
LEMMA TypesStep ==
    ASSUME Types, Next
    PROVE  Types'
<1>1. PICK p \in team :
             \/ GateLoad(p) \/ GateBegin(p) \/ GateRecover(p) \/ GateReconcile(p)
             \/ Apply(p) \/ ApplyRestart(p) \/ GateFailed(p) \/ GateStop(p)
             \/ StartEffect(p) \/ FinishEffect(p) \/ PersistResult(p) \/ Commit(p) \/ Fail(p)
             \/ Cleanup(p) \/ CleanupRecorded(p) \/ Crash(p)
  BY NextCases
<1>2. team' = team /\ repairs' = repairs BY FixedStep
<1>3. status' \in Status \cup {NoRecord}
  BY StatusStep DEF Types, Status
<1>4. open' \in BOOLEAN
  BY Zenon, <1>1 DEF Types, GateLoad, GateBegin, GateRecover, GateReconcile, Apply, ApplyRestart,
              GateFailed, GateStop, StartEffect, FinishEffect, PersistResult, Commit, Fail,
              Cleanup, CleanupRecorded, Crash, outside
<1>5. seen' \in [Procs -> Status \cup {NoRecord}]
  BY <1>1, <1>3 DEF Types, GateLoad, GateBegin, GateRecover, GateReconcile, Apply, ApplyRestart,
              GateFailed, GateStop, StartEffect, FinishEffect, PersistResult, Commit, Fail,
              Cleanup, CleanupRecorded, Crash
<1>6. \E l \in Steps : pc' = [pc EXCEPT ![p] = l]
  BY <1>1 DEF GateLoad, GateBegin, GateRecover, GateReconcile, Apply, ApplyRestart,
              GateFailed, GateStop, StartEffect, FinishEffect, PersistResult, Commit, Fail,
              Cleanup, CleanupRecorded, Crash, Transition, Goto, Steps
<1>7. pc' \in [Procs -> Steps] BY <1>6 DEF Types
<1> QED BY <1>2, <1>3, <1>4, <1>5, <1>7 DEF Types

\* With one process and no repair-authorized retry, the process works from
\* what the journal holds: the inductive invariant of ReconcileAlways.
LEMMA GateInvStep ==
    /\ Init => Types /\ GateInv
    /\ Types /\ GateInv /\ [Next]_vars => (Types /\ GateInv)'
<1>1. Init => Types /\ GateInv
  BY ZenonT(30), RecoveryAssumption DEF Init, Types, GateInv, Steps, Status, NoRecord
<1>2. ASSUME Types, [Next]_vars PROVE Types'
  <2>1. CASE UNCHANGED vars BY <1>2, <2>1 DEF vars, Types
  <2>2. CASE Next BY <1>2, <2>2, TypesStep
  <2> QED BY <1>2, <2>1, <2>2
<1>3. ASSUME Types, GateInv, [Next]_vars, Alone' PROVE GateInv'
  <2> USE DEF GateInv
  <2>0. team' = team /\ repairs' = repairs
    BY <1>3, FixedStep DEF vars
  <2>a. Alone BY <1>3, <2>0 DEF Alone
  <2>b. PICK self \in Procs : team = {self} BY <2>a DEF Alone
  <2>c. ~repairs BY <2>a DEF Alone
  <2>1. CASE UNCHANGED vars BY <1>3, <2>1 DEF vars, Alone
  <2>2. CASE Next
    <3> DEFINE p == self
    <3> USE <1>3, <2>0, <2>a, <2>b
    <3>0. /\ p \in Procs /\ team = {p}
          /\ status \in Status \cup {NoRecord} /\ open \in BOOLEAN
          /\ pc \in [Procs -> Steps] /\ seen \in [Procs -> Status \cup {NoRecord}]
          /\ \/ GateLoad(p) \/ GateBegin(p) \/ GateRecover(p) \/ GateReconcile(p)
             \/ Apply(p) \/ ApplyRestart(p) \/ GateFailed(p) \/ GateStop(p)
             \/ StartEffect(p) \/ FinishEffect(p) \/ PersistResult(p) \/ Commit(p)
             \/ Fail(p) \/ Cleanup(p) \/ CleanupRecorded(p) \/ Crash(p)
      BY <2>2, NextCases DEF Types
    <3>1. CASE GateLoad(p)
      BY <3>0, <3>1 DEF GateLoad, Goto, Steps, journal, outside
    <3>2. CASE GateBegin(p)
      BY <3>0, <3>2 DEF GateBegin, Goto, Steps, journal, outside, Beginnable, Status, NoRecord
    <3>3. CASE GateRecover(p)
      BY <3>0, <3>3 DEF GateRecover, Goto, Steps, outside, Status, NoRecord
    <3>4. CASE GateReconcile(p)
      BY <3>0, <3>4 DEF GateReconcile, Goto, Steps, journal, Status
    <3>5. CASE Apply(p)
      <4>1. /\ status = "unknown" /\ ~open /\ pc[p] = "apply"
            /\ UNCHANGED <<attempt, outside, seen, verdict, fixed>>
        BY <3>0, <3>5 DEF Apply
      <4>2. \/ status' \in {"unknown", "committed", "conflict", "manual"} /\ Goto(p, "idle")
            \/ status' = "retryable" /\ Goto(p, "restart")
            \/ status' = "unknown" /\ Goto(p, "idle")
        <5>1. CASE verdict[p] = "reuse" BY <3>5, <4>1, <5>1 DEF Apply, Transition
        <5>2. CASE verdict[p] \in {"continue", "retry"} BY <3>5, <4>1, <5>2 DEF Apply, Transition
        <5>3. CASE verdict[p] = "conflict" BY <3>5, <4>1, <5>3 DEF Apply, Transition
        <5>4. CASE verdict[p] \notin {"reuse", "continue", "retry", "conflict"}
          BY <3>5, <4>1, <5>4 DEF Apply, Transition
        <5> QED BY <5>1, <5>2, <5>3, <5>4
      <4> QED BY <3>0, <4>1, <4>2 DEF Goto, Steps, outside, Status
    <3>6. CASE ApplyRestart(p)
      BY <3>0, <3>6 DEF ApplyRestart, Transition, Goto, Steps, outside, Status
    <3>7. CASE GateFailed(p)
      BY <2>c, <3>0, <3>7 DEF GateFailed, Goto, Steps, outside, Status
    <3>8. CASE GateStop(p)
      BY <3>0, <3>8 DEF GateStop, Goto, Steps, journal, outside
    <3>9. CASE StartEffect(p)
      BY <3>0, <3>9 DEF StartEffect, Goto, Steps, journal
    <3>10. CASE FinishEffect(p)
      BY <3>0, <3>10 DEF FinishEffect, Goto, Steps, journal
    <3>11. CASE PersistResult(p)
      BY <3>0, <3>11 DEF PersistResult, Goto, Steps, journal
    <3>12. CASE Commit(p)
      BY <3>0, <3>12 DEF Commit, Transition, Goto, Steps, Status
    <3>13. CASE Fail(p)
      BY <3>0, <3>13 DEF Fail, Transition, Goto, Steps, Status
    <3>14. CASE Cleanup(p)
      BY <3>0, <3>14 DEF Cleanup, Goto, Steps, journal
    <3>15. CASE CleanupRecorded(p)
      BY <3>0, <3>15 DEF CleanupRecorded, Transition, Goto, Steps, outside, Status
    <3>16. CASE Crash(p)
      BY <3>0, <3>16 DEF Crash, Goto, Steps, journal
    <3> QED BY <3>0, <3>1, <3>2, <3>3, <3>4, <3>5, <3>6, <3>7, <3>8, <3>9, <3>10, <3>11,
               <3>12, <3>13, <3>14, <3>15, <3>16
  <2> QED BY <1>3, <2>1, <2>2
<1> QED BY <1>1, <1>2, <1>3 DEF GateInv

\* "unknown side effect -> reconcile before retry", for every resource, any
\* number of crashes and attempts, whenever one process runs the deployment and
\* no repair authorizes a retry.
THEOREM ReconcileAlways == Spec => ReconcileBeforeRetry
<1>1. Init => Types /\ GateInv BY GateInvStep
<1>2. Types /\ GateInv /\ [Next]_vars => (Types /\ GateInv)' BY GateInvStep
<1>3. GateInv /\ [Next]_vars => [Alone => \A p \in team : StartEffect(p) => ~open]_vars
  BY DEF GateInv, StartEffect
<1> QED BY <1>1, <1>2, <1>3, PTL DEF Spec, ReconcileBeforeRetry

-----------------------------------------------------------------------------
(* What a committed operation has.                                         *)

\* Inductive form of CommittedHasResult.  A process commits with its result on
\* disk, or on a decision to reuse.  Whoever committed on such a decision loads
\* a committed record ever after, so that decision is its last one.
ResultInv ==
    /\ DOMAIN verdict = Procs
    /\ \A p \in Procs : pc[p] = "commit" => artifact
    /\ status = "committed" =>
         artifact \/ \E p \in Procs : /\ verdict[p] = "reuse"
                                      /\ pc[p] = "idle" \/ (pc[p] = "gate" /\ seen[p] = "committed")

\* The initial state has no record.
LEMMA ResultInit == Init => ResultInv
BY DEF Init, ResultInv, NoRecord

\* Every step keeps it, whatever processes there are.
LEMMA ResultStep == ASSUME Types, ResultInv, Next PROVE ResultInv'
<1>1. PICK p \in team :
             \/ GateLoad(p) \/ GateBegin(p) \/ GateRecover(p) \/ GateReconcile(p)
             \/ Apply(p) \/ ApplyRestart(p) \/ GateFailed(p) \/ GateStop(p)
             \/ StartEffect(p) \/ FinishEffect(p) \/ PersistResult(p) \/ Commit(p) \/ Fail(p)
             \/ Cleanup(p) \/ CleanupRecorded(p) \/ Crash(p)
  BY NextCases
<1>2. p \in Procs /\ pc \in [Procs -> Steps] /\ seen \in [Procs -> Status \cup {NoRecord}]
  BY DEF Types
<1> USE DEF ResultInv, Goto
<1>3. CASE GateLoad(p) BY <1>2, <1>3 DEF GateLoad, journal, outside
<1>4. CASE GateBegin(p) BY <1>2, <1>4 DEF GateBegin, Beginnable, journal, outside, NoRecord
<1>5. CASE GateRecover(p) BY <1>2, <1>5 DEF GateRecover, outside
<1>6. CASE GateReconcile(p) BY <1>2, <1>6 DEF GateReconcile, journal
<1>7. CASE Apply(p)
  <2>1. pc[p] = "apply" /\ UNCHANGED <<artifact, seen, verdict>> BY <1>7 DEF Apply, outside
  <2>2. \E l \in {"idle", "restart"} : pc' = [pc EXCEPT ![p] = l] BY <1>7 DEF Apply, Transition
  <2>3. CASE verdict[p] = "reuse"
    <3>1. pc' = [pc EXCEPT ![p] = "idle"] BY <1>7, <2>3 DEF Apply, Transition
    <3> QED BY <1>2, <2>1, <2>3, <3>1
  <2>4. CASE verdict[p] # "reuse"
    <3>1. status' = status \/ status' \in {"retryable", "conflict", "manual"}
      BY <1>7, <2>4 DEF Apply, Transition
    <3> QED BY <1>2, <2>1, <2>2, <3>1
  <2> QED BY <2>3, <2>4
<1>8. CASE ApplyRestart(p) BY <1>2, <1>8 DEF ApplyRestart, Transition, outside
<1>9. CASE GateFailed(p) BY <1>2, <1>9 DEF GateFailed, Transition, outside
<1>10. CASE GateStop(p) BY <1>2, <1>10 DEF GateStop, journal, outside
<1>11. CASE StartEffect(p) BY <1>2, <1>11 DEF StartEffect, journal
<1>12. CASE FinishEffect(p) BY <1>2, <1>12 DEF FinishEffect, journal
<1>13. CASE PersistResult(p) BY <1>2, <1>13 DEF PersistResult, journal
<1>14. CASE Commit(p) BY <1>2, <1>14 DEF Commit, Transition
<1>15. CASE Fail(p) BY <1>2, <1>15 DEF Fail, Transition
<1>16. CASE Cleanup(p) BY <1>2, <1>16 DEF Cleanup, journal
<1>17. CASE CleanupRecorded(p) BY <1>2, <1>17 DEF CleanupRecorded, Transition, outside
<1>18. CASE Crash(p) BY <1>2, <1>18 DEF Crash, journal
<1> QED BY <1>1, <1>3, <1>4, <1>5, <1>6, <1>7, <1>8, <1>9, <1>10, <1>11, <1>12, <1>13, <1>14,
           <1>15, <1>16, <1>17, <1>18

\* A committed operation has its result artifact, unless a reconcile decision
\* committed it: for any number of processes at the same gate, resources,
\* repairs and crashes.
THEOREM ResultAlways == Spec => []CommittedHasResult
<1>1. Init => Types /\ ResultInv BY GateInvStep, ResultInit
<1>2. Types /\ ResultInv /\ [Next]_vars => (Types /\ ResultInv)'
  <2> SUFFICES ASSUME Types, ResultInv, [Next]_vars PROVE (Types /\ ResultInv)' OBVIOUS
  <2>1. CASE UNCHANGED vars BY <2>1 DEF vars, Types, ResultInv
  <2>2. CASE Next BY <2>2, TypesStep, ResultStep
  <2> QED BY <2>1, <2>2
<1>3. ResultInv => CommittedHasResult BY DEF ResultInv, CommittedHasResult
<1> QED BY <1>1, <1>2, <1>3, PTL DEF Spec

\* Inductive form of CommittedIsComplete and ObservedOnce.  What a reuse or a
\* commit rests on is there; and an effect is started only where nothing
\* complete was at the first gate, or a decision or the cleanup left none.
EffectInv ==
    /\ ext \in World /\ DOMAIN verdict = Procs
    /\ Alone /\ resource \in Observed => \A p \in team :
        /\ status = "committed" => ext = "complete"
        /\ pc[p] \in {"persist", "commit"} => ext = "complete"
        /\ pc[p] = "apply" /\ verdict[p] = "reuse" => ext = "complete"

FreshInv ==
    Alone /\ resource \in Observed => \A p \in team :
        /\ status \in {NoRecord, "planned", "retryable"} => ext # "complete"
        /\ pc[p] \in {"execute", "cleaned"} => ext # "complete"
        /\ pc[p] = "apply" /\ verdict[p] \in {"continue", "retry"} => ext # "complete"

\* The reconcilers of these resources reuse a complete effect and no other.
LEMMA ObservedDecisions ==
    ASSUME NEW r \in Observed, NEW w \in World, NEW d \in Reconcile(r, w)
    PROVE  /\ d = "reuse" => w = "complete"
           /\ d \in {"continue", "retry"} => w # "complete"
<1>1. CASE r = "conda" BY <1>1 DEF Reconcile, CondaDecisions, World
<1>2. CASE r = "docker_service" BY SMTT(30), <1>2 DEF Reconcile, DockerDecisions, World
<1> QED BY <1>1, <1>2 DEF Observed

\* Every step keeps both.
LEMMA EffectKeeps ==
    ASSUME Types, GateInv, EffectInv, Next
    PROVE  EffectInv' /\ (FreshInv => FreshInv')
<1>1. PICK p \in team :
             \/ GateLoad(p) \/ GateBegin(p) \/ GateRecover(p) \/ GateReconcile(p)
             \/ Apply(p) \/ ApplyRestart(p) \/ GateFailed(p) \/ GateStop(p)
             \/ StartEffect(p) \/ FinishEffect(p) \/ PersistResult(p) \/ Commit(p) \/ Fail(p)
             \/ Cleanup(p) \/ CleanupRecorded(p) \/ Crash(p)
  BY NextCases
<1>2. p \in Procs /\ pc \in [Procs -> Steps] /\ seen \in [Procs -> Status \cup {NoRecord}]
  BY DEF Types
<1>3. ext' \in World /\ DOMAIN verdict' = Procs
  BY <1>1 DEF EffectInv, World, GateLoad, GateBegin, GateRecover, GateReconcile, Apply, ApplyRestart,
              GateFailed, GateStop, StartEffect, FinishEffect, PersistResult, Commit, Fail, Cleanup,
              CleanupRecorded, Crash, outside
<1>4. team' = team /\ repairs' = repairs /\ resource' = resource
  BY SMTT(30), <1>1 DEF GateLoad, GateBegin, GateRecover, GateReconcile, Apply, ApplyRestart, GateFailed,
              GateStop, StartEffect, FinishEffect, PersistResult, Commit, Fail, Cleanup,
              CleanupRecorded, Crash, fixed
<1>5. SUFFICES ASSUME Alone, resource \in Observed, FreshInv \/ ~FreshInv
               PROVE  EffectInv' /\ (FreshInv => FreshInv')
  BY <1>3, <1>4 DEF Alone, EffectInv, FreshInv
<1>6. team = {p} BY <1>1, <1>5 DEF Alone
<1>7. ~repairs BY <1>5 DEF Alone
<1>8. /\ open => status \in {"running", "unknown"}
      /\ pc[p] \in {"gate", "recovered"} => seen[p] = status
      /\ pc[p] = "execute" => ~open /\ status = "running"
      /\ pc[p] \in {"effect", "persist", "commit", "fail"} => status = "running"
      /\ pc[p] = "apply" => ~open /\ status = "unknown"
      /\ pc[p] = "restart" => ~open /\ status = "retryable"
      /\ pc[p] = "cleaned" => ~open /\ status = "manual"
  BY <1>5, <1>6 DEF GateInv
<1>9. /\ status = "committed" => ext = "complete"
      /\ pc[p] \in {"persist", "commit"} => ext = "complete"
      /\ pc[p] = "apply" /\ verdict[p] = "reuse" => ext = "complete"
  BY <1>5, <1>6 DEF EffectInv
<1> DEFINE Fresh == /\ status \in {NoRecord, "planned", "retryable"} => ext # "complete"
                    /\ pc[p] \in {"execute", "cleaned"} => ext # "complete"
                    /\ pc[p] = "apply" /\ verdict[p] \in {"continue", "retry"} => ext # "complete"
           Good == /\ status' = "committed" => ext' = "complete"
                   /\ pc'[p] \in {"persist", "commit"} => ext' = "complete"
                   /\ pc'[p] = "apply" /\ verdict'[p] = "reuse" => ext' = "complete"
                   /\ Fresh => Fresh'
<1>10. FreshInv => Fresh BY <1>5, <1>6 DEF FreshInv
<1>11. SUFFICES Good
  <2>1. EffectInv' BY <1>3, <1>4, <1>6, <1>11 DEF EffectInv
  <2>2. FreshInv => FreshInv' BY <1>4, <1>6, <1>10, <1>11 DEF FreshInv
  <2> QED BY <2>1, <2>2
<1> USE DEF Goto
<1>12. CASE GateLoad(p) BY <1>2, <1>7, <1>8, <1>9, <1>12 DEF GateLoad, journal, outside
<1>13. CASE GateBegin(p) BY <1>2, <1>7, <1>8, <1>9, <1>13 DEF GateBegin, Beginnable, journal, outside, NoRecord
<1>14. CASE GateRecover(p) BY <1>2, <1>7, <1>8, <1>9, <1>14 DEF GateRecover, outside, NoRecord
<1>15. CASE GateReconcile(p)
  <2>1. PICK d \in Reconcile(resource, ext) : verdict' = [verdict EXCEPT ![p] = d] BY Zenon, <1>15 DEF GateReconcile
  <2>2. verdict'[p] = d BY <1>2, <2>1 DEF EffectInv
  <2>3. (d = "reuse" => ext = "complete") /\ (d \in {"continue", "retry"} => ext # "complete")
    BY <1>5, ObservedDecisions DEF EffectInv
  <2>4. UNCHANGED <<status, ext>> /\ pc' = [pc EXCEPT ![p] = "apply"] BY <1>15 DEF GateReconcile, journal
  <2>5. status \notin {"committed", "planned", "retryable", NoRecord} BY <1>8, <1>15 DEF GateReconcile, NoRecord
  <2> QED BY <1>2, <2>2, <2>3, <2>4, <2>5
<1>16. CASE Apply(p)
  <2>1. pc[p] = "apply" /\ UNCHANGED <<ext, verdict>> BY <1>16 DEF Apply, outside
  <2>2. CASE verdict[p] = "reuse"
    <3>1. pc' = [pc EXCEPT ![p] = "idle"] BY <1>16, <2>2 DEF Apply, Transition
    <3>2. status' \in {"committed", "unknown"} BY <1>8, <1>16, <2>1, <2>2 DEF Apply, Transition
    <3> QED BY <1>2, <1>9, <2>1, <2>2, <3>1, <3>2 DEF NoRecord
  <2>3. CASE verdict[p] \in {"continue", "retry"}
    <3>1. \E l \in {"idle", "restart"} : pc' = [pc EXCEPT ![p] = l] BY <1>16, <2>3 DEF Apply, Transition
    <3>2. status' \in {"retryable", "unknown"} BY <1>8, <1>16, <2>1, <2>3 DEF Apply, Transition
    <3> QED BY <1>2, <2>1, <2>3, <3>1, <3>2 DEF NoRecord
  <2>4. CASE verdict[p] \notin {"reuse", "continue", "retry"}
    <3>1. pc' = [pc EXCEPT ![p] = "idle"] BY <1>16, <2>4 DEF Apply, Transition
    <3>2. status' \in {"conflict", "manual", "unknown"} BY <1>8, <1>16, <2>1, <2>4 DEF Apply, Transition
    <3> QED BY <1>2, <2>1, <3>1, <3>2 DEF NoRecord
  <2> QED BY <2>2, <2>3, <2>4
<1>17. CASE ApplyRestart(p) BY <1>2, <1>7, <1>8, <1>9, <1>17 DEF ApplyRestart, Transition, outside, NoRecord
<1>18. CASE GateFailed(p) BY <1>2, <1>7, <1>8, <1>9, <1>18 DEF GateFailed, Transition, outside
<1>19. CASE GateStop(p) BY <1>2, <1>7, <1>8, <1>9, <1>19 DEF GateStop, journal, outside
<1>20. CASE StartEffect(p) BY <1>2, <1>7, <1>8, <1>9, <1>20 DEF StartEffect, journal, NoRecord
<1>21. CASE FinishEffect(p) BY <1>2, <1>7, <1>8, <1>9, <1>21 DEF FinishEffect, journal, NoRecord
<1>22. CASE PersistResult(p) BY <1>2, <1>7, <1>8, <1>9, <1>22 DEF PersistResult, journal
<1>23. CASE Commit(p) BY <1>2, <1>7, <1>8, <1>9, <1>23 DEF Commit, Transition, NoRecord
<1>24. CASE Fail(p) BY <1>2, <1>7, <1>8, <1>9, <1>24 DEF Fail, Transition, NoRecord
<1>25. CASE Cleanup(p) BY <1>2, <1>7, <1>8, <1>9, <1>25 DEF Cleanup, journal, NoRecord
<1>26. CASE CleanupRecorded(p) BY <1>2, <1>7, <1>8, <1>9, <1>26 DEF CleanupRecorded, Transition, outside, NoRecord
<1>27. CASE Crash(p) BY <1>2, <1>7, <1>8, <1>9, <1>27 DEF Crash, journal, NoRecord
<1> QED BY Zenon, <1>1, <1>12, <1>13, <1>14, <1>15, <1>16, <1>17, <1>18, <1>19, <1>20, <1>21,
           <1>22, <1>23, <1>24, <1>25, <1>26, <1>27

\* A committed operation has its effect outside, of a resource whose reconciler
\* tells a finished effect from any other: for any number of crashes.
THEOREM CompleteAlways == Spec => []CommittedIsComplete
<1>1. Init => Types /\ GateInv /\ EffectInv
  <2>1. Init => EffectInv BY RecoveryAssumption DEF Init, EffectInv, NoRecord
  <2> QED BY <2>1, GateInvStep
<1>2. Types /\ GateInv /\ EffectInv /\ [Next]_vars => (Types /\ GateInv /\ EffectInv)'
  <2> SUFFICES ASSUME Types, GateInv, EffectInv, [Next]_vars PROVE (Types /\ GateInv /\ EffectInv)' OBVIOUS
  <2>1. CASE UNCHANGED vars BY <2>1, GateInvStep DEF vars, EffectInv, Alone
  <2>2. CASE Next BY <2>2, GateInvStep, EffectKeeps
  <2> QED BY <2>1, <2>2
<1>3. EffectInv => CommittedIsComplete BY DEF EffectInv, CommittedIsComplete, Alone
<1> QED BY <1>1, <1>2, <1>3, PTL DEF Spec

\* "never duplicate execute": of these resources a complete effect is not
\* started again, wherever the process dies, provided that none was there
\* before the operation was first met.
THEOREM OnceAlways ==
    ASSUME "complete" \notin Worlds
    PROVE  Spec => ObservedOnce
<1> DEFINE Inv == Types /\ GateInv /\ EffectInv /\ FreshInv
<1>1. Init => Inv
  <2>1. Init => EffectInv BY RecoveryAssumption DEF Init, EffectInv, NoRecord
  <2>2. Init => FreshInv BY DEF Init, FreshInv, NoRecord
  <2> QED BY <2>1, <2>2, GateInvStep
<1>2. Inv /\ [Next]_vars => Inv'
  <2> SUFFICES ASSUME Inv, [Next]_vars PROVE Inv' OBVIOUS
  <2>1. CASE UNCHANGED vars BY <2>1, GateInvStep DEF vars, EffectInv, FreshInv, Alone
  <2>2. CASE Next BY <2>2, GateInvStep, EffectKeeps
  <2> QED BY <2>1, <2>2
<1>3. Inv /\ [Next]_vars =>
        [Alone /\ resource \in Observed => \A p \in team : StartEffect(p) => ext # "complete"]_vars
  BY DEF FreshInv, StartEffect
<1> QED BY <1>1, <1>2, <1>3, PTL DEF Spec, ObservedOnce

=============================================================================
