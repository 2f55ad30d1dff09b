-------------------------- MODULE OperationRecovery --------------------------
(***************************************************************************)
(* One side-effect operation of a deployment, from its recovery gate to    *)
(* its commit: GraphRecoveryAdapter.prepare_or_reconcile, RecoveryService  *)
(* and the stage node, run by processes that may die between any two steps *)
(* and be started again at the gate.  A journal call is one atomic step    *)
(* (AtomicJournal, which OperationJournal implements).                     *)
(***************************************************************************)
EXTENDS OperationStatus, Reconcilers

CONSTANTS
    Procs,      \* processes that may run the deployment of the task
    Setups,     \* the sets of them that may run it at the same time, each with
                \* whether a repair may authorize the retry of a failed operation
    Kinds,      \* resource types the operation may have
    Worlds,     \* what may be outside when the operation is first met
    MaxCrash,   \* bound on the crashes
    MaxAttempt  \* bound on the attempts

ASSUME RecoveryAssumption ==
    /\ Kinds \subseteq Resources
    /\ Worlds \subseteq World
    /\ Setups \subseteq (SUBSET Procs) \X BOOLEAN
    /\ MaxCrash \in Nat /\ MaxAttempt \in Nat

VARIABLES
    team,      \* the processes that run the deployment
    repairs,   \* a repair authorizes the retry of a failed operation
    resource,  \* resource type of the operation
    status,    \* status of the record in the journal
    attempt,   \* its attempt number
    ext,       \* the world outside
    artifact,  \* <operation>_result.json exists
    pc,        \* pc[p]: the step of process p
    seen,      \* seen[p]: the status p works from
    verdict,   \* verdict[p]: the reconcile decision p is applying
    open,      \* history: an effect was started and nothing since has recorded
               \* or observed its outcome
    crashes    \* number of crashes so far

vars == <<team, repairs, resource, status, attempt, ext, artifact, pc, seen, verdict, open, crashes>>
journal == <<status, attempt>>
outside == <<ext, artifact, open>>
fixed == <<team, repairs, resource, crashes>>

Steps == {"idle", "gate", "recovered", "apply", "restart", "execute",
          "effect", "persist", "commit", "fail", "cleaned"}

Init ==
    /\ \E setup \in Setups : team = setup[1] /\ repairs = setup[2]
    /\ status = NoRecord /\ attempt = 0
    /\ resource \in Kinds /\ ext \in Worlds
    /\ artifact = FALSE
    /\ pc = [p \in Procs |-> "idle"]
    /\ seen = [p \in Procs |-> NoRecord]
    /\ verdict = [p \in Procs |-> "none"]
    /\ open = FALSE
    /\ crashes = 0

Goto(p, l) == pc' = [pc EXCEPT ![p] = l]

\* journal.transition(): raises when the table forbids the move; the exception
\* ends the process's run.
Transition(p, s, next) ==
    IF s \in AllowedTransitions[status]
      THEN status' = s /\ Goto(p, next)
      ELSE UNCHANGED status /\ Goto(p, "idle")

-----------------------------------------------------------------------------
(* prepare_or_reconcile                                                    *)

\* The first load of the gate.
GateLoad(p) ==
    /\ pc[p] = "idle"
    /\ seen' = [seen EXCEPT ![p] = status]
    /\ Goto(p, "gate")
    /\ UNCHANGED <<journal, outside, verdict, fixed>>

\* No record or a retryable one: journal.begin, then execute.  When another
\* process has begun in between, begin returns the record it finds and the
\* decision is execute all the same.
GateBegin(p) ==
    /\ \/ pc[p] = "gate" /\ seen[p] \in Beginnable
       \/ pc[p] = "recovered" /\ seen[p] = "retryable"
    /\ IF status \in Beginnable
         THEN attempt < MaxAttempt /\ status' = "running" /\ attempt' = attempt + 1
         ELSE UNCHANGED journal
    /\ Goto(p, "execute")
    /\ UNCHANGED <<outside, seen, verdict, fixed>>

\* Fault: a record left running is begun again instead of being recovered.
GateRecover_Resume(p) ==
    /\ pc[p] = "gate" /\ seen[p] = "running"
    /\ Goto(p, "execute")
    /\ UNCHANGED <<journal, outside, seen, verdict, fixed>>

\* Fault: recover_running returns the running record unchanged.
GateRecover_Unchanged(p) ==
    /\ pc[p] = "gate" /\ seen[p] = "running"
    /\ Goto(p, "recovered")
    /\ UNCHANGED <<journal, outside, seen, verdict, fixed>>

\* A record left running by a crash: recover_running makes it unknown.
GateRecover(p) ==
    /\ pc[p] = "gate" /\ seen[p] = "running"
    /\ status' = IF status = "running" THEN "unknown" ELSE status
    /\ seen' = [seen EXCEPT ![p] = status']
    /\ Goto(p, "recovered")
    /\ UNCHANGED <<attempt, outside, verdict, fixed>>

\* service.reconcile: look at the world.
GateReconcile(p) ==
    /\ pc[p] \in {"gate", "recovered"} /\ seen[p] = "unknown"
    /\ \E d \in Reconcile(resource, ext) : verdict' = [verdict EXCEPT ![p] = d]
    /\ open' = FALSE
    /\ Goto(p, "apply")
    /\ UNCHANGED <<journal, ext, artifact, seen, fixed>>

\* Fault: continue and retry go from unknown to running in one transition.
Apply_SkipRetryable(p) ==
    /\ pc[p] = "apply"
    /\ status' = CASE verdict[p] = "reuse"                -> "committed"
                   [] verdict[p] \in {"continue", "retry"} -> "running"
                   [] verdict[p] = "conflict"             -> "conflict"
                   [] OTHER                               -> "manual"
    /\ Goto(p, IF verdict[p] \in {"continue", "retry"} THEN "execute" ELSE "idle")
    /\ UNCHANGED <<attempt, outside, seen, verdict, fixed>>

\* apply_decision: reuse commits; continue and retry pass through retryable;
\* cleanup_then_retry and manual wait for the operator; conflict is final.
Apply(p) ==
    /\ pc[p] = "apply"
    /\ CASE verdict[p] = "reuse"    -> Transition(p, "committed", "idle")
         [] verdict[p] \in {"continue", "retry"} ->
              IF status = "unknown" THEN Transition(p, "retryable", "restart")
                                    ELSE UNCHANGED status /\ Goto(p, "restart")
         [] verdict[p] = "conflict" -> Transition(p, "conflict", "idle")
         [] OTHER                   -> Transition(p, "manual", "idle")
    /\ UNCHANGED <<attempt, outside, seen, verdict, fixed>>

\* ... and its second transition, to running with the next attempt.
ApplyRestart(p) ==
    /\ pc[p] = "restart"
    /\ attempt < MaxAttempt
    /\ Transition(p, "running", "execute")
    /\ attempt' = IF status' = "running" /\ status # "running" THEN attempt + 1 ELSE attempt
    /\ UNCHANGED <<outside, seen, verdict, fixed>>

\* A failed operation: an effective repair authorizes one retry, which is
\* executed with the record left retryable; otherwise the operator is asked.
GateFailed(p) ==
    /\ pc[p] \in {"gate", "recovered"} /\ seen[p] = "failed"
    /\ \/ repairs /\ attempt < MaxAttempt /\ Transition(p, "retryable", "execute")
       \/ UNCHANGED status /\ Goto(p, "idle")
    /\ UNCHANGED <<attempt, outside, seen, verdict, fixed>>

\* Committed is reused; any other status stops the gate without a write.
GateStop(p) ==
    /\ \/ pc[p] = "gate" /\ seen[p] \in {"committed", "manual", "conflict"}
       \/ pc[p] = "recovered" /\ seen[p] \notin {"unknown", "failed", "retryable"}
    /\ Goto(p, "idle")
    /\ UNCHANGED <<journal, outside, seen, verdict, fixed>>

-----------------------------------------------------------------------------
(* The stage node                                                          *)

StartEffect(p) ==
    /\ pc[p] = "execute"
    /\ ext' = IF ext = "absent" THEN "partial" ELSE ext
    /\ open' = TRUE
    /\ Goto(p, "effect")
    /\ UNCHANGED <<journal, artifact, seen, verdict, fixed>>

\* The stage succeeds, or reports failed or uncertain.
FinishEffect(p) ==
    /\ pc[p] = "effect"
    /\ \/ ext # "foreign" /\ ext' = "complete" /\ Goto(p, "persist")
       \/ ext' \in {ext, IF ext = "foreign" THEN ext ELSE "partial"} /\ Goto(p, "fail")
    /\ UNCHANGED <<journal, artifact, seen, verdict, open, fixed>>

\* Fault: the journal is committed before the result artifact is written.
PersistResult_CommitFirst(p) ==
    /\ pc[p] = "persist"
    /\ Transition(p, "committed", "commit")
    /\ open' = FALSE
    /\ UNCHANGED <<attempt, ext, artifact, seen, verdict, fixed>>

PersistResult(p) ==
    /\ pc[p] = "persist"
    /\ artifact' = TRUE
    /\ Goto(p, "commit")
    /\ UNCHANGED <<journal, ext, seen, verdict, open, fixed>>

Commit(p) ==
    /\ pc[p] = "commit"
    /\ Transition(p, "committed", "idle")
    /\ open' = FALSE
    /\ UNCHANGED <<attempt, ext, artifact, seen, verdict, fixed>>

Fail(p) ==
    /\ pc[p] = "fail"
    /\ Transition(p, "failed", "idle")
    /\ open' = FALSE
    /\ UNCHANGED <<attempt, ext, artifact, seen, verdict, fixed>>

-----------------------------------------------------------------------------
(* cleanup_node, once the operator has approved cleanup_then_retry         *)

Cleanup(p) ==
    /\ pc[p] = "idle"
    /\ status = "manual" /\ CleanupOwned(resource, ext)
    /\ ext' = "absent"
    /\ Goto(p, "cleaned")
    /\ UNCHANGED <<journal, artifact, seen, verdict, open, fixed>>

CleanupRecorded(p) ==
    /\ pc[p] = "cleaned"
    /\ Transition(p, "retryable", "idle")
    /\ UNCHANGED <<attempt, outside, seen, verdict, fixed>>

-----------------------------------------------------------------------------
\* The process dies at any step.  What it started outside may still complete.
Crash(p) ==
    /\ pc[p] # "idle" /\ crashes < MaxCrash
    /\ Goto(p, "idle")
    /\ ext' \in {ext} \cup (IF pc[p] = "effect" /\ ext = "partial" THEN {"complete"} ELSE {})
    /\ crashes' = crashes + 1
    /\ UNCHANGED <<team, repairs, resource, journal, artifact, seen, verdict, open>>

Gate(p) == \/ GateBegin(p) \/ GateRecover(p) \/ GateReconcile(p) \/ Apply(p)
           \/ ApplyRestart(p) \/ GateFailed(p) \/ GateStop(p)

Stage(p) == StartEffect(p) \/ FinishEffect(p) \/ PersistResult(p) \/ Commit(p) \/ Fail(p)

Next == \E p \in team : \/ GateLoad(p) \/ Gate(p) \/ Stage(p)
                        \/ Cleanup(p) \/ CleanupRecorded(p) \/ Crash(p)

Spec == Init /\ [][Next]_vars

\* A process that is running takes its next step, and a deployment whose
\* operation has no outcome yet is resumed; crashes are finitely many.
Fairness == \A p \in Procs :
    /\ WF_vars(p \in team /\ (Gate(p) \/ Stage(p) \/ CleanupRecorded(p)))
    /\ WF_vars(p \in team /\ GateLoad(p) /\ status \in {NoRecord, "running", "unknown", "retryable"})

FairSpec == Spec /\ Fairness

-----------------------------------------------------------------------------
\* Every variable has its type.
TypeOK ==
    /\ <<team, repairs>> \in Setups
    /\ resource \in Kinds /\ status \in Status \cup {NoRecord} /\ attempt \in 0..MaxAttempt
    /\ ext \in World /\ artifact \in BOOLEAN /\ open \in BOOLEAN
    /\ pc \in [Procs -> Steps] /\ seen \in [Procs -> Status \cup {NoRecord}]
    /\ verdict \in [Procs -> Decisions \cup {"none"}] /\ crashes \in 0..MaxCrash

Journal == INSTANCE AtomicJournal WITH
    Operations <- {"operation"}, status <- [o \in {"operation"} |-> status]

\* The gate, the stage node and the cleanup move the record only along the
\* journal's transition table.
ImplementsJournal == Journal!Spec

\* One process runs the deployment, and no repair has authorized a retry.
Alone == (\E p \in Procs : team = {p}) /\ ~repairs

\* "unknown side effect -> reconcile before retry": no effect is started while
\* the outcome of an earlier one is neither recorded nor observed.  Two processes
\* at the gate of one operation, and a retry a repair has authorized, can start
\* one: begin answers with the record of the other process, and the retry leaves
\* the record retryable.
ReconcileBeforeRetry == [][Alone => \A p \in team : StartEffect(p) => ~open]_vars

\* Inductive form of ReconcileBeforeRetry: what the process works from is what
\* the journal holds, and an open effect belongs to a record that is running or
\* unknown.
GateInv ==
    Alone => \A p \in team :
        /\ open => status \in {"running", "unknown"}
        /\ pc[p] \in {"gate", "recovered"} => seen[p] = status
        /\ pc[p] = "execute" => ~open /\ status = "running"
        /\ pc[p] \in {"effect", "persist", "commit", "fail"} => status = "running"
        /\ pc[p] = "apply" => ~open /\ status = "unknown"
        /\ pc[p] = "restart" => ~open /\ status = "retryable"
        /\ pc[p] = "cleaned" => ~open /\ status = "manual"

\* The resources whose reconciler tells a finished effect of the operation from
\* any other: a container by its label, a Conda prefix by its marker and packages.
Observed == {"docker_service", "conda"}

\* "never duplicate execute": of these, an effect that is complete is not started
\* again, wherever the process dies.
ObservedOnce ==
    [][Alone /\ resource \in Observed => \A p \in team : StartEffect(p) => ext # "complete"]_vars

\* A committed operation has its effect outside: neither the stage node nor a
\* reconcile decision commits what is not there, of a resource that is observed.
CommittedIsComplete ==
    Alone /\ resource \in Observed /\ status = "committed" => ext = "complete"

\* The stage node writes the result artifact before it commits: only an
\* operation committed by a reconcile decision can lack it.
CommittedHasResult ==
    status = "committed" => artifact \/ \E p \in Procs : verdict[p] = "reuse"

\* Every interrupted operation ends with an outcome or with the operator.
EventuallyDecided == Alone => <>[](status \in {"committed", "failed", "manual", "conflict"})

=============================================================================
