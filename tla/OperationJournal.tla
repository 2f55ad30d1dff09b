-------------------------- MODULE OperationJournal --------------------------
(***************************************************************************)
(* OperationJournal: one snapshot file per operation and one append-only   *)
(* audit log.  Several processes (a deployment and its resumed copies) use *)
(* the journal of one run directory.  A writer takes the lock of the       *)
(* operation, loads the snapshot, writes the new one atomically, appends   *)
(* one event and releases the lock.  recover_running and apply_decision    *)
(* first load the snapshot without the lock.  A process may die between    *)
(* any two of these steps; the kernel then releases its locks.             *)
(***************************************************************************)
EXTENDS OperationStatus

CONSTANTS
    Ops,         \* operation ids
    Procs,       \* processes that share the run directory
    Inputs,      \* normalized input hashes
    MaxAttempt,  \* bound on the attempts of one operation
    None         \* no process, no operation, no input

ASSUME JournalAssumption ==
    /\ None \notin Ops \cup Procs \cup Inputs
    /\ MaxAttempt \in Nat

VARIABLES
    snapshot,  \* snapshot[o]: the record in <o>.json
    audit,     \* audit[o]: the status the last event of o in events.jsonl reports
    torn,      \* operations whose last event was lost by a crash
    lock,      \* lock[o]: the process that holds the flock of o
    task       \* task[p]: where p is in a journal call

vars == <<snapshot, audit, torn, lock, task>>

Record == [status : Status \cup {NoRecord}, attempt : Nat, input : Inputs \cup {None}]

Idle == [at |-> "idle", op |-> None, rec |-> [status |-> NoRecord, attempt |-> 0, input |-> None]]

Init ==
    /\ snapshot = [o \in Ops |-> Idle.rec]
    /\ audit = [o \in Ops |-> NoRecord]
    /\ torn = {}
    /\ lock = [o \in Ops |-> None]
    /\ task = [p \in Procs |-> Idle]

-----------------------------------------------------------------------------
(* What each call writes when the snapshot it loads under the lock is r.   *)

\* create(): a planned record where there is none.
Created(r, h) == [status |-> "planned", attempt |-> 0, input |-> h]

\* begin(): running, one attempt more, in one write.
Begun(r, h) == [status |-> "running", attempt |-> r.attempt + 1, input |-> h]

\* The identity check of create() and begin(): a stored record with another
\* input hash is an "operation identity collision".
SameIdentity(r, h) == r.status = NoRecord \/ r.input = h

\* transition(): the new status, and the attempt when the caller passes one.
Moved(r, s, a) == [r EXCEPT !.status = s, !.attempt = a]

-----------------------------------------------------------------------------
\* p takes the lock of o and has decided to write rec.  A call that raises or
\* returns the existing record releases the lock without a write.
Enter(p, o, rec) ==
    /\ lock[o] = None
    /\ lock' = [lock EXCEPT ![o] = p]
    /\ task' = [task EXCEPT ![p] = [at |-> "write", op |-> o, rec |-> rec]]
    /\ UNCHANGED <<snapshot, audit, torn>>

create(p, o, h) ==
    /\ task[p].at = "idle"
    /\ snapshot[o].status = NoRecord
    /\ Enter(p, o, Created(snapshot[o], h))

\* Fault: begin also restarts an operation whose outcome is unknown.
begin_FromUnknown(p, o, h) ==
    /\ task[p].at = "idle"
    /\ snapshot[o].status \in Beginnable \cup {"unknown"}
    /\ SameIdentity(snapshot[o], h)
    /\ snapshot[o].attempt < MaxAttempt
    /\ Enter(p, o, Begun(snapshot[o], h))

begin(p, o, h) ==
    /\ task[p].at = "idle"
    /\ snapshot[o].status \in Beginnable
    /\ SameIdentity(snapshot[o], h)
    /\ snapshot[o].attempt < MaxAttempt
    /\ Enter(p, o, Begun(snapshot[o], h))

\* transition() with no attempt update, as commit(), fail(), cleanup and
\* apply_decision call it.  A status read earlier is checked again here.
transition(p, o, s) ==
    /\ task[p].at = "idle"
    /\ s \in AllowedTransitions[snapshot[o].status] \ {"running"}
    /\ Enter(p, o, Moved(snapshot[o], s, snapshot[o].attempt))

\* The unlocked load of recover_running (the record is running) and of the
\* retry branch of apply_decision (its attempt is remembered).
LoadUnlocked(p, o, why) ==
    /\ task[p].at = "idle"
    /\ \/ why = "recover" /\ snapshot[o].status = "running"
       \/ why = "retry"   /\ snapshot[o].status # NoRecord /\ snapshot[o].attempt < MaxAttempt
    /\ task' = [task EXCEPT ![p] = [at |-> why, op |-> o, rec |-> snapshot[o]]]
    /\ UNCHANGED <<snapshot, audit, torn, lock>>

\* The transition after an unlocked load: to unknown for recover_running, to
\* running with the attempt it read plus one for apply_decision.
MoveAfterLoad(p, o) ==
    LET s == IF task[p].at = "recover" THEN "unknown" ELSE "running"
        a == IF task[p].at = "recover" THEN snapshot[o].attempt ELSE task[p].rec.attempt + 1
    IN /\ task[p].at \in {"recover", "retry"}
       /\ task[p].op = o
       /\ lock[o] = None
       /\ IF s \in AllowedTransitions[snapshot[o].status]
            THEN Enter(p, o, Moved(snapshot[o], s, a))
            ELSE \* ValueError: invalid transition
                 /\ task' = [task EXCEPT ![p] = Idle]
                 /\ UNCHANGED <<snapshot, audit, torn, lock>>

\* Fault: the lock is released before the event is appended.
WriteSnapshot_EarlyUnlock(p) ==
    /\ task[p].at = "write"
    /\ snapshot' = [snapshot EXCEPT ![task[p].op] = task[p].rec]
    /\ task' = [task EXCEPT ![p].at = "append"]
    /\ lock' = [lock EXCEPT ![task[p].op] = None]
    /\ UNCHANGED <<audit, torn>>

WriteSnapshot(p) ==
    /\ task[p].at = "write"
    /\ snapshot' = [snapshot EXCEPT ![task[p].op] = task[p].rec]
    /\ task' = [task EXCEPT ![p].at = "append"]
    /\ UNCHANGED <<audit, torn, lock>>

AppendEvent(p) ==
    /\ task[p].at = "append"
    /\ audit' = [audit EXCEPT ![task[p].op] = task[p].rec.status]
    /\ torn' = torn \ {task[p].op}
    /\ lock' = [lock EXCEPT ![task[p].op] = None]
    /\ task' = [task EXCEPT ![p] = Idle]
    /\ UNCHANGED snapshot

\* The process dies; its flock goes with it.
Crash(p) ==
    /\ task[p].at # "idle"
    /\ torn' = IF task[p].at = "append" THEN torn \cup {task[p].op} ELSE torn
    /\ lock' = [o \in Ops |-> IF lock[o] = p THEN None ELSE lock[o]]
    /\ task' = [task EXCEPT ![p] = Idle]
    /\ UNCHANGED <<snapshot, audit>>

Next ==
    \E p \in Procs :
       \/ \E o \in Ops :
            \/ \E h \in Inputs : create(p, o, h) \/ begin(p, o, h)
            \/ \E s \in Status : transition(p, o, s)
            \/ \E why \in {"recover", "retry"} : LoadUnlocked(p, o, why)
            \/ MoveAfterLoad(p, o)
       \/ WriteSnapshot(p)
       \/ AppendEvent(p)
       \/ Crash(p)

Spec == Init /\ [][Next]_vars

-----------------------------------------------------------------------------
\* Every variable has its type: records have known statuses, natural attempts
\* and a known input, and each process is at a step of a journal call.
TypeOK ==
    /\ snapshot \in [Ops -> Record]
    /\ audit \in [Ops -> Status \cup {NoRecord}]
    /\ torn \subseteq Ops
    /\ lock \in [Ops -> Procs \cup {None}]
    /\ task \in [Procs -> [at : {"idle", "recover", "retry", "write", "append"},
                           op : Ops \cup {None}, rec : Record]]

\* Audit trail: outside the window between the snapshot write and the event of
\* the same call, the last event of an operation reports the status its
\* snapshot has, unless the process that wrote the snapshot died before its
\* event (_write_snapshot and _append_event under one lock).
AuditMatchesSnapshot ==
    \A o \in Ops : \/ audit[o] = snapshot[o].status
                   \/ o \in torn
                   \/ \E p \in Procs : task[p].at = "append" /\ task[p].op = o

\* committed and conflict are final: whatever two processes decided from stale
\* reads, no write changes such a record again (transition re-reads the status
\* under the lock).
FinalStatusesStay ==
    [][\A o \in Ops : snapshot[o].status \in Terminal => snapshot'[o] = snapshot[o]]_vars

\* "unknown side effect -> reconcile before retry": a record enters running
\* only from no record, planned or retryable, never from unknown or failed.
RunningOnlyFromBeginnable ==
    [][\A o \in Ops : (snapshot'[o].status = "running" /\ snapshot[o].status # "running")
                        => snapshot[o].status \in Beginnable]_vars

\* The identity of an operation never changes: once written, the input hash of
\* a record stays (the collision checks of create and begin).
IdentityStable ==
    [][\A o \in Ops : snapshot[o].status # NoRecord => snapshot'[o].input = snapshot[o].input]_vars

\* A process between its snapshot write and its event still holds the lock of
\* the operation, and the snapshot on disk is the one it wrote.
WritersHoldTheLock ==
    \A p \in Procs : task[p].at \in {"write", "append"} =>
        /\ task[p].op \in Ops
        /\ lock[task[p].op] = p
        /\ task[p].at = "append" => snapshot[task[p].op] = task[p].rec

\* No write is lost: a process about to write the snapshot of an operation
\* computed its record from the snapshot that is still there, so the write is
\* a legal transition of the current status and keeps the identity (load and
\* write under one lock).
NoLostUpdate ==
    \A p \in Procs : task[p].at = "write" =>
        LET r == snapshot[task[p].op] IN
        \/ r.status = NoRecord /\ task[p].rec.status \in {"planned", "running"}
        \/ /\ task[p].rec.status \in AllowedTransitions[r.status]
           /\ task[p].rec.input = r.input

Abstract == INSTANCE AtomicJournal WITH
    Operations <- Ops, status <- [o \in Ops |-> snapshot[o].status]

\* The journal implements the atomic one: whatever the processes interleave,
\* load, lock and lose in a crash, the statuses on disk change one operation
\* at a time along the transition table, at the snapshot write.
ImplementsAtomicJournal == Abstract!Spec

\* The inductive invariant of the proofs.
JournalInv == TypeOK /\ WritersHoldTheLock /\ NoLostUpdate /\ AuditMatchesSnapshot

=============================================================================
