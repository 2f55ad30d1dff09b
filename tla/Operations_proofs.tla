-------------------------- MODULE Operations_proofs --------------------------
(***************************************************************************)
(* Proofs about the three users of the operation records, each a           *)
(* specification of its own: the operation journal, the native tool loop   *)
(* over its ledger, and the environment of a task.  They hold for every    *)
(* set of operations, tools, arguments, processes, sites and inputs and    *)
(* for every bound.                                                        *)
(***************************************************************************)
EXTENDS OperationJournal, NativeToolLoop, Environment, TLAPS

-----------------------------------------------------------------------------
(* The operation journal: the audit trail, the final statuses and the      *)
(* refinement of the journal that does each operation in one step.         *)

\* Taking the lock keeps the invariant when the record to write is a record
\* and a legal successor of the snapshot (every journal call that writes).
LEMMA EnterKeepsInv ==
    ASSUME JournalInv, NEW p \in Procs, NEW o \in Ops, NEW rec \in Record,
           task[p].at \notin {"write", "append"},
           \/ snapshot[o].status = NoRecord /\ rec.status \in {"planned", "running"}
           \/ /\ rec.status \in AllowedTransitions[snapshot[o].status]
              /\ rec.input = snapshot[o].input,
           Enter(p, o, rec)
    PROVE  JournalInv'
<1> USE DEF JournalInv, Enter
<1>1. TypeOK'
  BY DEF TypeOK
<1>2. WritersHoldTheLock'
  BY JournalAssumption DEF TypeOK, WritersHoldTheLock
<1>3. NoLostUpdate'
  BY DEF TypeOK, NoLostUpdate, WritersHoldTheLock
<1>4. AuditMatchesSnapshot'
  BY DEF TypeOK, AuditMatchesSnapshot
<1> QED BY <1>1, <1>2, <1>3, <1>4

\* JournalInv is inductive: it holds initially and every step keeps it.
LEMMA InitInv == Init => JournalInv
BY DEF Init, JournalInv, TypeOK, WritersHoldTheLock, NoLostUpdate,
       AuditMatchesSnapshot, Idle, Record

\* Every step of Next keeps JournalInv; one case per journal step.
LEMMA NextInv == JournalInv /\ [Next]_vars => JournalInv'
<1> SUFFICES ASSUME JournalInv, [Next]_vars PROVE JournalInv' OBVIOUS
<1> USE JournalAssumption
<1>0. TypeOK BY DEF JournalInv
<1>1. ASSUME NEW p \in Procs, NEW o \in Ops, NEW h \in Inputs, create(p, o, h)
      PROVE  JournalInv'
  <2>1. Created(snapshot[o], h) \in Record BY DEF Created, Record, Status
  <2> QED BY <1>1, <2>1, EnterKeepsInv DEF create, Created
<1>2. ASSUME NEW p \in Procs, NEW o \in Ops, NEW h \in Inputs, begin(p, o, h)
      PROVE  JournalInv'
  <2>1. snapshot[o] \in Record BY <1>0 DEF TypeOK
  <2>2. Begun(snapshot[o], h) \in Record BY <2>1 DEF Begun, Record, Status
  <2>3. \/ snapshot[o].status = NoRecord /\ Begun(snapshot[o], h).status \in {"planned", "running"}
        \/ /\ Begun(snapshot[o], h).status \in AllowedTransitions[snapshot[o].status]
           /\ Begun(snapshot[o], h).input = snapshot[o].input
    BY <1>2 DEF begin, Begun, SameIdentity, Beginnable, AllowedTransitions, Status, NoRecord
  <2> QED BY <1>2, <2>2, <2>3, EnterKeepsInv DEF begin
<1>3. ASSUME NEW p \in Procs, NEW o \in Ops, NEW s \in Status, transition(p, o, s)
      PROVE  JournalInv'
  <2> DEFINE rec == Moved(snapshot[o], s, snapshot[o].attempt)
  <2>1. snapshot[o] \in Record BY <1>0 DEF TypeOK
  <2>2. rec \in Record /\ rec.status = s /\ rec.input = snapshot[o].input
    BY Zenon, <2>1 DEF Moved, Record
  <2> HIDE DEF rec
  <2> QED BY <1>3, <2>2, EnterKeepsInv DEF transition, rec
<1>4. ASSUME NEW p \in Procs, NEW o \in Ops, NEW why \in {"recover", "retry"},
             LoadUnlocked(p, o, why)
      PROVE  JournalInv'
  BY <1>4 DEF LoadUnlocked, JournalInv, TypeOK, WritersHoldTheLock, NoLostUpdate,
              AuditMatchesSnapshot
<1>5. ASSUME NEW p \in Procs, NEW o \in Ops, MoveAfterLoad(p, o)
      PROVE  JournalInv'
  <2> DEFINE s == IF task[p].at = "recover" THEN "unknown" ELSE "running"
             a == IF task[p].at = "recover" THEN snapshot[o].attempt
                                            ELSE task[p].rec.attempt + 1
             rec == Moved(snapshot[o], s, a)
  <2>1. snapshot[o] \in Record /\ task[p].rec \in Record BY <1>0 DEF TypeOK
  <2>2. rec \in Record /\ rec.status = s /\ rec.input = snapshot[o].input
    <3>1. s \in Status /\ a \in Nat BY <2>1 DEF Status, Record
    <3> QED BY Zenon, <2>1, <3>1 DEF Moved, Record
  <2>3. CASE s \in AllowedTransitions[snapshot[o].status]
    <3>1. Enter(p, o, rec) /\ task[p].at \notin {"write", "append"}
      BY <1>5, <2>3 DEF MoveAfterLoad
    <3> HIDE DEF rec, s
    <3> QED BY <2>2, <2>3, <3>1, EnterKeepsInv
  <2>4. CASE s \notin AllowedTransitions[snapshot[o].status]
    <3>1. /\ task' = [task EXCEPT ![p] = Idle]
          /\ task[p].at \in {"recover", "retry"}
          /\ UNCHANGED <<snapshot, audit, torn, lock>>
      BY <1>5, <2>4 DEF MoveAfterLoad
    <3> QED BY <3>1 DEF JournalInv, TypeOK, WritersHoldTheLock, NoLostUpdate,
                        AuditMatchesSnapshot, Idle, Record
  <2> QED BY <2>3, <2>4
<1>6. ASSUME NEW p \in Procs, WriteSnapshot(p) PROVE JournalInv'
  <2>1. TypeOK' BY Zenon, <1>0, <1>6 DEF WriteSnapshot, TypeOK, JournalInv
  <2>2. WritersHoldTheLock'
    BY <1>0, <1>6 DEF WriteSnapshot, TypeOK, JournalInv, WritersHoldTheLock
  <2>3. NoLostUpdate'
    BY <1>0, <1>6 DEF WriteSnapshot, TypeOK, JournalInv, WritersHoldTheLock, NoLostUpdate
  <2>4. AuditMatchesSnapshot'
    BY <1>0, <1>6 DEF WriteSnapshot, TypeOK, JournalInv, AuditMatchesSnapshot
  <2> QED BY <2>1, <2>2, <2>3, <2>4 DEF JournalInv
<1>7. ASSUME NEW p \in Procs, AppendEvent(p) PROVE JournalInv'
  <2>1. TypeOK'
    BY Zenon, <1>0, <1>7 DEF AppendEvent, TypeOK, JournalInv, Idle, Record
  <2>2. WritersHoldTheLock'
    BY <1>0, <1>7 DEF AppendEvent, TypeOK, JournalInv, WritersHoldTheLock, Idle
  <2>3. NoLostUpdate'
    BY <1>0, <1>7 DEF AppendEvent, TypeOK, JournalInv, NoLostUpdate, Idle
  <2>4. AuditMatchesSnapshot'
    BY <1>0, <1>7 DEF AppendEvent, TypeOK, JournalInv, WritersHoldTheLock,
                      AuditMatchesSnapshot, Idle
  <2> QED BY <2>1, <2>2, <2>3, <2>4 DEF JournalInv
<1>8. ASSUME NEW p \in Procs, Crash(p) PROVE JournalInv'
  <2>1. TypeOK'
    BY <1>0, <1>8 DEF Crash, TypeOK, JournalInv, WritersHoldTheLock, Idle, Record
  <2>2. WritersHoldTheLock'
    BY <1>0, <1>8 DEF Crash, TypeOK, JournalInv, WritersHoldTheLock, Idle
  <2>3. NoLostUpdate' BY <1>0, <1>8 DEF Crash, TypeOK, JournalInv, NoLostUpdate, Idle
  <2>4. AuditMatchesSnapshot'
    BY <1>0, <1>8 DEF Crash, TypeOK, JournalInv, AuditMatchesSnapshot, Idle
  <2> QED BY <2>1, <2>2, <2>3, <2>4 DEF JournalInv
<1>9. CASE UNCHANGED vars
  BY <1>9 DEF vars, JournalInv, TypeOK, WritersHoldTheLock, NoLostUpdate,
              AuditMatchesSnapshot
<1> QED BY <1>1, <1>2, <1>3, <1>4, <1>5, <1>6, <1>7, <1>8, <1>9 DEF Next

\* The invariant holds in every reachable state.
THEOREM JournalInvariant == Spec => []JournalInv
BY InitInv, NextInv, PTL DEF Spec

\* Type correctness of the journal.
THEOREM JournalTypes == Spec => []TypeOK
<1>1. JournalInv => TypeOK BY DEF JournalInv
<1> QED BY JournalInvariant, <1>1, PTL

\* The audit log never disagrees with a snapshot except where a crash lost an
\* event or a call is between its two writes.
THEOREM AuditTrail == Spec => []AuditMatchesSnapshot
<1>1. JournalInv => AuditMatchesSnapshot BY DEF JournalInv
<1> QED BY JournalInvariant, <1>1, PTL

\* Only WriteSnapshot changes a snapshot, and what it writes is a legal
\* successor of the record it replaces.
LEMMA SnapshotStep ==
    ASSUME JournalInv, [Next]_vars, NEW o \in Ops, snapshot'[o] # snapshot[o],
           snapshot[o].status # NoRecord
    PROVE  /\ snapshot'[o].status \in AllowedTransitions[snapshot[o].status]
           /\ snapshot'[o].input = snapshot[o].input
<1>1. PICK p \in Procs : WriteSnapshot(p)
  BY DEF Next, vars, create, begin, transition, LoadUnlocked, MoveAfterLoad, Enter,
         AppendEvent, Crash
<1>2. task[p].op = o /\ snapshot'[o] = task[p].rec
  BY <1>1 DEF WriteSnapshot, JournalInv, TypeOK
<1> QED BY <1>1, <1>2 DEF WriteSnapshot, JournalInv, NoLostUpdate

\* A committed or conflicting operation is never written again.
THEOREM FinalStatuses == Spec => FinalStatusesStay
<1>1. JournalInv /\ [Next]_vars
        => [\A o \in Ops : snapshot[o].status \in Terminal => snapshot'[o] = snapshot[o]]_vars
  BY Zenon, SnapshotStep DEF Terminal, AllowedTransitions, Status, NoRecord
<1> QED BY JournalInvariant, <1>1, PTL DEF Spec, FinalStatusesStay

\* An operation of unknown outcome never goes straight back to running.
THEOREM ReconcileBeforeRunning == Spec => RunningOnlyFromBeginnable
<1>1. JournalInv /\ [Next]_vars
        => [\A o \in Ops : (snapshot'[o].status = "running" /\ snapshot[o].status # "running")
              => snapshot[o].status \in Beginnable]_vars
  <2> SUFFICES ASSUME JournalInv, [Next]_vars, NEW o \in Ops,
                      snapshot'[o].status = "running", snapshot[o].status # "running"
               PROVE  snapshot[o].status \in Beginnable
    OBVIOUS
  <2>1. snapshot[o].status \in Status \cup {NoRecord} BY DEF JournalInv, TypeOK, Record
  <2>2. CASE snapshot[o].status = NoRecord BY <2>2 DEF Beginnable
  <2>3. CASE snapshot[o].status # NoRecord
    BY Zenon, <2>1, <2>3, SnapshotStep DEF Beginnable, AllowedTransitions, Status
  <2> QED BY <2>2, <2>3
<1> QED BY JournalInvariant, <1>1, PTL DEF Spec, RunningOnlyFromBeginnable

\* The identity of a recorded operation never changes.
THEOREM Identity == Spec => IdentityStable
<1>1. JournalInv /\ [Next]_vars
        => [\A o \in Ops : snapshot[o].status # NoRecord
              => snapshot'[o].input = snapshot[o].input]_vars
  BY SnapshotStep
<1> QED BY JournalInvariant, <1>1, PTL DEF Spec, IdentityStable

\* The journal with its locks, its two writes and its crashes implements the
\* atomic journal; the step is the write of the snapshot.
THEOREM JournalIsAtomic == Spec => ImplementsAtomicJournal
<1> DEFINE st == [o \in Ops |-> snapshot[o].status]
<1>0. /\ Abstract!NoRecord = NoRecord
      /\ Abstract!Status = Status
      /\ Abstract!AllowedTransitions = AllowedTransitions
  BY Zenon DEF Abstract!NoRecord, NoRecord, Abstract!Status, Status,
               Abstract!AllowedTransitions, AllowedTransitions
<1>1. Init => Abstract!Init BY <1>0 DEF Init, Abstract!Init, Idle
<1>2. JournalInv /\ [Next]_vars => [Abstract!Next]_st
  <2> SUFFICES ASSUME JournalInv, [Next]_vars, st' # st PROVE Abstract!Next
    OBVIOUS
  <2>1. PICK p \in Procs : WriteSnapshot(p)
    BY DEF Next, vars, create, begin, transition, LoadUnlocked, MoveAfterLoad, Enter,
           AppendEvent, Crash
  <2> DEFINE o == task[p].op
             s == task[p].rec.status
  <2>2. /\ o \in Ops
        /\ snapshot \in [Ops -> Record]
        /\ snapshot' = [snapshot EXCEPT ![o] = task[p].rec]
        /\ task[p].at = "write"
    BY <2>1 DEF WriteSnapshot, JournalInv, TypeOK, WritersHoldTheLock
  <2>3. s \in Status
    <3>1. snapshot[o].status \in Status \cup {NoRecord} BY <2>2 DEF Record
    <3>2. s \in {"planned", "running"} \/ s \in AllowedTransitions[snapshot[o].status]
      BY <2>2 DEF JournalInv, NoLostUpdate
    <3> QED BY <3>1, <3>2 DEF AllowedTransitions, Status, NoRecord
  <2>4. \/ st[o] = NoRecord /\ s \in {"planned", "running"}
        \/ s \in AllowedTransitions[st[o]]
    BY <2>2, <2>3 DEF JournalInv, NoLostUpdate
  <2>5. st' = [st EXCEPT ![o] = s] BY Zenon, <2>2
  <2> QED BY Zenon, <1>0, <2>2, <2>3, <2>4, <2>5 DEF Abstract!Next, Abstract!Step
<1> QED BY JournalInvariant, <1>1, <1>2, PTL DEF Spec, ImplementsAtomicJournal, Abstract!Spec

-----------------------------------------------------------------------------
(* The tool loop: the ledger of tool calls follows the journal, and no     *)
(* side effect is repeated blindly.                                        *)

\* The operation of a call.
LEMMA OpOfCall ==
  ASSUME call \in Call
  PROVE  Op(call) \in Operation /\ Op(call)[1] = call.tool
BY DEF Call, Op, Operation

\* The absence of a result and a rejection claim nothing.
LEMMA NothingIsBacked ==
  /\ Backed(NoResult)
  /\ \A o : Backed(Rejected(o)) /\ Backed([Rejected(o) EXCEPT !.status = "unseen"])
BY DEF Backed, NoResult, Rejected

\* A result stays backed when no record that has its outcome is changed.
LEMMA BackedStays ==
  ASSUME NEW r, Backed(r),
         \A o \in Operation : journal[o] \in {"committed", "failed"} =>
             journal'[o] = journal[o] /\ stored'[o] = stored[o]
  PROVE  r.status \in {"passed", "failed"} /\ r.op[1] \in SideEffects =>
           /\ r.op \in Operation /\ stored'[r.op] = r
           /\ journal'[r.op] = IF r.status = "passed" THEN "committed" ELSE "failed"
BY DEF Backed

\* The ledger and what backs it.
Store == <<byCall, byOp, ops>>

\* Steps that leave the ledger, the journal and the cache.
LEMMA MoveKeeps ==
  ASSUME ToolInv, UNCHANGED Store, cached' = cached,
         phase' \notin {"effect", "record", "byCall", "byOp", "finalize"},
         phase' \in Handling => call' \in Call
  PROVE  ToolInv'
BY DEF ToolInv, Backed, Store, ops, Handling

\* The initial state satisfies the invariant.
LEMMA ToolStarts == ToolInit => ToolInv
<1>. SUFFICES ASSUME ToolInit PROVE ToolInv OBVIOUS
<1>1. \A o \in Operation : byOp[o] = NoResult /\ cached[o] = NoResult /\ journal[o] = NoRecord /\ executions[o] = 0
  BY DEF ToolInit
<1>2. \A i \in CallIds : byCall[i] = NoResult
  BY DEF ToolInit
<1>3. /\ DOMAIN byCall = CallIds /\ DOMAIN byOp = Operation /\ DOMAIN cached = Operation
      /\ DOMAIN stored = Operation /\ executions \in [Operation -> Nat] /\ phase = "down"
      /\ journal \in [Operation -> {NoRecord, "running", "unknown", "committed", "failed"}]
  BY DEF ToolInit
<1>. QED BY <1>1, <1>2, <1>3, NothingIsBacked DEF ToolInv, Handling, NoRecord

\* A record that has its outcome is not changed.
OutcomesStay ==
    \A o \in Operation : journal[o] \in {"committed", "failed"} =>
        journal'[o] = journal[o] /\ stored'[o] = stored[o]

\* The part of ToolInv about what is stored, for a step that adds at most a
\* backed answer to the indexes and the cache.
LEMMA StoredKeeps ==
  ASSUME ToolInv, OutcomesStay, NEW r, Backed(r)',
         DOMAIN byCall' = CallIds, DOMAIN byOp' = Operation, DOMAIN cached' = Operation,
         \A i \in CallIds : byCall'[i] \in {byCall[i], r},
         \A o \in Operation : byOp'[o] \in {byOp[o], r} /\ cached'[o] \in {cached[o], r}
  PROVE  /\ \A i \in CallIds : Backed(byCall[i])'
         /\ \A o \in Operation : Backed(byOp[o])' /\ Backed(cached[o])'
<1>1. \A i \in CallIds : Backed(byCall[i])'
  <2>. TAKE i \in CallIds
  <2>1. CASE byCall'[i] = r BY <2>1 DEF Backed
  <2>2. CASE byCall'[i] = byCall[i]
    <3>1. Backed(byCall[i]) BY DEF ToolInv
    <3>. QED BY <2>2, <3>1, BackedStays DEF Backed, OutcomesStay
  <2>. QED BY <2>1, <2>2
<1>2. \A o \in Operation : Backed(byOp[o])'
  <2>. TAKE o \in Operation
  <2>1. CASE byOp'[o] = r BY <2>1 DEF Backed
  <2>2. CASE byOp'[o] = byOp[o]
    <3>1. Backed(byOp[o]) BY DEF ToolInv
    <3>. QED BY <2>2, <3>1, BackedStays DEF Backed, OutcomesStay
  <2>. QED BY <2>1, <2>2
<1>3. \A o \in Operation : Backed(cached[o])'
  <2>. TAKE o \in Operation
  <2>1. CASE cached'[o] = r BY <2>1 DEF Backed
  <2>2. CASE cached'[o] = cached[o]
    <3>1. Backed(cached[o]) BY DEF ToolInv
    <3>. QED BY <2>2, <3>1, BackedStays DEF Backed, OutcomesStay
  <2>. QED BY <2>1, <2>2
<1>. QED BY <1>1, <1>2, <1>3

\* A new run forgets the cache.
LEMMA RunKeeps == ASSUME ToolInv, Run PROVE ToolInv'
<1>1. \A o \in Operation : Backed(cached[o])'
  BY DEF Run, Backed, NoResult
<1>2. /\ UNCHANGED <<byCall, byOp, journal, stored, executions>> /\ phase' = "provider"
      /\ DOMAIN cached' = Operation
  BY DEF Run, ledger, ops
<1>. QED BY <1>1, <1>2 DEF ToolInv, Backed, Handling

\* The steps between calls, the end of a call, and a death.
LEMMA BetweenKeeps ==
  ASSUME ToolInv, \/ Turn \/ FinalTurn \/ EndTurn \/ (\E c \in Call : ReceiveCall(c))
                  \/ Finalize \/ LoopDies
  PROVE  ToolInv'
<1>1. UNCHANGED Store /\ cached' = cached
  BY Zenon DEF Turn, FinalTurn, EndTurn, ReceiveCall, Finalize, LoopDies, Store, ledger, ops, memory
<1>2. phase' \notin {"effect", "record", "byCall", "byOp", "finalize"}
  BY Zenon DEF Turn, FinalTurn, EndTurn, ReceiveCall, Finalize, LoopDies
<1>3. phase' \in Handling => call' \in Call
  BY ZenonT(30) DEF Turn, FinalTurn, EndTurn, ReceiveCall, Finalize, LoopDies, Handling
<1>. QED BY <1>1, <1>2, <1>3, MoveKeeps

\* A rejection or a stored result is backed.
LEMMA PolicyKeeps == ASSUME ToolInv, Policy PROVE ToolInv'
<1>1. UNCHANGED Store /\ cached' = cached /\ call' = call /\ phase' \in {"byCall", "lookup"}
  BY DEF Policy, Store, ledger, ops
<1>2. call \in Call
  BY DEF Policy, ToolInv, Handling
<1>3. phase' = "byCall" => answer'.status \in {"rejected", "unseen"}
  BY DEF Policy, Rejected
<1>. QED BY <1>1, <1>2, <1>3 DEF ToolInv, Backed, Store, ops, Handling

\* Looking up a stored result changes no record.
LEMMA LookupKeeps == ASSUME ToolInv, Lookup PROVE ToolInv'
<1>1. UNCHANGED Store /\ cached' = cached /\ call' = call /\ phase' \in {"byCall", "execute"}
  BY SMTT(30) DEF Lookup, Store, ledger, ops
<1>2. call \in Call
  BY SMTT(30) DEF Lookup, ToolInv, Handling
<1>3. Backed(Found)
  BY <1>2, OpOfCall DEF ToolInv, Found, Call
<1>4. phase' = "byCall" => answer' = Found
  BY DEF Lookup
<1>. QED BY <1>1, <1>2, <1>3, <1>4 DEF ToolInv, Backed, Store, ops, Handling

\* A committed operation is answered with the stored result; an unsettled one
\* is rejected; any other is begun, or was left failed.
LEMMA ExecuteKeeps == ASSUME ToolInv, Execute PROVE ToolInv'
<1>. DEFINE o == Op(call)
<1>1. call \in Call /\ phase = "execute"
  BY DEF Execute, ToolInv, Handling
<1>2. o \in Operation /\ o[1] = call.tool
  BY <1>1, OpOfCall
<1>3. UNCHANGED <<byCall, byOp, stored, executions, call>> /\ phase' \in {"effect", "byCall"}
  BY DEF Execute, Answer, ledger
<1>4. \A q \in Operation : journal'[q] = journal[q] \/ q = o
  BY <1>2 DEF Execute, ToolInv
<1>5. journal' \in [Operation -> {NoRecord, "running", "unknown", "committed", "failed"}]
  BY <1>2 DEF Execute, ToolInv
<1>6. \/ journal'[o] = journal[o]
      \/ journal[o] \notin {"committed", "failed"} /\ journal'[o] \in {"running", "unknown"}
  <2>1. journal[o] \in {NoRecord, "running", "unknown", "committed", "failed"} /\ DOMAIN journal = Operation
    BY <1>2 DEF ToolInv
  <2>2. \/ journal' = journal
        \/ /\ journal[o] \in NeedsReconcile
           /\ journal' = [journal EXCEPT ![o] = IF @ = "running" THEN "unknown" ELSE @]
        \/ /\ journal[o] \notin NeedsReconcile \cup {"committed"}
           /\ journal' = [journal EXCEPT ![o] = IF @ \in Beginnable THEN "running" ELSE @]
    BY DEF Execute
  <2>. QED BY <1>2, <2>1, <2>2 DEF NeedsReconcile, Beginnable, NoRecord
<1>7. OutcomesStay
  BY <1>3, <1>4, <1>6 DEF OutcomesStay
<1>8. CASE phase' = "byCall"
  <2>1. /\ \/ answer' = Rejected(o)
           \/ o[1] \in SideEffects /\ journal[o] = "committed" /\ answer' = stored[o] /\ journal' = journal
        /\ cached' = [cached EXCEPT ![o] = answer']
    BY <1>8 DEF Execute, Answer
  <2>2. Backed(answer)'
    <3>1. CASE answer' = Rejected(o) BY SMTT(30), <3>1 DEF Backed, Rejected
    <3>2. CASE o[1] \in SideEffects /\ journal[o] = "committed" /\ answer' = stored[o] /\ journal' = journal
      BY SMTT(30), <3>2, <1>2, <1>3 DEF Backed, ToolInv
    <3>. QED BY <2>1, <3>1, <3>2
  <2>3. DOMAIN cached' = Operation /\ \A q \in Operation : cached'[q] \in {cached[q], answer'}
    BY SMTT(30), <2>1 DEF ToolInv
  <2>4. /\ \A i \in CallIds : Backed(byCall[i])'
        /\ \A q \in Operation : Backed(byOp[q])' /\ Backed(cached[q])'
    BY ZenonT(30), <1>3, <1>7, <2>2, <2>3, StoredKeeps DEF ToolInv, Backed
  <2>5. \A q \in Operation : journal'[q] = "committed" => journal[q] = "committed"
    BY <1>4, <1>6
  <2>6. \A q \in Operation : journal[q] # NoRecord => journal'[q] # NoRecord
    BY SMTT(30), <1>4, <1>6 DEF NoRecord
  <2>. QED BY <1>1, <1>3, <1>5, <1>8, <2>2, <2>3, <2>4, <2>5, <2>6 DEF ToolInv
<1>9. CASE phase' = "effect"
  <2>1. cached' = cached
    BY <1>9 DEF Execute, Answer
  <2>2. Backed(NoResult)'
    BY SMTT(30) DEF Backed, NoResult
  <2>4. /\ \A i \in CallIds : Backed(byCall[i])'
        /\ \A q \in Operation : Backed(byOp[q])' /\ Backed(cached[q])'
    BY SMTT(30), <1>3, <1>7, <2>1, <2>2, StoredKeeps DEF ToolInv
  <2>5. \A q \in Operation : journal'[q] = "committed" => journal[q] = "committed"
    BY <1>4, <1>6
  <2>6. \A q \in Operation : journal[q] # NoRecord => journal'[q] # NoRecord
    BY <1>4, <1>6 DEF NoRecord
  <2>7. o[1] \in SideEffects => \/ journal[o] = "failed" /\ journal'[o] = "failed"
                                \/ journal[o] = NoRecord /\ journal'[o] = "running"
    BY <1>2, <1>9 DEF Execute, Answer, ToolInv, NeedsReconcile, Beginnable, NoRecord
  <2>8. o[1] \in SideEffects /\ journal[o] = NoRecord => executions[o] = 0
    BY <1>2 DEF ToolInv
  <2>9. call'.tool \in SideEffects =>
           \/ journal'[Op(call)'] = "failed"
           \/ journal'[Op(call)'] = "running" /\ executions'[Op(call)'] = 0
    BY SMTT(30), <1>2, <1>3, <2>7, <2>8 DEF Op
  <2>. QED BY ZenonT(30), <1>1, <1>3, <1>5, <1>9, <2>1, <2>4, <2>5, <2>6, <2>9 DEF ToolInv
<1>. QED BY <1>3, <1>8, <1>9

\* The execution itself, which leaves the record begun.
LEMMA EffectKeeps == ASSUME ToolInv, Effect PROVE ToolInv'
<1>. DEFINE o == Op(call)
<1>1. call \in Call /\ phase = "effect"
  BY DEF Effect, ToolInv, Handling
<1>2. o \in Operation /\ o[1] = call.tool
  BY <1>1, OpOfCall
<1>3. UNCHANGED <<byCall, byOp, stored, journal, cached, call>> /\ phase' = "record"
  BY DEF Effect, ledger
<1>4. executions' \in [Operation -> Nat] /\ \A q \in Operation : q # o => executions'[q] = executions[q]
  BY <1>2 DEF Effect, ToolInv
<1>5. o[1] \in SideEffects => journal[o] \in {"running", "failed"}
  BY <1>1, <1>2 DEF ToolInv
<1>6. answer'.op = Op(call)' /\ answer'.status \in {"passed", "failed"}
  BY <1>3 DEF Effect, Op
<1>7. call'.tool \in SideEffects => journal'[Op(call)'] \in {"running", "failed"}
  BY <1>2, <1>3, <1>5 DEF Op
<1>8. \A q \in Operation : q[1] \in SideEffects /\ executions'[q] > 0 => journal'[q] # NoRecord
  BY SMTT(30), <1>3, <1>4, <1>5 DEF ToolInv, NoRecord
<1>9. /\ \A i \in CallIds : Backed(byCall[i])'
      /\ \A q \in Operation : Backed(byOp[q])' /\ Backed(cached[q])'
  BY SMTT(30), <1>3 DEF ToolInv, Backed
<1>10. \A q \in Operation : q[1] \in SideEffects /\ journal'[q] = "committed" =>
          stored'[q].op = q /\ stored'[q].status = "passed"
  BY <1>3 DEF ToolInv
<1>. QED BY ZenonT(30), <1>1, <1>3, <1>4, <1>6, <1>7, <1>8, <1>9, <1>10 DEF ToolInv

\* The outcome enters the journal with the result, and only over a running
\* record: the table has no move from failed to an outcome.
LEMMA RecordKeeps == ASSUME ToolInv, RecordOutcome PROVE ToolInv'
<1>. DEFINE o == Op(call)
            s == IF answer.status = "passed" THEN "committed" ELSE "failed"
<1>1. call \in Call /\ phase = "record"
  BY DEF RecordOutcome, ToolInv, Handling
<1>2. o \in Operation /\ o[1] = call.tool
  BY SMTT(30), <1>1, OpOfCall
<1>3. UNCHANGED <<byCall, byOp, executions, call, answer>>
  BY DEF RecordOutcome, ledger
<1>4. answer.op = o /\ answer.status \in {"passed", "failed"}
  BY <1>1 DEF ToolInv
<1>5. CASE phase' = "raised"
  <2>1. UNCHANGED Store /\ cached' = cached
    BY SMTT(30), <1>3, <1>5 DEF RecordOutcome, Store, ops
  <2>. QED BY <1>5, <2>1, MoveKeeps DEF Handling
<1>6. CASE phase' = "byCall"
  <2>1. cached' = [cached EXCEPT ![o] = answer]
    BY <1>6 DEF RecordOutcome
  <2>2. \/ o[1] \notin SideEffects /\ journal' = journal /\ stored' = stored
        \/ /\ o[1] \in SideEffects /\ s \in AllowedTransitions[journal[o]]
           /\ journal' = [journal EXCEPT ![o] = s] /\ stored' = [stored EXCEPT ![o] = answer]
    BY <1>6 DEF RecordOutcome
  <2>3. o[1] \in SideEffects => journal[o] \in {"running", "failed"}
    BY <1>1, <1>2 DEF ToolInv
  <2>4. s \notin AllowedTransitions["failed"]
    BY DEF AllowedTransitions, Status, NoRecord
  <2>5. o[1] \in SideEffects => journal[o] = "running"
    BY <2>2, <2>3, <2>4
  <2>6. OutcomesStay
    BY SMTT(30), <1>2, <2>2, <2>5 DEF OutcomesStay, ToolInv
  <2>7. Backed(answer)'
    BY SMTT(30), <1>2, <1>3, <1>4, <2>2 DEF Backed, ToolInv
  <2>8. DOMAIN cached' = Operation /\ \A q \in Operation : cached'[q] \in {cached[q], answer}
    BY ZenonT(30), <2>1 DEF ToolInv
  <2>9. /\ \A i \in CallIds : Backed(byCall[i])'
        /\ \A q \in Operation : Backed(byOp[q])' /\ Backed(cached[q])'
    BY ZenonT(30), <1>3, <2>6, <2>7, <2>8, StoredKeeps DEF ToolInv, Backed
  <2>10. /\ journal' \in [Operation -> {NoRecord, "running", "unknown", "committed", "failed"}]
         /\ DOMAIN stored' = Operation
    <3>1. /\ journal \in [Operation -> {NoRecord, "running", "unknown", "committed", "failed"}]
          /\ DOMAIN stored = Operation
      BY DEF ToolInv
    <3>2. s \in {"committed", "failed"} BY SMTT(30)
    <3>. HIDE DEF s
    <3>. QED BY <1>2, <2>2, <3>1, <3>2
  <2>11. \A q \in Operation : q[1] \in SideEffects /\ journal'[q] = "committed" =>
            stored'[q].op = q /\ stored'[q].status = "passed"
    BY SMTT(30), <1>2, <1>4, <2>2 DEF ToolInv
  <2>12. \A q \in Operation : q[1] \in SideEffects /\ executions'[q] > 0 => journal'[q] # NoRecord
    BY SMTT(30), <1>2, <1>3, <2>2 DEF ToolInv, NoRecord
  <2>. QED BY SMTT(30), <1>1, <1>3, <1>6, <2>7, <2>8, <2>9, <2>10, <2>11, <2>12 DEF ToolInv
<1>. QED BY SMTT(30), <1>5, <1>6 DEF RecordOutcome

\* The indexes take the answer, which is backed.
LEMMA PersistKeeps == ASSUME ToolInv, PersistByCall \/ PersistByOp PROVE ToolInv'
<1>1. call \in Call /\ Backed(answer) /\ phase \in {"byCall", "byOp"}
  BY DEF PersistByCall, PersistByOp, ToolInv, Handling
<1>2. UNCHANGED <<journal, stored, executions, call, answer, cached>>
  BY DEF PersistByCall, PersistByOp, ops, memory
<1>3. phase' \in {"raised", "byOp", "finalize"}
  BY DEF PersistByCall, PersistByOp
<1>4. Backed(answer)'
  BY SMTT(30), <1>1, <1>2 DEF Backed
<1>5. /\ DOMAIN byCall' = CallIds /\ \A i \in CallIds : byCall'[i] \in {byCall[i], answer}
      /\ DOMAIN byOp' = Operation /\ \A q \in Operation : byOp'[q] \in {byOp[q], answer}
  BY DEF PersistByCall, PersistByOp, ToolInv
<1>6. OutcomesStay
  BY SMTT(30), <1>2 DEF OutcomesStay
<1>7. /\ \A i \in CallIds : Backed(byCall[i])'
      /\ \A q \in Operation : Backed(byOp[q])' /\ Backed(cached[q])'
  BY Zenon, <1>2, <1>4, <1>5, <1>6, StoredKeeps DEF ToolInv, Backed
<1>. QED BY SMTT(30), <1>1, <1>2, <1>3, <1>4, <1>5, <1>7 DEF ToolInv

-----------------------------------------------------------------------------
\* Every step preserves the invariant.
LEMMA StepInv == ToolInv /\ [ToolNext]_tool_vars => ToolInv'
<1>. SUFFICES ASSUME ToolInv, [ToolNext]_tool_vars PROVE ToolInv' OBVIOUS
<1>1. CASE UNCHANGED tool_vars
  <2>1. UNCHANGED <<byCall, byOp, journal, stored, executions, phase, call, answer, cached>>
    BY <1>1 DEF tool_vars, ledger, ops, memory
  <2>2. \A r : Backed(r) => Backed(r)' BY <2>1 DEF Backed
  <2>. QED BY Zenon, <2>1, <2>2 DEF ToolInv, Op
<1>. QED
  BY SMTT(30), <1>1, RunKeeps, BetweenKeeps, PolicyKeeps, LookupKeeps, ExecuteKeeps, EffectKeeps,
     RecordKeeps, PersistKeeps DEF ToolNext, Loop

\* What the ledger holds of a side effect, results/<id>.json or
\* results/by_operation, is what the journal holds, with its outcome: for any
\* provider, any number of calls and turns, and a death between any two steps.
THEOREM LedgerAlwaysFollows == ToolSpec => []LedgerFollowsJournal
<1>1. ToolInv => LedgerFollowsJournal
  <2>. SUFFICES ASSUME ToolInv,
                       NEW r \in {byCall[i] : i \in CallIds} \cup {byOp[o] : o \in Operation}
                PROVE  Backed(r)
    BY DEF LedgerFollowsJournal, Backed
  <2>. QED BY DEF ToolInv
<1>. QED BY <1>1, ToolStarts, StepInv, PTL DEF ToolSpec

\* A second execution of a side effect finds its record failed, whatever call
\* ids and arguments the provider uses and wherever the earlier run died.
THEOREM NeverBlindRepeat == ToolSpec => NoBlindRepeat
<1>. DEFINE Safe == \A o \in Operation :
                       executions'[o] > executions[o] /\ o[1] \in SideEffects /\ executions[o] > 0
                          => journal[o] = "failed"
<1>1. ToolInv /\ [ToolNext]_tool_vars => [Safe]_tool_vars
  <2>. SUFFICES ASSUME ToolInv, ToolNext, NEW o \in Operation, executions'[o] > executions[o],
                       o[1] \in SideEffects, executions[o] > 0
                PROVE  journal[o] = "failed"
    OBVIOUS
  <2>1. executions[o] \in Nat
    BY DEF ToolInv
  <2>2. executions' # executions
    BY <2>1
  <2>3. Effect
    BY ZenonT(30), <2>2 DEF ToolNext, Run, Loop, LoopDies, Turn, FinalTurn, EndTurn, ReceiveCall, Policy,
                Lookup, Execute, RecordOutcome, PersistByCall, PersistByOp, Finalize, ops
  <2>4. call \in Call /\ phase = "effect"
    BY Zenon, <2>3 DEF Effect, ToolInv, Handling
  <2>5. o = Op(call)
    <3>1. executions' = [executions EXCEPT ![Op(call)] = executions[Op(call)] + 1]
      BY <2>3 DEF Effect
    <3>2. DOMAIN executions = Operation
      BY DEF ToolInv
    <3>3. o # Op(call) => executions'[o] = executions[o]
      BY <3>1, <3>2
    <3>4. ~(executions[o] > executions[o])
      BY <2>1
    <3>. QED BY <3>3, <3>4
  <2>6. call.tool \in SideEffects
    BY SMTT(30), <2>4, <2>5, OpOfCall
  <2>7. journal[Op(call)] = "failed" \/ executions[Op(call)] = 0
    BY <2>4, <2>6 DEF ToolInv
  <2>. QED BY <2>1, <2>5, <2>7
<1>. QED BY <1>1, ToolStarts, StepInv, PTL DEF ToolSpec, NoBlindRepeat

-----------------------------------------------------------------------------
(* The environment of a task: the ownership marker is true, and a pass is  *)
(* an installed environment, for any sites, first prefixes and runs.       *)

\* The postcheck never fails for what is installed in addition.
LEMMA CheckMonotone ==
  ASSUME NEW r, NEW d, NEW P, NEW Q, P \subseteq Q, check(r, d, P)
  PROVE  check(r, d, Q)
BY DEF check, _package_satisfied, gpu_required

\* The postcheck asks no less of a decision that does not fall back to the CPU.
LEMMA CheckAgrees ==
  ASSUME NEW r, NEW d, NEW e, NEW P, d.fallback => e.fallback, check(r, d, P)
  PROVE  check(r, e, P)
BY SMTT(30) DEF check, gpu_required

\* The inventory of environments changes the resolver's action and no fallback.
LEMMA FallbackStable ==
  ASSUME NEW r, NEW h, NEW c, NEW reusable
  PROVE  select_environment(r, h, c, reusable).fallback
           = select_environment(r, h, c, FALSE).fallback
BY ZenonT(30) DEF select_environment, Decision, Blocked

\* What the properties read of a run.
Frame == <<prefix, job, disk, site>>

\* A step that changes none of it keeps the invariant.
LEMMA FrameKeeps ==
  ASSUME EnvInv, UNCHANGED Frame
  PROVE  EnvInv'
BY ZenonT(30) DEF EnvInv, Frame, ResultsAgree, At, Conda, decision, Satisfied, MarkerIsTrue

\* The end of env_deploy, but for a pass.
LEMMA FinishKeeps ==
  ASSUME EnvInv, NEW status, status # "passed" \/ ~Conda \/ prefix.marker = "own",
         Finish(status), UNCHANGED <<prefix, disk, site>>
  PROVE  EnvInv'
<1>1. /\ DOMAIN job' = DOMAIN NoJob /\ job'.pc = "report" /\ job'.results = job.results
      /\ job'.status = status
  BY DEF EnvInv, Finish, NoJob
<1>2. Satisfied' = Satisfied /\ MarkerIsTrue' = MarkerIsTrue /\ Conda' = Conda
  BY <1>1 DEF Satisfied, MarkerIsTrue, Conda, decision
<1>. QED BY ZenonT(30), <1>1, <1>2 DEF EnvInv, ResultsAgree, At

\* A step to a place at which nothing is claimed.
LEMMA GotoKeeps ==
  ASSUME EnvInv, DOMAIN job' = DOMAIN NoJob, job'.results = job.results,
         job'.pc \notin {"mark", "commit", "report"},
         UNCHANGED <<prefix, disk, site>>
  PROVE  EnvInv'
<1>1. Satisfied' = Satisfied /\ MarkerIsTrue' = MarkerIsTrue
  BY DEF Satisfied, MarkerIsTrue
<1>. QED BY ZenonT(30), <1>1 DEF EnvInv, ResultsAgree, At

\* What a command of env_deploy does to the prefix.
LEMMA InstalledKeeps ==
  ASSUME EnvInv, NEW pkgs
  PROVE  /\ DOMAIN Installed(pkgs) = DOMAIN Absent
         /\ Installed(pkgs).marker = prefix.marker /\ Installed(pkgs).made = prefix.made
         /\ prefix.pkgs \subseteq Installed(pkgs).pkgs
BY DEF EnvInv, Installed, Absent

\* MarkerIsTrue when a command adds to the prefix.
LEMMA GrowthKeeps ==
  ASSUME EnvInv, site' = site, prefix'.marker = prefix.marker, prefix'.made = prefix.made,
         prefix.pkgs \subseteq prefix'.pkgs
  PROVE  MarkerIsTrue'
BY ZenonT(30), CheckMonotone DEF EnvInv, MarkerIsTrue, Satisfied

\* The initial state satisfies the invariant.
LEMMA EnvInitInv == EnvInit => EnvInv
<1>. SUFFICES ASSUME EnvInit PROVE EnvInv OBVIOUS
<1>1. DOMAIN prefix = DOMAIN Absent /\ prefix.marker # "own"
  BY PrefixAssumption DEF EnvInit
<1>2. ResultsAgree(NoResults)
  BY Zenon DEF ResultsAgree, NoResults, NoPre, NoSol, Blocked, Decision
<1>3. job = NoJob /\ job.results = NoResults /\ job.pc = "none"
  BY DEF EnvInit, NoJob
<1>4. DOMAIN disk = {"stages", "pipeline", "whole"} /\ disk.stages = NoResults /\ disk.pipeline = NoResults
  BY DEF EnvInit
<1>. QED BY <1>1, <1>2, <1>3, <1>4 DEF EnvInv, At, MarkerIsTrue

-----------------------------------------------------------------------------
(* The steps                                                               *)

\* The runs and what happens between them.
LEMMA JobKeeps ==
  ASSUME EnvInv, StartJob \/ EndJob \/ RepairPlan \/ RemovePrefix
  PROVE  EnvInv'
<1>n. ResultsAgree(NoResults)
  BY ZenonT(30) DEF ResultsAgree, NoResults, NoPre, NoSol, Blocked, Decision
<1>1. CASE StartJob
  <2>1. /\ DOMAIN job' = DOMAIN NoJob /\ job'.pc \notin {"mark", "commit", "report"}
        /\ job'.results \in {NoResults, _load_previous_results}
    BY Zenon, <1>1 DEF StartJob, NoJob
  <2>2. ResultsAgree(job'.results)
    BY SMTT(30), <2>1, <1>n DEF EnvInv, _load_previous_results
  <2>3. Satisfied' = Satisfied /\ MarkerIsTrue' = MarkerIsTrue /\ UNCHANGED <<prefix, disk, site>>
    BY ZenonT(30), <1>1 DEF StartJob, Satisfied, MarkerIsTrue
  <2>. QED BY Zenon, <2>1, <2>2, <2>3 DEF EnvInv, ResultsAgree, At
<1>2. CASE EndJob
  <2>1. DOMAIN job' = DOMAIN NoJob /\ job'.pc = "ended" /\ job'.results = NoResults
    BY <1>2 DEF EndJob, NoJob
  <2>2. /\ DOMAIN disk' = DOMAIN disk /\ disk'.stages = disk.stages
        /\ disk'.pipeline = job.results
    BY <1>2 DEF EndJob, EnvInv
  <2>3. Satisfied' = Satisfied /\ MarkerIsTrue' = MarkerIsTrue /\ UNCHANGED <<prefix, site>>
    BY <1>2 DEF EndJob, Satisfied, MarkerIsTrue
  <2>. QED BY Zenon, <2>1, <2>2, <2>3, <1>n DEF EnvInv, ResultsAgree, At
<1>3. CASE RepairPlan
  BY SMTT(30), <1>3, FrameKeeps DEF RepairPlan, Frame
<1>4. CASE RemovePrefix
  <2>1. prefix'.marker # "own" /\ DOMAIN prefix' = DOMAIN Absent /\ UNCHANGED <<job, disk, site>>
    BY <1>4 DEF RemovePrefix, Absent
  <2>2. job.pc = "ended"
    BY <1>4 DEF RemovePrefix, At
  <2>. QED BY Zenon, <2>1, <2>2 DEF EnvInv, ResultsAgree, At, MarkerIsTrue
<1>. QED BY <1>1, <1>2, <1>3, <1>4

\* host_preflight and env_solve take decisions; the prefix is only read.
LEMMA DecideKeeps ==
  ASSUME EnvInv, RunPreflight \/ RunSolve
  PROVE  EnvInv'
<1>1. CASE RunPreflight
  <2>1. PICK listed \in BOOLEAN :
          LET d == select_environment(site.repo, site.host, site.config, listed /\ prefix.marker = "own")
              results == [job.results EXCEPT !.pre =
                            [done |-> TRUE, d |-> d,
                             authorized |-> evaluate(d, job.execute).mutation_authorized]]
              passed == PreflightStatus(d) = "passed"
          IN  /\ Save([disk.stages EXCEPT !.pre = results.pre])
              /\ job' = [job EXCEPT !.results = results,
                                    !.pc = IF passed THEN "env_solve" ELSE "report",
                                    !.status = IF passed THEN "none" ELSE "failed"]
    BY Zenon, <1>1 DEF RunPreflight
  <2> DEFINE d == select_environment(site.repo, site.host, site.config, listed /\ prefix.marker = "own")
             pre == [done |-> TRUE, d |-> d,
                     authorized |-> evaluate(d, job.execute).mutation_authorized]
             passed == PreflightStatus(d) = "passed"
  <2>2. d.fallback = select_environment(site.repo, site.host, site.config, FALSE).fallback
    BY ZenonT(30), FallbackStable
  <2>3. pre.d = d
    OBVIOUS
  <2> HIDE DEF d, pre, passed
  <2>4. job' = [job EXCEPT !.results = [job.results EXCEPT !.pre = pre],
                           !.pc = IF passed THEN "env_solve" ELSE "report",
                           !.status = IF passed THEN "none" ELSE "failed"]
    BY <2>1 DEF pre, d, passed
  <2>5. /\ DOMAIN job' = DOMAIN NoJob /\ job'.results.pre = pre /\ job'.results.sol = job.results.sol
        /\ DOMAIN job'.results = DOMAIN NoResults
        /\ job'.pc \in {"env_solve", "report"} /\ job'.status # "passed"
    BY <2>4 DEF EnvInv, ResultsAgree, NoJob, NoResults
  <2>6. [job.results EXCEPT !.pre = pre].pre = pre
    BY DEF EnvInv, ResultsAgree, NoResults
  <2>7. disk' = [disk EXCEPT !.stages = [disk.stages EXCEPT !.pre = pre]]
    BY <2>1, <2>6 DEF Save, pre, d
  <2>8. /\ DOMAIN disk' = DOMAIN disk /\ disk'.stages.pre = pre /\ disk'.stages.sol = disk.stages.sol
        /\ DOMAIN disk'.stages = DOMAIN NoResults /\ disk'.pipeline = disk.pipeline
    BY <2>7 DEF EnvInv, ResultsAgree, NoResults
  <2>9. Satisfied' = Satisfied /\ MarkerIsTrue' = MarkerIsTrue /\ UNCHANGED <<prefix, site>>
    BY Zenon, <1>1 DEF RunPreflight, Satisfied, MarkerIsTrue
  <2>. QED BY ZenonT(30), <2>2, <2>3, <2>5, <2>8, <2>9 DEF EnvInv, ResultsAgree, At
<1>2. CASE RunSolve
  <2> DEFINE p == job.results.pre
             d == IF p.d.status = "blocked" THEN Decision("none", "venv", "create", FALSE, "cpu") ELSE p.d
             plan == IF p.d.status = "blocked" THEN merge_analysis(site.repo, fixed) ELSE solve(site.repo, d, fixed)
             sol == [done |-> TRUE, d |-> d, authorized |-> p.authorized, plan |-> plan]
  <2>1. d.fallback => select_environment(site.repo, site.host, site.config, FALSE).fallback
    BY ZenonT(30) DEF EnvInv, ResultsAgree, Decision
  <2>2. sol.d = d
    BY Zenon
  <2>3. /\ disk' = [disk EXCEPT !.stages = [disk.stages EXCEPT !.sol = sol]]
        /\ job' = [job EXCEPT !.results.sol = sol, !.pc = "env_deploy"]
    BY <1>2 DEF RunSolve, Save
  <2> HIDE DEF d, plan, sol
  <2>4. /\ DOMAIN job' = DOMAIN NoJob /\ job'.results.sol = sol /\ job'.results.pre = job.results.pre
        /\ DOMAIN job'.results = DOMAIN NoResults /\ job'.pc = "env_deploy"
    BY <2>3 DEF EnvInv, ResultsAgree, NoJob, NoResults
  <2>5. /\ DOMAIN disk' = DOMAIN disk /\ disk'.stages.sol = sol /\ disk'.stages.pre = disk.stages.pre
        /\ DOMAIN disk'.stages = DOMAIN NoResults /\ disk'.pipeline = disk.pipeline
    BY <2>3 DEF EnvInv, ResultsAgree, NoResults
  <2>6. Satisfied' = Satisfied /\ MarkerIsTrue' = MarkerIsTrue /\ UNCHANGED <<prefix, site>>
    BY <1>2 DEF RunSolve, Satisfied, MarkerIsTrue
  <2>. QED BY ZenonT(30), <2>1, <2>2, <2>4, <2>5, <2>6 DEF EnvInv, ResultsAgree, At
<1>. QED BY SMTT(30), <1>1, <1>2

\* env_deploy up to its first command, and its failures.
LEMMA PrepareKeeps ==
  ASSUME EnvInv,
         \/ StartDeploy \/ ReuseCommitted \/ PrepareNew \/ PrepareRecover
         \/ PrepareReconcile \/ PrepareManual
  PROVE  EnvInv'
<1>u. UNCHANGED <<prefix, disk, site>>
  BY Zenon DEF StartDeploy, ReuseCommitted, PrepareNew, PrepareRecover, PrepareReconcile, PrepareManual
<1>f. ASSUME NEW status, status # "passed", Finish(status)
      PROVE  EnvInv'
  BY <1>f, <1>u, FinishKeeps
<1>1. CASE StartDeploy
  <2>1. \/ \E status \in {"uncertain", "planned", "failed"} : Finish(status)
        \/ job' = [job EXCEPT !.pc = IF Conda THEN "prepare" ELSE "install", !.left = job.results.sol.plan]
    BY <1>1 DEF StartDeploy
  <2>2. CASE job' = [job EXCEPT !.pc = IF Conda THEN "prepare" ELSE "install", !.left = job.results.sol.plan]
    <3>1. DOMAIN job' = DOMAIN NoJob /\ job'.results = job.results /\ job'.pc \in {"prepare", "install"}
      BY <2>2 DEF EnvInv, NoJob
    <3>. QED BY <3>1, <1>u, GotoKeeps
  <2>. QED BY <2>1, <2>2, <1>f
<1>2. CASE ReuseCommitted
  <2>1. DOMAIN job' = DOMAIN NoJob /\ job'.results = job.results /\ job'.pc = "postcheck"
    BY <1>2 DEF ReuseCommitted, EnvInv, NoJob
  <2>. QED BY <2>1, <1>u, GotoKeeps
<1>3. CASE PrepareNew
  <2>1. DOMAIN job' = DOMAIN NoJob /\ job'.results = job.results /\ job'.pc = "install"
    BY <1>3 DEF PrepareNew, Goto, EnvInv, NoJob
  <2>. QED BY <2>1, <1>u, GotoKeeps
<1>4. CASE PrepareRecover
  BY <1>4, FrameKeeps DEF PrepareRecover, Frame
<1>5. CASE PrepareReconcile
  <2>1. UNCHANGED job \/ Finish("failed")
    BY Zenon, <1>5 DEF PrepareReconcile, reconcile
  <2>2. CASE UNCHANGED job
    BY <2>2, <1>u, FrameKeeps DEF Frame
  <2>. QED BY <2>1, <2>2, <1>f
<1>6. CASE PrepareManual
  BY <1>6, <1>f DEF PrepareManual
<1>. QED BY <1>1, <1>2, <1>3, <1>4, <1>5, <1>6

\* The commands.
LEMMA CommandKeeps ==
  ASSUME EnvInv, AuthorizeCommand \/ StartCommand \/ EndCommand \/ EndInstall
  PROVE  EnvInv'
<1>1. CASE AuthorizeCommand
  <2>u. UNCHANGED <<prefix, disk, site>>
    BY <1>1 DEF AuthorizeCommand
  <2>1. Goto("command") \/ Finish("failed")
    BY <1>1 DEF AuthorizeCommand, FailDeploy
  <2>2. CASE Goto("command")
    <3>1. DOMAIN job' = DOMAIN NoJob /\ job'.results = job.results /\ job'.pc = "command"
      BY SMTT(30), <2>2 DEF Goto, EnvInv, NoJob
    <3>. QED BY <3>1, <2>u, GotoKeeps
  <2>. QED BY <2>1, <2>2, <2>u, FinishKeeps
<1>2. CASE StartCommand
  <2>1. DOMAIN job' = DOMAIN NoJob /\ job'.results = job.results /\ job'.pc = "running"
    BY <1>2 DEF StartCommand, Goto, EnvInv, NoJob
  <2>2. UNCHANGED <<disk, site>>
    BY <1>2 DEF StartCommand
  <2>3. prefix' \in {prefix, [Absent EXCEPT !.made = TRUE]}
    BY <1>2 DEF StartCommand
  <2>4. DOMAIN prefix' = DOMAIN Absent /\ (prefix' = prefix \/ prefix'.marker # "own")
    BY SMTT(30), <2>3 DEF Absent, EnvInv
  <2>5. MarkerIsTrue'
    BY Zenon, <2>2, <2>4 DEF EnvInv, MarkerIsTrue, Satisfied
  <2>. QED BY Zenon, <2>1, <2>2, <2>4, <2>5 DEF EnvInv, ResultsAgree, At
<1>3. CASE EndCommand
  <2>1. PICK pkgs \in Outcomes :
          \/ /\ prefix' = Installed(pkgs)
             /\ job' = [job EXCEPT !.left = Tail(@), !.pc = "install"]
          \/ prefix' \in {prefix, Installed(pkgs)} /\ Finish("failed")
    BY <1>3 DEF EndCommand, FailDeploy
  <2>2. UNCHANGED <<disk, site>>
    BY <1>3 DEF EndCommand
  <2>3. DOMAIN prefix' = DOMAIN Absent /\ MarkerIsTrue'
    <3>1. CASE prefix' = prefix
      BY Zenon, <3>1, <2>2 DEF EnvInv, MarkerIsTrue, Satisfied
    <3>2. CASE prefix' = Installed(pkgs)
      BY <3>2, <2>2, InstalledKeeps, GrowthKeeps
    <3>. QED BY SMTT(30), <2>1, <3>1, <3>2
  <2>4. /\ DOMAIN job' = DOMAIN NoJob /\ job'.results = job.results
        /\ job'.pc = "install" \/ (job'.pc = "report" /\ job'.status = "failed")
    BY Zenon, <2>1 DEF Finish, EnvInv, NoJob
  <2>. QED BY Zenon, <2>2, <2>3, <2>4 DEF EnvInv, ResultsAgree, At
<1>4. CASE EndInstall
  <2>u. UNCHANGED <<prefix, disk, site>>
    BY <1>4 DEF EndInstall
  <2>1. Goto("postcheck") \/ (~Conda /\ Finish("passed"))
    BY <1>4 DEF EndInstall
  <2>2. CASE Goto("postcheck")
    <3>1. DOMAIN job' = DOMAIN NoJob /\ job'.results = job.results /\ job'.pc = "postcheck"
      BY <2>2 DEF Goto, EnvInv, NoJob
    <3>. QED BY <3>1, <2>u, GotoKeeps
  <2>. QED BY <2>1, <2>2, <2>u, FinishKeeps
<1>. QED BY <1>1, <1>2, <1>3, <1>4

\* The end: the check, the marker and the commit, or a death anywhere.
LEMMA EndKeeps ==
  ASSUME EnvInv, RunPostcheck \/ WriteMarker \/ CommitOperation \/ CrashJob
  PROVE  EnvInv'
<1>1. CASE RunPostcheck
  <2>u. UNCHANGED <<prefix, disk, site>>
    BY <1>1 DEF RunPostcheck
  <2>1. \/ prefix.made /\ check(site.repo, decision, prefix.pkgs) /\ Goto("mark")
        \/ Finish("failed")
    BY SMTT(30), <1>1 DEF RunPostcheck, FailDeploy
  <2>2. CASE prefix.made /\ check(site.repo, decision, prefix.pkgs) /\ Goto("mark")
    <3>1. DOMAIN job' = DOMAIN NoJob /\ job'.results = job.results /\ job'.pc = "mark"
      BY SMTT(30), <2>2 DEF Goto, EnvInv, NoJob
    <3>2. Satisfied
      BY Zenon, <2>2, CheckAgrees DEF EnvInv, ResultsAgree, Satisfied, decision
    <3>3. Satisfied' = Satisfied /\ MarkerIsTrue' = MarkerIsTrue
      BY SMTT(30), <2>u DEF Satisfied, MarkerIsTrue
    <3>. QED BY Zenon, <3>1, <3>2, <3>3, <2>u DEF EnvInv, ResultsAgree, At
  <2>. QED BY <2>1, <2>2, <2>u, FinishKeeps
<1>2. CASE WriteMarker
  <2>1. DOMAIN job' = DOMAIN NoJob /\ job'.results = job.results /\ job'.pc = "commit"
    BY <1>2 DEF WriteMarker, Goto, EnvInv, NoJob
  <2>2. /\ DOMAIN prefix' = DOMAIN Absent /\ prefix'.marker = "own"
        /\ prefix'.made = prefix.made /\ prefix'.pkgs = prefix.pkgs
    BY <1>2 DEF WriteMarker, EnvInv, Absent
  <2>3. Satisfied /\ UNCHANGED <<disk, site>>
    BY SMTT(30), <1>2 DEF WriteMarker, EnvInv
  <2>4. MarkerIsTrue'
    BY Zenon, <2>2, <2>3 DEF MarkerIsTrue, Satisfied
  <2>. QED BY Zenon, <2>1, <2>2, <2>3, <2>4 DEF EnvInv, ResultsAgree, At
<1>3. CASE CommitOperation
  <2>1. prefix.marker = "own" /\ Finish("passed") /\ UNCHANGED <<prefix, disk, site>>
    BY <1>3 DEF CommitOperation, EnvInv
  <2>. QED BY <2>1, FinishKeeps
<1>4. CASE CrashJob
  <2>1. DOMAIN job' = DOMAIN NoJob /\ job'.pc = "ended" /\ job'.results = NoResults
    BY <1>4 DEF CrashJob, NoJob
  <2>2. ResultsAgree(NoResults)
    BY Zenon DEF ResultsAgree, NoResults, NoPre, NoSol, Blocked, Decision
  <2>3. UNCHANGED <<disk, site>> /\ (prefix' = prefix \/ \E pkgs \in Outcomes : prefix' = Installed(pkgs))
    BY <1>4 DEF CrashJob
  <2>4. DOMAIN prefix' = DOMAIN Absent /\ MarkerIsTrue'
    <3>1. CASE prefix' = prefix
      BY Zenon, <3>1, <2>3 DEF EnvInv, MarkerIsTrue, Satisfied
    <3>2. CASE \E pkgs \in Outcomes : prefix' = Installed(pkgs)
      BY <3>2, <2>3, InstalledKeeps, GrowthKeeps
    <3>. QED BY SMTT(30), <2>3, <3>1, <3>2
  <2>. QED BY Zenon, <2>1, <2>2, <2>3, <2>4 DEF EnvInv, ResultsAgree, At
<1>. QED BY <1>1, <1>2, <1>3, <1>4

\* EnvInv is inductive.
LEMMA EnvStepInv == EnvInv /\ [EnvNext]_env_vars => EnvInv'
<1>. SUFFICES ASSUME EnvInv, [EnvNext]_env_vars PROVE EnvInv' OBVIOUS
<1>1. CASE UNCHANGED env_vars
  BY <1>1, FrameKeeps DEF env_vars, Frame
<1>2. CASE EnvNext
  BY <1>2, JobKeeps, DecideKeeps, PrepareKeeps, CommandKeeps, EndKeeps DEF EnvNext
<1>. QED BY <1>1, <1>2

\* What a reader takes from it: a marker of the specification is only ever on an
\* environment that passes its postcheck, whatever runs die wherever.
THEOREM MarkerAlwaysTrue == EnvSpec => []MarkerIsTrue
<1>1. EnvInv => MarkerIsTrue
  BY DEF EnvInv
<1>. QED BY <1>1, EnvInitInv, EnvStepInv, PTL DEF EnvSpec

\* A Conda deployment that env_deploy reports as passed has left the environment
\* and its marker, also when the commands were not run because the decision was
\* to reuse or the journal had the operation committed.
THEOREM PassAlwaysInstalled == EnvSpec => []PassedIsInstalled
<1>1. EnvInv => PassedIsInstalled
  BY DEF EnvInv, PassedIsInstalled, MarkerIsTrue
<1>. QED BY <1>1, EnvInitInv, EnvStepInv, PTL DEF EnvSpec

=============================================================================
