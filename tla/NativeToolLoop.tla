---------------------------- MODULE NativeToolLoop ----------------------------
(***************************************************************************)
(* NativeToolTurnLoop.run over the ToolCallLedger and the Operation        *)
(* Journal: a provider asks for tool calls turn by turn, each call is      *)
(* recorded, checked, answered from what is stored or executed, and its    *)
(* answer is stored before the provider sees it.  The process may die      *)
(* between any two steps; the loop is then run again over the same run     *)
(* directory, with nothing in memory and any calls from the provider.      *)
(***************************************************************************)
EXTENDS OperationStatus, Naturals, FiniteSets

CONSTANTS
    CallIds,      \* call ids a provider may use
    Tools, Args,  \* tool names and argument objects
    SideEffects,  \* tools of category side_effect
    Visible,      \* tools projected to the provider in this stage
    Valid,        \* <<tool, arguments>> that pass the tool's schema
    MaxTurns, MaxCallsPerTurn,
    MaxRuns       \* bound on the runs of the loop

ASSUME LoopAssumption ==
    /\ SideEffects \subseteq Tools /\ Visible \subseteq Tools
    /\ Valid \subseteq Tools \X Args
    /\ MaxTurns \in Nat \ {0} /\ MaxCallsPerTurn \in Nat \ {0} /\ MaxRuns \in Nat \ {0}

Operation == Tools \X Args
Call == [id : CallIds, tool : Tools, arg : Args]
Op(c) == <<c.tool, c.arg>>

\* A result names the operation it answers, its status and the execution that
\* produced it.  "unseen" is the rejection of a tool that is not visible: its
\* operation id is computed without the fingerprints, so it is indexed under
\* the call only.
Result == [op : Operation, status : {"passed", "failed", "rejected", "unseen"},
           run : 0..MaxRuns]
NoResult == [op |-> <<>>, status |-> "none", run |-> 0]
NoCall == [tool |-> "none", arg |-> "none"]
Rejected(o) == [op |-> o, status |-> "rejected", run |-> 0]

VARIABLES
    called,    \* called[i]: the call recorded under id i (calls/<id>.json)
    final,     \* the ids whose record has its outcome (finalize_call)
    byCall,    \* byCall[i]: results/<id>.json
    byOp,      \* byOp[o]: results/by_operation/<operation>.json
    turnLog,   \* turnLog[n]: the call ids of turns/turn_<n>.json
    journal,   \* journal[o]: status of the operation in the journal
    stored,    \* stored[o]: the tool_result in its journal record
    executions, \* history: executions[o] counts those of o
    phase, runs, turn, calls,
    call,      \* the call being handled
    answer,    \* its result
    seen,      \* seen[i]: arguments of id i in this run (seen_call_hashes)
    cached,    \* cached[o]: results_by_fingerprint
    turnIds    \* turn_call_ids

ledger == <<called, final, byCall, byOp, turnLog>>
ops == <<journal, stored, executions>>
memory == <<call, answer, seen, cached, turnIds>>
tool_vars == <<ledger, ops, phase, runs, turn, calls, memory>>

Stopped == {"down", "stopped", "raised"}

ToolInit ==
    /\ called = [i \in CallIds |-> NoCall]
    /\ final = {}
    /\ byCall = [i \in CallIds |-> NoResult] /\ byOp = [o \in Operation |-> NoResult]
    /\ turnLog = [n \in 1..MaxTurns |-> {}]
    /\ journal = [o \in Operation |-> NoRecord] /\ stored = [o \in Operation |-> NoResult]
    /\ executions = [o \in Operation |-> 0]
    /\ phase = "down" /\ runs = 0 /\ turn = 0 /\ calls = 0
    /\ call = NoCall /\ answer = NoResult /\ turnIds = {}
    /\ seen = [i \in CallIds |-> "none"] /\ cached = [o \in Operation |-> NoResult]

\* run(): a new conversation with nothing in memory.
Run ==
    /\ phase \in Stopped /\ runs < MaxRuns
    /\ phase' = "provider" /\ runs' = runs + 1 /\ turn' = 0 /\ calls' = 0
    /\ call' = NoCall /\ answer' = NoResult /\ turnIds' = {}
    /\ seen' = [i \in CallIds |-> "none"] /\ cached' = [o \in Operation |-> NoResult]
    /\ UNCHANGED <<ledger, ops>>

-----------------------------------------------------------------------------
(* One turn                                                                *)

\* The provider answers with between one and max_calls_per_turn calls.
Turn ==
    /\ phase = "provider" /\ turn < MaxTurns
    /\ turn' = turn + 1 /\ calls' = 0 /\ turnIds' = {}
    /\ phase' = "call"
    /\ UNCHANGED <<ledger, ops, runs, call, answer, seen, cached>>

\* ... or the loop ends: final text (recorded as a turn without calls), too
\* many calls, an exceeded context budget or the wrong protocol.
FinalTurn ==
    /\ phase = "provider"
    /\ \/ turn < MaxTurns /\ turnLog' = [turnLog EXCEPT ![turn + 1] = {}]
       \/ UNCHANGED turnLog
    /\ phase' = "stopped"
    /\ UNCHANGED <<called, final, byCall, byOp, ops, runs, turn, calls, memory>>

\* A response has at most max_calls_per_turn calls.
TurnHasRoom == calls < MaxCallsPerTurn

\* normalize_provider_tool_call and record_call.  Other arguments under an id
\* of this run: the call is rejected and leaves no trace.  Other arguments
\* than the ledger has: the loop ends.
ReceiveCall(c) ==
    /\ phase = "call" /\ TurnHasRoom
    /\ calls' = calls + 1
    /\ IF seen[c.id] \notin {"none", c.arg}
         THEN UNCHANGED <<phase, called, call, seen, turnIds>>
         ELSE /\ seen' = [seen EXCEPT ![c.id] = c.arg]
              /\ IF called[c.id] # NoCall /\ called[c.id].arg # c.arg
                   THEN phase' = "stopped" /\ UNCHANGED <<called, call, turnIds>>
                   ELSE /\ called' = IF called[c.id] = NoCall
                                       THEN [called EXCEPT ![c.id] = [tool |-> c.tool, arg |-> c.arg]]
                                       ELSE called
                        /\ call' = c
                        /\ turnIds' = turnIds \cup {c.id}
                        /\ phase' = "policy"
    /\ UNCHANGED <<final, byCall, byOp, turnLog, ops, runs, turn, answer, cached>>

\* record_turn, when every call of the response has been handled.
EndTurn ==
    /\ phase = "call" /\ calls > 0
    /\ turnLog' = [turnLog EXCEPT ![turn] = turnIds]
    /\ phase' = "provider"
    /\ UNCHANGED <<called, final, byCall, byOp, ops, runs, turn, calls, memory>>

-----------------------------------------------------------------------------
(* One call                                                                *)

\* Visibility in the stage, then the argument schema.
Policy ==
    /\ phase = "policy"
    /\ \/ /\ call.tool \notin Visible
          /\ answer' = [Rejected(Op(call)) EXCEPT !.status = "unseen"] /\ phase' = "byCall"
       \/ /\ call.tool \in Visible /\ Op(call) \notin Valid
          /\ answer' = Rejected(Op(call)) /\ phase' = "byCall"
       \/ call.tool \in Visible /\ Op(call) \in Valid /\ phase' = "lookup" /\ UNCHANGED answer
    /\ UNCHANGED <<ledger, ops, runs, turn, calls, call, seen, cached, turnIds>>

\* load_result looks under the call id, then under the operation; then comes
\* the cache of this run.
Found == IF byCall[call.id] # NoResult THEN byCall[call.id]
         ELSE IF byOp[Op(call)] # NoResult THEN byOp[Op(call)]
         ELSE cached[Op(call)]

Lookup ==
    /\ phase = "lookup"
    /\ IF Found # NoResult THEN answer' = Found /\ phase' = "byCall"
                       ELSE UNCHANGED answer /\ phase' = "execute"
    /\ UNCHANGED <<ledger, ops, runs, turn, calls, call, seen, cached, turnIds>>

Answer(r) == answer' = r /\ cached' = [cached EXCEPT ![Op(call)] = r] /\ phase' = "byCall"

\* Fault: an operation left running is not recovered.
NeedsReconcile_NoRunning == {"unknown", "manual", "conflict"}

\* The statuses that reject a side effect.
NeedsReconcile == {"running", "unknown", "manual", "conflict"}

\* _execute_with_recovery up to the execution.  A side effect is begun in the
\* journal; begin leaves a failed record as it is.
Execute ==
    /\ phase = "execute"
    /\ LET o == Op(call) IN
         \/ /\ o[1] \notin SideEffects
            /\ phase' = "effect" /\ UNCHANGED <<journal, answer, cached>>
         \/ /\ o[1] \in SideEffects /\ journal[o] = "committed"
            /\ Answer(stored[o]) /\ UNCHANGED journal
         \/ /\ o[1] \in SideEffects
            /\ journal[o] \in NeedsReconcile
            /\ journal' = [journal EXCEPT ![o] = IF @ = "running" THEN "unknown" ELSE @]
            /\ Answer(Rejected(o))
         \/ /\ o[1] \in SideEffects /\ journal[o] \notin NeedsReconcile \cup {"committed"}
            /\ journal' = [journal EXCEPT ![o] = IF @ \in Beginnable THEN "running" ELSE @]
            /\ phase' = "effect" /\ UNCHANGED <<answer, cached>>
    /\ UNCHANGED <<ledger, stored, executions, runs, turn, calls, call, seen, turnIds>>

\* executor.execute.
Effect ==
    /\ phase = "effect"
    /\ executions' = [executions EXCEPT ![Op(call)] = @ + 1]
    /\ \E s \in {"passed", "failed"} : answer' = [op |-> Op(call), status |-> s, run |-> runs]
    /\ phase' = "record"
    /\ UNCHANGED <<ledger, journal, stored, runs, turn, calls, call, seen, cached, turnIds>>

\* Fault: the result is returned before the journal has it.
RecordOutcome_Skip ==
    /\ phase = "record"
    /\ cached' = [cached EXCEPT ![Op(call)] = answer] /\ phase' = "byCall"
    /\ UNCHANGED <<ledger, ops, runs, turn, calls, call, answer, seen, turnIds>>

\* The journal takes the outcome and the result; a move the table forbids raises.
RecordOutcome ==
    /\ phase = "record"
    /\ LET o == Op(call)
           s == IF answer.status = "passed" THEN "committed" ELSE "failed" IN
         \/ /\ o[1] \notin SideEffects
            /\ cached' = [cached EXCEPT ![o] = answer] /\ phase' = "byCall"
            /\ UNCHANGED <<journal, stored>>
         \/ /\ o[1] \in SideEffects /\ s \in AllowedTransitions[journal[o]]
            /\ journal' = [journal EXCEPT ![o] = s]
            /\ stored' = [stored EXCEPT ![o] = answer]
            /\ cached' = [cached EXCEPT ![o] = answer] /\ phase' = "byCall"
         \/ /\ o[1] \in SideEffects /\ s \notin AllowedTransitions[journal[o]]
            /\ phase' = "raised" /\ UNCHANGED <<journal, stored, cached>>
    /\ UNCHANGED <<ledger, executions, runs, turn, calls, call, answer, seen, turnIds>>

-----------------------------------------------------------------------------
(* _persist_result: the call's index, the operation's index, the call      *)

\* Both results come from executions and differ: result hashes differ.
Collide(prior, new) ==
    /\ prior.status \in {"passed", "failed"} /\ new.status \in {"passed", "failed"}
    /\ prior # new

PersistByCall ==
    /\ phase = "byCall"
    /\ \/ byCall[call.id] = NoResult /\ byCall' = [byCall EXCEPT ![call.id] = answer] /\ phase' = "byOp"
       \/ /\ byCall[call.id] # NoResult /\ UNCHANGED byCall
          /\ phase' = IF Collide(byCall[call.id], answer) THEN "raised" ELSE "byOp"
    /\ UNCHANGED <<called, final, byOp, turnLog, ops, runs, turn, calls, memory>>

\* The operation is the result's, which need not be the call's.
PersistByOp ==
    /\ phase = "byOp"
    /\ IF answer.status = "unseen" THEN phase' = "finalize" /\ UNCHANGED byOp
       ELSE IF byOp[answer.op] = NoResult
              THEN byOp' = [byOp EXCEPT ![answer.op] = answer] /\ phase' = "finalize"
              ELSE /\ phase' = IF Collide(byOp[answer.op], answer) THEN "raised" ELSE "finalize"
                   /\ UNCHANGED byOp
    /\ UNCHANGED <<called, final, byCall, turnLog, ops, runs, turn, calls, memory>>

\* finalize_call writes the outcome into the call's record; the answer goes to
\* the provider.
Finalize ==
    /\ phase = "finalize" /\ phase' = "call"
    /\ final' = final \cup {call.id}
    /\ UNCHANGED <<called, byCall, byOp, turnLog, ops, runs, turn, calls, memory>>

-----------------------------------------------------------------------------
LoopDies ==
    /\ phase \notin Stopped /\ phase' = "down"
    /\ UNCHANGED <<ledger, ops, runs, turn, calls, memory>>

Loop == \/ Turn \/ FinalTurn \/ EndTurn \/ (\E c \in Call : ReceiveCall(c))
        \/ Policy \/ Lookup \/ Execute \/ Effect \/ RecordOutcome
        \/ PersistByCall \/ PersistByOp \/ Finalize

ToolNext == Run \/ Loop \/ LoopDies

ToolSpec == ToolInit /\ [][ToolNext]_tool_vars

-----------------------------------------------------------------------------
\* A side effect is executed again only when its record says it failed: an
\* operation interrupted between begin and its outcome, or committed, is never
\* executed a second time, whatever ids the provider uses after a restart.
NoBlindRepeat ==
    [][\A o \in Operation : executions'[o] > executions[o] /\ o[1] \in SideEffects /\ executions[o] > 0
          => journal[o] = "failed"]_tool_vars

\* What the ledger holds of a side effect the journal held first: an executed
\* result is in an index only when the journal has its outcome and result.
LedgerFollowsJournal ==
    \A r \in {byCall[i] : i \in CallIds} \cup {byOp[o] : o \in Operation} :
        r.status \in {"passed", "failed"} /\ r.op[1] \in SideEffects =>
            /\ stored[r.op] = r
            /\ journal[r.op] = IF r.status = "passed" THEN "committed" ELSE "failed"

\* Why the two hold.  Every executed result of a side effect that is in an index,
\* in the cache of the run or about to be indexed is the one the journal holds; a
\* record that has its outcome is not changed again; and an execution finds its
\* record failed, or begun by itself for the first time.
Backed(r) ==
    r.status \in {"passed", "failed"} /\ r.op[1] \in SideEffects =>
        /\ r.op \in Operation /\ stored[r.op] = r
        /\ journal[r.op] = IF r.status = "passed" THEN "committed" ELSE "failed"

Handling == {"policy", "lookup", "execute", "effect", "record", "byCall", "byOp", "finalize"}

ToolInv ==
    /\ DOMAIN byCall = CallIds /\ DOMAIN byOp = Operation /\ DOMAIN cached = Operation
    /\ DOMAIN stored = Operation /\ executions \in [Operation -> Nat]
    /\ journal \in [Operation -> {NoRecord, "running", "unknown", "committed", "failed"}]
    /\ phase \in Handling => call \in Call
    /\ \A i \in CallIds : Backed(byCall[i])
    /\ \A o \in Operation : Backed(byOp[o]) /\ Backed(cached[o])
    /\ phase \in {"byCall", "byOp", "finalize"} => Backed(answer)
    /\ \A o \in Operation : o[1] \in SideEffects /\ journal[o] = "committed" =>
          stored[o].op = o /\ stored[o].status = "passed"
    /\ \A o \in Operation : o[1] \in SideEffects /\ executions[o] > 0 => journal[o] # NoRecord
    /\ phase = "effect" /\ call.tool \in SideEffects =>
          \/ journal[Op(call)] = "failed"
          \/ journal[Op(call)] = "running" /\ executions[Op(call)] = 0
    /\ phase = "record" =>
          /\ answer.op = Op(call) /\ answer.status \in {"passed", "failed"}
          /\ call.tool \in SideEffects => journal[Op(call)] \in {"running", "failed"}

=============================================================================
