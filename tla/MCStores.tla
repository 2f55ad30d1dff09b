------------------------------ MODULE MCStores ------------------------------
(***************************************************************************)
(* The stores that outlive the processes using them, in one run of TLC:    *)
(* the operation journal, whose lock the kernel frees when its holder      *)
(* dies, the deployment queue, whose lock file stays, and the ledger of    *)
(* tool calls.  They share no state, so each behaviour is one of a store.  *)
(***************************************************************************)
EXTENDS OperationJournal, DeploymentQueue, NativeToolLoop

\* A read-only tool, a side-effect tool and a tool the stage does not show; both
\* visible tools accept "x", only the read-only tool accepts "y".
ValidCalls == {<<"read", "x">>, <<"read", "y">>, <<"write", "x">>}

VARIABLE store

stores == <<vars, queue_vars, tool_vars, store>>

StoresInit == store \in {"journal", "queue", "ledger"} /\ Init /\ QueueInit /\ ToolInit

StoresNext ==
    /\ UNCHANGED store
    /\ \/ store = "journal" /\ Next /\ UNCHANGED <<queue_vars, tool_vars>>
       \/ store = "queue" /\ QueueNext /\ UNCHANGED <<vars, tool_vars>>
       \/ store = "ledger" /\ ToolNext /\ UNCHANGED <<vars, queue_vars>>

\* Only the workers of the queue are assumed to go on.
StoresSpec == StoresInit /\ [][StoresNext]_stores /\ (store = "queue" => QueueFairness)

=============================================================================
