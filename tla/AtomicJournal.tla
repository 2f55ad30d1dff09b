---------------------------- MODULE AtomicJournal ----------------------------
(***************************************************************************)
(* What the operation journal promises to the code that uses it: each      *)
(* operation has one status, and the status changes in atomic steps, each  *)
(* of which creates the record or is in the transition table.              *)
(***************************************************************************)
EXTENDS OperationStatus

CONSTANT Operations

VARIABLE status

\* A new record is planned (create) or running (begin).
Step(o, s) ==
    /\ \/ status[o] = NoRecord /\ s \in {"planned", "running"}
       \/ s \in AllowedTransitions[status[o]]
    /\ status' = [status EXCEPT ![o] = s]

Init == status = [o \in Operations |-> NoRecord]

Next == \E o \in Operations, s \in Status : Step(o, s)

Spec == Init /\ [][Next]_status

=============================================================================
