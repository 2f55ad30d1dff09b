-------------------------- MODULE OperationStatus --------------------------
(***************************************************************************)
(* The vocabulary of the operation journal: the statuses of an operation   *)
(* record, the transitions OperationJournal.transition accepts, and what   *)
(* OperationJournal.begin does to a record it finds.                       *)
(***************************************************************************)
EXTENDS Integers

\* The statuses a stored record can have (OPERATION_STATUSES).
Status == {"planned", "running", "committed", "failed",
           "unknown", "retryable", "conflict", "manual"}

\* There is no snapshot file for the operation.
NoRecord == "none"

\* The transition table of the journal.
AllowedTransitions ==
    [s \in Status \cup {NoRecord} |->
       CASE s = "planned"   -> {"running", "committed", "failed", "conflict", "manual"}
         [] s = "running"   -> {"committed", "failed", "unknown"}
         [] s = "unknown"   -> {"committed", "retryable", "failed", "conflict", "manual"}
         [] s = "retryable" -> {"running", "committed", "failed", "conflict", "manual"}
         [] s = "manual"    -> {"retryable", "failed"}
         [] s = "failed"    -> {"retryable"}
         [] OTHER           -> {}]

\* The statuses begin() moves to running; every other record is returned as it is.
Beginnable == {NoRecord, "planned", "retryable"}

\* The statuses no transition leaves.
Terminal == {"committed", "conflict"}

=============================================================================
