------------------------ MODULE MCOperationRecovery ------------------------
(***************************************************************************)
(* One process, or two, at the gate of one operation of any resource.  Two *)
(* of them may repair: what they do without a repair they do with one, as  *)
(* it is never forced.                                                     *)
(***************************************************************************)
EXTENDS OperationRecovery

First == CHOOSE p \in Procs : TRUE
MCSetups == {<<{First}, FALSE>>, <<{First}, TRUE>>, <<Procs, TRUE>>}

=============================================================================
