---------------------------- MODULE Reconcilers ----------------------------
(***************************************************************************)
(* The reconcilers.  The world outside the journal is abstracted, for one  *)
(* operation, to what its side effect has left there:                      *)
(*   absent    nothing                                                     *)
(*   partial   an interrupted or failed effect left something behind       *)
(*   complete  the effect is done                                          *)
(*   foreign   something of another owner occupies the place               *)
(* For each resource, the decisions reconcile() can take in each world,    *)
(* for the identity and the input that GraphRecoveryAdapter records.       *)
(***************************************************************************)
EXTENDS Integers

World == {"absent", "partial", "complete", "foreign"}

Resources == {"venv", "conda", "model_download", "local_process", "docker_service"}

Decisions == {"reuse", "continue", "retry", "cleanup_then_retry", "conflict", "manual"}

\* dependency_install, venv backend.  The recorded input has no package specs
\* (only a conda solution has them), so an existing .venv whose python has the
\* right version satisfies every check; one without an interpreter does not.
VenvDecisions(w) ==
    CASE w = "absent"   -> {"retry"}
      [] w = "complete" -> {"reuse"}
      [] OTHER          -> {"reuse", "retry"}

\* Fault: the packages are not checked.
CondaDecisions_NoPackages(w) ==
    CASE w = "absent"  -> {"retry"}
      [] w = "foreign" -> {"conflict"}
      [] OTHER         -> {"reuse"}

\* dependency_install, conda backends: the ownership marker, the python
\* version, the packages and the postcheck.
CondaDecisions(w) ==
    CASE w = "absent"   -> {"retry"}
      [] w = "partial"  -> {"retry", "conflict"}
      [] w = "complete" -> {"reuse"}
      [] w = "foreign"  -> {"conflict"}

\* model_download.  The recorded target path is the models directory, never a
\* file, and nothing writes a .part file beside it.
DownloadDecisions(w) == {"retry"}

\* local_process.  No code records an observed pid, so the probe sees pid 0.
ProcessDecisions(w) == {"retry"}

\* Fault: a container of the operation that is running is started again.
DockerDecisions_Restart(w) == IF w = "complete" THEN {"continue"} ELSE {"manual"}

\* docker_service, looked up by label and then by name; a docker command may fail.
DockerDecisions(w) ==
    {"manual"} \cup
    CASE w = "absent"   -> {"retry"}
      [] w = "partial"  -> {"continue", "cleanup_then_retry"}
      [] w = "complete" -> {"reuse"}
      [] w = "foreign"  -> {"conflict"}

\* RecoveryService.reconcile: dispatch on the resource type.
Reconcile(r, w) ==
    CASE r = "venv"           -> VenvDecisions(w)
      [] r = "conda"          -> CondaDecisions(w)
      [] r = "model_download" -> DownloadDecisions(w)
      [] r = "local_process"  -> ProcessDecisions(w)
      [] r = "docker_service" -> DockerDecisions(w)

\* The targets verify_cleanup_target() accepts and the executor can remove.  A
\* process needs a recorded pid, and the other types have no verification.
CleanupOwned(r, w) == r = "docker_service" /\ w \in {"partial", "complete"}

=============================================================================
