----------------------------- MODULE MCTaskRunner -----------------------------
(* Instances of TaskRunner for TLC.                                        *)
EXTENDS TaskRunner

\* <<strategy, dry_run, self-heal>>
MixedModes == {<<"pipeline", FALSE, TRUE>>, <<"pipeline", TRUE, FALSE>>,
               <<"plan_first", FALSE, FALSE>>}
PipelineModes == {"pipeline"} \X BOOLEAN \X BOOLEAN
=============================================================================
