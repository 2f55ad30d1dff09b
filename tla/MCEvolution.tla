----------------------------- MODULE MCEvolution -----------------------------
(* Two operator processes, two deployments of two failure keys (one bound  *)
(* to regression cases, one not), two runs needed for a proposal.           *)
EXTENDS Evolution

CONSTANTS p1, p2

Gradio == [stage |-> "verify", category |-> "verification_gap", frameworks |-> {"gradio"}]
Flask  == [stage |-> "runner", category |-> "service_start_failure", frameworks |-> {"flask"}]

Repaired(key) ==
  [key |-> key, verify |-> "passed", trace |-> TRUE, repair |-> "applied", repair_verified |-> "yes",
   actions |-> {"executed"}, high_risk |-> FALSE, agent |-> "passed", llm_helped |-> TRUE, strong |-> TRUE,
   steps |-> "flat", tools |-> {"discover_gradio_api"}]
Metadata(key) == [Repaired(key) EXCEPT !.actions = {"metadata"}, !.llm_helped = FALSE]
Failed(key)   == [Repaired(key) EXCEPT !.verify = "failed", !.repair = "none", !.agent = "failed"]

MCProcs == {p1, p2}
MCDeployments == << {Repaired(Gradio), Failed(Gradio), Repaired(Flask)},
                    {Repaired(Gradio), Metadata(Gradio), Repaired(Flask)} >>
MCDrafts == { [shape |-> "json", markdown |-> "clean", tools |-> {"discover_gradio_api"}, rule |-> "safe"],
              [shape |-> "fenced", markdown |-> "clean", tools |-> {"probe_http"}, rule |-> "harmful"],
              [shape |-> "json", markdown |-> "deletes", tools |-> {}, rule |-> "safe"] }
MCTargets == {"verify-evidence", "deploy-python-webui"}
Symmetry == {[x \in MCProcs |-> x], [x \in MCProcs |-> IF x = p1 THEN p2 ELSE p1]}
=============================================================================
