-------------------------- MODULE MCEngineAdapters --------------------------
(* The servers of each type that an endpoint may come to have: with and     *)
(* without metrics, a key, slots and a drafter, of an old and a new release, *)
(* and named in each shape a name has.                                       *)
EXTENDS EngineAdapters

Plain == [role |-> "SingleModel", metrics |-> TRUE, gated |-> FALSE, slots |-> FALSE,
          drafter |-> FALSE, old |-> FALSE, sleeps |-> FALSE, id |-> [of |-> "a", as |-> "bare"]]
Of(type) == [f \in DOMAIN Plain \cup {"type"} |-> IF f = "type" THEN type ELSE Plain[f]]

MCLaunches ==
    { [Of("Vllm") EXCEPT !.id.as = "cache"],
      [Of("Vllm") EXCEPT !.gated = TRUE],
      [Of("Sglang") EXCEPT !.id.as = "repo", !.drafter = TRUE],
      [Of("Sglang") EXCEPT !.id.as = "path", !.metrics = FALSE, !.old = TRUE, !.gated = TRUE],
      [Of("LlamaCpp") EXCEPT !.id.as = "path", !.slots = TRUE, !.drafter = TRUE, !.sleeps = TRUE],
      [Of("LlamaCpp") EXCEPT !.id.of = "b", !.metrics = FALSE],
      [Of("LlamaCpp") EXCEPT !.gated = TRUE, !.metrics = FALSE],
      [Of("LlamaCpp") EXCEPT !.role = "Router"],
      [Of("LlamaCpp") EXCEPT !.role = "Router", !.metrics = FALSE, !.old = TRUE],
      Of("Ollama") }
MCHints == {None, [of |-> "c", as |-> "repo"]}
=============================================================================
