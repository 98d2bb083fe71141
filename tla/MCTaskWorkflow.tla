--------------------------- MODULE MCTaskWorkflow ---------------------------
(* Values for model checking TaskWorkflow.tla on small instances. *)
EXTENDS TaskWorkflow

\* An implementation agent does not claim the review itself, and a review agent
\* not the implementation; "failed" and "cancelled" lead nowhere else than "done".
WellBehavedImplementer == Dir \ {"reviewing", "failed", "cancelled"}

WellBehavedReviewer == Dir \ {"working", "failed", "cancelled"}

\* Where the prompts tell the agents to leave the document.
PromptedImplementer == {"review", "done"}

PromptedReviewer == {"todo", "done"}
=============================================================================
