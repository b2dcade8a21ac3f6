--------------------------- MODULE MCToolPolicies ---------------------------
(* Instances of ToolPolicies for TLC. *)
EXTENDS ToolPolicies

Op(m, p, tagged) == [method |-> m, path |-> p, tagged |-> tagged, guided |-> FALSE]

Get == Op("GET", "project", TRUE)
Del == Op("DELETE", "project", TRUE)
Gen == Op("POST", "generation", TRUE)

\* A read, a deletion and a generation.
MCSubmitted == [n \in Names |->
  CASE n = "retrieve_details" -> Get
    [] n = "delete"           -> Del
    [] n = "create_video"     -> Gen
    [] OTHER                  -> None]

\* Among them what was never reviewed, what has lost its tag, and what brings
\* guidance of its own.
MCOperations ==
  {Get, Del, Gen, Op("GET", "account", FALSE), Op("POST", "upload", FALSE),
   Op("GET", "other", FALSE), Op("POST", "other", TRUE), Op("DELETE", "account", FALSE), Op("PUT", "project", TRUE),
   Op("POST", "generation", FALSE), [Get EXCEPT !.guided = TRUE], [Gen EXCEPT !.guided = TRUE]}
=============================================================================
