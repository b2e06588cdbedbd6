----------------------------- MODULE MCPipeline -----------------------------
(* IngestionPipeline for TLC: two batches, the second of which grows when a   *)
(* supplemental candidate is resolved with the others.                        *)
EXTENDS IngestionPipeline, TLC

CONSTANTS e1, e2, e3, s1

MCEntities     == <<e1, e2, e3>>
MCSupplemental == <<s1>>
MCMentioned    == {e1, s1}
MCTried        == e1 :> Tools @@ e2 :> {"update", Refused} @@ e3 :> {"create"} @@ s1 :> Tools
=============================================================================
