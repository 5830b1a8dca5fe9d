--------------------------- MODULE MCRenderOutbox ---------------------------
(* Instances of RenderOutbox. *)
EXTENDS RenderOutbox

CONSTANTS card, begin, end   \* a revised card, and two events of one key (compaction)

MCKey == (card :> "card") @@ (begin :> "compaction") @@ (end :> "compaction")
MCOneSession == [s \in Sources |-> "s1"]
MCParts == (card :> <<2, 1>>) @@ (begin :> <<1>>) @@ (end :> <<1>>)
MCFinal == {<<card, 2>>, <<end, 1>>}
=============================================================================
