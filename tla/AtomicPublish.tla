--------------------------- MODULE AtomicPublish ---------------------------
(***************************************************************************)
(* What src/src/corpus_publish.ts promises a reader: the output set it     *)
(* resolves is one generation in full, and changes from one generation to  *)
(* the next in one instant.                                                *)
(***************************************************************************)
CONSTANTS Gens, Files, Nothing

VARIABLE view   \* the generation a reader resolves, and the bytes of its files

Whole(g) == [gen |-> g, bytes |-> [f \in Files |-> "whole"]]

Publish(g) == view' = Whole(g)

Spec == view = Nothing /\ [][\E g \in Gens : Publish(g)]_view
=============================================================================
