-------------------------- MODULE MCEmbeddingPass --------------------------
(***************************************************************************)
(* Instances of EmbeddingPass for TLC.                                     *)
(***************************************************************************)
EXTENDS EmbeddingPass, TLC

CONSTANTS w1, w2, a, b, c, old, new, wide, mute

ThreeDocs == <<a, b, c>>
Cut       == (a :> 2) @@ (b :> 0) @@ (c :> 1)
\* Three revisions a length cannot tell apart, one of which does not report itself,
\* and one it can.
Lengths   == (old :> 1) @@ (new :> 1) @@ (mute :> 1) @@ (wide :> 2)
Names     == (old :> "old") @@ (new :> "new") @@ (mute :> None) @@ (wide :> "wide")
=============================================================================
