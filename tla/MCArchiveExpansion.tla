------------------------- MODULE MCArchiveExpansion -------------------------
(***************************************************************************)
(* Instances of ArchiveExpansion for TLC.                                  *)
(***************************************************************************)
EXTENDS ArchiveExpansion, TLC

CONSTANTS flat, quine, liar, steep

AllArchives == {"A.zip", "A.ZIP", "B.zip", "n.zip"}
MCExtractDir == ("A.zip" :> "A" @@ "A.ZIP" :> "A" @@ "B.zip" :> "B" @@ "n.zip" :> "n")
TwoStems    == {"A.zip", "B.zip"}

File(name, declares, yields, holds) ==
    [name |-> <<name>>, kind |-> "file", encrypted |-> FALSE, supported |-> TRUE,
     declares |-> declares, yields |-> yields, holds |-> holds]

All        == {flat, quine, liar, steep}
MCSize     == [c \in All |-> IF c = steep THEN 3 ELSE 1]
MCDirectory ==
    [c \in All |->
        CASE c = flat  -> <<File("f", 2, 2, None), File("e", 0, 0, None)>>
          [] c = quine -> <<File("n.zip", 1, 1, quine)>>
          [] c = liar  -> <<File("f", 1, 2, None)>>
          [] c = steep -> <<File("..", 1, 1, None)>>]

Segments == {"f", "e", "n.zip", ".."}
Same     == [s \in Segments |-> s]
Tight ==
    [compressed |-> 2, path |-> 3, count |-> 3, member |-> 2, archive |-> 3, ratio |-> 4,
     session |-> 3, archives |-> 3, depth |-> 1]
=============================================================================
