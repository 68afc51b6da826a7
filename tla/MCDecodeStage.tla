--------------------------- MODULE MCDecodeStage ---------------------------
(***************************************************************************)
(* Instances of DecodeStage for TLC.  Documents 1 and 2 are twins: whole   *)
(* files that may hold the same bytes; 3 is a container, 4 is refused.      *)
(***************************************************************************)
EXTENDS DecodeStage

CONSTANTS c1, c2

TwoContents == {c1, c2}
OneRefused  == {c2}
Pair  == {1, 3}
Three == 1 .. 3
Four  == 1 .. 4

Kinds ==
    [d \in Docs |-> CASE d = 3 -> "container" [] d = 4 -> "refused" [] OTHER -> "whole"]
Sizes == [d \in Docs |-> CASE d = 1 -> 1 [] d = 2 -> 2 [] d = 3 -> 4 [] OTHER -> 0]
=============================================================================
