------------------------- MODULE MCFileTransaction -------------------------
(***************************************************************************)
(* Instances of FileTransaction for TLC.                                   *)
(***************************************************************************)
EXTENDS FileTransactionInv, TLC

CONSTANTS mine, theirs

MCBodies == {mine, theirs}
Second   == {2}
=============================================================================
