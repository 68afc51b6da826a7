------------------------------ MODULE MCTrees ------------------------------
(***************************************************************************)
(* The two programs that work on trees other people use at the same time:  *)
(* archive expansion, which writes into one, and the corpus scan, which    *)
(* reads several.  They share no state: a behaviour is one of them, chosen *)
(* at the start.                                                           *)
(***************************************************************************)
EXTENDS MCArchiveExpansion, MCCorpusHistory

CONSTANTS Expansion, History

VARIABLE part

vars == <<part, expansionVars, historyVars>>

\* The drives start out mounted one way; users swap them.
Init ==
    /\ part \in {Expansion, History}
    /\ ExpansionInit
    /\ HistoryInit /\ mounted = (left :> two @@ right :> one)

Next ==
    /\ UNCHANGED part
    /\ \/ part = Expansion /\ ExpansionNext /\ UNCHANGED historyVars
       \/ part = History /\ HistoryNext /\ UNCHANGED expansionVars

Spec == Init /\ [][Next]_vars
=============================================================================
