-------------------------- MODULE MCCorpusHistory --------------------------
(***************************************************************************)
(* Instances of CorpusHistory for TLC.                                     *)
(***************************************************************************)
EXTENDS CorpusHistory, TLC

CONSTANTS one, two, left, right, main, spare, note, plan, x, y

TwoMounts == <<left, right>>
\* Both mount points end the same way.
SameEnd   == [m \in {left, right} |-> main]
TwoPaths  == <<note, plan>>
TwoKeys   == <<spare, main>>

On(mount, name) == [mount |-> mount, name |-> name]
Ask(roots, mode, partial, allowed) ==
    [roots |-> roots, mode |-> mode, partial |-> partial, allowed |-> allowed]

Unnamed == <<On(left, Nil)>>
Named == <<On(left, main)>>
Twice == <<On(left, Nil), On(right, Nil)>>
Distinct == <<On(left, main), On(right, spare)>>

Asked == {Ask(Unnamed, "fresh", FALSE, FALSE), Ask(Named, "fresh", FALSE, FALSE),
          Ask(Distinct, "fresh", TRUE, FALSE), Ask(Twice, "fresh", TRUE, FALSE),
          Ask(Unnamed, "incremental", FALSE, FALSE), Ask(Unnamed, "incremental", FALSE, TRUE),
          Ask(Named, "incremental", FALSE, FALSE), Ask(Named, "full", FALSE, FALSE),
          Ask(Distinct, "incremental", TRUE, FALSE)}

Old(b) == [bytes |-> b, mtime |-> 1]
TwoDrives == {[d \in {one, two} |-> IF d = one THEN (note :> Old(x) @@ plan :> Nil)
                                               ELSE (note :> Old(y) @@ plan :> Old(x))]}
=============================================================================
