---------------------------- MODULE MCPublishing ----------------------------
(***************************************************************************)
(* The two halves of a publication, each on an instance of its own: the    *)
(* publisher lock, with three publishers of one host and one of another    *)
(* beside the lock files of a dead process of each; and the generations    *)
(* published under it.  A behaviour is one of them, chosen at the start.   *)
(***************************************************************************)
EXTENDS PublishLock, CorpusPublish, TLC

CONSTANTS
    a, b, c, d, x, y,                   \* the processes at the lock
    p1, p2, report, readiness,          \* publishers of generations, and files
    Locking, Publishing

VARIABLE half

publicationVars == <<half, vars, publishVars>>

MCProcs  == {a, b, c, d, x, y}
DeadOnes == {x, y}
TwoHosts == [p \in Procs |-> IF p \in {d, y} THEN "there" ELSE "here"]

MCPublishers == {p1, p2}
MCFiles == {report, readiness}
MCGens  == 1 .. 4
MCKeeps == {1, 2}

Alike == Permutations({a, b, c}) \cup Permutations(MCPublishers) \cup Permutations(MCFiles)

PublicationInit ==
    /\ half \in {Locking, Publishing}
    /\ Init /\ (half = Publishing => lock = None /\ guard = None)
    /\ PublishInit

PublicationNext ==
    /\ UNCHANGED half
    /\ \/ half = Locking /\ Next /\ UNCHANGED publishVars
       \/ half = Publishing /\ PublishNext /\ UNCHANGED vars

PublicationSpec == PublicationInit /\ [][PublicationNext]_publicationVars
=============================================================================
