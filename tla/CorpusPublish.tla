--------------------------- MODULE CorpusPublish ---------------------------
(***************************************************************************)
(* The generational publication of src/src/corpus_publish.ts: under the    *)
(* publisher lock a generation's files are written into a directory of     *)
(* their own, CURRENT.json is switched to it with one rename, and what     *)
(* retention does not keep is deleted.                                     *)
(*                                                                         *)
(* The lock is taken here in one step, as ExclusiveLock has it; PublishLock*)
(* shows when its files implement that.  A publisher can stop at any point:*)
(* by a crash, after which the lock is taken over, or by an error, after   *)
(* which it is released.  Either way what is on disk stays.                *)
(***************************************************************************)
EXTENDS Naturals, FiniteSets, Sequences

CONSTANTS
    Publishers,     \* publishers of the output root
    Gens,           \* generation ids, in the code-point order of their names
    Files,          \* the files of a generation
    Nobody,         \* no publisher
    Keeps,          \* how many generations a publish may be told to keep
    HistoryLength,  \* MIN_HISTORY_LENGTH
    MaxPublishes,   \* bound on publishes
    MaxStops        \* bound on publishes that stop half-way

NoGen == 0

ASSUME NobodyAssumption == Nobody \notin Publishers
ASSUME GensAssumption == Gens \subseteq Nat \ {NoGen} /\ IsFiniteSet(Gens)
ASSUME KeepAssumption == Keeps \subseteq Nat \ {0} /\ HistoryLength \in Nat
ASSUME PublishAssumption == MaxPublishes \in Nat /\ MaxStops \in Nat

VARIABLES
    holder,     \* who has the publisher lock
    there,      \* the generation directories that exist
    bytes,      \* the files in each
    current,    \* CURRENT.json: the generation it names, and those before it
    step,       \* where the holder is
    gen,        \* the generation it publishes
    keep,       \* how many it is to keep
    todo,       \* files it has still to write, or directories to delete
    order,      \* history: when each generation was last switched to
    publishes, stops

disk == <<there, bytes, current>>
work == <<step, gen, keep, todo>>
publishVars == <<holder, disk, work, order, publishes, stops>>

Held == INSTANCE ExclusiveLock WITH Procs <- Publishers, None <- Nobody

Empty == [f \in Files |-> "absent"]
NoCurrent == [id |-> NoGen, history |-> <<>>]

IsWhole(g) == g \in there /\ \A f \in Files : bytes[g][f] = "whole"

PublishInit ==
    /\ holder = Nobody
    /\ there = {} /\ bytes = [g \in Gens |-> Empty] /\ current = NoCurrent
    /\ step = "idle" /\ gen = NoGen /\ keep = 0 /\ todo = {}
    /\ order = [g \in Gens |-> 0]
    /\ publishes = 0 /\ stops = 0

-----------------------------------------------------------------------------
(* publishUnderLock: the generation's files *)

\* Mutant: a directory that is there is taken for a whole one.
Mutant_TrustsTheDirectory(g) == g \in there

\* Only the generation the pointer names is known to be whole.
Reused(g) == current.id = g /\ g \in there

Begin(p, g, k) ==
    /\ Held!Acquire(p)
    /\ publishes < MaxPublishes /\ publishes' = publishes + 1
    /\ gen' = g /\ keep' = k /\ todo' = {}
    /\ step' = IF Reused(g) THEN "switch" ELSE "wipe"
    /\ UNCHANGED <<disk, order, stops>>

\* rmSync of the directory: its files one by one, then the directory.
Wipe(f) ==
    /\ step = "wipe" /\ bytes[gen][f] # "absent"
    /\ bytes' = [bytes EXCEPT ![gen][f] = "absent"]
    /\ UNCHANGED <<holder, there, current, work, order, publishes, stops>>

RemoveDirectory ==
    /\ step = "wipe" /\ bytes[gen] = Empty
    /\ there' = there \ {gen} /\ step' = "make"
    /\ UNCHANGED <<holder, bytes, current, gen, keep, todo, order, publishes, stops>>

MakeDirectory ==
    /\ step = "make" /\ there' = there \cup {gen}
    /\ todo' = Files /\ step' = "write"
    /\ UNCHANGED <<holder, bytes, current, gen, keep, order, publishes, stops>>

\* writeFileDurably: a file is there from its open, and whole from its write.
OpenFile(f) ==
    /\ step = "write" /\ f \in todo
    /\ \A h \in todo : bytes[gen][h] = "absent"
    /\ bytes' = [bytes EXCEPT ![gen][f] = "partial"]
    /\ UNCHANGED <<holder, there, current, work, order, publishes, stops>>

WriteFile(f) ==
    /\ step = "write" /\ f \in todo /\ bytes[gen][f] = "partial"
    /\ bytes' = [bytes EXCEPT ![gen][f] = "whole"]
    /\ todo' = todo \ {f}
    /\ UNCHANGED <<holder, there, current, step, gen, keep, order, publishes, stops>>

Written ==
    /\ step = "write" /\ todo = {} /\ step' = "switch"
    /\ UNCHANGED <<holder, disk, gen, keep, todo, order, publishes, stops>>

-----------------------------------------------------------------------------
(* publishUnderLock: the switch *)

\* What was current before, newest first, without the generation published: an id
\* stands there once at most, and the ids after it move up.
History ==
    LET before == IF current = NoCurrent THEN <<>> ELSE <<current.id>> \o current.history
        past(i) == \E j \in 1 .. i : before[j] = gen
        others  == IF past(Len(before)) THEN Len(before) - 1 ELSE Len(before)
        length  == IF keep > HistoryLength THEN keep ELSE HistoryLength
    IN  [i \in 1 .. IF others < length THEN others ELSE length |->
            before[IF past(i) THEN i + 1 ELSE i]]

\* Mutant: the pointer is switched before the files are written.
Mutant_SwitchesFirst ==
    /\ step = "write"
    /\ current' = [id |-> gen, history |-> History]
    /\ order' = [order EXCEPT ![gen] = publishes]
    /\ UNCHANGED <<holder, there, bytes, work, publishes, stops>>

Switch ==
    /\ step = "switch"
    /\ \A f \in Files : bytes[gen][f] # "absent"
    /\ current' = [id |-> gen, history |-> History]
    /\ order' = [order EXCEPT ![gen] = publishes]
    /\ step' = "list"
    /\ UNCHANGED <<holder, there, bytes, gen, keep, todo, publishes, stops>>

-----------------------------------------------------------------------------
(* publishUnderLock: retention *)

\* Newest first: this generation, then the recorded ones it replaced.
Recorded == <<gen>> \o current.history
RecordedSet == {Recorded[i] : i \in DOMAIN Recorded}
Rank(g) == CHOOSE i \in DOMAIN Recorded : Recorded[i] = g

\* Mutant: the last `keep` in the order of the names, as before ADR-066.
Mutant_KeepsByName == {g \in there : Cardinality({h \in there : h > g}) < keep}

\* The first `keep` of the recorded generations that are there.
Kept ==
    {g \in there \cap RecordedSet :
        Cardinality({h \in there \cap RecordedSet : Rank(h) < Rank(g)}) < keep}

\* Pruned first: what is not recorded, by name; then the recorded, oldest first.
PrunedBefore(g, h) ==
    IF g \in RecordedSet THEN h \in RecordedSet /\ Rank(g) > Rank(h)
    ELSE h \in RecordedSet \/ g < h

Prunable == there \ (Kept \cup {gen, current.id})

Surplus ==
    {g \in Prunable :
        Cardinality({h \in Prunable : PrunedBefore(h, g)}) + keep < Cardinality(there)}

List ==
    /\ step = "list" /\ todo' = Surplus /\ step' = "prune"
    /\ UNCHANGED <<holder, disk, gen, keep, order, publishes, stops>>

NextPruned(g) == g \in todo /\ \A h \in todo \ {g} : PrunedBefore(g, h)

PruneFile(g, f) ==
    /\ step = "prune" /\ NextPruned(g) /\ bytes[g][f] # "absent"
    /\ bytes' = [bytes EXCEPT ![g][f] = "absent"]
    /\ UNCHANGED <<holder, there, current, work, order, publishes, stops>>

PruneDirectory(g) ==
    /\ step = "prune" /\ NextPruned(g) /\ bytes[g] = Empty
    /\ there' = there \ {g} /\ todo' = todo \ {g}
    /\ UNCHANGED <<holder, bytes, current, step, gen, keep, order, publishes, stops>>

Idle == step' = "idle" /\ gen' = NoGen /\ keep' = 0 /\ todo' = {}

End ==
    /\ step = "prune" /\ todo = {}
    /\ Idle /\ Held!LetGo(holder)
    /\ UNCHANGED <<disk, order, publishes, stops>>

\* The publisher crashes, or a call throws: the directories stay as they are.
Stop ==
    /\ step # "idle" /\ stops < MaxStops /\ stops' = stops + 1
    /\ Idle /\ Held!LetGo(holder)
    /\ UNCHANGED <<disk, order, publishes>>

PublishNext ==
    \/ \E p \in Publishers, g \in Gens, k \in Keeps : Begin(p, g, k)
    \/ \E f \in Files : Wipe(f) \/ OpenFile(f) \/ WriteFile(f)
    \/ RemoveDirectory \/ MakeDirectory \/ Written \/ Switch \/ List
    \/ \E g \in Gens : PruneDirectory(g) \/ \E f \in Files : PruneFile(g, f)
    \/ End \/ Stop

PublishSpec == PublishInit /\ [][PublishNext]_publishVars
-----------------------------------------------------------------------------
(* Properties *)

PublishTypeOK ==
    /\ holder \in Publishers \cup {Nobody}
    /\ there \in SUBSET Gens
    /\ bytes \in [Gens -> [Files -> {"absent", "partial", "whole"}]]
    /\ current \in [id : Gens \cup {NoGen}, history : Seq(Gens)]
    /\ step \in {"idle", "wipe", "make", "write", "switch", "list", "prune"}
    /\ gen \in Gens \cup {NoGen} /\ keep \in Keeps \cup {0}
    /\ todo \subseteq Gens \cup Files
    /\ order \in [Gens -> Nat]
    /\ publishes \in Nat /\ stops \in Nat

(* ADR-042: whoever crashed where, the generation CURRENT.json names is     *)
(* there with all its files whole.                                          *)
CurrentIsWhole == current # NoCurrent => IsWhole(current.id)

(* A generation comes off the disk only when as many as are to be kept were *)
(* switched to after it and are still there (ADR-066), by the order of the  *)
(* switches themselves and not of the record or of the names; or when so    *)
(* many were switched to after it that the record no longer holds it.  And  *)
(* a publish that goes through leaves no more directories than it was told  *)
(* to keep, whatever earlier ones that crashed had left.                    *)
RetainsTheLatest ==
    [][step = "prune" =>
        /\ \A g \in there \ there' : order[g] > 0 =>
            \/ Cardinality({h \in there : order[h] > order[g]}) >= keep
            \/ Cardinality({h \in Gens : order[h] > order[g]}) > HistoryLength
        /\ step' = "idle" /\ stops' = stops => Cardinality(there) <= keep]_publishVars

Atomic == INSTANCE AtomicPublish WITH
    Nothing <- NoCurrent,
    view <- IF current = NoCurrent THEN NoCurrent
            ELSE [gen |-> current.id, bytes |-> bytes[current.id]]

(* What a reader resolves changes in one step from one whole generation to  *)
(* another.                                                                 *)
IsAtomic == Atomic!Spec
=============================================================================
