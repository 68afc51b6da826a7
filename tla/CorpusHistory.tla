--------------------------- MODULE CorpusHistory ---------------------------
(***************************************************************************)
(* A corpus observed again and again (runCorpusScan, acquireLocalSource,   *)
(* bindCorpusRoots, buildCorpusDiff): drives come and go behind mount      *)
(* points, files are rewritten while they are hashed, a hash of an earlier *)
(* run is carried forward when size and mtime have not moved, and two      *)
(* snapshots are compared under the keys their roots were given.           *)
(*                                                                         *)
(* Every file has the same size, the worst case for the stat comparison; a *)
(* hash is the bytes it is the hash of, and a read that mixed two versions *)
(* of a file hashes to Torn.  Archive members are left to the archive      *)
(* modules.                                                                *)
(***************************************************************************)
EXTENDS Naturals, Sequences, SequencesExt, FiniteSets, Functions

CONSTANTS
    Volumes,        \* physical disks
    Mounts,         \* mount points, in the order of their absolute paths
    BaseName,       \* a mount point's final path segment, as a root key
    KeyOrder,       \* the root keys, in code-point order of their labels
    PathOrder,      \* the root-relative paths a drive may hold, in code-point order
    Bytes,          \* contents a file may have
    Torn,           \* the hash of a read that straddled a write
    Nil,            \* nothing there: no file, no drive, no hash, no snapshot
    Requests,       \* the runs an operator asks for: [roots, mode, partial, allowed],
                    \* roots a sequence of [mount, name]
    Discs,          \* what the drives may hold at first
    Retries,        \* STABILITY_RETRY_LIMIT
    Moods,          \* what may go wrong: "lie" (mtime restored), "lock", "seal"
    MaxClock, MaxChanges, MaxScans  \* bounds on the run, not on the program

Paths == ToSet(PathOrder)
Keys  == ToSet(KeyOrder)
StoredFile == [bytes : Bytes, mtime : 1..MaxClock]
EmptyDrive == [p \in Paths |-> Nil]

\* What an observation says of a file; stat is the mtime it was hashed under.
FileHash == [hash : Bytes \cup {Torn, Nil}, stat : Nat \cup {Nil}, reused : BOOLEAN]
RootSpec == [mount : ToSet(Mounts), name : Keys \cup {Nil}]

ASSUME HistoryAssumption ==
    /\ Retries \in Nat /\ MaxClock \in Nat \ {0} /\ MaxChanges \in Nat /\ MaxScans \in Nat
    /\ Nil \notin Bytes \cup Volumes \cup Nat \cup Keys \cup FileHash \cup StoredFile
    /\ Torn \notin Bytes \cup {Nil}
    /\ PathOrder \in Seq(Paths) /\ KeyOrder \in Seq(Keys)
    /\ BaseName \in [ToSet(Mounts) -> Keys]
    /\ Discs \subseteq [Volumes -> [Paths -> StoredFile \cup {Nil}]]
    /\ \A request \in Requests :
          /\ request.roots \in Seq(RootSpec) /\ request.mode \in {"fresh", "full", "incremental"}
          /\ request.partial \in BOOLEAN /\ request.allowed \in BOOLEAN

VARIABLES
    disk, mounted, locked, sealed, clock, \* the drives, and where they are mounted
    versions, recent,                 \* history: what each file has been
    phase, ask, entries, unhashed, bracket, hashed, observed, failed, \* the scan
    before, latest, diff,             \* the two last snapshots and their comparison
    changes, scans                    \* spent of the bounds

drives  == <<disk, mounted, locked, sealed, clock, versions>>
scan    == <<phase, ask, entries, unhashed, bracket, hashed, observed, failed>>
account == <<before, latest, diff>>
historyVars == <<drives, recent, scan, account, changes, scans>>

(***************************************************************************)
(* Identity.                                                               *)
(***************************************************************************)

\* resolveRootIdentity: the operator's name, or the mount point's last segment.
KeyOf(spec)    == IF spec.name = Nil THEN BaseName[spec.mount] ELSE spec.name
Declared(spec) == spec.name # Nil

RootsIn(snapshot) == IF snapshot = Nil THEN {} ELSE snapshot.roots
RootOf(snapshot, key) == CHOOSE r \in RootsIn(snapshot) : r.key = key
HasRoot(snapshot, key) == \E r \in RootsIn(snapshot) : r.key = key

Mutant_CurrentNameIsEnough(roots, snapshot) ==
    {i \in DOMAIN roots : HasRoot(snapshot, KeyOf(roots[i])) /\ ~Declared(roots[i])}

\* assertLongitudinalRootIdentityAuthorized: a matched root is a claim of
\* continuity, weak unless both runs were told the key.
WeakClaims(roots, snapshot) ==
    {i \in DOMAIN roots : /\ HasRoot(snapshot, KeyOf(roots[i]))
                          /\ ~(Declared(roots[i]) /\ RootOf(snapshot, KeyOf(roots[i])).declared)}

Authorized(roots, snapshot, allowed) ==
    allowed \/ WeakClaims(roots, snapshot) = {}

(***************************************************************************)
(* The scan.                                                               *)
(***************************************************************************)

Spot == ask.roots[Len(observed) + Len(failed) + 1]     \* the root being read
More == Len(observed) + Len(failed) < Len(ask.roots)
Here == mounted[Spot.mount]                     \* the drive behind it, if any
Shown == IF Here = Nil \/ Here \in sealed THEN EmptyDrive ELSE disk[Here]

\* The stat an earlier run hashed this path under, and what it hashed to.
Known(p) ==
    IF ask.mode # "incremental" \/ ~HasRoot(latest, KeyOf(Spot)) THEN Nil
    ELSE LET e == RootOf(latest, KeyOf(Spot)).files[p]
         IN  IF e = Nil THEN Nil ELSE IF e.hash = Nil THEN Nil ELSE e

\* priorHashStillApplies: every recorded stat field must match.
PriorHashStillApplies(p) == Known(p) # Nil /\ Known(p).stat = entries[p]

Unseen == [p \in Paths |-> Nil]
Fresh  == [stat |-> Nil, half |-> Nil, tries |-> 0]

Forget ==
    /\ entries' = Unseen /\ unhashed' = {} /\ hashed' = Unseen /\ bracket' = Fresh

\* runCorpusScan up to the first read: continuity is authorized from the root
\* specs alone, or the run is refused before a byte is read.
Begin(request) ==
    /\ phase = "idle" /\ scans < MaxScans
    /\ request.mode # "fresh" =>
           latest # Nil /\ Authorized(request.roots, latest, request.allowed)
    /\ scans' = scans + 1 /\ ask' = request /\ phase' = "enumerate"
    /\ UNCHANGED <<drives, recent, entries, unhashed, bracket, hashed, observed, failed,
                   account, changes>>

\* acquireLocalSource, phase 1.  A mount point with nothing behind it is a path
\* that does not exist; a directory that cannot be listed is an empty one.
Enumerate ==
    /\ phase = "enumerate" /\ More /\ Here # Nil
    /\ entries' = [p \in Paths |-> IF Shown[p] = Nil THEN Nil ELSE Shown[p].mtime]
    /\ unhashed' = {p \in Paths : Shown[p] # Nil}
    /\ hashed'  = Unseen /\ bracket' = Fresh
    /\ recent'  = [p \in Paths |-> {Shown[p]} \ {Nil}]
    /\ phase' = "hash"
    /\ UNCHANGED <<drives, ask, observed, failed, account, changes, scans>>

NoVersions == [p \in Paths |-> {}]
Ends    == phase' = "idle" /\ ask' = Nil /\ observed' = <<>> /\ failed' = <<>>

\* One root could not be observed: the run fails, unless it may be partial.
Fails(reason) ==
    /\ Forget
    /\ IF ask.partial
       THEN /\ failed' = Append(failed, [key |-> KeyOf(Spot), declared |-> Declared(Spot),
                                         why |-> reason])
            /\ phase' = "enumerate" /\ UNCHANGED <<ask, observed>>
       ELSE Ends
    /\ recent' = NoVersions
    /\ UNCHANGED <<drives, account, changes, scans>>

Absence == phase = "enumerate" /\ More /\ Here = Nil /\ Fails("unreadable")

Place(order, x) == CHOOSE i \in DOMAIN order : order[i] = x

\* Files are hashed one by one, in the order of their paths.
Position(p) == Place(PathOrder, p)
Turn(p) == p \in unhashed /\ \A q \in unhashed : Position(p) <= Position(q)

Waiting(p) == phase = "hash" /\ Turn(p) /\ bracket.stat = Nil

Hash(p, hash, stat, reused) ==
    /\ hashed' = [hashed EXCEPT ![p] =
                        [hash |-> hash, stat |-> stat, reused |-> reused]]
    /\ unhashed' = unhashed \ {p} /\ bracket' = Fresh
    /\ UNCHANGED <<drives, recent, phase, ask, entries, observed, failed, account, changes, scans>>

\* hashOneEntry: an earlier hash stands in for reading the file ...
Reuse(p) ==
    /\ Waiting(p) /\ PriorHashStillApplies(p)
    /\ Hash(p, Known(p).hash, entries[p], TRUE)

\* ... or hashStableFile brackets the read between two stats, again when they
\* differ, up to Retries times.  A file that is gone, or may not be opened, has
\* no hash; the observation goes on.
Unreadable(p) ==
    Here = Nil \/ Here \in sealed \/ Shown[p] = Nil \/ <<Here, p>> \in locked

Open(p) ==
    /\ Waiting(p) /\ ~PriorHashStillApplies(p)
    /\ IF Unreadable(p)
       THEN Hash(p, Nil, Nil, FALSE)
       ELSE /\ bracket' = [bracket EXCEPT !.stat = Shown[p].mtime, !.half = Shown[p].bytes]
            /\ UNCHANGED <<drives, recent, phase, ask, entries, unhashed, hashed,
                           observed, failed, account, changes, scans>>

MayRetry == bracket.tries < Retries

\* The rest of the bytes and the second stat.  The second lstat is not guarded:
\* a file that vanished in between fails the whole root.
Close(p) ==
    /\ phase = "hash" /\ Turn(p) /\ bracket.stat # Nil
    /\ \/ /\ Shown[p] = Nil
          /\ Fails("unreadable")
       \/ /\ Shown[p] # Nil /\ Shown[p].mtime = bracket.stat
          /\ Hash(p, IF Shown[p].bytes = bracket.half THEN bracket.half ELSE Torn,
                  bracket.stat, FALSE)
       \/ /\ Shown[p] # Nil /\ Shown[p].mtime # bracket.stat /\ MayRetry
          /\ bracket' = [Fresh EXCEPT !.tries = bracket.tries + 1]
          /\ UNCHANGED <<drives, recent, phase, ask, entries, unhashed, hashed,
                         observed, failed, account, changes, scans>>
       \/ /\ Shown[p] # Nil /\ Shown[p].mtime # bracket.stat /\ ~MayRetry
          /\ Fails("unstable")

Mutant_SameEntries == \A p \in Paths : (entries[p] = Nil) = (Shown[p] = Nil)

\* verifySnapshotStability: the root is listed again and compared.
StoodStill == \A p \in Paths : entries[p] = IF Shown[p] = Nil THEN Nil ELSE Shown[p].mtime

\* A version of a file that a stat cannot tell from another one.
Indistinct(some) ==
    {p \in Paths : \E f, g \in some[p] : f.mtime = g.mtime /\ f.bytes # g.bytes}

\* The files that were hashed under a time neither listing saw: another file had
\* the name meanwhile, and was moved away again.  Nobody compares the two times.
PutBack == {p \in Paths : hashed[p] # Nil /\ hashed[p].stat \notin {Nil, entries[p]}}

Unsettled == Indistinct(recent) \cup PutBack

\* The files whose carried hash rests on something else than the stat: on a
\* doubtful hash of the run before, on two versions under one mtime, or on the
\* operator's word that another drive is the same root.
CarriedInDoubt ==
    LET prior == RootOf(latest, KeyOf(Spot))
        word  == ask.allowed \/ (Declared(Spot) /\ prior.declared)
    IN  {p \in Paths : /\ hashed[p] # Nil /\ hashed[p].reused
                       /\ \/ p \in prior.doubt
                          \/ Here # Nil /\ p \in Indistinct(versions[Here])
                          \/ prior.drive # Here /\ word}

Recheck ==
    /\ phase = "hash" /\ unhashed = {}
    /\ IF StoodStill
       THEN /\ observed' = Append(observed,
                 [key |-> KeyOf(Spot), declared |-> Declared(Spot), mount |-> Spot.mount,
                  files |-> hashed, drive |-> Here, truth |-> Shown,
                  missed |-> Here # Nil /\ disk[Here] # Shown,
                  moved |-> Unsettled,
                  doubt |-> Unsettled \cup CarriedInDoubt])
            /\ Forget /\ phase' = "enumerate" /\ recent' = NoVersions
            /\ UNCHANGED <<drives, ask, failed, account, changes, scans>>
       ELSE Fails("unstable")

(***************************************************************************)
(* The corpus: roots bound by key, and the comparison with the last one.   *)
(***************************************************************************)

Hashes(root) == [p \in Paths |-> IF root.files[p] = Nil THEN <<>> ELSE <<root.files[p].hash>>]

Clash == \E i, j \in DOMAIN observed :
            observed[i].key = observed[j].key /\ Hashes(observed[i]) # Hashes(observed[j])

\* bindCorpusRoots: of several mounts of one key with one content, the first by
\* absolute path is the root and the others are folded into it.
First(i) == \A j \in DOMAIN observed :
               observed[j].key = observed[i].key =>
                   \/ IndexFirstSubSeq(<<observed[i].mount>>, Mounts)
                        < IndexFirstSubSeq(<<observed[j].mount>>, Mounts)
                   \/ observed[j].mount = observed[i].mount /\ i <= j
Bound == {observed[i] : i \in {k \in DOMAIN observed : First(k)}}

\* A failed mount of a key that another mount showed is not a missing root.
Missing == {[key |-> failed[i].key, declared |-> failed[i].declared] :
               i \in {k \in DOMAIN failed :
                        /\ \A r \in Bound : r.key # failed[k].key
                        /\ \A j \in 1..(k - 1) : failed[j].key # failed[k].key}}

Hashed == {h \in Bound \X Paths : h[1].files[h[2]] # Nil}

Mutant_MostlyRead ==
    IF Hashed # {} /\ \A h \in Hashed : h[1].files[h[2]].reused
    THEN "cached_unchanged_assumption" ELSE "fully_verified"

\* The label follows the run, not the request: one reused hash is enough.
VerificationClass ==
    IF \E h \in Hashed : h[1].files[h[2]].reused
    THEN "cached_unchanged_assumption" ELSE "fully_verified"

SnapshotOf ==
    [roots   |-> Bound \cup
                 {[key |-> m.key, declared |-> m.declared, mount |-> Nil, files |-> Unseen,
                   drive |-> Nil, truth |-> Unseen, missed |-> FALSE, moved |-> {},
                   doubt |-> {}] : m \in Missing},
     missing |-> {m.key : m \in Missing},
     status  |-> IF Missing = {} THEN "complete" ELSE "partial",
     class   |-> VerificationClass,
     allowed |-> ask.allowed]

HashOf(snapshot, id) == RootOf(snapshot, id[1]).files[id[2]].hash
Artifacts(snapshot) ==
    {id \in Keys \X Paths :
        HasRoot(snapshot, id[1]) /\ RootOf(snapshot, id[1]).files[id[2]] # Nil}

\* The order of corpus paths: the key's label, then the path.
Precedes(id, other) ==
    \/ Place(KeyOrder, id[1]) < Place(KeyOrder, other[1])
    \/ id[1] = other[1] /\ Position(id[2]) < Position(other[2])

Earlier(id, some, snapshot) ==
    {other \in some : HashOf(snapshot, other) = HashOf(snapshot, id) /\ Precedes(other, id)}
Rank(id, some, snapshot) == Cardinality(Earlier(id, some, snapshot))

Mutant_EveryPair(old, new, departed, arrived) ==
    {pair \in departed \X arrived : /\ HashOf(old, pair[1]) # Nil
                                    /\ HashOf(old, pair[1]) = HashOf(new, pair[2])}

\* pairRenames: per hash, the first departure with the first arrival and so on,
\* as far as both go.  Nothing without a hash is paired.
PairRenames(old, new, departed, arrived) ==
    {pair \in departed \X arrived :
        /\ HashOf(old, pair[1]) # Nil /\ HashOf(old, pair[1]) = HashOf(new, pair[2])
        /\ Rank(pair[1], departed, old) = Rank(pair[2], arrived, new)}

\* buildCorpusDiff, artifact by artifact.
BuildCorpusDiff(old, new) ==
    LET both    == Artifacts(old) \cap Artifacts(new)
        same    == {id \in both : HashOf(old, id) = HashOf(new, id)}
        gone    == Artifacts(old) \ Artifacts(new)
        come    == Artifacts(new) \ Artifacts(old)
        renames == PairRenames(old, new, gone, come)
    IN  [unchanged |-> same, changed |-> both \ same, renames |-> renames,
         removed |-> gone \ {r[1] : r \in renames},
         added   |-> come \ {r[2] : r \in renames}]

\* The end of the run.  Two mounts under one key with different contents are
\* refused; otherwise the snapshot is the corpus, and the next run's history.
EndScan ==
    /\ phase = "enumerate" /\ ~More
    /\ Ends
    /\ IF Clash THEN UNCHANGED account
       ELSE /\ latest' = SnapshotOf
            /\ before' = IF ask.mode = "fresh" THEN Nil ELSE latest
            /\ diff'   = IF ask.mode = "fresh" THEN Nil ELSE BuildCorpusDiff(latest, SnapshotOf)
    /\ UNCHANGED <<drives, recent, entries, unhashed, bracket, hashed, changes, scans>>

(***************************************************************************)
(* The people and the drives.  A write takes the clock's time, which moves *)
(* on, unless a tool puts an earlier time back ("lie").                    *)
(***************************************************************************)

Holds(d, p, file) ==
    /\ disk' = [disk EXCEPT ![d][p] = file]
    /\ versions' = [versions EXCEPT ![d][p] = @ \cup ({file} \ {Nil})]
    /\ UNCHANGED <<mounted, locked, sealed>>

Writes(d, p) ==
    \/ /\ clock < MaxClock /\ clock' = clock + 1
       /\ \E b \in Bytes : Holds(d, p, [bytes |-> b, mtime |-> clock + 1])
    \/ /\ "lie" \in Moods /\ disk[d][p] # Nil /\ clock' = clock
       /\ \E b \in Bytes : Holds(d, p, [disk[d][p] EXCEPT !.bytes = b])
    \/ /\ disk[d][p] # Nil /\ Holds(d, p, Nil) /\ clock' = clock

\* mv: the file keeps its time under its new name.
Moves(d, p, q) ==
    /\ p # q /\ disk[d][p] # Nil
    /\ disk' = [disk EXCEPT ![d][q] = disk[d][p], ![d][p] = Nil]
    /\ versions' = [versions EXCEPT ![d][q] = @ \cup {disk[d][p]}]
    /\ UNCHANGED <<mounted, locked, sealed, clock>>

Plugs(m, d) ==
    /\ mounted[m] # d /\ mounted' = [mounted EXCEPT ![m] = d]
    /\ UNCHANGED <<disk, locked, sealed, clock, versions>>

Denies(d) ==
    /\ \/ /\ "lock" \in Moods /\ sealed' = sealed
          /\ \E p \in Paths : locked' = SymDiff(locked, {<<d, p>>})
       \/ "seal" \in Moods /\ sealed' = SymDiff(sealed, {d}) /\ locked' = locked
    /\ UNCHANGED <<disk, mounted, clock, versions>>

People ==
    /\ changes < MaxChanges /\ changes' = changes + 1
    /\ \/ \E d \in Volumes, p \in Paths : Writes(d, p)
       \/ \E d \in Volumes, p, q \in Paths : Moves(d, p, q)
       \/ \E m \in ToSet(Mounts), d \in Volumes \cup {Nil} : Plugs(m, d)
       \/ \E d \in Volumes : Denies(d)
    /\ UNCHANGED <<scan, account, scans>>
    /\ recent' = IF phase = "hash" THEN [p \in Paths |-> recent[p] \cup ({Shown[p]'} \ {Nil})]
                 ELSE recent

HistoryInit ==
    /\ clock = 1 /\ locked = {} /\ sealed = {} /\ changes = 0 /\ scans = 0
    /\ disk \in Discs
    /\ mounted \in {f \in [ToSet(Mounts) -> Volumes] : IsInjective(f)}
    /\ versions = [d \in Volumes |-> [p \in Paths |-> {disk[d][p]} \ {Nil}]]
    /\ recent = NoVersions
    /\ phase = "idle" /\ ask = Nil /\ entries = Unseen /\ unhashed = {} /\ bracket = Fresh
    /\ hashed = Unseen /\ observed = <<>> /\ failed = <<>>
    /\ before = Nil /\ latest = Nil /\ diff = Nil

HistoryNext ==
    \/ \E request \in Requests : Begin(request)
    \/ Enumerate \/ Absence \/ Recheck \/ EndScan
    \/ \E p \in Paths : Reuse(p) \/ Open(p) \/ Close(p)
    \/ People

HistorySpec == HistoryInit /\ [][HistoryNext]_historyVars

(***************************************************************************)
(* Properties.                                                             *)
(***************************************************************************)

HistoryTypeOK ==
    /\ \A d \in Volumes, p \in Paths : disk[d][p] \in StoredFile \cup {Nil}
    /\ mounted \in [ToSet(Mounts) -> Volumes \cup {Nil}]
    /\ phase \in {"idle", "enumerate", "hash"}
    /\ bracket.tries \in 0..Retries
    /\ \A r \in RootsIn(latest) : /\ r.key \in Keys /\ r.moved \subseteq r.doubt
                                  /\ \A p \in Paths : r.files[p] # Nil =>
                                        r.files[p].hash \in Bytes \cup {Torn, Nil}

\* A root is described as it showed itself at one moment, the moment of its
\* second listing: every file it then showed and no other, each under the hash of
\* the bytes it then held -- unless two versions of that file carry one mtime, or
\* another file had its name while it was hashed, or the operator vouched that a
\* different drive was the same root, or there was no hash to give.
SnapshotIsOneMoment ==
    \A r \in RootsIn(latest), p \in Paths :
        /\ r.files[p] = Nil <=> r.truth[p] = Nil
        /\ r.files[p] # Nil => \/ r.files[p].hash \in {r.truth[p].bytes, Nil}
                                \/ p \in r.doubt

\* A snapshot that says it is fully verified is wrong about no file, whatever
\* was restored, copied or swapped before this run began.
VerifiedMeansRead ==
    latest # Nil /\ latest.class = "fully_verified" =>
        \A r \in RootsIn(latest), p \in Paths :
            r.files[p] # Nil => \/ r.files[p].hash \in {r.truth[p].bytes, Nil}
                                 \/ p \in r.moved

\* The comparison is a complete account: what the previous snapshot held, with
\* the removals taken out, the renames carried over and the additions and
\* changes put in, is what the present one holds, and nothing is told twice.
DiffReplays ==
    diff # Nil =>
        LET from == {r[1] : r \in diff.renames}
            to   == {r[2] : r \in diff.renames}
        IN  /\ Cardinality(from) = Cardinality(diff.renames)
            /\ Cardinality(to) = Cardinality(diff.renames)
            /\ Artifacts(before) = diff.unchanged \cup diff.changed \cup from \cup diff.removed
            /\ Artifacts(latest) = diff.unchanged \cup diff.changed \cup to \cup diff.added
            /\ from \cap diff.removed = {} /\ to \cap diff.added = {}
            /\ \A r \in diff.renames : HashOf(before, r[1]) = HashOf(latest, r[2])

\* Two drives are compared, or one's hashes used for the other, only when both
\* runs named the root or this one accepted the mount point's name.
ContinuityIsClaimed ==
    diff # Nil =>
        \A r \in RootsIn(latest) :
            HasRoot(before, r.key) /\ r.drive # Nil
            /\ RootOf(before, r.key).drive \notin {r.drive, Nil} =>
                  \/ latest.allowed
                  \/ r.declared /\ RootOf(before, r.key).declared

\* src/src/local_source.ts:1850: the second listing returns "null when the source
\* held still for the whole observation"; then every file was hashed as of the
\* time that both listings saw.
SourceHeldStill ==
    \A r \in RootsIn(latest), p \in Paths :
        r.files[p] # Nil => r.files[p].stat \in {r.truth[p].mtime, Nil}

\* docs/corpus-scale-operation.md:119: "a snapshot that looks complete and is
\* quietly missing a disk is the one outcome a corpus spread across removable
\* media must never produce".
CompleteMissesNoDisk ==
    latest # Nil /\ latest.status = "complete" => \A r \in latest.roots : ~r.missed
=============================================================================
