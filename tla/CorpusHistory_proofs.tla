------------------------ MODULE CorpusHistory_proofs ------------------------
(***************************************************************************)
(* Proofs about CorpusHistory, for any drives, mount points, files and     *)
(* requests, and any number of runs and of changes under them: what a      *)
(* snapshot says is what its roots showed at one moment, "fully verified"  *)
(* is true, continuity between two drives is somebody's claim, and a diff  *)
(* accounts for all of both sides.                                         *)
(*                                                                         *)
(* The inductive invariant follows a hash from the read to the snapshot it *)
(* ends in, and from there to the run that carries it forward: a hash is   *)
(* that of a version the file has had, under the time it was hashed under. *)
(***************************************************************************)
EXTENDS CorpusHistory, FiniteSetTheorems, TLAPS

-----------------------------------------------------------------------------
(* The inductive invariant *)

Observation ==
    [key : Keys, declared : BOOLEAN, mount : ToSet(Mounts) \cup {Nil},
     files : [Paths -> FileHash \cup {Nil}], drive : Volumes \cup {Nil},
     truth : [Paths -> StoredFile \cup {Nil}], missed : BOOLEAN,
     moved : SUBSET Paths, doubt : SUBSET Paths]
Failure == [key : Keys, declared : BOOLEAN, why : {"unreadable", "unstable"}]
Drive   == [Paths -> StoredFile \cup {Nil}]

DriveInv ==
    /\ disk \in [Volumes -> Drive]
    /\ mounted \in [ToSet(Mounts) -> Volumes \cup {Nil}]
    /\ clock \in 1..MaxClock
    /\ versions \in [Volumes -> [Paths -> SUBSET StoredFile]]
    /\ \A d \in Volumes, p \in Paths : disk[d][p] # Nil => disk[d][p] \in versions[d][p]

ScanType ==
    /\ phase \in {"idle", "enumerate", "hash"}
    /\ phase # "idle" => ask \in Requests
    /\ phase = "hash" => More
    /\ recent \in [Paths -> SUBSET StoredFile]
    /\ entries \in [Paths -> Nat \cup {Nil}]
    /\ unhashed \in SUBSET Paths
    /\ hashed \in [Paths -> FileHash \cup {Nil}]
    /\ bracket \in [stat : Nat \cup {Nil}, half : Bytes \cup {Nil}, tries : 0..Retries]
    /\ observed \in Seq(Observation) /\ failed \in Seq(Failure)
    /\ phase = "idle" => observed = <<>> /\ failed = <<>>
    /\ RootsIn(latest) \subseteq Observation

\* What has been listed is hashed or will be, and nothing else.
ListedInv ==
    phase = "hash" =>
        \A p \in Paths :
            /\ entries[p] # Nil <=> p \in unhashed \/ hashed[p] # Nil
            /\ Shown[p] # Nil => Shown[p] \in recent[p]

Version(bytes_, stat) == [bytes |-> bytes_, mtime |-> stat]

\* What was read is a version the file had in the meantime.
ReadInv ==
    phase = "hash" =>
        /\ bracket.stat # Nil =>
             \A p \in Paths : Turn(p) => Version(bracket.half, bracket.stat) \in recent[p]
        /\ \A p \in Paths :
             hashed[p] # Nil /\ hashed[p].hash # Nil =>
                 /\ hashed[p].stat # Nil
                 /\ ~hashed[p].reused => \/ p \in Indistinct(recent)
                                         \/ Version(hashed[p].hash, hashed[p].stat) \in recent[p]

\* What was not read is what the run before knew, of the root with this key.
CarriedHash(p, hash) ==
    LET e == RootOf(latest, KeyOf(Spot)).files[p]
    IN  /\ ask.mode = "incremental" /\ HasRoot(latest, KeyOf(Spot))
        /\ e # Nil /\ e.hash # Nil
        /\ hash = e.hash /\ e.stat = entries[p]

CarriedInv ==
    phase = "hash" =>
        \A p \in Paths :
            hashed[p] # Nil /\ hashed[p].reused => CarriedHash(p, hashed[p].hash)

AskInv ==
    phase # "idle" /\ ask.mode # "fresh" =>
        latest # Nil /\ Authorized(ask.roots, latest, ask.allowed)

\* A root tells what was there, and of versions its drive has had.
RootGood(r, history) ==
    /\ r.moved \subseteq r.doubt
    /\ \A p \in Paths :
        LET f == r.files[p]
            t == r.truth[p]
        IN  /\ f = Nil <=> t = Nil
            /\ f # Nil => f.hash \in {t.bytes, Nil} \/ p \in r.doubt
            /\ f # Nil /\ f.hash # Nil => f.stat = t.mtime \/ p \in r.doubt
            /\ f # Nil /\ ~f.reused => f.hash \in {t.bytes, Nil} \/ p \in r.moved
            /\ t # Nil => r.drive \in Volumes /\ t \in history[r.drive][p]

AskedFor(r, roots) ==
    \E i \in DOMAIN roots : r.key = KeyOf(roots[i]) /\ r.declared = Declared(roots[i])

ObservedInv ==
    \A i \in DOMAIN observed :
        RootGood(observed[i], versions) /\ AskedFor(observed[i], ask.roots)

LatestInv == \A r \in RootsIn(latest) : RootGood(r, versions)

DiffInv == diff # Nil => diff = BuildCorpusDiff(before, latest)

HistoryInv ==
    /\ DriveInv /\ ScanType
    /\ ListedInv /\ ReadInv /\ CarriedInv /\ AskInv
    /\ ObservedInv /\ LatestInv
    /\ DiffInv /\ VerifiedMeansRead /\ ContinuityIsClaimed

-----------------------------------------------------------------------------
(* The root that is being read *)

LEMMA NilApart ==
    /\ Nil \notin Bytes /\ Nil \notin Volumes /\ Nil \notin Nat /\ Nil \notin Keys
    /\ Nil \notin FileHash /\ Nil \notin StoredFile /\ Torn # Nil
    /\ MaxClock \in Nat /\ Retries \in Nat
  BY HistoryAssumption

LEMMA SpotTypes == ASSUME DriveInv, ScanType, phase # "idle", More
                   PROVE  /\ Spot \in RootSpec /\ KeyOf(Spot) \in Keys
                          /\ Declared(Spot) \in BOOLEAN
                          /\ Here \in Volumes \cup {Nil} /\ Shown \in Drive
                          /\ \E i \in DOMAIN ask.roots : Spot = ask.roots[i]
<1>1. ask.roots \in Seq(RootSpec)
  BY HistoryAssumption DEF ScanType
<1>2. Len(observed) + Len(failed) + 1 \in DOMAIN ask.roots
  BY <1>1 DEF ScanType, More
<1>3. Spot \in RootSpec /\ \E i \in DOMAIN ask.roots : Spot = ask.roots[i]
  BY <1>1, <1>2 DEF Spot
<1>4. KeyOf(Spot) \in Keys /\ Declared(Spot) \in BOOLEAN
  BY <1>3, HistoryAssumption DEF KeyOf, Declared, RootSpec
<1>5. Here \in Volumes \cup {Nil}
  BY <1>3 DEF Here, DriveInv, RootSpec
<1>6. Shown \in Drive
  BY <1>5 DEF Shown, DriveInv, Drive, EmptyDrive
<1> QED BY <1>3, <1>4, <1>5, <1>6

\* What a drive shows is a version it has had.
LEMMA ShownIsAVersion ==
    ASSUME DriveInv, ScanType, phase # "idle", More, NEW p \in Paths, Shown[p] # Nil
    PROVE  Here \in Volumes /\ Shown[p] \in versions[Here][p]
  BY SpotTypes DEF Shown, EmptyDrive, DriveInv

LEMMA RootOfIsOne == ASSUME NEW s, NEW k, HasRoot(s, k)
                     PROVE  RootOf(s, k) \in RootsIn(s) /\ RootOf(s, k).key = k
  BY DEF HasRoot, RootOf

\* Versions are never forgotten.
Grows == \A d \in Volumes, p \in Paths : versions[d][p] \subseteq versions'[d][p]

LEMMA GoodStays == ASSUME Grows, NEW r, RootGood(r, versions) PROVE RootGood(r, versions')
  BY DEF RootGood, Grows

-----------------------------------------------------------------------------
(* The drives *)

LEMMA DriveStep == ASSUME DriveInv, [HistoryNext]_historyVars PROVE DriveInv' /\ Grows
<1>1. CASE People
  <2>1. CASE \E d \in Volumes, p \in Paths : Writes(d, p)
    <3> PICK d \in Volumes, p \in Paths : Writes(d, p)
      BY <2>1
    <3> DEFINE put(b) == [disk[d][p] EXCEPT !.bytes = b]
    <3>0. ASSUME disk[d][p] # Nil, NEW b \in Bytes PROVE put(b) \in StoredFile
      <4>1. disk[d][p] \in StoredFile
        BY <3>0 DEF DriveInv, Drive
      <4> QED BY <4>1 DEF StoredFile
    <3> HIDE DEF put
    <3>1. \E f \in StoredFile \cup {Nil} : Holds(d, p, f)
      <4>1. CASE clock < MaxClock /\ \E b \in Bytes : Holds(d, p, [bytes |-> b, mtime |-> clock + 1])
        BY <4>1, NilApart DEF StoredFile, DriveInv
      <4>2. CASE disk[d][p] # Nil /\ \E b \in Bytes : Holds(d, p, put(b))
        BY <4>2, <3>0
      <4> QED BY <4>1, <4>2 DEF Writes, put
    <3>2. clock' \in 1..MaxClock
      BY NilApart DEF Writes, DriveInv
    <3> QED BY <3>1, <3>2 DEF Holds, DriveInv, Drive, Grows
  <2>2. CASE \E d \in Volumes, p, q \in Paths : Moves(d, p, q)
    BY <2>2 DEF Moves, DriveInv, Drive, Grows
  <2>3. CASE \E m \in ToSet(Mounts), d \in Volumes \cup {Nil} : Plugs(m, d)
    BY <2>3 DEF Plugs, DriveInv, Drive, Grows
  <2>4. CASE \E d \in Volumes : Denies(d)
    BY <2>4 DEF Denies, DriveInv, Drive, Grows
  <2> QED BY <1>1, <2>1, <2>2, <2>3, <2>4 DEF People
<1>2. CASE UNCHANGED drives
  BY <1>2 DEF drives, DriveInv, Grows
<1>3. CASE ~People /\ HistoryNext
  <2>1. UNCHANGED drives
    BY <1>3 DEF HistoryNext, Begin, Enumerate, Absence, Recheck, EndScan, Reuse, Open, Close, Fails,
                Hash
  <2> QED BY <1>2, <2>1
<1> QED BY <1>1, <1>2, <1>3 DEF historyVars

-----------------------------------------------------------------------------
(* One action at a time *)

LEMMA DiffStays == ASSUME DiffInv, UNCHANGED <<before, latest, diff>> PROVE DiffInv'
  BY DEF DiffInv

\* What a step that leaves the snapshots alone leaves true of them.
LEMMA AccountStays == ASSUME HistoryInv, HistoryNext, UNCHANGED account
                      PROVE  /\ DriveInv' /\ Grows /\ LatestInv'
                             /\ DiffInv' /\ VerifiedMeansRead' /\ ContinuityIsClaimed'
<1> USE DEF HistoryInv
<1>1. DriveInv' /\ Grows
  BY DriveStep
<1>2. LatestInv'
  BY <1>1, GoodStays DEF LatestInv, account, RootsIn
<1>3. VerifiedMeansRead' /\ ContinuityIsClaimed'
  BY DEF VerifiedMeansRead, ContinuityIsClaimed, account, RootsIn, HasRoot, RootOf
<1>4. DiffInv'
  BY DiffStays DEF account
<1> QED BY <1>1, <1>2, <1>3, <1>4

LEMMA BeginStep == ASSUME HistoryInv, NEW request \in Requests, Begin(request)
                   PROVE  HistoryInv'
<1> USE DEF HistoryInv
<1>1. DriveInv' /\ Grows /\ LatestInv' /\ DiffInv' /\ VerifiedMeansRead' /\ ContinuityIsClaimed'
  BY AccountStays DEF HistoryNext, Begin
<1>2. ScanType' /\ ListedInv' /\ ReadInv' /\ CarriedInv'
  BY DEF Begin, ScanType, ListedInv, ReadInv, CarriedInv, account, RootsIn
<1>3. AskInv'
  BY DEF Begin, AskInv, account, Authorized, WeakClaims, HasRoot, RootOf, RootsIn
<1>4. ObservedInv'
  BY DEF Begin, ObservedInv, ScanType
<1> QED BY <1>1, <1>2, <1>3, <1>4

LEMMA EnumerateStep == ASSUME HistoryInv, Enumerate PROVE HistoryInv'
<1> USE DEF HistoryInv
<1>1. DriveInv' /\ Grows /\ LatestInv' /\ DiffInv' /\ VerifiedMeansRead' /\ ContinuityIsClaimed'
  BY AccountStays DEF HistoryNext, Enumerate
<1>2. Shown \in Drive /\ Shown' = Shown
  BY SpotTypes DEF Enumerate, ScanType, drives, Shown, Here, Spot, EmptyDrive, Paths
<1>3. \A p \in Paths : Shown[p] # Nil => Shown[p] \in StoredFile /\ Shown[p].mtime \in Nat
  BY <1>2 DEF Drive, StoredFile
<1>4. ScanType'
  <2>1. /\ entries' \in [Paths -> Nat \cup {Nil}] /\ unhashed' \in SUBSET Paths
        /\ recent' \in [Paths -> SUBSET StoredFile]
    BY <1>3 DEF Enumerate
  <2>2. /\ hashed' \in [Paths -> FileHash \cup {Nil}]
        /\ bracket' \in [stat : Nat \cup {Nil}, half : Bytes \cup {Nil}, tries : 0..Retries]
    BY NilApart DEF Enumerate, Unseen, Fresh
  <2> QED BY <2>1, <2>2 DEF ScanType, Enumerate, More, account, RootsIn
<1>5. ListedInv'
  BY <1>2, <1>3, NilApart DEF Enumerate, ListedInv, Unseen
<1>6. ReadInv' /\ CarriedInv'
  BY DEF Enumerate, ReadInv, CarriedInv, Unseen, Fresh
<1>7. AskInv'
  BY DEF Enumerate, AskInv, account, Authorized, WeakClaims, HasRoot, RootOf, RootsIn
<1>8. ObservedInv'
  BY DEF Enumerate, ObservedInv, drives
<1> QED BY <1>1, <1>4, <1>5, <1>6, <1>7, <1>8

\* A root that could not be observed leaves nothing behind but its name.
LEMMA FailsStep == ASSUME HistoryInv, HistoryNext, phase # "idle", More,
                          NEW reason \in {"unreadable", "unstable"}, Fails(reason)
                   PROVE  HistoryInv'
<1> USE DEF HistoryInv
<1>1. DriveInv' /\ Grows /\ LatestInv' /\ DiffInv' /\ VerifiedMeansRead' /\ ContinuityIsClaimed'
  BY AccountStays DEF Fails
<1>2. /\ entries' = Unseen /\ unhashed' = {} /\ hashed' = Unseen /\ bracket' = Fresh
      /\ recent' = NoVersions /\ UNCHANGED account /\ UNCHANGED versions
  BY DEF Fails, Forget, drives
<1>3. phase' \in {"idle", "enumerate"}
  BY DEF Fails, Ends
<1>4. ScanType'
  <2>1. /\ entries' \in [Paths -> Nat \cup {Nil}] /\ unhashed' \in SUBSET Paths
        /\ recent' \in [Paths -> SUBSET StoredFile] /\ hashed' \in [Paths -> FileHash \cup {Nil}]
    BY <1>2 DEF Unseen, NoVersions
  <2>2. bracket' \in [stat : Nat \cup {Nil}, half : Bytes \cup {Nil}, tries : 0..Retries]
    BY <1>2, NilApart DEF Fresh
  <2>3. observed' \in Seq(Observation) /\ failed' \in Seq(Failure)
    <3>1. KeyOf(Spot) \in Keys /\ Declared(Spot) \in BOOLEAN
      BY SpotTypes
    <3> DEFINE failure == [key |-> KeyOf(Spot), declared |-> Declared(Spot), why |-> reason]
    <3>2. failure \in Failure
      BY <3>1 DEF Failure
    <3> HIDE DEF failure
    <3>3. CASE failed' = Append(failed, failure) /\ observed' = observed
      BY <3>2, <3>3 DEF ScanType
    <3>4. CASE Ends
      BY <3>4 DEF Ends
    <3> QED BY <3>3, <3>4 DEF Fails, failure
  <2>4. /\ phase' # "idle" => ask' \in Requests
        /\ phase' = "idle" => observed' = <<>> /\ failed' = <<>>
    BY DEF Fails, Ends, ScanType
  <2> QED BY <1>2, <1>3, <2>1, <2>2, <2>3, <2>4 DEF ScanType, account, RootsIn
<1>5. ListedInv' /\ ReadInv' /\ CarriedInv'
  BY <1>3 DEF ListedInv, ReadInv, CarriedInv
<1>6. AskInv'
  BY <1>2 DEF Fails, Ends, AskInv, account, Authorized, WeakClaims, HasRoot, RootOf, RootsIn
<1>7. ObservedInv'
  BY <1>2 DEF Fails, Ends, ObservedInv
<1> QED BY <1>1, <1>4, <1>5, <1>6, <1>7

\* A hash that was read is a version's, one that was not is the last run's.
LEMMA HashStep ==
    ASSUME HistoryInv, HistoryNext, phase = "hash", NEW p \in Paths, Turn(p),
           NEW hash \in Bytes \cup {Torn, Nil}, NEW stat \in Nat \cup {Nil},
           NEW reused \in BOOLEAN, Hash(p, hash, stat, reused),
           hash # Nil =>
               /\ stat # Nil
               /\ ~reused => p \in Indistinct(recent) \/ Version(hash, stat) \in recent[p],
           reused => CarriedHash(p, hash)
    PROVE  HistoryInv'
<1> USE DEF HistoryInv
<1>1. DriveInv' /\ Grows /\ LatestInv' /\ DiffInv' /\ VerifiedMeansRead' /\ ContinuityIsClaimed'
  BY AccountStays DEF Hash
<1> DEFINE f == [hash |-> hash, stat |-> stat, reused |-> reused]
<1>2. f \in FileHash /\ f # Nil
  BY NilApart DEF FileHash
<1>3. hashed' = [hashed EXCEPT ![p] = f] /\ hashed \in [Paths -> FileHash \cup {Nil}]
  BY DEF Hash, ScanType
<1>4. hashed'[p] = f /\ \A q \in Paths : q # p => hashed'[q] = hashed[q]
  BY <1>3
<1>5. /\ unhashed' = unhashed \ {p} /\ bracket' = Fresh /\ More' = More /\ Spot' = Spot
      /\ Shown' = Shown
      /\ UNCHANGED <<drives, recent, phase, ask, entries, observed, failed, account>>
  BY DEF Hash, More, Spot, Shown, Here, drives, EmptyDrive, Paths
<1>6. ScanType'
  <2>1. hashed' \in [Paths -> FileHash \cup {Nil}]
    BY <1>2, <1>3
  <2>2. bracket' \in [stat : Nat \cup {Nil}, half : Bytes \cup {Nil}, tries : 0..Retries]
    BY <1>5, NilApart DEF Fresh
  <2> QED BY <1>5, <2>1, <2>2 DEF ScanType, account, RootsIn
<1>7. ListedInv'
  BY <1>2, <1>4, <1>5 DEF ListedInv, Turn
<1>8. ReadInv'
  <2>1. ASSUME NEW q \in Paths, hashed'[q] # Nil, hashed'[q].hash # Nil
        PROVE  /\ hashed'[q].stat # Nil
               /\ ~hashed'[q].reused => \/ q \in Indistinct(recent)
                                        \/ Version(hashed'[q].hash, hashed'[q].stat) \in recent[q]
    <3>1. CASE q = p
      BY <2>1, <3>1, <1>4
    <3>2. CASE q # p
      BY <2>1, <3>2, <1>4 DEF ReadInv
    <3> QED BY <3>1, <3>2
  <2>2. bracket'.stat = Nil
    BY <1>5 DEF Fresh
  <2> QED BY <1>5, <2>1, <2>2 DEF ReadInv, Indistinct
<1>9. CarriedInv'
  <2>1. ASSUME NEW q \in Paths, hashed'[q] # Nil, hashed'[q].reused
        PROVE  CarriedHash(q, hashed'[q].hash)
    <3>1. CASE q = p
      BY <2>1, <3>1, <1>4
    <3>2. CASE q # p
      BY <2>1, <3>2, <1>4 DEF CarriedInv
    <3> QED BY <3>1, <3>2
  <2> QED BY <1>5, <2>1 DEF CarriedInv, CarriedHash, account, HasRoot, RootOf, RootsIn
<1>10. AskInv'
  BY <1>5 DEF AskInv, account, Authorized, WeakClaims, HasRoot, RootOf, RootsIn
<1>11. ObservedInv'
  BY <1>5 DEF ObservedInv, drives
<1> QED BY <1>1, <1>6, <1>7, <1>8, <1>9, <1>10, <1>11

LEMMA TurnsAreTaken == ASSUME NEW p \in Paths, NEW q \in Paths, Turn(p), Turn(q) PROVE p = q
<1>1. \A x \in Paths : \E i \in DOMAIN PathOrder : PathOrder[i] = x
  BY DEF Paths, ToSet
<1>2. \A x \in Paths : Position(x) \in Nat /\ PathOrder[Position(x)] = x
  BY <1>1, HistoryAssumption DEF Position, Place
<1> QED BY <1>2 DEF Turn

LEMMA ReuseStep == ASSUME HistoryInv, NEW p \in Paths, Reuse(p) PROVE HistoryInv'
<1> USE DEF HistoryInv
<1>1. phase = "hash" /\ Turn(p) /\ HistoryNext
  BY DEF Reuse, Waiting, HistoryNext
<1> DEFINE e == RootOf(latest, KeyOf(Spot)).files[p]
<1>2. /\ ask.mode = "incremental" /\ HasRoot(latest, KeyOf(Spot))
      /\ Known(p) = e /\ e # Nil /\ e.hash # Nil /\ e.stat = entries[p]
  BY NilApart DEF Reuse, PriorHashStillApplies, Known
<1>3. e \in FileHash
  BY <1>2, RootOfIsOne DEF ScanType, Observation
<1>4. e.hash \in Bytes \cup {Torn, Nil} /\ entries[p] \in Nat \cup {Nil}
  BY <1>3 DEF FileHash, ScanType
<1>5. CarriedHash(p, e.hash)
  BY <1>2 DEF CarriedHash
<1>6. entries[p] # Nil
  BY <1>1 DEF ListedInv, Turn
<1>7. Hash(p, e.hash, entries[p], TRUE)
  BY <1>2 DEF Reuse
<1> HIDE DEF e
<1> QED BY <1>1, <1>4, <1>5, <1>6, <1>7, HashStep

LEMMA OpenStep == ASSUME HistoryInv, NEW p \in Paths, Open(p) PROVE HistoryInv'
<1> USE DEF HistoryInv
<1>1. phase = "hash" /\ Turn(p) /\ HistoryNext /\ More
  BY DEF Open, Waiting, HistoryNext, ScanType
<1>2. CASE Unreadable(p)
  <2>1. Hash(p, Nil, Nil, FALSE)
    BY <1>2 DEF Open
  <2> QED BY <1>1, <2>1, HashStep
<1>3. CASE ~Unreadable(p)
  <2>1. /\ bracket' = [bracket EXCEPT !.stat = Shown[p].mtime, !.half = Shown[p].bytes]
        /\ UNCHANGED <<drives, recent, phase, ask, entries, unhashed, hashed, observed, failed,
                       account, changes, scans>>
    BY <1>3 DEF Open
  <2>2. DriveInv' /\ Grows /\ LatestInv' /\ DiffInv' /\ VerifiedMeansRead' /\ ContinuityIsClaimed'
    BY <1>1, <2>1, AccountStays
  <2>3. /\ Shown[p] # Nil /\ Shown[p] \in StoredFile /\ Shown[p] \in recent[p]
        /\ Shown' = Shown /\ Spot' = Spot /\ More' = More
    BY <1>1, <1>3, <2>1, SpotTypes
    DEF Unreadable, ListedInv, Drive, drives, Shown, Here, Spot, More, EmptyDrive, Paths
  <2>4. Version(Shown[p].bytes, Shown[p].mtime) = Shown[p] /\ Shown[p].mtime \in Nat
        /\ Shown[p].bytes \in Bytes
    BY <2>3 DEF Version, StoredFile
  <2>5. bracket'.stat = Shown[p].mtime /\ bracket'.half = Shown[p].bytes
        /\ bracket' \in [stat : Nat \cup {Nil}, half : Bytes \cup {Nil}, tries : 0..Retries]
    BY <2>1, <2>4 DEF ScanType
  <2>6. ScanType' /\ ListedInv'
    BY <2>1, <2>3, <2>5 DEF ScanType, ListedInv, account, RootsIn
  <2>7. ReadInv'
    <3>1. \A q \in Paths : Turn(q) => Version(Shown[p].bytes, Shown[p].mtime) \in recent[q]
      BY <1>1, <2>3, <2>4, TurnsAreTaken
    <3> QED BY <2>1, <2>5, <3>1 DEF ReadInv, Turn, Indistinct, Position
  <2>8. CarriedInv' /\ AskInv' /\ ObservedInv'
    BY <2>1, <2>3 DEF CarriedInv, CarriedHash, AskInv, ObservedInv, drives, account, Authorized,
       WeakClaims, HasRoot, RootOf, RootsIn
  <2> QED BY <2>2, <2>6, <2>7, <2>8
<1> QED BY <1>2, <1>3

LEMMA CloseStep == ASSUME HistoryInv, NEW p \in Paths, Close(p) PROVE HistoryInv'
<1> USE DEF HistoryInv
<1>1. phase = "hash" /\ phase # "idle" /\ Turn(p) /\ HistoryNext /\ More /\ bracket.stat # Nil
  BY DEF Close, HistoryNext, ScanType
<1>2. CASE Fails("unreadable") \/ Fails("unstable")
  BY <1>1, <1>2, FailsStep
<1> DEFINE hash == IF Shown[p].bytes = bracket.half THEN bracket.half ELSE Torn
<1>3. CASE Shown[p] # Nil /\ Shown[p].mtime = bracket.stat /\ Hash(p, hash, bracket.stat, FALSE)
  <2>1. Shown[p] \in recent[p] /\ Version(bracket.half, bracket.stat) \in recent[p]
    BY <1>1, <1>3 DEF ListedInv, ReadInv
  <2>2. /\ Shown[p].bytes \in Bytes /\ bracket.stat \in Nat \cup {Nil}
        /\ bracket.half \in Bytes \cup {Nil}
    BY <1>1, <1>3, SpotTypes DEF Drive, StoredFile, ScanType
  <2>3. hash \in Bytes \cup {Torn, Nil}
    BY <2>2
  <2>4. p \in Indistinct(recent) \/ Version(hash, bracket.stat) \in recent[p]
    <3>1. CASE Shown[p].bytes = bracket.half
      BY <2>1, <3>1
    <3>2. CASE Shown[p].bytes # bracket.half
      BY <1>3, <2>1, <3>2 DEF Indistinct, Version
    <3> QED BY <3>1, <3>2
  <2> HIDE DEF hash
  <2> QED BY <1>1, <1>3, <2>2, <2>3, <2>4, HashStep
<1>4. CASE /\ MayRetry /\ bracket' = [Fresh EXCEPT !.tries = bracket.tries + 1]
           /\ UNCHANGED <<drives, recent, phase, ask, entries, unhashed, hashed, observed,
                          failed, account, changes, scans>>
  <2>1. DriveInv' /\ Grows /\ LatestInv' /\ DiffInv' /\ VerifiedMeansRead' /\ ContinuityIsClaimed'
    BY <1>1, <1>4, AccountStays
  <2>2. Shown' = Shown /\ Spot' = Spot /\ More' = More
    BY <1>4 DEF drives, Shown, Here, Spot, More, EmptyDrive, Paths
  <2>3. bracket'.stat = Nil
        /\ bracket' \in [stat : Nat \cup {Nil}, half : Bytes \cup {Nil}, tries : 0..Retries]
    BY <1>4, NilApart DEF Fresh, MayRetry, ScanType
  <2>4. ScanType' /\ ListedInv' /\ ReadInv'
    BY <1>4, <2>2, <2>3 DEF ScanType, ListedInv, ReadInv, Indistinct, account, RootsIn
  <2>5. CarriedInv' /\ AskInv' /\ ObservedInv'
    BY <1>4, <2>2 DEF CarriedInv, CarriedHash, AskInv, ObservedInv, drives, account, Authorized,
       WeakClaims, HasRoot, RootOf, RootsIn
  <2> QED BY <2>1, <2>4, <2>5
<1> QED BY <1>2, <1>3, <1>4 DEF Close

\* What the root showed, and what the last run knew of it, is what is written.
Told ==
    [key |-> KeyOf(Spot), declared |-> Declared(Spot), mount |-> Spot.mount,
     files |-> hashed, drive |-> Here, truth |-> Shown,
     missed |-> Here # Nil /\ disk[Here] # Shown,
     moved |-> Unsettled,
     doubt |-> Unsettled \cup CarriedInDoubt]

\* A carried hash that is wrong is one that somebody vouched for, or that rests
\* on a doubt, or on a stat that the drive's versions share.
LEMMA CarriedIsDoubted ==
    ASSUME HistoryInv, phase = "hash", StoodStill, NEW p \in Paths, Shown[p] # Nil,
           hashed[p] # Nil, hashed[p].hash # Nil, hashed[p].reused
    PROVE  hashed[p].hash = Shown[p].bytes \/ p \in CarriedInDoubt
<1> USE DEF HistoryInv
<1> DEFINE prior == RootOf(latest, KeyOf(Spot))
           word  == ask.allowed \/ (Declared(Spot) /\ prior.declared)
<1>1. More /\ phase # "idle"
  BY DEF ScanType
<1>2. CarriedHash(p, hashed[p].hash)
  BY DEF CarriedInv
<1>3. prior \in RootsIn(latest) /\ RootGood(prior, versions)
  BY <1>2, RootOfIsOne DEF CarriedHash, LatestInv
<1>4. entries[p] = Shown[p].mtime
  BY DEF StoodStill
<1>5. word
  <2>1. PICK i \in DOMAIN ask.roots : Spot = ask.roots[i]
    BY <1>1, SpotTypes
  <2>2. Authorized(ask.roots, latest, ask.allowed)
    BY <1>1, <1>2 DEF AskInv, CarriedHash
  <2>3. HasRoot(latest, KeyOf(ask.roots[i]))
    BY <1>2, <2>1 DEF CarriedHash
  <2> QED BY <2>1, <2>2, <2>3 DEF Authorized, WeakClaims
<1>6. CASE p \in prior.doubt \/ (prior.drive # Here /\ word)
  BY <1>6 DEF CarriedInDoubt
<1>7. CASE p \notin prior.doubt /\ prior.drive = Here
  <2>1. Here \in Volumes /\ Shown[p] \in versions[Here][p]
    BY <1>1, ShownIsAVersion
  <2>2. prior.files[p] # Nil /\ prior.files[p].hash = hashed[p].hash
        /\ prior.files[p].stat = Shown[p].mtime
    BY <1>2, <1>4 DEF CarriedHash
  <2>3. prior.truth[p] # Nil /\ prior.truth[p].bytes = hashed[p].hash
        /\ prior.truth[p].mtime = Shown[p].mtime
    BY <1>3, <1>7, <2>2 DEF RootGood
  <2>4. prior.truth[p] \in versions[Here][p]
    BY <1>3, <1>7, <2>3 DEF RootGood
  <2>5. CASE hashed[p].hash # Shown[p].bytes
    <3>1. p \in Indistinct(versions[Here])
      BY <2>1, <2>3, <2>4, <2>5 DEF Indistinct
    <3> QED BY <2>1, <3>1, NilApart DEF CarriedInDoubt
  <2> QED BY <2>5
<1> QED BY <1>5, <1>6, <1>7

LEMMA ToldIsGood == ASSUME HistoryInv, phase = "hash", unhashed = {}, StoodStill
                    PROVE  /\ Told \in Observation /\ RootGood(Told, versions)
                           /\ AskedFor(Told, ask.roots)
<1> USE DEF HistoryInv
<1>1. More /\ phase # "idle"
  BY DEF ScanType
<1>2. Told \in Observation
  <2>1. Unsettled \in SUBSET Paths /\ CarriedInDoubt \in SUBSET Paths
    BY DEF Unsettled, Indistinct, PutBack, CarriedInDoubt
  <2>2. Spot.mount \in ToSet(Mounts) \cup {Nil} /\ hashed \in [Paths -> FileHash \cup {Nil}]
    BY <1>1, SpotTypes DEF RootSpec, ScanType
  <2>3. (Here # Nil /\ disk[Here] # Shown) \in BOOLEAN
    OBVIOUS
  <2>4. KeyOf(Spot) \in Keys /\ Declared(Spot) \in BOOLEAN /\ Here \in Volumes \cup {Nil}
    BY <1>1, SpotTypes
  <2>5. Shown \in [Paths -> StoredFile \cup {Nil}]
    BY <1>1, SpotTypes DEF Drive
  <2> QED BY <2>1, <2>2, <2>3, <2>4, <2>5 DEF Told, Observation
<1>3. AskedFor(Told, ask.roots)
  BY <1>1, SpotTypes DEF AskedFor, Told
<1>4. Told.moved \subseteq Told.doubt
  BY DEF Told
<1>5. ASSUME NEW p \in Paths
      PROVE  /\ hashed[p] = Nil <=> Shown[p] = Nil
             /\ hashed[p] # Nil => entries[p] = Shown[p].mtime
    <2>1. entries[p] = IF Shown[p] = Nil THEN Nil ELSE Shown[p].mtime
      BY DEF StoodStill
    <2>2. Shown[p] # Nil => Shown[p].mtime # Nil
      BY <1>1, SpotTypes, NilApart DEF Drive, StoredFile
    <2> QED BY <2>1, <2>2 DEF ListedInv
<1>6. ASSUME NEW p \in Paths, hashed[p] # Nil, hashed[p].hash # Nil
      PROVE  /\ hashed[p].stat = Shown[p].mtime \/ p \in Unsettled
             /\ ~hashed[p].reused => hashed[p].hash = Shown[p].bytes \/ p \in Unsettled
             /\ hashed[p].hash = Shown[p].bytes \/ p \in Unsettled \cup CarriedInDoubt
  <2>1. Shown[p] # Nil /\ entries[p] = Shown[p].mtime
    BY <1>5, <1>6
  <2>2. hashed[p].stat # Nil
    BY <1>6 DEF ReadInv
  <2>3. hashed[p].stat = Shown[p].mtime \/ p \in Unsettled
    BY <1>6, <2>1, <2>2 DEF Unsettled, PutBack
  <2>4. ASSUME ~hashed[p].reused PROVE hashed[p].hash = Shown[p].bytes \/ p \in Unsettled
    <3>1. p \in Indistinct(recent) \/ Version(hashed[p].hash, hashed[p].stat) \in recent[p]
      BY <1>6, <2>4 DEF ReadInv
    <3>2. Shown[p] \in recent[p]
      BY <2>1 DEF ListedInv
    <3> QED BY <2>3, <3>1, <3>2 DEF Unsettled, Indistinct, Version
  <2>5. hashed[p].reused => hashed[p].hash = Shown[p].bytes \/ p \in CarriedInDoubt
    BY <1>6, <2>1, CarriedIsDoubted
  <2>6. hashed[p].reused \in BOOLEAN
    BY <1>6 DEF ScanType, FileHash
  <2> QED BY <2>3, <2>4, <2>5, <2>6
<1>7. ASSUME NEW p \in Paths, Shown[p] # Nil
      PROVE  Here \in Volumes /\ Shown[p] \in versions[Here][p]
  BY <1>1, <1>7, ShownIsAVersion
<1>8. /\ Told.files = hashed /\ Told.truth = Shown /\ Told.drive = Here
      /\ Told.moved = Unsettled /\ Told.doubt = Unsettled \cup CarriedInDoubt
  BY DEF Told
<1>9. RootGood(Told, versions)
  BY <1>4, <1>5, <1>6, <1>7, <1>8 DEF RootGood
<1> QED BY <1>2, <1>3, <1>9

LEMMA RecheckStep == ASSUME HistoryInv, Recheck PROVE HistoryInv'
<1> USE DEF HistoryInv
<1>1. phase = "hash" /\ phase # "idle" /\ unhashed = {} /\ HistoryNext /\ More
  BY DEF Recheck, HistoryNext, ScanType
<1>2. CASE Fails("unstable")
  BY <1>1, <1>2, FailsStep
<1>3. CASE StoodStill
  <2>1. /\ observed' = Append(observed, Told)
        /\ Forget /\ phase' = "enumerate" /\ recent' = NoVersions
        /\ UNCHANGED <<drives, ask, failed, account, changes, scans>>
    BY <1>3 DEF Recheck, Told
  <2>2. DriveInv' /\ Grows /\ LatestInv' /\ DiffInv' /\ VerifiedMeansRead' /\ ContinuityIsClaimed'
    BY <1>1, <2>1, AccountStays
  <2>3. Told \in Observation /\ RootGood(Told, versions) /\ AskedFor(Told, ask.roots)
    BY <1>1, <1>3, ToldIsGood
  <2>4. ScanType'
    <3>1. /\ entries' \in [Paths -> Nat \cup {Nil}] /\ unhashed' \in SUBSET Paths
          /\ recent' \in [Paths -> SUBSET StoredFile]
          /\ hashed' \in [Paths -> FileHash \cup {Nil}]
      BY <2>1 DEF Forget, Unseen, NoVersions
    <3>2. bracket' \in [stat : Nat \cup {Nil}, half : Bytes \cup {Nil}, tries : 0..Retries]
      BY <2>1, NilApart DEF Forget, Fresh
    <3>3. observed' \in Seq(Observation)
      BY <2>1, <2>3 DEF ScanType
    <3> QED BY <1>1, <2>1, <3>1, <3>2, <3>3 DEF ScanType, account, RootsIn
  <2>5. ListedInv' /\ ReadInv' /\ CarriedInv'
    BY <2>1 DEF ListedInv, ReadInv, CarriedInv
  <2>6. AskInv'
    BY <1>1, <2>1 DEF AskInv, account, Authorized, WeakClaims, HasRoot, RootOf, RootsIn
  <2>7. ObservedInv'
    <3>1. ASSUME NEW i \in DOMAIN observed'
          PROVE  RootGood(observed'[i], versions) /\ AskedFor(observed'[i], ask.roots)
      <4>1. CASE i = Len(observed) + 1
        BY <2>1, <2>3, <4>1 DEF ScanType
      <4>2. CASE i # Len(observed) + 1
        <5>1. i \in DOMAIN observed /\ observed'[i] = observed[i]
          BY <2>1, <4>2 DEF ScanType
        <5> QED BY <5>1 DEF ObservedInv
      <4> QED BY <4>1, <4>2
    <3> QED BY <2>1, <3>1 DEF ObservedInv, drives
  <2> QED BY <2>2, <2>4, <2>5, <2>6, <2>7
<1> QED BY <1>2, <1>3 DEF Recheck

\* The roots of a snapshot: those that were bound, and a bare name for each missing one.
LEMMA RootsOfASnapshot ==
    ASSUME HistoryInv, NEW r \in SnapshotOf.roots
    PROVE  /\ r \in Observation /\ RootGood(r, versions)
           /\ \/ r \in Bound /\ AskedFor(r, ask.roots)
              \/ r.drive = Nil /\ \A p \in Paths : r.files[p] = Nil
<1> USE DEF HistoryInv
<1>1. CASE r \in Bound
  <2>1. PICK i \in DOMAIN observed : r = observed[i]
    BY <1>1 DEF Bound
  <2>2. observed[i] \in Observation
    BY DEF ScanType
  <2> QED BY <1>1, <2>1, <2>2 DEF ObservedInv
<1>2. CASE r \notin Bound
  <2>1. PICK m \in Missing :
            r = [key |-> m.key, declared |-> m.declared, mount |-> Nil, files |-> Unseen,
                 drive |-> Nil, truth |-> Unseen, missed |-> FALSE, moved |-> {}, doubt |-> {}]
    BY <1>2 DEF SnapshotOf
  <2>2. PICK i \in DOMAIN failed : m = [key |-> failed[i].key, declared |-> failed[i].declared]
    BY DEF Missing
  <2>3. failed[i] \in Failure
    BY DEF ScanType
  <2>4. m.key \in Keys /\ m.declared \in BOOLEAN
    BY <2>2, <2>3 DEF Failure
  <2>5. Unseen \in [Paths -> FileHash \cup {Nil}] /\ Unseen \in [Paths -> StoredFile \cup {Nil}]
    BY DEF Unseen
  <2>6. r \in Observation
    BY <2>1, <2>4, <2>5 DEF Observation
  <2>7. r.files = Unseen /\ r.truth = Unseen /\ r.drive = Nil /\ r.moved = {} /\ r.doubt = {}
    BY <2>1
  <2> QED BY <2>6, <2>7 DEF RootGood, Unseen
<1> QED BY <1>1, <1>2

LEMMA EndScanStep == ASSUME HistoryInv, EndScan PROVE HistoryInv'
<1> USE DEF HistoryInv
<1>1. /\ phase = "enumerate" /\ phase' = "idle" /\ ask' = Nil /\ observed' = <<>> /\ failed' = <<>>
      /\ UNCHANGED <<drives, recent, entries, unhashed, bracket, hashed>>
  BY DEF EndScan, Ends
<1>2. DriveInv' /\ Grows
  BY DriveStep DEF HistoryNext
<1>3. ListedInv' /\ ReadInv' /\ CarriedInv' /\ AskInv' /\ ObservedInv'
  BY <1>1 DEF ListedInv, ReadInv, CarriedInv, AskInv, ObservedInv
<1>4. CASE UNCHANGED account
  <2>1. LatestInv' /\ DiffInv' /\ VerifiedMeansRead' /\ ContinuityIsClaimed'
    BY <1>4, AccountStays DEF HistoryNext
  <2>2. ScanType'
    BY <1>1, <1>4 DEF ScanType, account, RootsIn
  <2> QED BY <1>2, <1>3, <2>1, <2>2
<1>5. CASE /\ latest' = SnapshotOf
           /\ before' = IF ask.mode = "fresh" THEN Nil ELSE latest
           /\ diff' = IF ask.mode = "fresh" THEN Nil ELSE BuildCorpusDiff(latest, SnapshotOf)
  <2>1. RootsIn(latest') \subseteq SnapshotOf.roots
    BY <1>5 DEF RootsIn
  <2>2. ScanType'
    BY <1>1, <2>1, RootsOfASnapshot DEF ScanType, RootsIn
  <2>3. LatestInv'
    BY <1>1, <2>1, RootsOfASnapshot DEF LatestInv, RootsIn, drives
  <2>4. VerifiedMeansRead'
    <3>1. SUFFICES ASSUME SnapshotOf.class = "fully_verified", NEW r \in SnapshotOf.roots,
                          NEW p \in Paths, r.files[p] # Nil
                   PROVE  r.files[p].hash \in {r.truth[p].bytes, Nil} \/ p \in r.moved
      BY <1>5, <2>1 DEF VerifiedMeansRead, RootsIn
    <3>2. r \in Bound /\ RootGood(r, versions)
      BY <3>1, RootsOfASnapshot
    <3>3. <<r, p>> \in Hashed
      BY <3>1, <3>2 DEF Hashed
    <3>4. VerificationClass = "fully_verified"
      BY <3>1 DEF SnapshotOf
    <3>5. ~r.files[p].reused
      BY <3>3, <3>4 DEF VerificationClass
    <3> QED BY <3>1, <3>2, <3>5 DEF RootGood
  <2>5. ContinuityIsClaimed'
    <3>1. SUFFICES ASSUME ask.mode # "fresh", NEW r \in SnapshotOf.roots,
                          HasRoot(latest, r.key), r.drive # Nil, ~ask.allowed
                   PROVE  r.declared /\ RootOf(latest, r.key).declared
      <4>1. SnapshotOf.allowed = ask.allowed
        BY DEF SnapshotOf
      <4>2. diff' # Nil => ask.mode # "fresh" /\ before' = latest
        BY <1>5
      <4> QED BY <1>5, <2>1, <4>1, <4>2 DEF ContinuityIsClaimed, RootsIn, HasRoot, RootOf
    <3>2. AskedFor(r, ask.roots)
      BY <3>1, RootsOfASnapshot
    <3>3. WeakClaims(ask.roots, latest) = {}
      BY <1>1, <3>1 DEF AskInv, Authorized
    <3> QED BY <3>1, <3>2, <3>3 DEF AskedFor, WeakClaims
  <2>6. DiffInv'
    BY <1>5 DEF DiffInv
  <2> QED BY <1>2, <1>3, <2>2, <2>3, <2>4, <2>5, <2>6
<1> QED BY <1>4, <1>5 DEF EndScan

LEMMA PeopleStep == ASSUME HistoryInv, People PROVE HistoryInv'
<1> USE DEF HistoryInv
<1>1. UNCHANGED <<scan, account, scans>>
  BY DEF People
<1>2. DriveInv' /\ Grows /\ LatestInv' /\ DiffInv' /\ VerifiedMeansRead' /\ ContinuityIsClaimed'
  BY <1>1, AccountStays DEF HistoryNext
<1>3. Spot' = Spot /\ More' = More
  BY <1>1 DEF scan, Spot, More
<1>4. \A p \in Paths : phase = "hash" /\ Shown'[p] # Nil => Shown'[p] \in StoredFile
  <2>1. phase = "hash" => Spot \in RootSpec
    BY SpotTypes DEF ScanType
  <2>2. phase = "hash" => Here' \in Volumes \cup {Nil}
    BY <1>2, <1>3, <2>1 DEF Here, DriveInv, RootSpec
  <2> QED BY <1>2, <2>2 DEF Shown, DriveInv, Drive, EmptyDrive, Paths
<1>5. recent' \in [Paths -> SUBSET StoredFile]
      /\ \A p \in Paths : /\ recent[p] \subseteq recent'[p]
                          /\ phase = "hash" /\ Shown'[p] # Nil => Shown'[p] \in recent'[p]
  <2>1. recent \in [Paths -> SUBSET StoredFile]
    BY DEF ScanType
  <2>2. CASE phase # "hash"
    BY <2>1, <2>2 DEF People
  <2>3. CASE phase = "hash"
    <3>1. recent' = [p \in Paths |-> recent[p] \cup ({Shown'[p]} \ {Nil})]
      BY <2>3 DEF People, Shown, Here, Spot, EmptyDrive, Paths
    <3> QED BY <1>4, <2>1, <2>3, <3>1
  <2> QED BY <2>2, <2>3
<1>6. ScanType'
  BY <1>1, <1>3, <1>5 DEF ScanType, scan, account, RootsIn
<1>7. ListedInv'
  BY <1>1, <1>5 DEF ListedInv, scan, Shown, Here, Spot, EmptyDrive, Paths
<1>8. ReadInv'
  <2>1. Indistinct(recent) \subseteq Indistinct(recent')
    BY <1>5 DEF Indistinct
  <2>2. \A p \in Paths : Turn(p)' = Turn(p)
    BY <1>1 DEF scan, Turn, Position
  <2> QED BY <1>1, <1>5, <2>1, <2>2 DEF ReadInv, scan
<1>9. CarriedInv' /\ AskInv'
  BY <1>1, <1>3 DEF CarriedInv, CarriedHash, AskInv, scan, account, Authorized, WeakClaims,
     HasRoot, RootOf, RootsIn
<1>10. ObservedInv'
  BY <1>1, <1>2, GoodStays DEF ObservedInv, scan
<1> QED BY <1>2, <1>6, <1>7, <1>8, <1>9, <1>10

-----------------------------------------------------------------------------
(* The corpus over many runs *)

LEMMA HistoryStarts == HistoryInit => HistoryInv
<1> SUFFICES ASSUME HistoryInit PROVE HistoryInv
  OBVIOUS
<1>1. DriveInv
  <2>1. disk \in [Volumes -> Drive] /\ 1 \in 1..MaxClock
    BY HistoryAssumption DEF HistoryInit, Drive
  <2>2. \A d \in Volumes, p \in Paths : {disk[d][p]} \ {Nil} \in SUBSET StoredFile
    BY <2>1 DEF Drive
  <2> QED BY <2>1, <2>2 DEF HistoryInit, DriveInv
<1>2. ScanType
  <2>1. /\ entries \in [Paths -> Nat \cup {Nil}] /\ recent \in [Paths -> SUBSET StoredFile]
        /\ hashed \in [Paths -> FileHash \cup {Nil}]
    BY DEF HistoryInit, Unseen, NoVersions
  <2>2. bracket \in [stat : Nat \cup {Nil}, half : Bytes \cup {Nil}, tries : 0..Retries]
    BY NilApart DEF HistoryInit, Fresh
  <2> QED BY <2>1, <2>2 DEF HistoryInit, ScanType, RootsIn
<1>3. ListedInv /\ ReadInv /\ CarriedInv /\ AskInv /\ ObservedInv /\ LatestInv
  BY DEF HistoryInit, ListedInv, ReadInv, CarriedInv, AskInv, ObservedInv, LatestInv, RootsIn
<1>4. DiffInv /\ VerifiedMeansRead /\ ContinuityIsClaimed
  BY DEF HistoryInit, DiffInv, VerifiedMeansRead, ContinuityIsClaimed
<1> QED BY <1>1, <1>2, <1>3, <1>4 DEF HistoryInv

LEMMA HistorySteps == HistoryInv /\ [HistoryNext]_historyVars => HistoryInv'
<1> SUFFICES ASSUME HistoryInv, [HistoryNext]_historyVars PROVE HistoryInv'
  OBVIOUS
<1>1. CASE Absence
  BY <1>1, FailsStep DEF Absence, HistoryNext
<1>2. CASE UNCHANGED historyVars
  <2>1. UNCHANGED <<scan, account, drives, recent>>
    BY <1>2 DEF historyVars
  <2>2. DriveInv' /\ ScanType' /\ ListedInv'
    BY <2>1 DEF HistoryInv, scan, account, drives, DriveInv, ScanType, ListedInv, More, Shown,
       Here, Spot, RootsIn, EmptyDrive, Paths
  <2>3. ReadInv' /\ CarriedInv' /\ AskInv' /\ ObservedInv' /\ LatestInv'
    <3>1. \A p \in Paths : Turn(p)' = Turn(p)
      BY <2>1 DEF scan, Turn
    <3>2. ReadInv'
      BY <2>1, <3>1 DEF HistoryInv, scan, ReadInv, Indistinct
    <3> QED
      BY <2>1, <3>2 DEF HistoryInv, scan, account, drives, CarriedInv, CarriedHash, Spot, RootsIn,
         HasRoot, RootOf, AskInv, Authorized, WeakClaims, ObservedInv, LatestInv
  <2>4. DiffInv' /\ VerifiedMeansRead' /\ ContinuityIsClaimed'
    BY <2>1, DiffStays DEF HistoryInv, account, VerifiedMeansRead, ContinuityIsClaimed, RootsIn,
       HasRoot, RootOf
  <2> QED BY <2>2, <2>3, <2>4 DEF HistoryInv
<1> QED BY <1>1, <1>2, BeginStep, EnumerateStep, RecheckStep, EndScanStep, ReuseStep, OpenStep,
           CloseStep, PeopleStep DEF HistoryNext

THEOREM HistoryInvariant == HistorySpec => []HistoryInv
  BY HistoryStarts, HistorySteps, PTL DEF HistorySpec

THEOREM HistoryTypes == HistorySpec => []HistoryTypeOK
<1>1. HistoryInv => HistoryTypeOK
  BY DEF HistoryInv, DriveInv, Drive, ScanType, LatestInv, RootGood, Observation, FileHash,
     HistoryTypeOK
<1> QED BY <1>1, HistoryInvariant, PTL

\* A root of any snapshot is what its mount point showed at one moment: the files
\* it showed and no other, each under its hash unless a doubt is recorded, however
\* the drives were swapped and the files written while runCorpusScan read them.
THEOREM OneMoment == HistorySpec => []SnapshotIsOneMoment
<1>1. HistoryInv => SnapshotIsOneMoment
  BY DEF HistoryInv, LatestInv, RootGood, SnapshotIsOneMoment
<1> QED BY <1>1, HistoryInvariant, PTL

\* deriveVerification: a snapshot labelled "fully_verified" holds no hash that an
\* earlier run, or an earlier content of the file, left behind.
THEOREM VerifiedIsRead == HistorySpec => []VerifiedMeansRead
<1>1. HistoryInv => VerifiedMeansRead
  BY DEF HistoryInv
<1> QED BY <1>1, HistoryInvariant, PTL

\* assertLongitudinalRootIdentityAuthorized: one drive takes the place of another
\* in a comparison only by an operator's word, and not by a mount point's name.
THEOREM ContinuityIsSomebodysClaim == HistorySpec => []ContinuityIsClaimed
<1>1. HistoryInv => ContinuityIsClaimed
  BY DEF HistoryInv
<1> QED BY <1>1, HistoryInvariant, PTL

-----------------------------------------------------------------------------
(* The comparison of two snapshots *)

LEMMA PlacesAreApart ==
    /\ \A k \in Keys : Place(KeyOrder, k) \in Nat /\ KeyOrder[Place(KeyOrder, k)] = k
    /\ \A p \in Paths : Position(p) \in Nat /\ PathOrder[Position(p)] = p
    /\ IsFiniteSet(Keys) /\ IsFiniteSet(Paths)
<1>1. ASSUME NEW S, NEW order \in Seq(S)
      PROVE  /\ \A x \in ToSet(order) : Place(order, x) \in Nat /\ order[Place(order, x)] = x
             /\ IsFiniteSet(ToSet(order))
  <2>1. DOMAIN order = 1..Len(order) /\ Len(order) \in Nat
    BY <1>1
  <2>2. \A x \in ToSet(order) : Place(order, x) \in DOMAIN order /\ order[Place(order, x)] = x
    BY DEF ToSet, Place
  <2>3. IsFiniteSet(DOMAIN order)
    BY <2>1, FS_Interval
  <2>4. order \in Surjection(DOMAIN order, ToSet(order))
    BY <1>1 DEF Surjection, ToSet
  <2>5. IsFiniteSet(ToSet(order))
    BY <2>3, <2>4, FS_Surjection
  <2> QED BY <2>1, <2>2, <2>5
<1> QED BY <1>1, HistoryAssumption DEF Keys, Paths, Position

LEMMA PathsAreOrdered ==
    ASSUME NEW a \in Keys \X Paths, NEW b \in Keys \X Paths
    PROVE  /\ a = b \/ Precedes(a, b) \/ Precedes(b, a)
           /\ ~Precedes(a, a)
           /\ \A c \in Keys \X Paths : Precedes(c, a) /\ Precedes(a, b) => Precedes(c, b)
  BY PlacesAreApart DEF Precedes

\* In a set of artifacts, those of one hash are told apart by their rank.
LEMMA RanksAreApart ==
    ASSUME NEW some \in SUBSET (Keys \X Paths), NEW snapshot,
           NEW a \in some, NEW b \in some, HashOf(snapshot, a) = HashOf(snapshot, b),
           Rank(a, some, snapshot) = Rank(b, some, snapshot)
    PROVE  a = b
<1>1. IsFiniteSet(some)
  BY PlacesAreApart, FS_Product, FS_Subset
<1>2. ASSUME NEW x \in some, NEW y \in some, HashOf(snapshot, x) = HashOf(snapshot, y),
             Rank(x, some, snapshot) = Rank(y, some, snapshot)
      PROVE  ~Precedes(x, y)
  <2> SUFFICES ASSUME Precedes(x, y) PROVE FALSE
    OBVIOUS
  <2> DEFINE X == Earlier(x, some, snapshot)
             Y == Earlier(y, some, snapshot)
  <2>1. X \subseteq Y /\ x \in Y /\ x \notin X
    BY <1>2, PathsAreOrdered DEF Earlier
  <2>2. IsFiniteSet(Y)
    BY <1>1, FS_Subset DEF Earlier
  <2>3. Cardinality(X) = Cardinality(Y)
    BY <1>2 DEF Rank
  <2> HIDE DEF X, Y
  <2> QED BY <2>1, <2>2, <2>3, FS_Subset
<1> QED BY <1>2, PathsAreOrdered

\* Nothing is renamed twice, and nothing is renamed to two.
LEMMA RenamesAreOneToOne ==
    ASSUME NEW old, NEW new, NEW departed \in SUBSET (Keys \X Paths),
           NEW arrived \in SUBSET (Keys \X Paths)
    PROVE  LET renames == PairRenames(old, new, departed, arrived)
           IN  /\ \A r, s \in renames : r[1] = s[1] \/ r[2] = s[2] => r = s
               /\ IsFiniteSet(renames)
               /\ Cardinality({r[1] : r \in renames}) = Cardinality(renames)
               /\ Cardinality({r[2] : r \in renames}) = Cardinality(renames)
<1> DEFINE renames == PairRenames(old, new, departed, arrived)
<1>1. ASSUME NEW r \in renames, NEW s \in renames, r[1] = s[1] \/ r[2] = s[2] PROVE r = s
  <2>1. /\ r[1] \in departed /\ s[1] \in departed /\ r[2] \in arrived /\ s[2] \in arrived
        /\ r = <<r[1], r[2]>> /\ s = <<s[1], s[2]>>
    BY DEF PairRenames
  <2>2. /\ HashOf(old, r[1]) = HashOf(new, r[2]) /\ HashOf(old, s[1]) = HashOf(new, s[2])
        /\ Rank(r[1], departed, old) = Rank(r[2], arrived, new)
        /\ Rank(s[1], departed, old) = Rank(s[2], arrived, new)
    BY DEF PairRenames
  <2>3. CASE r[1] = s[1]
    BY <2>1, <2>2, <2>3, RanksAreApart
  <2>4. CASE r[2] = s[2]
    BY <2>1, <2>2, <2>4, RanksAreApart
  <2> QED BY <1>1, <2>3, <2>4
<1>2. IsFiniteSet(renames)
  <2>1. IsFiniteSet(departed) /\ IsFiniteSet(arrived)
    BY PlacesAreApart, FS_Product, FS_Subset
  <2>2. IsFiniteSet(departed \X arrived) /\ renames \subseteq departed \X arrived
    BY <2>1, FS_Product DEF PairRenames
  <2> QED BY <2>2, FS_Subset
<1> HIDE DEF renames
<1>3. Cardinality({r[1] : r \in renames}) = Cardinality(renames)
  <2> DEFINE side == [r \in renames |-> r[1]]
  <2>1. side \in Surjection(renames, {r[1] : r \in renames})
    BY DEF Surjection
  <2>2. IsInjective(side)
    BY <1>1 DEF IsInjective
  <2> HIDE DEF side
  <2>3. side \in Bijection(renames, {r[1] : r \in renames})
    BY <2>1, <2>2 DEF Bijection, Injection, Surjection
  <2> QED BY <1>2, <2>3, FS_Bijection DEF ExistsBijection
<1>4. Cardinality({r[2] : r \in renames}) = Cardinality(renames)
  <2> DEFINE side == [r \in renames |-> r[2]]
  <2>1. side \in Surjection(renames, {r[2] : r \in renames})
    BY DEF Surjection
  <2>2. IsInjective(side)
    BY <1>1 DEF IsInjective
  <2> HIDE DEF side
  <2>3. side \in Bijection(renames, {r[2] : r \in renames})
    BY <2>1, <2>2 DEF Bijection, Injection, Surjection
  <2> QED BY <1>2, <2>3, FS_Bijection DEF ExistsBijection
<1> QED BY <1>1, <1>2, <1>3, <1>4 DEF renames

\* buildCorpusDiff: the comparison is a complete account of what the present
\* snapshot holds in terms of the previous one, with every artifact told once.
THEOREM DiffIsComplete == HistorySpec => []DiffReplays
<1>1. ASSUME HistoryInv, diff # Nil PROVE DiffReplays
  <2> DEFINE both    == Artifacts(before) \cap Artifacts(latest)
             same    == {id \in both : HashOf(before, id) = HashOf(latest, id)}
             gone    == Artifacts(before) \ Artifacts(latest)
             come    == Artifacts(latest) \ Artifacts(before)
             renames == PairRenames(before, latest, gone, come)
             from    == {r[1] : r \in renames}
             to      == {r[2] : r \in renames}
  <2>0. diff = [unchanged |-> same, changed |-> both \ same, renames |-> renames,
                removed |-> gone \ from, added |-> come \ to]
    BY <1>1, Zenon DEF HistoryInv, DiffInv, BuildCorpusDiff
  <2>1. /\ diff.unchanged = same /\ diff.changed = both \ same /\ diff.renames = renames
        /\ diff.removed = gone \ from /\ diff.added = come \ to
    <3> HIDE DEF same, both, gone, come, renames, from, to
    <3> QED BY <2>0
  <2>2. gone \in SUBSET (Keys \X Paths) /\ come \in SUBSET (Keys \X Paths)
    BY DEF Artifacts
  <2>3. Cardinality(from) = Cardinality(renames) /\ Cardinality(to) = Cardinality(renames)
    BY <2>2, RenamesAreOneToOne
  <2>4. /\ from \subseteq gone /\ to \subseteq come
        /\ \A r \in renames : HashOf(before, r[1]) = HashOf(latest, r[2])
    BY DEF PairRenames
  <2> HIDE DEF gone, come, renames
  <2>5. /\ Artifacts(before) = same \cup (both \ same) \cup from \cup (gone \ from)
        /\ Artifacts(latest) = same \cup (both \ same) \cup to \cup (come \ to)
    BY <2>4 DEF gone, come
  <2> QED BY <2>1, <2>3, <2>4, <2>5 DEF DiffReplays
<1>2. HistoryInv => DiffReplays
  BY <1>1 DEF DiffReplays
<1> QED BY <1>2, HistoryInvariant, PTL
=============================================================================
