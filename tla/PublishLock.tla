---------------------------- MODULE PublishLock ----------------------------
(***************************************************************************)
(* The exclusive publisher lock of src/src/corpus_publish.ts: an exclusive *)
(* create, the takeover of a lock whose holder is dead, the guard that     *)
(* makes the takeover exclusive, and the reaping of a dead guard.          *)
(*                                                                         *)
(* A lock or guard file is named by the publisher that created it, for its *)
(* text (pid, host, time) is that publisher's alone.  A file is empty from *)
(* its exclusive open to its write.  Every system call is a step.          *)
(***************************************************************************)
EXTENDS Naturals, FiniteSets

CONSTANTS
    Procs,      \* publishers of one output root, each running once
    None,       \* no publisher
    HostOf,     \* the host each publisher runs on
    Leftover,   \* publishers that crashed earlier, one with the lock
    CutWrites,  \* may a crash or an error fall between an open and its write?
    MaxCrashes  \* bound on crashes and failed writes

ASSUME NoneAssumption == None \notin Procs
ASSUME LeftoverAssumption == Leftover \subseteq Procs
ASSUME FlagAssumption == CutWrites \in BOOLEAN
ASSUME BoundAssumption == MaxCrashes \in Nat

VARIABLES
    pc,
    lock,       \* whose `.corpus-publish.lock` stands there
    guard,      \* whose `.takeover` guard stands beside it
    aside,      \* the guard each publisher renamed aside
    written,    \* publishers whose lock file has its text
    vouched,    \* publishers whose guard file has its text
    seenLock,   \* the holder each judges stale
    seenGuard,  \* the guard holder each judges
    tries,      \* attempts at the guard that have failed
    alone,      \* history: publishers no other has run beside
    crashes

files == <<lock, guard, aside, written, vouched>>
notes == <<seenLock, seenGuard, tries>>
vars  == <<pc, files, notes, alone, crashes>>

Waiting == {"new"}
Ended   == {"done", "refused"}
Gone    == {"exited", "crashed", "cut"}     \* cut: crashed inside a takeover
Running == {"read_lock", "judge_lock", "write_lock", "publish", "check_lock", "remove_lock",
            "guard", "write_guard", "read_guard", "look_guard", "judge_guard",
            "reap", "read_aside", "drop_aside", "link_back", "drop_back",
            "reread", "evict", "create", "write_taken", "check_guard", "remove_guard"}
Taking  == {"write_guard", "reread", "evict", "create", "write_taken", "check_guard",
            "remove_guard", "reap", "read_aside", "drop_aside", "link_back", "drop_back"}

TypeOK ==
    /\ pc \in [Procs -> Waiting \cup Running \cup Ended \cup Gone]
    /\ lock \in Procs \cup {None} /\ guard \in Procs \cup {None}
    /\ aside \in [Procs -> Procs \cup {None}]
    /\ written \in SUBSET Procs /\ vouched \in SUBSET Procs
    /\ seenLock \in [Procs -> Procs \cup {None}]
    /\ seenGuard \in [Procs -> Procs \cup {None}]
    /\ tries \in [Procs -> {0, 1}]
    /\ alone \in SUBSET Procs /\ crashes \in Nat

Dead(p) == pc[p] \in Gone
LockText  == IF lock \in written THEN lock ELSE None
GuardText == IF guard \in vouched THEN guard ELSE None

\* Mutant: the pid is looked up here, whatever host the file names.
Mutant_AnyHost(p, q) == Dead(q)

\* A dead process on this host; across hosts a pid proves nothing.
holderIsStale(p, q) == Dead(q) /\ HostOf[q] = HostOf[p]

-----------------------------------------------------------------------------
Init ==
    /\ lock \in Leftover \cup {None}
    /\ guard = None
    /\ pc = [p \in Procs |-> IF p \in Leftover THEN "crashed" ELSE "new"]
    /\ aside = [p \in Procs |-> None]
    /\ written = Leftover /\ vouched = {}
    /\ seenLock = [p \in Procs |-> None] /\ seenGuard = [p \in Procs |-> None]
    /\ tries = [p \in Procs |-> 0]
    /\ alone = {} /\ crashes = 0

At(p, l) == pc[p] = l
Goto(p, l) == pc' = [pc EXCEPT ![p] = l]

-----------------------------------------------------------------------------
(* acquirePublishLock, as far as the takeover *)

\* The exclusive open of the lock: the file is there, and still empty.
Open(p) ==
    /\ At(p, "new")
    /\ alone' = IF \E q \in Procs : pc[q] \in Running THEN {} ELSE {p}
    /\ \/ lock = None /\ lock' = p /\ Goto(p, "write_lock")
       \/ lock # None /\ UNCHANGED lock /\ Goto(p, "read_lock")
    /\ UNCHANGED <<guard, aside, written, vouched, notes, crashes>>

WriteLock(p) ==
    /\ \/ At(p, "write_lock") /\ Goto(p, "publish")
       \/ At(p, "write_taken") /\ Goto(p, "check_guard")
    /\ written' = written \cup {p}
    /\ UNCHANGED <<lock, guard, aside, vouched, notes, alone, crashes>>

\* An absent or empty lock has no readable holder, and is refused.
ReadLock(p) ==
    /\ At(p, "read_lock")
    /\ seenLock' = [seenLock EXCEPT ![p] = LockText]
    /\ Goto(p, IF LockText = None THEN "refused" ELSE "judge_lock")
    /\ UNCHANGED <<files, seenGuard, tries, alone, crashes>>

JudgeLock(p) ==
    /\ At(p, "judge_lock")
    /\ Goto(p, IF holderIsStale(p, seenLock[p]) THEN "guard" ELSE "refused")
    /\ UNCHANGED <<files, notes, alone, crashes>>

-----------------------------------------------------------------------------
(* acquireTakeoverGuard and reapDeadGuard *)

OpenGuard(p) ==
    /\ At(p, "guard")
    /\ \/ guard = None /\ guard' = p /\ Goto(p, "write_guard")
       \/ guard # None /\ UNCHANGED guard /\ Goto(p, "read_guard")
    /\ UNCHANGED <<lock, aside, written, vouched, notes, alone, crashes>>

WriteGuard(p) ==
    /\ At(p, "write_guard")
    /\ vouched' = vouched \cup {p}
    /\ Goto(p, "reread")
    /\ UNCHANGED <<lock, guard, aside, written, notes, alone, crashes>>

ReadGuard(p) ==
    /\ At(p, "read_guard")
    /\ seenGuard' = [seenGuard EXCEPT ![p] = GuardText]
    /\ Goto(p, IF guard = None THEN "look_guard"
               ELSE IF GuardText = None THEN "refused" ELSE "judge_guard")
    /\ UNCHANGED <<files, seenLock, tries, alone, crashes>>

\* The second attempt is the last.
TryAgain(p) ==
    /\ tries' = [tries EXCEPT ![p] = 1]
    /\ Goto(p, IF tries[p] = 0 THEN "guard" ELSE "refused")

\* A guard that could not be read: released meanwhile, or another one by now?
LookGuard(p) ==
    /\ At(p, "look_guard")
    /\ \/ guard = None /\ TryAgain(p)
       \/ guard # None /\ Goto(p, "refused") /\ UNCHANGED tries
    /\ UNCHANGED <<files, seenLock, seenGuard, alone, crashes>>

\* Mutant: a guard is a guard, whoever left it.
Mutant_NeverReaps(p) ==
    /\ At(p, "judge_guard") /\ Goto(p, "refused")
    /\ UNCHANGED <<files, notes, alone, crashes>>

JudgeGuard(p) ==
    /\ At(p, "judge_guard")
    /\ Goto(p, IF tries[p] = 0 /\ holderIsStale(p, seenGuard[p]) THEN "reap" ELSE "refused")
    /\ UNCHANGED <<files, notes, alone, crashes>>

\* rename moves whatever guard stands there now.
Reap(p) ==
    /\ At(p, "reap")
    /\ \/ /\ guard # None /\ guard' = None
          /\ aside' = [aside EXCEPT ![p] = guard]
          /\ Goto(p, "read_aside") /\ UNCHANGED tries
       \/ guard = None /\ TryAgain(p) /\ UNCHANGED <<guard, aside>>
    /\ UNCHANGED <<lock, written, vouched, seenLock, seenGuard, alone, crashes>>

\* Mutant: what was moved is taken for what was read.
Mutant_DropsAnyGuard(p) ==
    /\ At(p, "read_aside") /\ Goto(p, "drop_aside")
    /\ UNCHANGED <<files, notes, alone, crashes>>

ReadAside(p) ==
    /\ At(p, "read_aside")
    /\ Goto(p, IF aside[p] = seenGuard[p] THEN "drop_aside" ELSE "link_back")
    /\ UNCHANGED <<files, notes, alone, crashes>>

DropAside(p) ==
    /\ At(p, "drop_aside") /\ TryAgain(p)
    /\ aside' = [aside EXCEPT ![p] = None]
    /\ UNCHANGED <<lock, guard, written, vouched, seenLock, seenGuard, alone, crashes>>

\* A live guard goes back, unless a third one stands there already.
LinkBack(p) ==
    /\ At(p, "link_back") /\ Goto(p, "drop_back")
    /\ guard' = IF guard = None THEN aside[p] ELSE guard
    /\ UNCHANGED <<lock, aside, written, vouched, notes, alone, crashes>>

DropBack(p) ==
    /\ At(p, "drop_back") /\ Goto(p, "refused")
    /\ aside' = [aside EXCEPT ![p] = None]
    /\ UNCHANGED <<lock, guard, written, vouched, notes, alone, crashes>>

-----------------------------------------------------------------------------
(* acquirePublishLock, under the guard *)

\* Mutant: the lock judged stale is removed without another look.
Mutant_NoSecondLook(p) ==
    /\ At(p, "reread") /\ Goto(p, "evict")
    /\ UNCHANGED <<files, notes, alone, crashes>>

Reread(p) ==
    /\ At(p, "reread")
    /\ Goto(p, IF LockText = seenLock[p] THEN "evict" ELSE "create")
    /\ UNCHANGED <<files, notes, alone, crashes>>

Evict(p) ==
    /\ At(p, "evict") /\ Goto(p, "create")
    /\ lock' = None
    /\ UNCHANGED <<guard, aside, written, vouched, notes, alone, crashes>>

Create(p) ==
    /\ At(p, "create")
    /\ \/ lock = None /\ lock' = p /\ Goto(p, "write_taken")
       \/ lock # None /\ UNCHANGED lock /\ Goto(p, "check_guard")
    /\ UNCHANGED <<guard, aside, written, vouched, notes, alone, crashes>>

Leave(p) == Goto(p, IF p \in written THEN "publish" ELSE "refused")

\* releaseOwned(guard), in the `finally`: only while it is this publisher's.
CheckGuard(p) ==
    /\ At(p, "check_guard")
    /\ IF guard = p THEN Goto(p, "remove_guard") ELSE Leave(p)
    /\ UNCHANGED <<files, notes, alone, crashes>>

RemoveGuard(p) ==
    /\ At(p, "remove_guard") /\ Leave(p)
    /\ guard' = None
    /\ UNCHANGED <<lock, aside, written, vouched, notes, alone, crashes>>

-----------------------------------------------------------------------------
(* publishCorpusGeneration's `finally`: releaseOwned(lock) *)

Published(p) ==
    /\ At(p, "publish") /\ Goto(p, "check_lock")
    /\ UNCHANGED <<files, notes, alone, crashes>>

CheckLock(p) ==
    /\ At(p, "check_lock") /\ Goto(p, IF lock = p THEN "remove_lock" ELSE "done")
    /\ UNCHANGED <<files, notes, alone, crashes>>

RemoveLock(p) ==
    /\ At(p, "remove_lock") /\ Goto(p, "done")
    /\ lock' = None
    /\ UNCHANGED <<guard, aside, written, vouched, notes, alone, crashes>>

-----------------------------------------------------------------------------
(* The processes *)

Writing == {"write_lock", "write_guard", "write_taken"}

Fault == crashes < MaxCrashes /\ crashes' = crashes + 1

Crash(p) ==
    /\ Fault /\ pc[p] \in Running /\ (CutWrites \/ pc[p] \notin Writing)
    /\ Goto(p, IF pc[p] \in Taking THEN "cut" ELSE "crashed")
    /\ UNCHANGED <<files, notes, alone>>

\* A disk that is full fails the write; the file stays behind, empty.
WriteFails(p) ==
    /\ Fault /\ CutWrites /\ pc[p] \in Writing
    /\ Goto(p, IF pc[p] = "write_taken" THEN "check_guard" ELSE "refused")
    /\ alone' = alone \ {p}
    /\ UNCHANGED <<files, notes>>

Exit(p) ==
    /\ pc[p] \in Ended /\ Goto(p, "exited")
    /\ UNCHANGED <<files, notes, alone, crashes>>

Acquire(p) ==
    \/ Open(p) \/ WriteLock(p) \/ ReadLock(p) \/ JudgeLock(p)
    \/ OpenGuard(p) \/ WriteGuard(p) \/ ReadGuard(p) \/ LookGuard(p) \/ JudgeGuard(p)
    \/ Reap(p) \/ ReadAside(p) \/ DropAside(p) \/ LinkBack(p) \/ DropBack(p)
    \/ Reread(p) \/ Evict(p) \/ Create(p) \/ CheckGuard(p) \/ RemoveGuard(p)
Release(p) == Published(p) \/ CheckLock(p) \/ RemoveLock(p)

Next == \E p \in Procs : Acquire(p) \/ Release(p) \/ Crash(p) \/ WriteFails(p) \/ Exit(p)

Spec == Init /\ [][Next]_vars
-----------------------------------------------------------------------------
(* Properties *)

(* ADR-066: one publisher per output root.                                  *)
AtMostOnePublisher ==
    \A p, q \in Procs : pc[p] = "publish" /\ pc[q] = "publish" => p = q

(* A lock is taken from nobody but the dead: the lock of a living publisher *)
(* goes by its own release.                                                 *)
TakenOnlyFromTheDead ==
    [][\A p \in Procs : lock = p /\ lock' # p => Dead(p) \/ pc'[p] = "done"]_vars

(* What earlier publishers left never wedges the next one: one that runs    *)
(* beside no other is refused only for a file of another host, for one      *)
(* whose writer was cut short and which names nobody, or for a guard that   *)
(* was put back behind a publisher that has ended and has still to exit.    *)
LonersPublish ==
    [][\A p \in alone : pc[p] # "refused" /\ pc'[p] = "refused" =>
         \/ lock # None /\ (lock \notin written \/ HostOf[lock] # HostOf[p])
         \/ guard # None /\ (\/ guard \notin vouched \/ HostOf[guard] # HostOf[p]
                            \/ pc[guard] \in Ended)]_vars

(* Across hosts a pid proves nothing: no publisher removes the lock of one  *)
(* on another host.                                                         *)
OtherHostsKeepTheirs ==
    [][\A p, q \in Procs :
         lock = p /\ lock' # p /\ pc'[q] # pc[q] => HostOf[q] = HostOf[p]]_vars

Lock == INSTANCE ExclusiveLock WITH
    holder <- IF \E p \in Procs : pc[p] = "publish"
              THEN CHOOSE p \in Procs : pc[p] = "publish"
              ELSE None

(* The lock files implement an exclusive lock.                              *)
IsExclusive == Lock!Spec
=============================================================================
