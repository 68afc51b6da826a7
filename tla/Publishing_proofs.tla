------------------------- MODULE Publishing_proofs -------------------------
(***************************************************************************)
(* Proofs about PublishLock, for any number of publishers on any hosts,    *)
(* with any number of crashes, failed writes and leftovers.  As long as    *)
(* what is renamed aside is the guard that was judged dead, at most one    *)
(* publisher holds the output root, and no lock is taken from the living   *)
(* or from another host (a run shows that a guard taken anew in between is *)
(* what can break it); and with no such condition, what earlier publishers *)
(* left never wedges one that runs alone.  And about CorpusPublish, for    *)
(* any publishers, generations, files, retention and re-publication: what  *)
(* a reader resolves is a whole generation and changes in one step, and    *)
(* retention goes by the order of the switches.                            *)
(***************************************************************************)
EXTENDS PublishLock, CorpusPublish, FiniteSetTheorems, WellFoundedInduction, TLAPS

-----------------------------------------------------------------------------
(* The publisher lock *)

\* A rename moves aside the guard that was judged dead, or finds none: nobody else has
\* reaped it and taken the guard in between.
JudgedOnly == \A p \in Procs : Reap(p) => guard \in {None, seenGuard[p]}

Reaping == {"reap", "read_aside", "drop_aside"}
Guarded == {"write_guard", "reread", "evict", "create", "write_taken", "check_guard",
            "remove_guard"}
Holding == {"write_lock", "publish", "check_lock", "remove_lock", "write_taken"}
Early   == {"new", "read_lock", "judge_lock", "write_lock", "guard", "read_guard",
            "look_guard", "judge_guard", "write_guard", "reread", "evict", "create",
            "write_taken"} \cup Reaping

\* The guard stands for whoever works under it.
GuardInv == \A p \in Procs : pc[p] \in Guarded => guard = p

\* The lock stands for whoever has created it and lives.
LockInv ==
    /\ \A p \in Procs : pc[p] \in Holding => lock = p
    /\ \A p \in Procs : pc[p] \in Early => p \notin written
    /\ \A p \in Procs : pc[p] \in {"check_guard", "remove_guard"} /\ p \in written => lock = p

\* What is judged stale is dead, stays so, and ran on this host.
StaleInv ==
    /\ \A p \in Procs : pc[p] \in {"guard", "read_guard", "look_guard", "judge_guard"} \cup Guarded \cup Reaping
                          => /\ seenLock[p] \in Procs /\ Dead(seenLock[p])
                             /\ HostOf[seenLock[p]] = HostOf[p]
    /\ \A p \in Procs : pc[p] = "judge_lock" => seenLock[p] \in Procs
    /\ \A p \in Procs : pc[p] = "evict" => lock = seenLock[p]

\* What is reaped was a dead publisher's, and is not put back.
ReapInv ==
    \A p \in Procs :
        /\ pc[p] = "judge_guard" => seenGuard[p] \in Procs
        /\ pc[p] \in Reaping => seenGuard[p] \in Procs /\ Dead(seenGuard[p])
        /\ pc[p] = "read_aside" => aside[p] = seenGuard[p]
        /\ pc[p] \notin {"link_back", "drop_back"}

LockingInv ==
    /\ TypeOK
    /\ GuardInv
    /\ LockInv
    /\ StaleInv
    /\ ReapInv

-----------------------------------------------------------------------------
(* Type correctness *)

LEMMA TypeInit == Init => TypeOK
BY LeftoverAssumption DEF Init, TypeOK, Waiting, Running, Ended, Gone

LEMMA TypeStep == TypeOK /\ [Next]_vars => TypeOK'
<1> SUFFICES ASSUME TypeOK, [Next]_vars PROVE TypeOK'
  OBVIOUS
<1> USE DEF TypeOK, files, notes
<1>1. ASSUME NEW p \in Procs, NEW l \in Waiting \cup Running \cup Ended \cup Gone, Goto(p, l)
      PROVE  pc' \in [Procs -> Waiting \cup Running \cup Ended \cup Gone]
  BY <1>1 DEF Goto
<1>2. LockText \in Procs \cup {None} /\ GuardText \in Procs \cup {None}
  BY DEF LockText, GuardText
<1>3. ASSUME NEW p \in Procs, Acquire(p) PROVE TypeOK'
  <2>1. CASE Open(p) \/ WriteLock(p) \/ ReadLock(p) \/ JudgeLock(p)
    BY <1>2, <2>1 DEF Open, WriteLock, ReadLock, JudgeLock, Goto, Waiting, Running, Ended, Gone
  <2>2. CASE OpenGuard(p) \/ WriteGuard(p) \/ ReadGuard(p) \/ LookGuard(p) \/ JudgeGuard(p)
    BY <1>2, <2>2 DEF OpenGuard, WriteGuard, ReadGuard, LookGuard, JudgeGuard, TryAgain, Goto,
                      Waiting, Running, Ended, Gone
  <2>3. CASE Reap(p) \/ ReadAside(p) \/ DropAside(p) \/ LinkBack(p) \/ DropBack(p)
    BY <2>3 DEF Reap, ReadAside, DropAside, LinkBack, DropBack, TryAgain, Goto,
                Waiting, Running, Ended, Gone
  <2>4. CASE Reread(p) \/ Evict(p) \/ Create(p) \/ CheckGuard(p) \/ RemoveGuard(p)
    BY <2>4 DEF Reread, Evict, Create, CheckGuard, RemoveGuard, Leave, Goto,
                Waiting, Running, Ended, Gone
  <2> QED BY <1>3, <2>1, <2>2, <2>3, <2>4 DEF Acquire
<1>4. ASSUME NEW p \in Procs, Release(p) \/ Crash(p) \/ WriteFails(p) \/ Exit(p) PROVE TypeOK'
  BY <1>4 DEF Release, Published, CheckLock, RemoveLock, Crash, WriteFails, Exit, Fault, Goto,
              Waiting, Running, Ended, Gone
<1>5. CASE UNCHANGED vars
  BY <1>5 DEF vars
<1> QED BY <1>3, <1>4, <1>5 DEF Next

(* Every variable stays in its type, whatever crashes or is reaped.         *)
THEOREM TypeCorrect == Spec => []TypeOK
<1> QED BY TypeInit, TypeStep, PTL DEF Spec

-----------------------------------------------------------------------------
(* Exclusion, as long as what is reaped is what was judged *)

LEMMA LockingStarts == Init => LockingInv
<1> SUFFICES ASSUME Init PROVE LockingInv
  OBVIOUS
<1>1. \A p \in Procs : pc[p] \in {"new", "crashed"}
  BY DEF Init
<1>2. \A p \in Procs : pc[p] = "new" => p \notin written
  BY DEF Init
<1> QED BY <1>1, <1>2, TypeInit
        DEF LockingInv, GuardInv, LockInv, StaleInv, ReapInv, Reaping, Guarded, Holding, Early

\* A step of p moves p alone, and revives nobody.
LEMMA OneMoves ==
  ASSUME TypeOK, NEW p \in Procs,
         Acquire(p) \/ Release(p) \/ Crash(p) \/ WriteFails(p) \/ Exit(p)
  PROVE  /\ \A q \in Procs \ {p} : pc'[q] = pc[q]
         /\ \A q \in Procs : Dead(q) => Dead(q)'
  <1>1. PICK l : Goto(p, l) /\ (pc[p] \in Gone => FALSE)
    BY Zenon DEF Acquire, Release, Open, WriteLock, ReadLock, JudgeLock, OpenGuard, WriteGuard,
       ReadGuard, LookGuard, JudgeGuard, Reap, ReadAside, DropAside, LinkBack, DropBack, TryAgain,
       Reread, Evict, Create, CheckGuard, RemoveGuard, Leave, Published, CheckLock, RemoveLock,
       Crash, WriteFails, Exit, At, Gone, Running, Ended, Writing
  <1> QED BY <1>1 DEF Goto, TypeOK, Dead

\* No step breaks the invariant, unless it renames aside a guard nobody judged.
LEMMA LockingSteps == ASSUME LockingInv, [JudgedOnly]_vars, [Next]_vars PROVE LockingInv'
<1> USE DEF At, Goto, files, notes
<1>1. TypeOK'
  BY TypeStep DEF LockingInv
<1>2. ASSUME NEW p \in Procs, Acquire(p) \/ Release(p) \/ Crash(p) \/ WriteFails(p) \/ Exit(p)
      PROVE  LockingInv'
  <2> USE <1>1, <1>2, OneMoves, NoneAssumption DEF TypeOK, LockingInv, GuardInv, LockInv, StaleInv, ReapInv, Reaping, Guarded, Holding, Early, Dead, Gone
  <2>1. CASE Open(p) \/ WriteLock(p)
    BY <2>1 DEF Open, WriteLock
  <2>2. CASE ReadLock(p)
    BY <2>2 DEF ReadLock, LockText
  <2>3. CASE JudgeLock(p)
    BY <2>3 DEF JudgeLock, holderIsStale
  <2>4. CASE OpenGuard(p) \/ WriteGuard(p)
    BY <2>4 DEF OpenGuard, WriteGuard
  <2>5. CASE ReadGuard(p) \/ LookGuard(p)
    BY <2>5 DEF ReadGuard, LookGuard, TryAgain, GuardText
  <2>6. CASE Reap(p) \/ ReadAside(p) \/ DropAside(p) \/ LinkBack(p) \/ DropBack(p)
    BY <2>6 DEF Reap, ReadAside, DropAside, LinkBack, DropBack, TryAgain, JudgedOnly, vars
  <2>7. CASE JudgeGuard(p)
    BY <2>7 DEF JudgeGuard, holderIsStale
  <2>8. CASE Reread(p)
    BY <2>8 DEF Reread, LockText
  <2>9. CASE Evict(p)
    BY <2>9 DEF Evict
  <2>10. CASE Create(p)
    BY <2>10 DEF Create
  <2>11. CASE CheckGuard(p) \/ RemoveGuard(p)
    BY <2>11 DEF CheckGuard, RemoveGuard, Leave
  <2>12. CASE Published(p) \/ CheckLock(p) \/ RemoveLock(p)
    BY <2>12 DEF Published, CheckLock, RemoveLock
  <2>13. CASE Crash(p)
    BY <2>13 DEF Crash, Fault, Running, Taking
  <2>14. CASE WriteFails(p)
    BY <2>14 DEF WriteFails, Fault, Writing
  <2>15. CASE Exit(p)
    BY <2>15 DEF Exit, Ended
  <2> QED BY <1>2, <2>1, <2>2, <2>3, <2>4, <2>5, <2>6, <2>7, <2>8, <2>9, <2>10, <2>11, <2>12, <2>13, <2>14, <2>15 DEF Acquire, Release
<1>3. CASE UNCHANGED vars
  BY <1>1, <1>3 DEF vars, TypeOK, LockingInv, GuardInv, LockInv, StaleInv, ReapInv, Reaping, Guarded, Holding, Early, Dead, Gone
<1> QED BY <1>2, <1>3 DEF Next

LEMMA Exclusion == LockingInv => AtMostOnePublisher
BY DEF LockingInv, LockInv, Holding, AtMostOnePublisher

(* As long as only guards judged dead are renamed aside, at most one        *)
(* publisher is publishing, however many race for the same stale lock, reap *)
(* the guards left there, and crash.                                        *)
THEOREM OnePublisher == Spec /\ [][JudgedOnly]_vars => []AtMostOnePublisher
<1>1. LockingInv /\ [JudgedOnly]_vars /\ [Next]_vars => LockingInv'
  BY LockingSteps
<1> QED BY LockingStarts, <1>1, Exclusion, PTL DEF Spec

LEMMA TakenStep ==
  ASSUME LockingInv, [Next]_vars
  PROVE  \A p \in Procs : lock = p /\ lock' # p => Dead(p) \/ pc'[p] = "done"
<1> SUFFICES ASSUME NEW p \in Procs, lock = p, lock' # p, ~Dead(p) PROVE pc'[p] = "done"
  OBVIOUS
<1>1. PICK q \in Procs : Acquire(q) \/ Release(q) \/ Crash(q) \/ WriteFails(q) \/ Exit(q)
  BY DEF Next, vars, files
<1>2. CASE Evict(q) \/ Open(q) \/ Create(q)
  BY <1>2, NoneAssumption DEF Evict, Open, Create, At, LockingInv, StaleInv, Guarded
<1>3. CASE RemoveLock(q)
  BY <1>3 DEF RemoveLock, At, Goto, LockingInv, TypeOK, LockInv, Holding
<1>4. CASE lock' = lock
  BY <1>4
<1> QED BY <1>1, <1>2, <1>3, <1>4
        DEF Acquire, Release, WriteLock, ReadLock, JudgeLock, OpenGuard, WriteGuard, ReadGuard,
            LookGuard, JudgeGuard, Reap, ReadAside, DropAside, LinkBack, DropBack, Reread,
            CheckGuard, RemoveGuard, Published, CheckLock, Crash, WriteFails, Exit, files

(* As long as only guards judged dead are renamed aside, the lock of a      *)
(* living publisher goes only by its own release.                           *)
THEOREM LivingKeepTheirLock == Spec /\ [][JudgedOnly]_vars => TakenOnlyFromTheDead
<1>1. LockingInv /\ [JudgedOnly]_vars /\ [Next]_vars => LockingInv'
  BY LockingSteps
<1>2. LockingInv /\ [Next]_vars
        => \A p \in Procs : lock = p /\ lock' # p => Dead(p) \/ pc'[p] = "done"
  BY TakenStep
<1> QED BY LockingStarts, <1>1, <1>2, PTL DEF Spec, TakenOnlyFromTheDead

LEMMA HostStep ==
  ASSUME LockingInv, [Next]_vars
  PROVE  \A p, q \in Procs : lock = p /\ lock' # p /\ pc'[q] # pc[q] => HostOf[q] = HostOf[p]
<1> SUFFICES ASSUME NEW p \in Procs, NEW q \in Procs, lock = p, lock' # p, pc'[q] # pc[q]
             PROVE  HostOf[q] = HostOf[p]
  OBVIOUS
<1>1. PICK m \in Procs : Acquire(m) \/ Release(m) \/ Crash(m) \/ WriteFails(m) \/ Exit(m)
  BY DEF Next, vars, files
<1>2. q = m
  BY <1>1, OneMoves DEF LockingInv
<1>3. CASE Evict(q) \/ Open(q) \/ Create(q)
  BY <1>3, NoneAssumption DEF Evict, Open, Create, At, LockingInv, StaleInv, Guarded
<1>4. CASE RemoveLock(q)
  BY <1>4 DEF RemoveLock, At, LockingInv, LockInv, Holding
<1>5. CASE lock' = lock
  BY <1>5
<1> QED BY <1>1, <1>2, <1>3, <1>4, <1>5
        DEF Acquire, Release, WriteLock, ReadLock, JudgeLock, OpenGuard, WriteGuard, ReadGuard,
            LookGuard, JudgeGuard, Reap, ReadAside, DropAside, LinkBack, DropBack, Reread,
            CheckGuard, RemoveGuard, Published, CheckLock, Crash, WriteFails, Exit, files

(* As long as only guards judged dead are renamed aside, no publisher       *)
(* removes the lock of one on another host, however stale it looks.         *)
THEOREM OtherHostsAreLeftAlone == Spec /\ [][JudgedOnly]_vars => OtherHostsKeepTheirs
<1>1. LockingInv /\ [JudgedOnly]_vars /\ [Next]_vars => LockingInv'
  BY LockingSteps
<1>2. LockingInv /\ [Next]_vars
        => \A p, q \in Procs :
             lock = p /\ lock' # p /\ pc'[q] # pc[q] => HostOf[q] = HostOf[p]
  BY HostStep
<1> QED BY LockingStarts, <1>1, <1>2, PTL DEF Spec, OtherHostsKeepTheirs

-----------------------------------------------------------------------------
(* A publisher that runs alone *)

Before   == Early \cup {"link_back", "drop_back"}
Unguarded == {"new", "read_lock", "judge_lock", "write_lock", "guard", "read_guard", "look_guard",
              "judge_guard", "write_guard", "reap", "read_aside", "drop_aside", "link_back",
              "drop_back"}

\* What a publisher has left behind on its way to where it is.
TrailInv ==
    \A q \in Procs :
        /\ pc[q] \in Before \cup {"refused"} => q \notin written
        /\ pc[q] \in Unguarded => q \notin vouched
        /\ pc[q] \in {"new", "read_lock", "judge_lock"} => tries[q] = 0
        /\ pc[q] = "done" => lock # q
        /\ pc[q] = "new" => lock # q /\ guard # q /\ \A r \in Procs : aside[r] # q

\* Beside a publisher that runs alone nobody moves.
AloneInv == \A p \in alone : \A q \in Procs \ {p} : pc[q] \notin Running

JudgedLock(p) == lock = seenLock[p] /\ lock \in written

\* So what it has seen is what still stands there.
SeenInv ==
    \A p \in alone :
        /\ pc[p] = "read_lock" => lock # None
        /\ pc[p] = "write_lock" => lock = p
        /\ pc[p] \in {"judge_lock", "guard", "read_guard", "judge_guard", "reap", "read_aside",
                      "drop_aside", "write_guard", "reread"} => JudgedLock(p)
        /\ pc[p] = "guard" /\ tries[p] = 1 => guard = None
        /\ pc[p] \in {"read_guard", "judge_guard", "reap", "read_aside", "drop_aside"} => tries[p] = 0
        /\ pc[p] = "read_guard" => guard # None
        /\ pc[p] = "judge_guard" => guard = seenGuard[p] /\ guard \in vouched
        /\ pc[p] = "reap" => guard = seenGuard[p] /\ guard # None
        /\ pc[p] = "read_aside" => aside[p] = seenGuard[p]
        /\ pc[p] \in {"read_aside", "drop_aside"} => guard = None
        /\ pc[p] \in {"write_guard", "reread"} => guard = p
        /\ pc[p] = "create" => lock = None
        /\ pc[p] \in {"check_guard", "remove_guard"} => p \in written
        /\ pc[p] \notin {"look_guard", "link_back", "drop_back"}

LonerInv == TypeOK /\ TrailInv /\ AloneInv /\ SeenInv

LEMMA LonerStarts == Init => LonerInv
<1> SUFFICES ASSUME Init PROVE LonerInv
  OBVIOUS
<1>1. \A q \in Procs : /\ pc[q] \in {"new", "crashed"} /\ tries[q] = 0 /\ aside[q] = None
                       /\ pc[q] = "new" => q \notin written /\ lock # q
  BY LeftoverAssumption, NoneAssumption DEF Init
<1>2. alone = {} /\ vouched = {} /\ guard = None
  BY DEF Init
<1>3. TrailInv
  BY <1>1, <1>2, NoneAssumption DEF TrailInv, Before, Early, Reaping, Unguarded
<1> QED BY <1>2, <1>3, TypeInit DEF LonerInv, AloneInv, SeenInv

LEMMA TrailSteps == ASSUME LonerInv, [Next]_vars PROVE TrailInv'
<1> USE DEF At, Goto, files, notes
<1>1. TypeOK'
  BY TypeStep DEF LonerInv
<1>2. ASSUME NEW p \in Procs, Acquire(p) \/ Release(p) \/ Crash(p) \/ WriteFails(p) \/ Exit(p)
      PROVE  TrailInv'
  <2> USE <1>1, <1>2, NoneAssumption DEF TypeOK, LonerInv, TrailInv, Before, Early, Reaping, Unguarded
  <2>1. CASE Open(p) \/ WriteLock(p) \/ ReadLock(p) \/ JudgeLock(p)
    BY <2>1 DEF Open, WriteLock, ReadLock, JudgeLock
  <2>2. CASE OpenGuard(p) \/ WriteGuard(p) \/ ReadGuard(p) \/ LookGuard(p) \/ JudgeGuard(p)
    BY <2>2 DEF OpenGuard, WriteGuard, ReadGuard, LookGuard, JudgeGuard, TryAgain
  <2>3. CASE Reap(p) \/ ReadAside(p) \/ DropAside(p) \/ LinkBack(p) \/ DropBack(p)
    BY <2>3 DEF Reap, ReadAside, DropAside, LinkBack, DropBack, TryAgain
  <2>4. CASE Reread(p) \/ Evict(p) \/ Create(p) \/ CheckGuard(p) \/ RemoveGuard(p)
    BY <2>4 DEF Reread, Evict, Create, CheckGuard, RemoveGuard, Leave
  <2>5. CASE Published(p) \/ CheckLock(p) \/ RemoveLock(p)
    BY <2>5 DEF Published, CheckLock, RemoveLock
  <2>6. CASE Crash(p) \/ WriteFails(p) \/ Exit(p)
    BY <2>6 DEF Crash, WriteFails, Exit, Fault, Writing
  <2> QED BY <1>2, <2>1, <2>2, <2>3, <2>4, <2>5, <2>6 DEF Acquire, Release
<1>3. CASE UNCHANGED vars
  BY <1>3 DEF vars, LonerInv, TrailInv
<1> QED BY <1>2, <1>3 DEF Next

\* Whoever runs alone is the one that has moved, unless one that had ended exits.
LEMMA AloneSteps ==
  ASSUME LonerInv, NEW r \in Procs,
         Acquire(r) \/ Release(r) \/ Crash(r) \/ WriteFails(r) \/ Exit(r)
  PROVE  /\ AloneInv'
         /\ \A p \in alone' : p = r \/ (p \in alone /\ Exit(r))
<1>1. CASE Open(r)
  BY <1>1, OneMoves DEF Open, LonerInv, AloneInv
<1>2. CASE ~Open(r)
  <2>1. alone' \subseteq alone /\ (pc[r] \in Running \/ Exit(r))
    BY <1>2, Zenon DEF Acquire, Release, WriteLock, ReadLock, JudgeLock, OpenGuard, WriteGuard,
       ReadGuard, LookGuard, JudgeGuard, Reap, ReadAside, DropAside, LinkBack, DropBack, TryAgain,
       Reread, Evict, Create, CheckGuard, RemoveGuard, Leave, Published, CheckLock, RemoveLock,
       Crash, WriteFails, Exit, At, Running, Writing
  <2>2. \A p \in alone' : p = r \/ (p \in alone /\ Exit(r))
    BY <2>1 DEF LonerInv, AloneInv
  <2>3. AloneInv'
    <3>1. CASE Exit(r)
      BY <3>1, <2>1, OneMoves DEF Exit, Goto, LonerInv, TypeOK, AloneInv, Running
    <3>2. CASE ~Exit(r)
      BY <3>2, <2>1, <2>2, OneMoves DEF LonerInv, AloneInv
    <3> QED BY <3>1, <3>2
  <2> QED BY <2>2, <2>3
<1> QED BY <1>1, <1>2

LEMMA LonerSteps == ASSUME LonerInv, [Next]_vars PROVE LonerInv'
<1> USE DEF At, Goto, files, notes
<1>1. TypeOK' /\ TrailInv'
  BY TypeStep, TrailSteps DEF LonerInv
<1>2. ASSUME NEW p \in Procs, Acquire(p) \/ Release(p) \/ Crash(p) \/ WriteFails(p) \/ Exit(p)
      PROVE  LonerInv'
  <2>0. AloneInv' /\ (\A q \in alone' : q = p \/ (q \in alone /\ Exit(p)))
    BY <1>2, AloneSteps
  <2> SUFFICES SeenInv'
    BY <1>1, <2>0 DEF LonerInv
  <2>e. CASE Exit(p)
    BY <2>e, OneMoves DEF Exit, LonerInv, SeenInv, JudgedLock, TypeOK, Ended
  <2> SUFFICES ASSUME ~Exit(p), p \in alone' PROVE SeenInv'
    BY <2>e, <2>0 DEF SeenInv
  <2>a. alone' \subseteq {p}
    BY <2>0
  <2> USE <1>1, <2>a, NoneAssumption DEF TypeOK, LonerInv, TrailInv, Before, Early, Reaping, Unguarded, SeenInv, JudgedLock
  <2>1. CASE Open(p) \/ WriteLock(p)
    BY <2>1 DEF Open, WriteLock
  <2>2. CASE ReadLock(p) \/ JudgeLock(p)
    BY <2>2 DEF ReadLock, JudgeLock, LockText
  <2>3. CASE OpenGuard(p) \/ WriteGuard(p)
    BY <2>3 DEF OpenGuard, WriteGuard
  <2>4. CASE ReadGuard(p) \/ LookGuard(p)
    BY <2>4 DEF ReadGuard, LookGuard, GuardText
  <2>5. CASE JudgeGuard(p) \/ Reap(p)
    BY <2>5 DEF JudgeGuard, Reap
  <2>6. CASE ReadAside(p) \/ DropAside(p) \/ LinkBack(p) \/ DropBack(p)
    BY <2>6 DEF ReadAside, DropAside, LinkBack, DropBack, TryAgain
  <2>7. CASE Reread(p) \/ Evict(p)
    BY <2>7 DEF Reread, Evict, LockText
  <2>8. CASE Create(p) \/ CheckGuard(p) \/ RemoveGuard(p)
    BY <2>8 DEF Create, CheckGuard, RemoveGuard, Leave
  <2>9. CASE Published(p) \/ CheckLock(p) \/ RemoveLock(p)
    BY <2>9 DEF Published, CheckLock, RemoveLock
  <2>10. CASE Crash(p) \/ WriteFails(p)
    BY <2>10 DEF Crash, WriteFails, Fault, Writing
  <2> QED BY <1>2, <2>1, <2>2, <2>3, <2>4, <2>5, <2>6, <2>7, <2>8, <2>9, <2>10 DEF Acquire, Release
<1>3. CASE UNCHANGED vars
  BY <1>1, <1>3 DEF vars, LonerInv, AloneInv, SeenInv, JudgedLock
<1> QED BY <1>2, <1>3 DEF Next

LEMMA RefusalStep ==
  ASSUME LonerInv, [Next]_vars, NEW p \in alone, pc[p] # "refused", pc'[p] = "refused"
  PROVE  \/ lock # None /\ (lock \notin written \/ HostOf[lock] # HostOf[p])
         \/ guard # None /\ (\/ guard \notin vouched \/ HostOf[guard] # HostOf[p]
                            \/ pc[guard] \in Ended)
<1> USE DEF At, Goto
<1>0. p \in Procs /\ alone \subseteq Procs
  BY DEF LonerInv, TypeOK
<1>1. PICK r \in Procs : Acquire(r) \/ Release(r) \/ Crash(r) \/ WriteFails(r) \/ Exit(r)
  BY DEF Next, vars
<1>2. r = p
  BY <1>0, <1>1, OneMoves DEF LonerInv
<1> USE <1>0, NoneAssumption DEF LonerInv, TypeOK
<1>3. CASE ReadLock(p) \/ WriteFails(p)
  BY <1>3 DEF ReadLock, WriteFails, LockText, Writing, TrailInv, SeenInv, Before, Early, Unguarded
<1>4. CASE JudgeLock(p)
  <2>1. lock = seenLock[p] /\ lock \in written /\ lock # p
    BY <1>4 DEF JudgeLock, SeenInv, JudgedLock, TrailInv, Before, Early
  <2>2. lock \in Procs /\ pc[lock] \notin Running
    BY <2>1 DEF AloneInv
  <2>3. pc[lock] \notin {"new", "refused", "done"}
    BY <2>1, <2>2 DEF TrailInv, Before, Early
  <2>4. Dead(lock)
    BY <2>2, <2>3 DEF Dead, Waiting, Ended
  <2> QED BY <1>4, <2>1, <2>2, <2>4 DEF JudgeLock, holderIsStale
<1>5. CASE ReadGuard(p)
  BY <1>5 DEF ReadGuard, GuardText, SeenInv
<1>6. CASE JudgeGuard(p)
  <2>1. guard = seenGuard[p] /\ guard \in vouched /\ guard # p /\ tries[p] = 0
    BY <1>6 DEF JudgeGuard, SeenInv, TrailInv, Unguarded
  <2>2. guard \in Procs /\ pc[guard] \notin Running
    BY <2>1 DEF AloneInv
  <2>3. pc[guard] # "new"
    BY <2>2 DEF TrailInv
  <2>4. CASE Dead(guard)
    BY <1>6, <2>1, <2>2, <2>4 DEF JudgeGuard, holderIsStale
  <2> QED BY <2>2, <2>3, <2>4 DEF Dead, Waiting
<1>7. CASE LookGuard(p) \/ Reap(p) \/ DropAside(p) \/ DropBack(p)
  BY <1>7 DEF LookGuard, Reap, DropAside, DropBack, TryAgain, SeenInv
<1>8. CASE CheckGuard(p) \/ RemoveGuard(p)
  BY <1>8 DEF CheckGuard, RemoveGuard, Leave, SeenInv
<1>9. CASE \/ Open(p) \/ WriteLock(p) \/ OpenGuard(p) \/ WriteGuard(p) \/ ReadAside(p) \/ LinkBack(p)
           \/ Reread(p) \/ Evict(p) \/ Create(p) \/ Release(p) \/ Crash(p) \/ Exit(p)
  BY <1>9 DEF Open, WriteLock, OpenGuard, WriteGuard, ReadAside, LinkBack, Reread, Evict, Create,
              Release, Published, CheckLock, RemoveLock, Crash, Exit
<1> QED BY <1>1, <1>2, <1>3, <1>4, <1>5, <1>6, <1>7, <1>8, <1>9 DEF Acquire

(* Whatever earlier publishers left, however many and wherever they were    *)
(* cut short, a publisher that runs beside no other is refused only for a   *)
(* file of another host, for an empty one, or for the guard of one that has *)
(* still to exit.  Here nothing is asked of the reaping.                    *)
THEOREM NothingLeftWedgesALoner == Spec => LonersPublish
<1>1. LonerInv /\ [Next]_vars => LonerInv'
  BY LonerSteps
<1>2. LonerInv /\ [Next]_vars =>
        \A p \in alone : pc[p] # "refused" /\ pc'[p] = "refused" =>
          \/ lock # None /\ (lock \notin written \/ HostOf[lock] # HostOf[p])
          \/ guard # None /\ (\/ guard \notin vouched \/ HostOf[guard] # HostOf[p]
                             \/ pc[guard] \in Ended)
  BY RefusalStep
<1> QED BY LonerStarts, <1>1, <1>2, PTL DEF Spec, LonersPublish

-----------------------------------------------------------------------------
(* Refinement *)

Holder == IF \E p \in Procs : pc[p] = "publish"
          THEN CHOOSE p \in Procs : pc[p] = "publish"
          ELSE None

\* The holder is the publisher at work, if there is one.
LEMMA HolderIs == ASSUME LockingInv PROVE
    /\ \A p \in Procs : pc[p] = "publish" => Holder = p
    /\ (\A p \in Procs : pc[p] # "publish") => Holder = None
BY Exclusion DEF AtMostOnePublisher, Holder

LEMMA HolderNext ==
  ASSUME LockingInv, LockingInv', [Next]_vars
  PROVE  (\E p \in Procs : Lock!Acquire(p) \/ Lock!LetGo(p)) \/ Holder' = Holder
<1>1. /\ \A p \in Procs : pc'[p] = "publish" => Holder' = p
      /\ (\A p \in Procs : pc'[p] # "publish") => Holder' = None
  <2>1. \A p, q \in Procs : pc'[p] = "publish" /\ pc'[q] = "publish" => p = q
    BY DEF LockingInv, LockInv, Holding
  <2> QED BY <2>1 DEF Holder
<1>2. CASE UNCHANGED vars
  BY <1>2 DEF vars, Holder
<1>3. CASE Next
  <2>1. PICK p \in Procs : \A q \in Procs \ {p} : pc'[q] = pc[q]
    BY <1>3, OneMoves DEF Next, LockingInv
  <2>2. CASE \E q \in Procs \ {p} : pc[q] = "publish"
    BY <2>1, <2>2, <1>1, HolderIs
  <2>3. CASE \A q \in Procs \ {p} : pc[q] # "publish"
    BY <2>1, <2>3, <1>1, HolderIs DEF Lock!Acquire, Lock!LetGo, Lock!Free, Holder
  <2> QED BY <2>2, <2>3
<1> QED BY <1>2, <1>3

(* As long as only guards judged dead are renamed aside, the lock files     *)
(* implement an exclusive lock.                                             *)
THEOREM LockIsExclusive == Spec /\ [][JudgedOnly]_vars => IsExclusive
<1>1. LockingInv /\ [JudgedOnly]_vars /\ [Next]_vars => LockingInv'
  BY LockingSteps
<1>2. Init => Lock!Free
  BY DEF Init, Lock!Free
<1>3. LockingInv /\ LockingInv' /\ [Next]_vars
        => (\E p \in Procs : Lock!Acquire(p) \/ Lock!LetGo(p)) \/ Holder' = Holder
  BY HolderNext
<1>4. LockingInv /\ LockingInv' /\ [Next]_vars
        => [\E p \in Procs : Lock!Acquire(p) \/ Lock!LetGo(p)]_Holder
  BY <1>3
<1> QED BY LockingStarts, <1>1, <1>2, <1>4, PTL DEF Spec, IsExclusive, Lock!Spec, Holder

-----------------------------------------------------------------------------
(* Generations *)

Bytes == {"absent", "partial", "whole"}

Typed ==
    /\ there \in SUBSET Gens
    /\ bytes \in [Gens -> [Files -> Bytes]]
    /\ current.id \in Gens \cup {NoGen}
    /\ step \in {"idle", "wipe", "make", "write", "switch", "list", "prune"}
    /\ step # "idle" => gen \in Gens

\* What is being rewritten is not what a reader resolves.
ApartInv == step \in {"wipe", "make", "write"} => gen # current.id

\* What has been written so far is whole.
WrittenInv ==
    /\ step = "write" => gen \in there /\ \A f \in Files \ todo : bytes[gen][f] = "whole"
    /\ step = "switch" => IsWhole(gen)

\* Retention never has the pointer's generation on its list.
PruneInv == step = "prune" => current.id \notin todo

GenerationInv == Typed /\ CurrentIsWhole /\ ApartInv /\ WrittenInv /\ PruneInv

LEMMA GenerationStarts == PublishInit => GenerationInv
BY DEF PublishInit, GenerationInv, Typed, CurrentIsWhole, ApartInv, WrittenInv, PruneInv, NoCurrent, NoGen,
       Empty, Bytes

LEMMA GenerationSteps == GenerationInv /\ [PublishNext]_publishVars => GenerationInv'
<1> SUFFICES ASSUME GenerationInv, [PublishNext]_publishVars PROVE GenerationInv'
  OBVIOUS
<1>g. NoGen \notin Gens
  BY GensAssumption
<1> USE DEF GenerationInv, Typed, CurrentIsWhole, ApartInv, WrittenInv, PruneInv, IsWhole, disk, work
<1>1. ASSUME NEW p \in Publishers, NEW g \in Gens, NEW k \in Keeps, Begin(p, g, k) PROVE GenerationInv'
  BY <1>1, <1>g DEF Begin, Reused, NoCurrent
<1>2. ASSUME NEW f \in Files, Wipe(f) PROVE GenerationInv'
  BY <1>2 DEF Wipe, Bytes
<1>3. CASE RemoveDirectory
  BY <1>3 DEF RemoveDirectory
<1>4. CASE MakeDirectory
  BY <1>4 DEF MakeDirectory
<1>5. ASSUME NEW f \in Files, OpenFile(f) PROVE GenerationInv'
  BY <1>5 DEF OpenFile, Bytes
<1>6. ASSUME NEW f \in Files, WriteFile(f) PROVE GenerationInv'
  BY <1>6 DEF WriteFile, Bytes
<1>7. CASE Written
  BY <1>7 DEF Written
<1>8. CASE Switch
  BY <1>8 DEF Switch
<1>9. CASE List
  BY <1>9 DEF List, Surplus, Prunable
<1>10. ASSUME NEW g \in Gens, PruneDirectory(g) PROVE GenerationInv'
  BY <1>10 DEF PruneDirectory, NextPruned
<1>11. ASSUME NEW g \in Gens, NEW f \in Files, PruneFile(g, f) PROVE GenerationInv'
  BY <1>11 DEF PruneFile, NextPruned, Bytes
<1>12. CASE End \/ Stop
  BY <1>12 DEF End, Stop, Idle
<1>13. CASE UNCHANGED publishVars
  BY <1>13 DEF publishVars
<1> QED
  BY <1>1, <1>2, <1>3, <1>4, <1>5, <1>6, <1>7, <1>8, <1>9, <1>10, <1>11, <1>12, <1>13 DEF PublishNext

(* ADR-042, for every instance: whoever crashed where, the generation      *)
(* CURRENT.json names is there with all its files whole.                   *)
THEOREM ReadersFindAWholeGeneration == PublishSpec => []CurrentIsWhole
<1>1. GenerationInv => CurrentIsWhole
  BY DEF GenerationInv
<1> QED BY GenerationStarts, GenerationSteps, <1>1, PTL DEF PublishSpec
-----------------------------------------------------------------------------
(* Refinement *)

View == IF current = NoCurrent THEN NoCurrent
        ELSE [gen |-> current.id, bytes |-> bytes[current.id]]

\* A switch shows one whole generation in place of another; nothing else shows.
LEMMA StepIsPublish ==
    GenerationInv /\ GenerationInv' /\ [PublishNext]_publishVars => (\E g \in Gens : View' = Atomic!Whole(g)) \/ View' = View
<1> SUFFICES ASSUME GenerationInv, GenerationInv', [PublishNext]_publishVars
             PROVE  (\E g \in Gens : View' = Atomic!Whole(g)) \/ View' = View
  OBVIOUS
<1>g. NoGen \notin Gens
  BY GensAssumption
<1> USE DEF GenerationInv, Typed, ApartInv, WrittenInv, PruneInv, IsWhole, disk, work, View
<1>1. CASE Switch
  <2>1. gen \in Gens /\ current' = [id |-> gen, history |-> History] /\ bytes' = bytes
    BY <1>1 DEF Switch
  <2>2. current' # NoCurrent
    BY <2>1, <1>g DEF NoCurrent
  <2>3. bytes[gen] = [f \in Files |-> "whole"]
    <3>1. \A f \in Files : bytes[gen][f] = "whole"
      BY <1>1 DEF Switch
    <3>2. bytes[gen] \in [Files -> Bytes]
      BY <2>1
    <3> QED BY <3>1, <3>2
  <2>4. View' = [gen |-> gen, bytes |-> bytes[gen]]
    BY <2>1, <2>2
  <2> QED BY <2>1, <2>3, <2>4 DEF Atomic!Whole
<1>2. ASSUME current' = current,
             current # NoCurrent => bytes'[current.id] = bytes[current.id]
      PROVE  View' = View
  BY <1>2
<1>3. CASE bytes' = bytes /\ current' = current
  BY <1>2, <1>3
<1>4. ASSUME NEW f \in Files, Wipe(f) \/ OpenFile(f) \/ WriteFile(f) PROVE View' = View
  BY <1>2, <1>4 DEF CurrentIsWhole, Wipe, OpenFile, WriteFile
<1>5. ASSUME NEW g \in Gens, NEW f \in Files, PruneFile(g, f) PROVE View' = View
  BY <1>2, <1>5 DEF PruneFile, NextPruned
<1>6. CASE \E p \in Publishers, g \in Gens, k \in Keeps : Begin(p, g, k)
  BY <1>3, <1>6 DEF Begin
<1>7. CASE RemoveDirectory \/ MakeDirectory \/ Written \/ List \/ End \/ Stop
  BY <1>3, <1>7 DEF RemoveDirectory, MakeDirectory, Written, List, End, Stop
<1>8. CASE \E g \in Gens : PruneDirectory(g)
  BY <1>3, <1>8 DEF PruneDirectory
<1>9. CASE UNCHANGED publishVars
  BY <1>3, <1>9 DEF publishVars
<1> QED BY <1>1, <1>4, <1>5, <1>6, <1>7, <1>8, <1>9 DEF PublishNext

(* What a reader resolves is nothing at first, and from then on changes in *)
(* one step from one whole generation to another.                          *)
THEOREM PublishIsAtomic == PublishSpec => IsAtomic
<1>1. PublishInit => View = NoCurrent
  BY DEF PublishInit, View
<1>2. GenerationInv /\ GenerationInv' /\ [PublishNext]_publishVars => [\E g \in Gens : Atomic!Publish(g)]_View
  BY StepIsPublish DEF Atomic!Publish, View
<1> QED BY GenerationStarts, GenerationSteps, <1>1, <1>2, PTL DEF PublishSpec, IsAtomic, Atomic!Spec, View
-----------------------------------------------------------------------------
(* Retention *)

\* The pointer's generation and those before it, newest first.
Line == <<current.id>> \o current.history
OnRecord(g) == \E i \in 1 .. Len(Line) : Line[i] = g

Newer(g) == {h \in Gens : order[h] > order[g]}
NewerThere(g) == {h \in there : order[h] > order[g]}

\* Each switch is later than all before it.
OrderInv ==
    /\ order \in [Gens -> Nat] /\ publishes \in Nat /\ stops \in Nat
    /\ current.history \in Seq(Gens)
    /\ step # "idle" => keep \in Nat \ {0}
    /\ \A g \in Gens : order[g] <= publishes
    /\ step \in {"wipe", "make", "write", "switch"} => \A g \in Gens : order[g] < publishes
    /\ \A g, h \in Gens : g # h /\ order[g] > 0 => order[g] # order[h]

\* The record is in the order of the switches, the latest first.
RecordInv ==
    /\ (current = NoCurrent) <=> current.id = NoGen
    /\ current = NoCurrent => \A g \in Gens : order[g] = 0
    /\ current # NoCurrent =>
         /\ \A i \in 1 .. Len(Line) : order[Line[i]] > 0
         /\ \A i, j \in 1 .. Len(Line) : i < j => order[Line[i]] > order[Line[j]]

\* What has fallen off it is older than all it holds, and they are many.
ForgottenInv ==
    \A g \in Gens : order[g] > 0 /\ ~OnRecord(g) =>
        /\ Cardinality(Newer(g)) > HistoryLength
        /\ \A i \in 1 .. Len(Line) : order[Line[i]] > order[g]

\* The list is long enough, and a recorded generation is on it only behind `keep` others.
ListedInv ==
    /\ step \in {"list", "prune"} => current.id = gen
    /\ step = "prune" =>
         /\ todo \subseteq there
         /\ Cardinality(there \ todo) <= keep
         /\ \A g \in todo : OnRecord(g) => Cardinality(NewerThere(g)) >= keep

RetentionInv == GenerationInv /\ OrderInv /\ RecordInv /\ ForgottenInv /\ ListedInv

\* A sequence without one of its elements, as far as a length.
Past(s, g, i) == \E j \in 1 .. i : s[j] = g
Others(s, g) == IF Past(s, g, Len(s)) THEN Len(s) - 1 ELSE Len(s)
LeftLength(s, g, n) == IF Others(s, g) < n THEN Others(s, g) ELSE n
LeftOf(s, g, n) == [i \in 1 .. LeftLength(s, g, n) |-> s[IF Past(s, g, i) THEN i + 1 ELSE i]]

\* It keeps its order; what it drops comes after all it has kept.
LEMMA LeavingOneOut ==
  ASSUME NEW S, NEW s \in Seq(S), NEW rank \in [S -> Nat], NEW g, NEW n \in Nat,
         \A i, j \in 1 .. Len(s) : i < j => rank[s[i]] > rank[s[j]]
  PROVE  LET m == LeftLength(s, g, n)
             r == LeftOf(s, g, n)
         IN  /\ m \in Nat /\ r \in [1 .. m -> S]
             /\ \A i \in 1 .. m : r[i] # g /\ \E j \in 1 .. Len(s) : r[i] = s[j]
             /\ \A i, j \in 1 .. m : i < j => rank[r[i]] > rank[r[j]]
             /\ \A j \in 1 .. Len(s) :
                  \/ s[j] = g
                  \/ \E i \in 1 .. m : r[i] = s[j]
                  \/ m = n /\ \A i \in 1 .. m : rank[r[i]] > rank[s[j]]
<1> DEFINE m == LeftLength(s, g, n)
           r == LeftOf(s, g, n)
<1>0. Len(s) \in Nat /\ \A i \in 1 .. Len(s) : s[i] \in S /\ rank[s[i]] \in Nat
  OBVIOUS
<1>1. CASE \A j \in 1 .. Len(s) : s[j] # g
  <2>1. Others(s, g) = Len(s) /\ \A i \in 1 .. Len(s) : ~Past(s, g, i)
    BY <1>0, <1>1 DEF Others, Past
  <2>2. m = (IF Len(s) < n THEN Len(s) ELSE n) /\ m \in Nat /\ m <= Len(s)
    BY <1>0, <2>1 DEF LeftLength
  <2>3. r = [i \in 1 .. m |-> s[IF Past(s, g, i) THEN i + 1 ELSE i]]
    BY DEF LeftOf
  <2> HIDE DEF m, r
  <2>4. \A i \in 1 .. m : i \in 1 .. Len(s) /\ r[i] = s[i]
    BY <1>0, <2>1, <2>2, <2>3
  <2>5. \A j \in 1 .. Len(s) : j \in 1 .. m \/ (m = n /\ \A i \in 1 .. m : i < j)
    BY <1>0, <2>2
  <2>6. r \in [1 .. m -> S]
    BY <1>0, <2>3, <2>4
  <2> QED BY <1>0, <1>1, <2>2, <2>4, <2>5, <2>6 DEF m, r
<1>2. CASE \E j \in 1 .. Len(s) : s[j] = g
  <2>0. PICK k \in 1 .. Len(s) : s[k] = g
    BY <1>2
  <2>k. \A j \in 1 .. Len(s) : s[j] = g => j = k
    <3> SUFFICES ASSUME NEW j \in 1 .. Len(s), s[j] = g, j # k PROVE FALSE
      OBVIOUS
    <3>1. j < k \/ k < j
      BY <1>0
    <3>2. rank[s[j]] > rank[s[k]] \/ rank[s[k]] > rank[s[j]]
      BY <3>1
    <3> QED BY <1>0, <2>0, <3>2
  <2>p. ASSUME NEW i \in 1 .. Len(s) PROVE Past(s, g, i) <=> k <= i
    <3>1. CASE k <= i
      BY <1>0, <2>0, <3>1 DEF Past
    <3>2. CASE ~(k <= i)
      <4>1. \A j \in 1 .. i : j \in 1 .. Len(s) /\ j # k
        BY <1>0, <3>2
      <4> QED BY <2>k, <3>2, <4>1 DEF Past
    <3> QED BY <3>1, <3>2
  <2>1. Others(s, g) = Len(s) - 1
    BY <1>0, <2>0, <2>p DEF Others
  <2>2. m = (IF Len(s) - 1 < n THEN Len(s) - 1 ELSE n) /\ m \in Nat /\ m < Len(s)
    BY <1>0, <2>0, <2>1 DEF LeftLength
  <2>3. r = [i \in 1 .. m |-> s[IF Past(s, g, i) THEN i + 1 ELSE i]]
    BY DEF LeftOf
  <2> HIDE DEF m, r
  <2> DEFINE at(i) == IF k <= i THEN i + 1 ELSE i
  <2>4. ASSUME NEW i \in 1 .. m
        PROVE  at(i) \in 1 .. Len(s) /\ at(i) # k /\ r[i] = s[at(i)]
    <3>1. i \in 1 .. Len(s) /\ at(i) \in 1 .. Len(s) /\ at(i) # k
      BY <1>0, <2>0, <2>2
    <3>2. Past(s, g, i) <=> k <= i
      BY <2>p, <3>1
    <3>3. r[i] = s[IF Past(s, g, i) THEN i + 1 ELSE i]
      BY <2>3
    <3>4. r[i] = s[at(i)]
      BY <3>2, <3>3
    <3> QED BY <3>1, <3>4
  <2>5. \A i, j \in 1 .. m : i < j => at(i) < at(j)
    BY <1>0, <2>0, <2>2
  <2>6. ASSUME NEW j \in 1 .. Len(s), j # k
        PROVE  (\E i \in 1 .. m : at(i) = j) \/ (m = n /\ \A i \in 1 .. m : at(i) < j)
    <3> DEFINE i == IF k < j THEN j - 1 ELSE j
    <3>1. i \in 1 .. Len(s) - 1 /\ at(i) = j
      BY <1>0, <2>0, <2>6
    <3> HIDE DEF i, at
    <3>2. CASE i <= m
      <4>1. i \in 1 .. m
        BY <2>2, <3>1, <3>2
      <4> QED BY <3>1, <4>1
    <3>3. CASE m < i
      <4>1. m = n
        BY <1>0, <2>2, <3>1, <3>3
      <4>2. i \in Nat /\ k \in Nat /\ m \in Nat
        BY <1>0, <2>2, <3>1
      <4>3. ASSUME NEW h \in 1 .. m PROVE at(h) < at(i)
        BY <3>3, <4>2 DEF at
      <4> QED BY <3>1, <4>1, <4>3
    <3>4. i <= m \/ m < i
      BY <2>2, <3>1
    <3> QED BY <3>2, <3>3, <3>4
  <2>7. \A i \in 1 .. m : r[i] \in S /\ r[i] # g /\ \E j \in 1 .. Len(s) : r[i] = s[j]
    BY <1>0, <2>4, <2>k
  <2>8. r \in [1 .. m -> S]
    BY <2>3, <2>7
  <2>9. \A i, j \in 1 .. m : i < j => rank[r[i]] > rank[r[j]]
    <3> HIDE DEF at
    <3> QED BY <2>4, <2>5
  <2>10. \A j \in 1 .. Len(s) :
           \/ s[j] = g
           \/ \E i \in 1 .. m : r[i] = s[j]
           \/ m = n /\ \A i \in 1 .. m : rank[r[i]] > rank[s[j]]
    <3> HIDE DEF at
    <3> QED BY <2>0, <2>4, <2>6
  <2> QED BY <2>2, <2>7, <2>8, <2>9, <2>10 DEF m, r
<1> QED BY <1>1, <1>2

\* As many as stand in decreasing order are there.
LEMMA DecreasingAreMany ==
  ASSUME NEW S, IsFiniteSet(S), NEW n \in Nat, NEW s \in [1 .. n -> S],
         NEW rank, \A i \in 1 .. n : rank[s[i]] \in Nat,
         \A i, j \in 1 .. n : i < j => rank[s[i]] > rank[s[j]]
  PROVE  Cardinality(S) >= n
<1>1. \A i, j \in 1 .. n : s[i] = s[j] => i = j
  <2> SUFFICES ASSUME NEW i \in 1 .. n, NEW j \in 1 .. n, s[i] = s[j], i # j PROVE FALSE
    OBVIOUS
  <2>1. i < j \/ j < i
    OBVIOUS
  <2>2. rank[s[i]] > rank[s[j]] \/ rank[s[j]] > rank[s[i]]
    BY <2>1
  <2> QED BY <2>2
<1>2. s \in Injection(1 .. n, S)
  BY <1>1 DEF Injection, IsInjective
<1>3. Cardinality(1 .. n) <= Cardinality(S)
  BY <1>2, FS_Injection
<1>4. Cardinality(1 .. n) = n
  BY FS_Interval
<1> QED BY <1>3, <1>4, FS_CardinalityType

LEMMA LineIs ==
  ASSUME OrderInv, current.id \in Gens
  PROVE  /\ Line \in Seq(Gens) /\ Len(Line) = Len(current.history) + 1 /\ Line[1] = current.id
         /\ \A i \in 1 .. Len(current.history) : Line[i + 1] = current.history[i]
BY DEF Line, OrderInv

\* After a switch the line is the generation published and what is left of the one before.
LEMMA SwitchedLine ==
  ASSUME RetentionInv, Switch
  PROVE  \E m \in Nat : \E r \in [1 .. m -> Gens] :
           /\ current' = [id |-> gen, history |-> r]
           /\ \A i \in 1 .. m : r[i] # gen /\ order[r[i]] > 0
           /\ \A i, j \in 1 .. m : i < j => order[r[i]] > order[r[j]]
           /\ \A g \in Gens : order[g] > 0 =>
                \/ g = gen
                \/ \E i \in 1 .. m : r[i] = g
                \/ /\ m >= HistoryLength \/ Cardinality(Newer(g)) > HistoryLength
                   /\ \A i \in 1 .. m : order[r[i]] > order[g]
<1> DEFINE n == IF keep > HistoryLength THEN keep ELSE HistoryLength
<1> USE DEF RetentionInv
<1>1. n \in Nat /\ n >= HistoryLength
  BY KeepAssumption DEF Switch, OrderInv
<1>2. CASE current = NoCurrent
  <2>1. History = [i \in 1 .. 0 |-> <<>>[IF \E j \in 1 .. i : <<>>[j] = gen THEN i + 1 ELSE i]]
    <3>1. ~(\E j \in 1 .. Len(<<>>) : <<>>[j] = gen) /\ Len(<<>>) = 0
      OBVIOUS
    <3>2. (IF 0 < n THEN 0 ELSE n) = 0
      BY <1>1
    <3> QED BY <1>2, <3>1, <3>2 DEF History
  <2>2. current'.history \in [1 .. 0 -> Gens] /\ current' = [id |-> gen, history |-> current'.history]
    BY <2>1 DEF Switch
  <2>3. \A g \in Gens : order[g] = 0
    BY <1>2 DEF RecordInv
  <2> QED BY <2>2, <2>3
<1>3. CASE current # NoCurrent
  <2>0. current.id \in Gens
    BY <1>3 DEF RecordInv, GenerationInv, Typed
  <2>1. Line \in Seq(Gens) /\ order \in [Gens -> Nat]
    BY <2>0, LineIs DEF OrderInv
  <2>2. \A i, j \in 1 .. Len(Line) : i < j => order[Line[i]] > order[Line[j]]
    BY <1>3 DEF RecordInv
  <2> DEFINE m == LeftLength(Line, gen, n)
             r == LeftOf(Line, gen, n)
  <2>3. History = r
    BY <1>3 DEF History, Line, LeftOf, LeftLength, Others, Past
  <2>4. /\ m \in Nat /\ r \in [1 .. m -> Gens]
        /\ \A i \in 1 .. m : r[i] # gen /\ \E j \in 1 .. Len(Line) : r[i] = Line[j]
        /\ \A i, j \in 1 .. m : i < j => order[r[i]] > order[r[j]]
        /\ \A j \in 1 .. Len(Line) :
              \/ Line[j] = gen
              \/ \E i \in 1 .. m : r[i] = Line[j]
              \/ m = n /\ \A i \in 1 .. m : order[r[i]] > order[Line[j]]
    <3> HIDE DEF n
    <3> QED BY <1>1, <2>1, <2>2, LeavingOneOut, Zenon
  <2> HIDE DEF m, r, n
  <2>5. current' = [id |-> gen, history |-> r]
    BY <2>3 DEF Switch
  <2>6. \A i \in 1 .. m : order[r[i]] > 0
    BY <1>3, <2>4 DEF RecordInv
  <2>7. ASSUME NEW g \in Gens, order[g] > 0
        PROVE  \/ g = gen
               \/ \E i \in 1 .. m : r[i] = g
               \/ /\ m >= HistoryLength \/ Cardinality(Newer(g)) > HistoryLength
                  /\ \A i \in 1 .. m : order[r[i]] > order[g]
    <3>1. CASE OnRecord(g)
      BY <1>1, <2>4, <3>1 DEF OnRecord
    <3>2. CASE ~OnRecord(g)
      BY <2>4, <2>7, <3>2 DEF ForgottenInv
    <3> QED BY <3>1, <3>2
  <2> QED BY <2>4, <2>5, <2>6, <2>7
<1> QED BY <1>2, <1>3

LEMMA SwitchKeepsTheRecord ==
  ASSUME RetentionInv, Switch
  PROVE  OrderInv' /\ RecordInv' /\ ForgottenInv'
<1> USE DEF RetentionInv, disk, work
<1>0. /\ gen \in Gens /\ NoGen \notin Gens /\ IsFiniteSet(Gens)
      /\ order' = [order EXCEPT ![gen] = publishes]
      /\ order \in [Gens -> Nat] /\ publishes \in Nat /\ publishes' = publishes
      /\ stops \in Nat /\ stops' = stops
      /\ step' = "list" /\ keep' = keep /\ keep \in Nat \ {0}
      /\ \A g \in Gens : order[g] < publishes
  BY GensAssumption DEF Switch, OrderInv, GenerationInv, Typed
<1>p. PICK m \in Nat : \E r \in [1 .. m -> Gens] :
           /\ current' = [id |-> gen, history |-> r]
           /\ \A i \in 1 .. m : r[i] # gen /\ order[r[i]] > 0
           /\ \A i, j \in 1 .. m : i < j => order[r[i]] > order[r[j]]
           /\ \A g \in Gens : order[g] > 0 =>
                \/ g = gen
                \/ \E i \in 1 .. m : r[i] = g
                \/ /\ m >= HistoryLength \/ Cardinality(Newer(g)) > HistoryLength
                   /\ \A i \in 1 .. m : order[r[i]] > order[g]
  BY SwitchedLine
<1>1. PICK r \in [1 .. m -> Gens] :
           /\ current' = [id |-> gen, history |-> r]
           /\ \A i \in 1 .. m : r[i] # gen /\ order[r[i]] > 0
           /\ \A i, j \in 1 .. m : i < j => order[r[i]] > order[r[j]]
           /\ \A g \in Gens : order[g] > 0 =>
                \/ g = gen
                \/ \E i \in 1 .. m : r[i] = g
                \/ /\ m >= HistoryLength \/ Cardinality(Newer(g)) > HistoryLength
                   /\ \A i \in 1 .. m : order[r[i]] > order[g]
  BY <1>p
<1>2. r \in Seq(Gens) /\ Len(r) = m
  OBVIOUS
<1>3. /\ Line' = <<gen>> \o r /\ current'.id = gen /\ current'.history = r
      /\ Len(Line') = m + 1 /\ Line'[1] = gen
      /\ \A i \in 2 .. m + 1 : i - 1 \in 1 .. m /\ Line'[i] = r[i - 1]
  BY <1>0, <1>1, <1>2 DEF Line
<1>4. \A g \in Gens : order'[g] = IF g = gen THEN publishes ELSE order[g]
  BY <1>0
<1>5. OrderInv'
  <2>1. order' \in [Gens -> Nat] /\ \A g \in Gens : order'[g] <= publishes
    BY <1>0, <1>4
  <2>2. \A g, h \in Gens : g # h /\ order'[g] > 0 => order'[g] # order'[h]
    BY <1>0, <1>4 DEF OrderInv
  <2> QED BY <1>0, <1>2, <1>3, <2>1, <2>2 DEF OrderInv
<1>6. \A i \in 1 .. m : order'[r[i]] = order[r[i]] /\ order[r[i]] < publishes
  BY <1>0, <1>1, <1>4
<1>7. /\ \A i \in 1 .. Len(Line') : Line'[i] \in Gens /\ order'[Line'[i]] > 0
      /\ \A i, j \in 1 .. Len(Line') : i < j => order'[Line'[i]] > order'[Line'[j]]
  <2>1. publishes > 0
    BY <1>0
  <2>2. ASSUME NEW i \in 1 .. Len(Line')
        PROVE  /\ i = 1 \/ i \in 2 .. m + 1
               /\ Line'[i] \in Gens /\ order'[Line'[i]] > 0
    BY <1>0, <1>1, <1>3, <1>4, <1>6, <2>1
  <2>3. ASSUME NEW i \in 1 .. Len(Line'), NEW j \in 1 .. Len(Line'), i < j
        PROVE  order'[Line'[i]] > order'[Line'[j]]
    <3>1. j \in 2 .. m + 1 /\ Line'[j] = r[j - 1] /\ j - 1 \in 1 .. m
      BY <1>3, <2>3
    <3>2. CASE i = 1
      BY <1>0, <1>3, <1>4, <1>6, <3>1, <3>2
    <3>3. CASE i # 1
      <4>1. i - 1 \in 1 .. m /\ Line'[i] = r[i - 1] /\ i - 1 < j - 1
        BY <1>3, <2>3, <3>3
      <4>2. order[r[i - 1]] > order[r[j - 1]]
        BY <1>1, <3>1, <4>1
      <4> QED BY <1>6, <3>1, <4>1, <4>2
    <3> QED BY <3>2, <3>3
  <2> QED BY <2>2, <2>3
<1>8. RecordInv'
  <2>1. current' # NoCurrent /\ current'.id # NoGen
    BY <1>0, <1>3 DEF NoCurrent
  <2> QED BY <2>1, <1>7 DEF RecordInv
<1>9. ASSUME NEW g \in Gens, order'[g] > 0, ~OnRecord(g)'
      PROVE  /\ Cardinality(Newer(g)') > HistoryLength
             /\ \A i \in 1 .. Len(Line') : order'[Line'[i]] > order'[g]
  <2>1. g # gen /\ \A i \in 1 .. m : r[i] # g
    <3>1. 1 \in 1 .. Len(Line') /\ \A i \in 1 .. m : i + 1 \in 2 .. m + 1 /\ i + 1 \in 1 .. Len(Line')
      BY <1>3
    <3>2. \A i \in 1 .. m : Line'[i + 1] = r[i]
      <4> TAKE i \in 1 .. m
      <4>1. Line'[i + 1] = r[(i + 1) - 1]
        BY <1>3, <3>1
      <4> QED BY <4>1
    <3> QED BY <1>3, <1>9, <3>1, <3>2 DEF OnRecord
  <2>2. /\ m >= HistoryLength \/ Cardinality(Newer(g)) > HistoryLength
        /\ \A i \in 1 .. m : order[r[i]] > order[g]
        /\ order'[g] = order[g]
    BY <1>1, <1>4, <1>9, <2>1
  <2>3. \A i \in 1 .. Len(Line') : order'[Line'[i]] > order'[g]
    <3> TAKE i \in 1 .. Len(Line')
    <3>1. CASE i = 1
      BY <1>0, <1>3, <1>4, <2>2, <3>1
    <3>2. CASE i # 1
      <4>1. i - 1 \in 1 .. m /\ Line'[i] = r[i - 1]
        BY <1>3, <3>2
      <4> QED BY <1>6, <2>2, <4>1
    <3> QED BY <3>1, <3>2
  <2>4. Newer(g)' \in SUBSET Gens /\ IsFiniteSet(Newer(g)')
    <3>1. Newer(g)' \in SUBSET Gens
      BY DEF Newer
    <3> QED BY <1>0, <3>1, FS_Subset
  <2>5. CASE m >= HistoryLength
    <3>1. Line' \in [1 .. m + 1 -> Newer(g)']
      <4>1. \A i \in 1 .. m + 1 : Line'[i] \in Newer(g)'
        BY <1>3, <1>7, <2>3 DEF Newer
      <4>2. Line' = [i \in 1 .. m + 1 |-> Line'[i]]
        BY <1>2, <1>3
      <4> QED BY <4>1, <4>2
    <3>2. \A i \in 1 .. m + 1 : order'[Line'[i]] \in Nat
      BY <1>3, <1>5, <1>7 DEF OrderInv
    <3>3. \A i, j \in 1 .. m + 1 : i < j => order'[Line'[i]] > order'[Line'[j]]
      BY <1>3, <1>7
    <3>4. Cardinality(Newer(g)') >= m + 1
      <4> DEFINE n == m + 1
                 those == Newer(g)'
                 s == Line'
                 rank == order'
      <4>1. n \in Nat /\ s \in [1 .. n -> those] /\ IsFiniteSet(those)
        BY <2>4, <3>1
      <4>2. /\ \A i \in 1 .. n : rank[s[i]] \in Nat
            /\ \A i, j \in 1 .. n : i < j => rank[s[i]] > rank[s[j]]
        BY <3>2, <3>3
      <4> HIDE DEF n, those, s, rank
      <4>3. Cardinality(those) >= n
        BY <4>1, <4>2, DecreasingAreMany
      <4> QED BY <4>3 DEF n, those
    <3> QED BY <2>3, <2>4, <2>5, <3>4, FS_CardinalityType, KeepAssumption
  <2>6. CASE Cardinality(Newer(g)) > HistoryLength
    <3>1. Newer(g) \in SUBSET Newer(g)'
      BY <1>0, <1>4, <2>2 DEF Newer
    <3>2. /\ Cardinality(Newer(g)) <= Cardinality(Newer(g)') /\ IsFiniteSet(Newer(g))
      BY <2>4, <3>1, FS_Subset
    <3> QED BY <2>3, <2>4, <2>6, <3>2, FS_CardinalityType, KeepAssumption
  <2> QED BY <2>2, <2>5, <2>6
<1> QED BY <1>5, <1>8, <1>9 DEF ForgottenInv

\* On the record a generation ranks by how late it was switched to.
LEMMA Ranks ==
  ASSUME RetentionInv, step \in {"list", "prune"}
  PROVE  /\ gen \in there /\ there \in SUBSET Gens /\ IsFiniteSet(there) /\ keep \in Nat \ {0}
         /\ gen \in RecordedSet /\ Rank(gen) = 1
         /\ \A g \in RecordedSet : Rank(g) \in 1 .. Len(Line) /\ Line[Rank(g)] = g
         /\ \A g, h \in RecordedSet : Rank(h) < Rank(g) => order[h] > order[g]
         /\ \A g, h \in RecordedSet : Rank(h) = Rank(g) => h = g
         /\ \A g \in Gens : g \in RecordedSet <=> OnRecord(g)
         /\ Len(Line) \in Nat
<1> USE DEF RetentionInv
<1>1. /\ gen \in Gens /\ current.id = gen /\ NoGen \notin Gens /\ keep \in Nat \ {0}
      /\ there \in SUBSET Gens /\ IsFiniteSet(Gens)
  BY GensAssumption DEF GenerationInv, Typed, ListedInv, OrderInv
<1>2. current # NoCurrent
  BY <1>1 DEF RecordInv
<1>3. gen \in there /\ IsFiniteSet(there)
  BY <1>1, <1>2, FS_Subset DEF GenerationInv, CurrentIsWhole, IsWhole
<1>4. /\ Line \in Seq(Gens) /\ Len(Line) >= 1 /\ Line[1] = gen /\ Recorded = Line
      /\ order \in [Gens -> Nat]
  <2>1. Recorded = Line
    BY <1>1 DEF Recorded, Line
  <2>2. OrderInv /\ current.id \in Gens /\ Len(current.history) \in Nat /\ order \in [Gens -> Nat]
    BY <1>1 DEF OrderInv
  <2> QED BY <1>1, <2>1, <2>2, LineIs
<1>5. \A i, j \in 1 .. Len(Line) : i < j => order[Line[i]] > order[Line[j]]
  BY <1>2 DEF RecordInv
<1>6. \A i, j \in 1 .. Len(Line) : Line[i] = Line[j] => i = j
  <2> SUFFICES ASSUME NEW i \in 1 .. Len(Line), NEW j \in 1 .. Len(Line), Line[i] = Line[j], i # j
               PROVE  FALSE
    OBVIOUS
  <2>1. i < j \/ j < i
    BY <1>4
  <2>2. order[Line[i]] > order[Line[j]] \/ order[Line[j]] > order[Line[i]]
    BY <1>5, <2>1
  <2>3. Line[i] \in Gens /\ order[Line[i]] \in Nat
    BY <1>4
  <2> QED BY <2>2, <2>3
<1>7. RecordedSet = {Line[i] : i \in 1 .. Len(Line)}
  BY <1>4 DEF RecordedSet
<1>8. \A i \in 1 .. Len(Line) : Rank(Line[i]) = i
  BY <1>4, <1>6 DEF Rank
<1>9. /\ \A g \in RecordedSet : Rank(g) \in 1 .. Len(Line) /\ Line[Rank(g)] = g
      /\ gen \in RecordedSet /\ Rank(gen) = 1
  <2>1. 1 \in 1 .. Len(Line)
    BY <1>4
  <2> QED BY <1>4, <1>7, <1>8, <2>1
<1>10. \A g, h \in RecordedSet : /\ (Rank(h) < Rank(g) => order[h] > order[g])
                                  /\ (Rank(h) = Rank(g) => h = g)
  BY <1>5, <1>9
<1>11. \A g \in Gens : g \in RecordedSet <=> OnRecord(g)
  BY <1>7 DEF OnRecord
<1> QED BY <1>1, <1>3, <1>4, <1>9, <1>10, <1>11

LEMMA LeastNatural == ASSUME NEW S, S \in SUBSET Nat, S # {}
                      PROVE  \E n \in S : \A m \in S : n <= m
<1>1. \E n \in S : \A m \in Nat : <<m, n>> \in OpToRel(<, Nat) => m \notin S
  BY NatLessThanWellFounded, WFMin, Zenon
<1>2. PICK n \in S : \A m \in Nat : <<m, n>> \in OpToRel(<, Nat) => m \notin S
  BY <1>1, Zenon
<1>3. \A m \in S : ~(m < n)
  BY <1>2 DEF OpToRel
<1> QED BY <1>3

\* No more are kept than are to be.
LEMMA KeptAreFew ==
  ASSUME RetentionInv, step = "list"
  PROVE  /\ gen \in Kept /\ Kept \subseteq there \cap RecordedSet
         /\ Cardinality(Kept) <= keep
<1> DEFINE Here == there \cap RecordedSet
           Earlier(g) == {h \in Here : Rank(h) < Rank(g)}
<1>0. /\ gen \in Here /\ Rank(gen) = 1 /\ IsFiniteSet(Here) /\ keep \in Nat \ {0}
      /\ Len(Line) \in Nat /\ \A g \in Here : Rank(g) \in 1 .. Len(Line)
      /\ \A g, h \in Here : Rank(h) = Rank(g) => h = g
  BY Ranks, FS_Subset
<1>1. Kept = {g \in Here : Cardinality(Earlier(g)) < keep}
  BY DEF Kept
<1> HIDE DEF Here
<1>2. gen \in Kept /\ Kept \in SUBSET Here /\ IsFiniteSet(Kept)
  <2>1. Earlier(gen) = {}
    BY <1>0
  <2>2. Cardinality(Earlier(gen)) = 0
    BY <2>1, FS_EmptySet
  <2>3. gen \in Kept /\ Kept \in SUBSET Here
    BY <1>0, <1>1, <2>2
  <2> QED BY <1>0, <2>3, FS_Subset
<1>3. PICK k \in Kept : \A h \in Kept : Rank(h) <= Rank(k)
  <2> DEFINE Back == {Len(Line) - Rank(g) : g \in Kept}
  <2>1. Back \in SUBSET Nat /\ Back # {}
    BY <1>0, <1>2
  <2>2. PICK n \in Back : \A m \in Back : n <= m
    <3> HIDE DEF Back
    <3> QED BY <2>1, LeastNatural
  <2>3. PICK k \in Kept : n = Len(Line) - Rank(k)
    OBVIOUS
  <2>4. \A h \in Kept : Len(Line) - Rank(k) <= Len(Line) - Rank(h)
    BY <2>2, <2>3
  <2> QED BY <1>0, <1>2, <2>4
<1>4. Kept \ {k} \in SUBSET Earlier(k)
  BY <1>0, <1>2, <1>3
<1>5. IsFiniteSet(Earlier(k)) /\ Cardinality(Earlier(k)) < keep
  <2>1. Earlier(k) \in SUBSET Here
    OBVIOUS
  <2> QED BY <1>0, <1>1, <2>1, FS_Subset
<1>6. /\ Cardinality(Kept \ {k}) <= Cardinality(Earlier(k)) /\ IsFiniteSet(Kept \ {k})
      /\ Cardinality(Kept \ {k}) = Cardinality(Kept) - 1
  <2> HIDE DEF Earlier
  <2> QED BY <1>2, <1>4, <1>5, FS_Subset, FS_RemoveElement
<1>7. Cardinality(Kept) \in Nat /\ Cardinality(Earlier(k)) \in Nat
  BY <1>2, <1>5, FS_CardinalityType
<1> QED BY <1>0, <1>2, <1>5, <1>6, <1>7 DEF Here

\* Once the list is worked off, no more are left than were to be kept.
LEMMA FewAreLeft ==
  ASSUME RetentionInv, step = "list"
  PROVE  Surplus \subseteq there /\ Cardinality(there \ Surplus) <= keep
<1> DEFINE Sooner(g) == {h \in Prunable : PrunedBefore(h, g)}
           Count(g) == Cardinality(Sooner(g))
<1>0. /\ there \in SUBSET Nat /\ IsFiniteSet(there) /\ keep \in Nat \ {0}
      /\ Prunable \in SUBSET there /\ Surplus \in SUBSET Prunable
      /\ \A g \in RecordedSet : Rank(g) \in Nat
  <2>1. /\ there \in SUBSET Gens /\ IsFiniteSet(there) /\ keep \in Nat \ {0}
        /\ Len(Line) \in Nat /\ \A g \in RecordedSet : Rank(g) \in 1 .. Len(Line)
    BY Ranks
  <2>2. there \in SUBSET Nat /\ \A g \in RecordedSet : Rank(g) \in Nat
    BY <2>1, GensAssumption
  <2>3. Prunable \in SUBSET there
    BY DEF Prunable
  <2>4. Surplus \in SUBSET Prunable
    BY DEF Surplus
  <2> QED BY <2>1, <2>2, <2>3, <2>4
<1>1. /\ IsFiniteSet(Prunable) /\ IsFiniteSet(Surplus)
      /\ Cardinality(there) \in Nat /\ Cardinality(Surplus) \in Nat
      /\ Cardinality(there \ Surplus) = Cardinality(there) - Cardinality(Surplus)
  <2>1. Surplus \in SUBSET there /\ there \cap Surplus = Surplus
    BY <1>0
  <2>2. IsFiniteSet(Prunable) /\ IsFiniteSet(Surplus)
    BY <1>0, <2>1, FS_Subset
  <2> QED BY <1>0, <2>1, <2>2, FS_Difference, FS_CardinalityType
<1>2. CASE Prunable \subseteq Surplus
  <2>1. there \ Surplus \in SUBSET Kept
    BY <1>2, KeptAreFew DEF Prunable, RetentionInv, ListedInv
  <2>2. IsFiniteSet(Kept) /\ Cardinality(Kept) <= keep
    <3>1. Kept \in SUBSET there
      BY KeptAreFew
    <3> QED BY <1>0, <3>1, KeptAreFew, FS_Subset
  <2>3. Cardinality(there \ Surplus) <= Cardinality(Kept)
    BY <2>1, <2>2, FS_Subset
  <2> QED BY <1>0, <1>1, <2>2, <2>3, FS_CardinalityType
<1>3. CASE Prunable \ Surplus # {}
  <2>1. \A g \in Prunable : IsFiniteSet(Sooner(g)) /\ Count(g) \in Nat
    <3> TAKE g \in Prunable
    <3>1. Sooner(g) \in SUBSET Prunable
      OBVIOUS
    <3> HIDE DEF Sooner
    <3> QED BY <1>1, <3>1, FS_Subset, FS_CardinalityType
  <2>2. PICK q \in Prunable \ Surplus : \A h \in Prunable \ Surplus : Count(q) <= Count(h)
    <3> DEFINE Counts == {Count(g) : g \in Prunable \ Surplus}
    <3> HIDE DEF Count
    <3>1. Counts \in SUBSET Nat /\ Counts # {}
      BY <1>3, <2>1
    <3>2. PICK n \in Counts : \A m \in Counts : n <= m
      <4> HIDE DEF Counts
      <4> QED BY <3>1, LeastNatural
    <3> QED BY <3>2
  <2>3. Sooner(q) \in SUBSET Surplus
    <3> SUFFICES ASSUME NEW h \in Sooner(q), h \notin Surplus PROVE FALSE
      OBVIOUS
    <3>0. h \in Prunable /\ PrunedBefore(h, q)
      OBVIOUS
    <3>1. Sooner(h) \in SUBSET Sooner(q)
      <4> SUFFICES ASSUME NEW g \in Prunable, PrunedBefore(g, h) PROVE PrunedBefore(g, q)
        OBVIOUS
      <4>1. g \in Nat /\ h \in Nat /\ q \in Nat
        BY <1>0, <3>0
      <4> QED BY <1>0, <3>0, <4>1 DEF PrunedBefore
    <3>2. h \notin Sooner(h)
      <4>1. h \in Nat
        BY <1>0, <3>0
      <4> QED BY <1>0, <4>1 DEF PrunedBefore
    <3>3. Sooner(h) # Sooner(q)
      BY <3>2
    <3>4. Count(h) < Count(q)
      <4>1. IsFiniteSet(Sooner(q)) /\ Count(q) \in Nat /\ Count(h) \in Nat
        BY <2>1, <3>0
      <4> HIDE DEF Sooner
      <4>2. Cardinality(Sooner(h)) <= Cardinality(Sooner(q))
            /\ Cardinality(Sooner(h)) # Cardinality(Sooner(q))
        BY <3>1, <3>3, <4>1, FS_Subset
      <4> QED BY <4>1, <4>2
    <3>5. Count(q) <= Count(h)
      BY <2>2, <3>0
    <3>6. Count(q) \in Nat /\ Count(h) \in Nat
      BY <2>1, <3>0
    <3> HIDE DEF Count
    <3> QED BY <3>4, <3>5, <3>6
  <2>4. Count(q) + keep >= Cardinality(there)
    <3>1. ~(Count(q) + keep < Cardinality(there))
      BY <2>2 DEF Surplus
    <3>2. Count(q) \in Nat
      BY <2>1, <2>2
    <3> HIDE DEF Count
    <3> QED BY <1>0, <1>1, <3>1, <3>2
  <2>5. Count(q) <= Cardinality(Surplus)
    <3> HIDE DEF Sooner
    <3> QED BY <1>1, <2>3, FS_Subset
  <2>6. Count(q) \in Nat
    BY <2>1, <2>2
  <2> HIDE DEF Count
  <2> QED BY <1>0, <1>1, <2>4, <2>5, <2>6
<1> QED BY <1>2, <1>3

LEMMA RetentionStarts == PublishInit => RetentionInv
<1> SUFFICES ASSUME PublishInit PROVE RetentionInv
  OBVIOUS
<1>1. /\ current = NoCurrent /\ current.id = NoGen /\ current.history = <<>> /\ step = "idle"
      /\ publishes = 0 /\ order = [g \in Gens |-> 0]
  BY DEF PublishInit, NoCurrent
<1>2. stops = 0
  BY DEF PublishInit
<1>3. OrderInv
  BY <1>1, <1>2 DEF OrderInv
<1>4. RecordInv /\ ForgottenInv /\ ListedInv
  BY <1>1 DEF RecordInv, ForgottenInv, ListedInv
<1> QED BY <1>3, <1>4, GenerationStarts DEF RetentionInv

\* The order of the switches stands as long as nothing is begun or switched to.
LEMMA OrderStays ==
  ASSUME RetentionInv, UNCHANGED <<current, order, publishes>>, stops' \in {stops, stops + 1},
         step' = "idle" \/ (step # "idle" /\ keep' = keep),
         step' \in {"wipe", "make", "write", "switch"} => step \in {"wipe", "make", "write", "switch"}
  PROVE  OrderInv'
BY DEF RetentionInv, OrderInv

\* What neither pointer nor order changes leaves the record alone.
LEMMA RecordStays ==
  ASSUME RetentionInv, UNCHANGED <<current, order>>
  PROVE  RecordInv' /\ ForgottenInv'
BY DEF RetentionInv, RecordInv, ForgottenInv, OnRecord, Line, Newer

\* Listing: what is recorded is listed only behind as many as are kept.
LEMMA ListSteps ==
  ASSUME RetentionInv, List
  PROVE  ListedInv'
<1>1. /\ step = "list" /\ step' = "prune" /\ todo' = Surplus /\ there' = there
      /\ current' = current /\ gen' = gen /\ keep' = keep /\ order' = order
  BY DEF List, disk
<1>2. Surplus \subseteq there /\ Cardinality(there \ Surplus) <= keep
  BY <1>1, FewAreLeft
<1>3. ASSUME NEW g \in Surplus, OnRecord(g)
      PROVE  Cardinality(NewerThere(g)) >= keep
  <2> DEFINE Earlier == {h \in there \cap RecordedSet : Rank(h) < Rank(g)}
  <2>1. /\ there \in SUBSET Gens /\ IsFiniteSet(there) /\ keep \in Nat
        /\ \A h \in RecordedSet : Rank(h) < Rank(g) => order[h] > order[g]
        /\ g \in there \cap RecordedSet
    BY <1>1, <1>2, <1>3, Ranks
  <2>2. ~(Cardinality(Earlier) < keep)
    <3>1. g \notin Kept
      BY <1>3 DEF Surplus, Prunable
    <3> QED BY <2>1, <3>1 DEF Kept
  <2>3. Earlier \in SUBSET NewerThere(g) /\ NewerThere(g) \in SUBSET there
    BY <2>1 DEF NewerThere
  <2>4. IsFiniteSet(NewerThere(g)) /\ IsFiniteSet(Earlier)
    <3> HIDE DEF Earlier
    <3> QED BY <2>1, <2>3, FS_Subset
  <2>5. Cardinality(Earlier) <= Cardinality(NewerThere(g))
    <3> HIDE DEF Earlier
    <3> QED BY <2>3, <2>4, FS_Subset
  <2>6. Cardinality(Earlier) \in Nat /\ Cardinality(NewerThere(g)) \in Nat
    <3> HIDE DEF Earlier
    <3> QED BY <2>4, FS_CardinalityType
  <2> HIDE DEF Earlier
  <2> QED BY <2>1, <2>2, <2>5, <2>6
<1>4. \A g : /\ (OnRecord(g)' <=> OnRecord(g))
            /\ NewerThere(g)' = NewerThere(g)
  BY <1>1 DEF OnRecord, Line, NewerThere
<1> QED BY <1>1, <1>2, <1>3, <1>4 DEF ListedInv, RetentionInv

\* Pruning goes from the oldest: it takes nothing away that a later one on the list is behind.
LEMMA PruneSteps ==
  ASSUME RetentionInv, NEW d \in Gens, PruneDirectory(d)
  PROVE  ListedInv'
<1>1. /\ step = "prune" /\ step' = "prune" /\ d \in todo /\ \A h \in todo \ {d} : PrunedBefore(d, h)
      /\ there' = there \ {d} /\ todo' = todo \ {d}
      /\ current' = current /\ gen' = gen /\ keep' = keep /\ order' = order
  BY DEF PruneDirectory, NextPruned
<1>2. /\ todo \subseteq there /\ Cardinality(there \ todo) <= keep /\ current.id = gen
      /\ \A g \in todo : OnRecord(g) => Cardinality(NewerThere(g)) >= keep
  BY <1>1 DEF ListedInv, RetentionInv
<1>3. there' \ todo' = there \ todo
  BY <1>1, <1>2
<1>4. ASSUME NEW g \in todo \ {d}, OnRecord(g)
      PROVE  NewerThere(g)' = NewerThere(g)
  <2>1. /\ there \in SUBSET Gens /\ \A h \in RecordedSet : Rank(h) \in 1 .. Len(Line)
        /\ Len(Line) \in Nat
        /\ \A h, k \in RecordedSet : Rank(h) < Rank(k) => order[h] > order[k]
        /\ \A h \in Gens : h \in RecordedSet <=> OnRecord(h)
    BY <1>1, Ranks
  <2>2. g \in Gens /\ d \in Gens /\ g \in RecordedSet /\ PrunedBefore(d, g)
    BY <1>1, <1>2, <1>4, <2>1
  <2>3. order[g] \in Nat /\ order[d] \in Nat
    BY <2>2 DEF RetentionInv, OrderInv
  <2>4. ~(order[d] > order[g])
    <3>1. CASE d \in RecordedSet
      BY <2>1, <2>2, <2>3, <3>1 DEF PrunedBefore
    <3>2. CASE d \notin RecordedSet
      <4>1. ~OnRecord(d)
        BY <2>1, <2>2, <3>2
      <4>2. PICK i \in 1 .. Len(Line) : Line[i] = g
        BY <1>4 DEF OnRecord
      <4>3. order[d] > 0 => order[g] > order[d]
        BY <2>2, <4>1, <4>2 DEF RetentionInv, ForgottenInv
      <4> QED BY <2>3, <4>3
    <3> QED BY <3>1, <3>2
  <2> QED BY <1>1, <2>4 DEF NewerThere
<1>5. \A g : OnRecord(g)' <=> OnRecord(g)
  BY <1>1 DEF OnRecord, Line
<1> QED BY <1>1, <1>2, <1>3, <1>4, <1>5 DEF ListedInv

LEMMA RetentionSteps == RetentionInv /\ [PublishNext]_publishVars => RetentionInv'
<1> SUFFICES ASSUME RetentionInv, [PublishNext]_publishVars PROVE RetentionInv'
  OBVIOUS
<1>0. GenerationInv'
  BY GenerationSteps DEF RetentionInv
<1> USE DEF disk, work
<1> DEFINE Rest == OrderInv' /\ RecordInv' /\ ForgottenInv' /\ ListedInv'
<1> SUFFICES Rest
  BY <1>0 DEF RetentionInv
<1>1. ASSUME NEW p \in Publishers, NEW g \in Gens, NEW k \in Keeps, Begin(p, g, k) PROVE Rest
  <2>1. RecordInv' /\ ForgottenInv'
    BY <1>1, RecordStays DEF Begin
  <2>2. OrderInv'
    BY <1>1, KeepAssumption DEF Begin, RetentionInv, OrderInv
  <2>3. ListedInv'
    BY <1>1 DEF Begin, ListedInv
  <2> QED BY <2>1, <2>2, <2>3
<1>2. CASE \/ \E f \in Files : Wipe(f) \/ OpenFile(f) \/ WriteFile(f)
           \/ RemoveDirectory \/ MakeDirectory \/ Written
  <2>1. /\ UNCHANGED <<current, order, publishes, stops, keep>>
        /\ step \in {"wipe", "make", "write"} /\ step' \in {"wipe", "make", "write", "switch"}
    BY <1>2 DEF Wipe, OpenFile, WriteFile, RemoveDirectory, MakeDirectory, Written
  <2>2. RecordInv' /\ ForgottenInv' /\ OrderInv'
    BY <2>1, RecordStays, OrderStays
  <2>3. ListedInv'
    BY <2>1 DEF ListedInv
  <2> QED BY <2>2, <2>3
<1>3. CASE Switch
  <2>1. ListedInv'
    BY <1>3 DEF Switch, ListedInv
  <2> QED BY <1>3, <2>1, SwitchKeepsTheRecord
<1>4. CASE List
  <2>1. UNCHANGED <<current, order, publishes, stops, keep>> /\ step = "list" /\ step' = "prune"
    BY <1>4 DEF List
  <2>2. RecordInv' /\ ForgottenInv' /\ OrderInv'
    BY <2>1, RecordStays, OrderStays
  <2> QED BY <1>4, <2>2, ListSteps
<1>5. ASSUME NEW g \in Gens, PruneDirectory(g) PROVE Rest
  <2>1. UNCHANGED <<current, order, publishes, stops, keep>> /\ step = "prune" /\ step' = "prune"
    BY <1>5 DEF PruneDirectory
  <2>2. RecordInv' /\ ForgottenInv' /\ OrderInv'
    BY <2>1, RecordStays, OrderStays
  <2> QED BY <1>5, <2>2, PruneSteps
<1>6. ASSUME UNCHANGED <<current, order, publishes, stops, keep, step, gen, todo, there>> PROVE Rest
  <2>1. ListedInv'
    BY <1>6 DEF RetentionInv, ListedInv, OnRecord, Line, NewerThere
  <2>2. OrderInv'
    BY <1>6 DEF RetentionInv, OrderInv
  <2> QED BY <1>6, <2>1, <2>2, RecordStays
<1>7. CASE \E g \in Gens : \E f \in Files : PruneFile(g, f)
  BY <1>6, <1>7 DEF PruneFile
<1>8. CASE UNCHANGED publishVars
  BY <1>6, <1>8 DEF publishVars
<1>9. CASE End \/ Stop
  <2>1. UNCHANGED <<current, order, publishes>> /\ step' = "idle" /\ stops' \in {stops, stops + 1}
    BY <1>9 DEF End, Stop, Idle
  <2>2. RecordInv' /\ ForgottenInv' /\ OrderInv'
    BY <2>1, RecordStays, OrderStays
  <2>3. ListedInv'
    BY <2>1 DEF ListedInv
  <2> QED BY <2>2, <2>3
<1> HIDE DEF Rest
<1> QED BY <1>1, <1>2, <1>3, <1>4, <1>5, <1>7, <1>8, <1>9 DEF PublishNext

LEMMA RetainsStep ==
  ASSUME RetentionInv, [PublishNext]_publishVars, step = "prune"
  PROVE  /\ \A g \in there \ there' : order[g] > 0 =>
            \/ Cardinality({h \in there : order[h] > order[g]}) >= keep
            \/ Cardinality({h \in Gens : order[h] > order[g]}) > HistoryLength
         /\ step' = "idle" /\ stops' = stops => Cardinality(there) <= keep
<1> USE DEF disk, work
<1>1. ASSUME NEW g \in there \ there', order[g] > 0
      PROVE  \/ Cardinality({h \in there : order[h] > order[g]}) >= keep
             \/ Cardinality({h \in Gens : order[h] > order[g]}) > HistoryLength
  <2>1. PICK d \in Gens : PruneDirectory(d)
    BY <1>1 DEF PublishNext, publishVars, Begin, Wipe, OpenFile, WriteFile, RemoveDirectory,
                MakeDirectory, Written, Switch, List, PruneFile, End, Stop
  <2>2. g = d /\ g \in todo /\ g \in Gens
    BY <1>1, <2>1 DEF PruneDirectory, NextPruned
  <2>3. CASE OnRecord(g)
    BY <2>2, <2>3 DEF RetentionInv, ListedInv, NewerThere
  <2>4. CASE ~OnRecord(g)
    BY <1>1, <2>2, <2>4 DEF RetentionInv, ForgottenInv, Newer
  <2> QED BY <2>3, <2>4
<1>2. ASSUME step' = "idle", stops' = stops PROVE Cardinality(there) <= keep
  <2>1. todo = {}
    <3>1. stops + 1 # stops
      BY DEF RetentionInv, OrderInv
    <3> QED BY <1>2, <3>1 DEF PublishNext, publishVars, Begin, Wipe, OpenFile, WriteFile, RemoveDirectory,
                MakeDirectory, Written, Switch, List, PruneFile, PruneDirectory, End, Stop
  <2>2. there \ todo = there
    BY <2>1
  <2> QED BY <2>2 DEF RetentionInv, ListedInv
<1> QED BY <1>1, <1>2

(* Whatever was published, again or for the first time, and wherever        *)
(* publishers stopped, a generation comes off the disk only behind as many  *)
(* later ones as are to be kept, or when the record no longer holds it; and *)
(* a publish that goes through leaves no more than it was told to keep.     *)
THEOREM PublishingRetainsTheLatest == PublishSpec => RetainsTheLatest
<1>1. RetentionInv /\ [PublishNext]_publishVars =>
        (step = "prune" =>
          /\ \A g \in there \ there' : order[g] > 0 =>
              \/ Cardinality({h \in there : order[h] > order[g]}) >= keep
              \/ Cardinality({h \in Gens : order[h] > order[g]}) > HistoryLength
          /\ step' = "idle" /\ stops' = stops => Cardinality(there) <= keep)
  BY RetainsStep
<1> QED BY RetentionStarts, RetentionSteps, <1>1, PTL DEF PublishSpec, RetainsTheLatest
=============================================================================
