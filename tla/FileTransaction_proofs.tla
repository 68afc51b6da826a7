----------------------- MODULE FileTransaction_proofs -----------------------
(***************************************************************************)
(* Proofs about FileTransaction, for every number of files, every set of   *)
(* contents and every number of edits, crashes and faults:                 *)
(*   - every variable stays in its type;                                   *)
(*   - a completed transaction is never taken back;                        *)
(*   - what a user wrote is never destroyed, and rollback takes only what  *)
(*     is the transaction's own, when no write falls between a check and   *)
(*     the deletion it allows;                                             *)
(*   - no backup and no staged file is left that no journal speaks of, and *)
(*     a rollback that reports success has put every file back;            *)
(*   - where, besides, no program writes into a backup, all of it is one   *)
(*     atomic replacement of the files (AtomicApply).                      *)
(* The inductive invariant IInv is that of FileTransactionInv; the two     *)
(* about rollback rest on its HInv, the refinement on its SInv.  A lemma   *)
(* shows each part preserved, the cases being the groups of actions of     *)
(* Next; another, for each step, which abstract step it is, if any.        *)
(***************************************************************************)
EXTENDS FileTransactionInv, TLAPS

-----------------------------------------------------------------------------
(* Contents, journals and positions *)

\* Every content the model builds is a content.
LEMMA ContentTypes ==
    /\ Absent \in Content /\ Partial \in Content /\ Generated \in Content
    /\ \A b \in Bodies : Raw(b) \in Content
    /\ \A c \in Content : Render(c) \in Content
BY DEF Content, Absent, Partial, Generated, Raw, Render

\* What is written to the journal is a journal.
LEMMA JournalTypes ==
    /\ \A t \in Journals, p \in Paths, s \in EntryStates : [t EXCEPT !.es[p] = s] \in Journals
    /\ \A t \in Journals, s \in JournalStates : [t EXCEPT !.state = s] \in Journals
    /\ [state |-> "preparing", es |-> [p \in Paths |-> "planned"]] \in Journals
    /\ \A t \in Journals : t.es \in [Paths -> EntryStates]
    /\ \A f \in [Paths -> EntryStates] : [state |-> "complete", es |-> f] \in Journals
    /\ NoJournal \in Journals /\ NoJournal.state = "none"
<1>1. \A t \in Journals, p \in Paths, s \in EntryStates : [t EXCEPT !.es[p] = s] \in Journals
  BY DEF Journals
<1>2. \A t \in Journals, s \in JournalStates : [t EXCEPT !.state = s] \in Journals
  BY DEF Journals
<1>3. \A t \in Journals : t.es \in [Paths -> EntryStates]
  BY DEF Journals
<1>4. \A f \in [Paths -> EntryStates] : [state |-> "complete", es |-> f] \in Journals
  BY DEF Journals, JournalStates
<1>5. NoJournal \in Journals /\ NoJournal.state = "none"
  BY DEF Journals, NoJournal, EntryStates
<1>6. [state |-> "preparing", es |-> [p \in Paths |-> "planned"]] \in Journals
  BY DEF Journals, JournalStates, EntryStates
<1> QED BY <1>1, <1>2, <1>3, <1>4, <1>5, <1>6

\* Marking an entry keeps the journal's state, marking the state sets it.
LEMMA MarkStates == ASSUME TypeOK PROVE
    /\ \A p \in Paths, s \in EntryStates : SetEntry(p, s).state = tx.state
    /\ \A s \in JournalStates : SetState(s).state = s
    /\ NoJournal.state = "none"
  BY DEF TypeOK, Journals, SetEntry, SetState, NoJournal

\* The loops visit one entry at a time.
LEMMA OneFirst ==
    \A S \in SUBSET Paths : \A p \in Paths :
        /\ First(p, S) => p \in S /\ \A q \in S : First(q, S) => q = p
        /\ Last(p, S) => p \in S /\ \A q \in S : Last(q, S) => q = p
  BY DEF First, Last, Paths

\* What the transaction writes is told from what a user writes by its header.
LEMMA DistinctContents ==
    /\ \A c : Render(c) # Absent /\ Render(c).header = TRUE
    /\ \A b \in Bodies : Raw(b) # Absent /\ Raw(b).body = b /\ \A c : Raw(b) # Render(c)
    /\ Absent.body \notin Bodies /\ "none" \notin Bodies
    /\ \A c : c # Absent => Render(c).body = c.body
    /\ Render(Absent).body \notin Bodies
  BY BodiesAssumption DEF Absent, Raw, Render, Generated

-----------------------------------------------------------------------------
(* Type correctness *)

LEMMA TypeInit == Init => TypeOK
<1> SUFFICES ASSUME Init PROVE TypeOK
  OBVIOUS
<1>1. {Absent} \cup {Raw(b) : b \in Bodies} \subseteq Content
  BY ContentTypes
<1>2. \A c \in {Absent} \cup {Raw(b) : b \in Bodies} : c.body \in Bodies \cup {"none"}
  BY DEF Raw, Absent
<1>3. target \in [Paths -> Content] /\ \A p \in Paths : target[p].body \in Bodies \cup {"none"}
  BY <1>1, <1>2 DEF Init
<1> QED BY <1>3, ContentTypes, JournalTypes DEF Init, TypeOK, PCs, Outcomes

LEMMA MarkTypes == ASSUME TypeOK PROVE
    /\ \A p \in Paths, s \in EntryStates : SetEntry(p, s) \in Journals
    /\ \A s \in JournalStates : SetState(s) \in Journals
    /\ [state |-> "complete",
        es |-> [p \in Paths |-> IF p \in work THEN "validated" ELSE tx.es[p]]] \in Journals
<1>1. \A p \in Paths, s \in EntryStates : SetEntry(p, s) \in Journals
  BY JournalTypes DEF TypeOK, SetEntry
<1>2. \A s \in JournalStates : SetState(s) \in Journals
  BY JournalTypes DEF TypeOK, SetState
<1>3. [state |-> "complete",
       es |-> [p \in Paths |-> IF p \in work THEN "validated" ELSE tx.es[p]]] \in Journals
  BY JournalTypes DEF TypeOK, EntryStates
<1> QED BY <1>1, <1>2, <1>3

LEMMA TxType == ASSUME TypeOK, [Next]_vars PROVE tx' \in Journals
<1>1. CASE Start \/ Plan \/ Prepare
  BY <1>1, MarkTypes, JournalTypes DEF Start, Plan, Prepare, Goto, plan, user, disk, Finish, TypeOK, EntryStates,
         JournalStates
<1>2. CASE \/ CreateJournal \/ MarkAllStaged \/ Expect \/ MarkCommitting
             \/ Post \/ MarkValidating \/ Validate \/ MarkComplete
  BY <1>2, MarkTypes, JournalTypes DEF CreateJournal, MarkAllStaged, Expect, MarkCommitting, Post, MarkValidating,
         Validate, MarkComplete, Mark, plan, user, Sound, Goto, Fails, Throw, disk,
         MayFail, TypeOK, EntryStates, JournalStates
<1>3. CASE CleanJournal \/ RollbackMark \/ RollbackEnd
  BY <1>3, MarkTypes, JournalTypes DEF CleanJournal, RollbackMark, RollbackEnd, Sound, Finish, Fails, plan, user,
         Goto, TypeOK, EntryStates, JournalStates
<1>4. CASE FinalCheck \/ FinalEnd
  BY <1>4, MarkTypes, JournalTypes DEF FinalCheck, FinalEnd, Goto, Finish, disk, plan, user, Sound, Fails, TypeOK,
         EntryStates, JournalStates
<1>5. CASE \E p \in Paths : Commit(p)
  BY <1>5, MarkTypes DEF Commit, StageTemp, MarkStaged, BackUp, Verify, PutBackLink, PutBackUnlink,
         MarkBackedUp, Link, Unlink, MarkCommitted, Sound, Goto, Fails, Throw, plan,
         user, Mark, TakeOver, disk, MayFail, TypeOK, EntryStates, JournalStates
<1>6. CASE \E p \in Paths : Rollback(p)
  BY <1>6, MarkTypes, JournalTypes DEF Rollback, RollbackRead, RollbackRemove, RollbackRename, RollbackDrop,
         RollbackTemp, Sound, Goto, GiveUp, Fails, disk, plan, user, TypeOK,
         EntryStates, JournalStates
<1>7. CASE \E p \in Paths : CleanUp(p)
  BY <1>7, MarkTypes, JournalTypes DEF CleanUp, CleanCheck, CleanRemove, FinalRemove, Sound, Goto, Fails, AfterClean,
         disk, plan, user, Finish, TypeOK, EntryStates, JournalStates
<1>8. CASE Environment
  BY <1>8, MarkTypes, JournalTypes DEF Environment, Crash, UserDelete, UserWrite, StaleWrite, plan, user, Edit, proc,
         TypeOK, EntryStates, JournalStates
<1>9. CASE UNCHANGED vars
  BY <1>9, MarkTypes, JournalTypes DEF vars, disk, proc, plan, user, disk, proc, plan, user, TypeOK, EntryStates,
         JournalStates
<1> QED BY <1>1, <1>2, <1>3, <1>4, <1>5, <1>6, <1>7, <1>8, <1>9 DEF Next, Process

LEMMA JournalType == ASSUME TypeOK, [Next]_vars PROVE journal' \in Journals
<1>1. CASE Start \/ Plan \/ Prepare
  BY <1>1, TxType, JournalTypes DEF Start, Plan, Prepare, Goto, plan, user, disk, Finish, TypeOK
<1>2. CASE \/ CreateJournal \/ MarkAllStaged \/ Expect \/ MarkCommitting
             \/ Post \/ MarkValidating \/ Validate \/ MarkComplete
  BY <1>2, TxType, JournalTypes DEF CreateJournal, MarkAllStaged, Expect, MarkCommitting, Post, MarkValidating,
         Validate, MarkComplete, Mark, plan, user, Sound, Goto, Fails, Throw, disk,
         MayFail, TypeOK
<1>3. CASE CleanJournal \/ RollbackMark \/ RollbackEnd
  BY <1>3, TxType, JournalTypes DEF CleanJournal, RollbackMark, RollbackEnd, Sound, Finish, Fails, plan, user,
         Goto, TypeOK
<1>4. CASE FinalCheck \/ FinalEnd
  BY <1>4, TxType, JournalTypes DEF FinalCheck, FinalEnd, Goto, Finish, disk, plan, user, Sound, Fails, TypeOK
<1>5. CASE \E p \in Paths : Commit(p)
  BY <1>5, TxType, JournalTypes DEF Commit, StageTemp, MarkStaged, BackUp, Verify, PutBackLink, PutBackUnlink,
         MarkBackedUp, Link, Unlink, MarkCommitted, Sound, Goto, Fails, Throw, plan,
         user, Mark, TakeOver, disk, MayFail, TypeOK
<1>6. CASE \E p \in Paths : Rollback(p)
  BY <1>6, TxType, JournalTypes DEF Rollback, RollbackRead, RollbackRemove, RollbackRename, RollbackDrop,
         RollbackTemp, Sound, Goto, GiveUp, Fails, disk, plan, user, TypeOK
<1>7. CASE \E p \in Paths : CleanUp(p)
  BY <1>7, TxType, JournalTypes DEF CleanUp, CleanCheck, CleanRemove, FinalRemove, Sound, Goto, Fails, AfterClean,
         disk, plan, user, Finish, TypeOK
<1>8. CASE Environment
  BY <1>8, TxType, JournalTypes DEF Environment, Crash, UserDelete, UserWrite, StaleWrite, plan, user, Edit, proc,
         TypeOK
<1>9. CASE UNCHANGED vars
  BY <1>9, TxType, JournalTypes DEF vars, disk, proc, plan, user, disk, proc, plan, user, TypeOK
<1> QED BY <1>1, <1>2, <1>3, <1>4, <1>5, <1>6, <1>7, <1>8, <1>9 DEF Next, Process

LEMMA NextType == ASSUME TypeOK, [Next]_vars PROVE next' \in BOOLEAN
<1>1. CASE Start \/ Plan \/ Prepare
  BY <1>1 DEF Start, Plan, Prepare, Goto, plan, user, disk, Finish, TypeOK
<1>2. CASE \/ CreateJournal \/ MarkAllStaged \/ Expect \/ MarkCommitting
             \/ Post \/ MarkValidating \/ Validate \/ MarkComplete
  BY <1>2 DEF CreateJournal, MarkAllStaged, Expect, MarkCommitting, Post, MarkValidating,
         Validate, MarkComplete, Mark, plan, user, Sound, Goto, Fails, Throw, disk,
         MayFail, TypeOK
<1>3. CASE CleanJournal \/ RollbackMark \/ RollbackEnd
  BY <1>3 DEF CleanJournal, RollbackMark, RollbackEnd, Sound, Finish, Fails, plan, user,
         Goto, TypeOK
<1>4. CASE FinalCheck \/ FinalEnd
  BY <1>4 DEF FinalCheck, FinalEnd, Goto, Finish, disk, plan, user, Sound, Fails, TypeOK
<1>5. CASE \E p \in Paths : Commit(p)
  BY <1>5 DEF Commit, StageTemp, MarkStaged, BackUp, Verify, PutBackLink, PutBackUnlink,
         MarkBackedUp, Link, Unlink, MarkCommitted, Sound, Goto, Fails, Throw, plan,
         user, Mark, TakeOver, disk, MayFail, TypeOK
<1>6. CASE \E p \in Paths : Rollback(p)
  BY <1>6 DEF Rollback, RollbackRead, RollbackRemove, RollbackRename, RollbackDrop,
         RollbackTemp, Sound, Goto, GiveUp, Fails, disk, plan, user, TypeOK
<1>7. CASE \E p \in Paths : CleanUp(p)
  BY <1>7 DEF CleanUp, CleanCheck, CleanRemove, FinalRemove, Sound, Goto, Fails, AfterClean,
         disk, plan, user, Finish, TypeOK
<1>8. CASE Environment
  BY <1>8 DEF Environment, Crash, UserDelete, UserWrite, StaleWrite, plan, user, Edit, proc,
         TypeOK
<1>9. CASE UNCHANGED vars
  BY <1>9 DEF vars, disk, proc, plan, user, disk, proc, plan, user, TypeOK
<1> QED BY <1>1, <1>2, <1>3, <1>4, <1>5, <1>6, <1>7, <1>8, <1>9 DEF Next, Process

LEMMA RecoveringType == ASSUME TypeOK, [Next]_vars PROVE recovering' \in BOOLEAN
<1>1. CASE Start \/ Plan \/ Prepare
  BY <1>1 DEF Start, Plan, Prepare, Goto, plan, user, disk, Finish, TypeOK
<1>2. CASE \/ CreateJournal \/ MarkAllStaged \/ Expect \/ MarkCommitting
             \/ Post \/ MarkValidating \/ Validate \/ MarkComplete
  BY <1>2 DEF CreateJournal, MarkAllStaged, Expect, MarkCommitting, Post, MarkValidating,
         Validate, MarkComplete, Mark, plan, user, Sound, Goto, Fails, Throw, disk,
         MayFail, TypeOK
<1>3. CASE CleanJournal \/ RollbackMark \/ RollbackEnd
  BY <1>3 DEF CleanJournal, RollbackMark, RollbackEnd, Sound, Finish, Fails, plan, user,
         Goto, TypeOK
<1>4. CASE FinalCheck \/ FinalEnd
  BY <1>4 DEF FinalCheck, FinalEnd, Goto, Finish, disk, plan, user, Sound, Fails, TypeOK
<1>5. CASE \E p \in Paths : Commit(p)
  BY <1>5 DEF Commit, StageTemp, MarkStaged, BackUp, Verify, PutBackLink, PutBackUnlink,
         MarkBackedUp, Link, Unlink, MarkCommitted, Sound, Goto, Fails, Throw, plan,
         user, Mark, TakeOver, disk, MayFail, TypeOK
<1>6. CASE \E p \in Paths : Rollback(p)
  BY <1>6 DEF Rollback, RollbackRead, RollbackRemove, RollbackRename, RollbackDrop,
         RollbackTemp, Sound, Goto, GiveUp, Fails, disk, plan, user, TypeOK
<1>7. CASE \E p \in Paths : CleanUp(p)
  BY <1>7 DEF CleanUp, CleanCheck, CleanRemove, FinalRemove, Sound, Goto, Fails, AfterClean,
         disk, plan, user, Finish, TypeOK
<1>8. CASE Environment
  BY <1>8 DEF Environment, Crash, UserDelete, UserWrite, StaleWrite, plan, user, Edit, proc,
         TypeOK
<1>9. CASE UNCHANGED vars
  BY <1>9 DEF vars, disk, proc, plan, user, disk, proc, plan, user, TypeOK
<1> QED BY <1>1, <1>2, <1>3, <1>4, <1>5, <1>6, <1>7, <1>8, <1>9 DEF Next, Process

LEMMA TypeStep == TypeOK /\ [Next]_vars => TypeOK'
<1> SUFFICES ASSUME TypeOK, [Next]_vars PROVE TypeOK'
  OBVIOUS
<1> USE DEF
      vars, disk, proc, plan, user, Goto, Fails, Sound, Throw, Mark, MayFail, Finish,
      GiveUp, AfterClean, Edit, TakeOver, Next, Process, Environment, Commit, Rollback,
      CleanUp, Start, Plan, Prepare, CreateJournal, MarkAllStaged, Expect,
      MarkCommitting, Post, MarkValidating, Validate, MarkComplete, CleanJournal,
      RollbackMark, RollbackEnd, FinalCheck, FinalEnd, Crash, StageTemp, MarkStaged,
      BackUp, Verify, PutBackLink, PutBackUnlink, MarkBackedUp, Link, Unlink,
      MarkCommitted, RollbackRead, RollbackRemove, RollbackRename, RollbackDrop,
      RollbackTemp, CleanCheck, CleanRemove, FinalRemove, UserDelete, UserWrite,
      StaleWrite
<1>1. target' \in [Paths -> Content]
  BY ContentTypes DEF TypeOK, New
<1>2. temp' \in [Paths -> Content]
  BY ContentTypes DEF TypeOK, New
<1>3. backup' \in [Paths -> Content]
  BY ContentTypes DEF TypeOK
<1>4. base' \in [Paths -> Content]
  BY DEF TypeOK
<1>5. pc' \in PCs
  BY DEF TypeOK, PCs
<1>6. outcome' \in Outcomes
  BY DEF TypeOK, Outcomes
<1>7. todo' \in SUBSET Paths /\ failed' \in SUBSET Paths
  BY DEF TypeOK
<1>8. work' \in SUBSET Paths
  BY DEF TypeOK
<1>9. last' \in [Paths -> Bodies \cup {"none", "generated"}]
  BY DEF TypeOK
<1>10. touched' \in SUBSET Paths /\ gone' \in SUBSET Paths
  BY DEF TypeOK
<1>11. faults' \in Nat /\ crashes' \in Nat /\ edits' \in Nat
  BY DEF TypeOK
<1> HIDE DEF Next, vars
<1> QED BY <1>1, <1>2, <1>3, <1>4, <1>5, <1>6, <1>7, <1>8, <1>9, <1>10, <1>11,
         TxType, JournalType, NextType, RecoveringType DEF TypeOK

(* Every variable stays in its type, whatever the bounds. *)
THEOREM TypeCorrect == Spec => []TypeOK
<1>1. TypeOK /\ [Next]_vars => TypeOK'
  BY TypeStep
<1> QED BY TypeInit, <1>1, PTL DEF Spec

-----------------------------------------------------------------------------
(* The journal and the position of the process *)

LEMMA JournalStep == ASSUME TypeOK, JournalInv, [Next]_vars PROVE JournalInv'
<1>1. CASE Start \/ Plan \/ Prepare
  BY <1>1, MarkStates DEF Start, Plan, Prepare, Goto, plan, user, disk, Finish, TypeOK, JournalInv,
         Trying, Staging, Moving, Validating, Cleaning, Finalizing, Pending,
         EntryStates, JournalStates
<1>2. CASE \/ CreateJournal \/ MarkAllStaged \/ Expect \/ MarkCommitting
             \/ Post \/ MarkValidating \/ Validate \/ MarkComplete
  BY <1>2, MarkStates DEF CreateJournal, MarkAllStaged, Expect, MarkCommitting, Post, MarkValidating,
         Validate, MarkComplete, Mark, plan, user, Sound, Goto, Fails, Throw, disk,
         MayFail, TypeOK, JournalInv, Trying, Staging, Moving, Validating, Cleaning,
         Finalizing, Pending, EntryStates, JournalStates
<1>3. CASE CleanJournal \/ RollbackMark \/ RollbackEnd
  BY <1>3, MarkStates DEF CleanJournal, RollbackMark, RollbackEnd, Sound, Finish, Fails, plan, user,
         Goto, TypeOK, JournalInv, Trying, Staging, Moving, Validating, Cleaning,
         Finalizing, Pending, EntryStates, JournalStates
<1>4. CASE FinalCheck \/ FinalEnd
  BY <1>4, MarkStates DEF FinalCheck, FinalEnd, Goto, Finish, disk, plan, user, Sound, Fails, TypeOK,
         JournalInv, Trying, Staging, Moving, Validating, Cleaning, Finalizing,
         Pending, EntryStates, JournalStates
<1>5. CASE \E p \in Paths : Commit(p)
  BY <1>5, MarkStates DEF Commit, StageTemp, MarkStaged, BackUp, Verify, PutBackLink, PutBackUnlink,
         MarkBackedUp, Link, Unlink, MarkCommitted, Sound, Goto, Fails, Throw, plan,
         user, Mark, TakeOver, disk, MayFail, TypeOK, JournalInv, Trying, Staging,
         Moving, Validating, Cleaning, Finalizing, Pending, EntryStates, JournalStates
<1>6. CASE \E p \in Paths : Rollback(p)
  BY <1>6, MarkStates DEF Rollback, RollbackRead, RollbackRemove, RollbackRename, RollbackDrop,
         RollbackTemp, Sound, Goto, GiveUp, Fails, disk, plan, user, TypeOK,
         JournalInv, Trying, Staging, Moving, Validating, Cleaning, Finalizing,
         Pending, EntryStates, JournalStates
<1>7. CASE \E p \in Paths : CleanUp(p)
  BY <1>7, MarkStates DEF CleanUp, CleanCheck, CleanRemove, FinalRemove, Sound, Goto, Fails, AfterClean,
         disk, plan, user, Finish, TypeOK, JournalInv, Trying, Staging, Moving,
         Validating, Cleaning, Finalizing, Pending, EntryStates, JournalStates
<1>8. CASE Environment
  BY <1>8, MarkStates DEF Environment, Crash, UserDelete, UserWrite, StaleWrite, plan, user, Edit, proc,
         TypeOK, JournalInv, Trying, Staging, Moving, Validating, Cleaning, Finalizing,
         Pending, EntryStates, JournalStates
<1>9. CASE UNCHANGED vars
  BY <1>9, MarkStates DEF vars, disk, proc, plan, user, disk, proc, plan, user, TypeOK, JournalInv,
         Trying, Staging, Moving, Validating, Cleaning, Finalizing, Pending,
         EntryStates, JournalStates
<1> QED BY <1>1, <1>2, <1>3, <1>4, <1>5, <1>6, <1>7, <1>8, <1>9 DEF Next, Process

LEMMA JournalInit == Init => JournalInv
BY DEF Init, JournalInv, Trying, Staging, Moving, Validating, Cleaning, Finalizing,
       NoJournal, Pending

CompleteStays ==
    journal.state = "complete"
      => /\ journal' \in {journal, NoJournal}
         /\ target' = target \/ edits' # edits

LEMMA FinalStep == ASSUME TypeOK, JournalInv, [Next]_vars PROVE CompleteStays
<1>1. CASE Start \/ Plan \/ Prepare
  BY <1>1 DEF Start, Plan, Prepare, Goto, plan, user, disk, Finish, TypeOK, JournalInv,
         Trying, Staging, Moving, Validating, Cleaning, Finalizing, CompleteStays
<1>2. CASE \/ CreateJournal \/ MarkAllStaged \/ Expect \/ MarkCommitting
             \/ Post \/ MarkValidating \/ Validate \/ MarkComplete
  BY <1>2 DEF CreateJournal, MarkAllStaged, Expect, MarkCommitting, Post, MarkValidating,
         Validate, MarkComplete, Mark, plan, user, Sound, Goto, Fails, Throw, disk,
         MayFail, TypeOK, JournalInv, Trying, Staging, Moving, Validating, Cleaning,
         Finalizing, CompleteStays
<1>3. CASE CleanJournal \/ RollbackMark \/ RollbackEnd
  BY <1>3 DEF CleanJournal, RollbackMark, RollbackEnd, Sound, Finish, Fails, plan, user,
         Goto, TypeOK, JournalInv, Trying, Staging, Moving, Validating, Cleaning,
         Finalizing, CompleteStays
<1>4. CASE FinalCheck \/ FinalEnd
  BY <1>4 DEF FinalCheck, FinalEnd, Goto, Finish, disk, plan, user, Sound, Fails, TypeOK,
         JournalInv, Trying, Staging, Moving, Validating, Cleaning, Finalizing,
         CompleteStays
<1>5. CASE \E p \in Paths : Commit(p)
  BY <1>5 DEF Commit, StageTemp, MarkStaged, BackUp, Verify, PutBackLink, PutBackUnlink,
         MarkBackedUp, Link, Unlink, MarkCommitted, Sound, Goto, Fails, Throw, plan,
         user, Mark, TakeOver, disk, MayFail, TypeOK, JournalInv, Trying, Staging,
         Moving, Validating, Cleaning, Finalizing, CompleteStays
<1>6. CASE \E p \in Paths : Rollback(p)
  BY <1>6 DEF Rollback, RollbackRead, RollbackRemove, RollbackRename, RollbackDrop,
         RollbackTemp, Sound, Goto, GiveUp, Fails, disk, plan, user, TypeOK,
         JournalInv, Trying, Staging, Moving, Validating, Cleaning, Finalizing,
         CompleteStays
<1>7. CASE \E p \in Paths : CleanUp(p)
  BY <1>7 DEF CleanUp, CleanCheck, CleanRemove, FinalRemove, Sound, Goto, Fails, AfterClean,
         disk, plan, user, Finish, TypeOK, JournalInv, Trying, Staging, Moving,
         Validating, Cleaning, Finalizing, CompleteStays
<1>8. CASE Environment
  <2>1. CASE Crash
    BY <2>1 DEF Crash, plan, user, TypeOK, JournalInv, Trying, Staging, Moving, Validating,
           Cleaning, Finalizing, CompleteStays
  <2>2. ASSUME NEW p \in Paths, UserDelete(p) PROVE CompleteStays
    BY <2>2 DEF UserDelete, Edit, proc, plan, TypeOK, JournalInv, Trying, Staging, Moving,
           Validating, Cleaning, Finalizing, CompleteStays
  <2>3. ASSUME NEW p \in Paths, NEW b \in Bodies, UserWrite(p, b) PROVE CompleteStays
    BY <2>3 DEF UserWrite, Edit, proc, plan, TypeOK, JournalInv, Trying, Staging, Moving,
           Validating, Cleaning, Finalizing, CompleteStays
  <2>4. ASSUME NEW p \in Paths, NEW b \in Bodies, StaleWrite(p, b) PROVE CompleteStays
    BY <2>4 DEF StaleWrite, Edit, proc, plan, TypeOK, JournalInv, Trying, Staging, Moving,
           Validating, Cleaning, Finalizing, CompleteStays
  <2> QED BY <1>8, <2>1, <2>2, <2>3, <2>4 DEF Environment
<1>9. CASE UNCHANGED vars
  BY <1>9 DEF vars, disk, proc, plan, user, disk, proc, plan, user, TypeOK, JournalInv,
         Trying, Staging, Moving, Validating, Cleaning, Finalizing, CompleteStays
<1> QED BY <1>1, <1>2, <1>3, <1>4, <1>5, <1>6, <1>7, <1>8, <1>9 DEF Next, Process

(* Once the journal says complete, the transaction is never rolled back:    *)
(* the journal only goes away, and only a user changes a target.            *)
THEOREM CompleteIsNeverUndone == Spec => CompleteIsFinal
<1>1. Init => TypeOK /\ JournalInv
  BY TypeInit, JournalInit
<1>2. TypeOK /\ JournalInv /\ [Next]_vars => TypeOK' /\ JournalInv'
  BY TypeStep, JournalStep
<1>3. TypeOK /\ JournalInv /\ [Next]_vars => [CompleteStays]_vars
  BY FinalStep
<1> QED BY <1>1, <1>2, <1>3, PTL DEF Spec, CompleteIsFinal, CompleteStays

-----------------------------------------------------------------------------
(* The parts of the inductive invariant *)

LEMMA LoopStep == ASSUME TypeOK, JournalInv, LoopInv, BackupInv, [Next]_vars PROVE LoopInv'
<1>1. CASE Start \/ Plan \/ Prepare
  BY <1>1, OneFirst, DistinctContents DEF Start, Plan, Prepare, Goto, plan, user, disk,
         Finish, TypeOK, JournalInv, LoopInv, BackupInv, Trying, Staging, Moving,
         Validating, Rolling, Cleaning, Finalizing, Pending
<1>2. CASE \/ CreateJournal \/ MarkAllStaged \/ Expect \/ MarkCommitting
             \/ Post \/ MarkValidating \/ Validate \/ MarkComplete
  BY <1>2, OneFirst, DistinctContents DEF CreateJournal, MarkAllStaged, Expect,
         MarkCommitting, Post, MarkValidating, Validate, MarkComplete, Mark, plan, user,
         Sound, Goto, Fails, Throw, disk, MayFail, TypeOK, JournalInv, LoopInv, BackupInv,
         Trying, Staging, Moving, Validating, Rolling, Cleaning, Finalizing, Pending
<1>3. CASE CleanJournal \/ RollbackMark \/ RollbackEnd
  BY <1>3, OneFirst, DistinctContents DEF CleanJournal, RollbackMark, RollbackEnd, Sound,
         Finish, Fails, plan, user, Goto, TypeOK, JournalInv, LoopInv, BackupInv, Trying,
         Staging, Moving, Validating, Rolling, Cleaning, Finalizing, Pending
<1>4. CASE FinalCheck \/ FinalEnd
  BY <1>4, OneFirst, DistinctContents DEF FinalCheck, FinalEnd, Goto, Finish, disk, plan,
         user, Sound, Fails, TypeOK, JournalInv, LoopInv, BackupInv, Trying, Staging,
         Moving, Validating, Rolling, Cleaning, Finalizing, Pending
<1>5. CASE \E p \in Paths : Commit(p)
  <2> PICK p \in Paths : Commit(p)
    BY <1>5
  <2>1. CASE StageTemp(p)
    BY <2>1, OneFirst, DistinctContents DEF StageTemp, Sound, Goto, Fails, Throw, plan,
           user, TypeOK, JournalInv, LoopInv, BackupInv, Trying, Staging, Moving,
           Validating, Rolling, Cleaning, Finalizing, Pending
  <2>2. CASE MarkStaged(p)
    BY <2>2, OneFirst, DistinctContents DEF MarkStaged, Mark, plan, user, Sound, Goto,
           Fails, Throw, TypeOK, JournalInv, LoopInv, BackupInv, Trying, Staging, Moving,
           Validating, Rolling, Cleaning, Finalizing, Pending
  <2>3. CASE BackUp(p)
    BY <2>3, OneFirst, DistinctContents DEF BackUp, Sound, TakeOver, Goto, Throw, disk,
           user, MayFail, plan, Fails, TypeOK, JournalInv, LoopInv, BackupInv, Trying,
           Staging, Moving, Validating, Rolling, Cleaning, Finalizing, Pending
  <2>4. CASE Verify(p)
    BY <2>4, OneFirst, DistinctContents DEF Verify, Sound, Goto, disk, MayFail, plan, user,
           Fails, Throw, TypeOK, JournalInv, LoopInv, BackupInv, Trying, Staging, Moving,
           Validating, Rolling, Cleaning, Finalizing, Pending
  <2>5. CASE PutBackLink(p)
    BY <2>5, OneFirst, DistinctContents DEF PutBackLink, Sound, Goto, Throw, disk, MayFail,
           plan, user, Fails, TypeOK, JournalInv, LoopInv, BackupInv, Trying, Staging,
           Moving, Validating, Rolling, Cleaning, Finalizing, Pending
  <2>6. CASE PutBackUnlink(p)
    BY <2>6, OneFirst, DistinctContents DEF PutBackUnlink, Sound, Throw, MayFail, plan,
           user, Fails, disk, Goto, TypeOK, JournalInv, LoopInv, BackupInv, Trying, Staging,
           Moving, Validating, Rolling, Cleaning, Finalizing, Pending
  <2>7. CASE MarkBackedUp(p)
    BY <2>7, OneFirst, DistinctContents DEF MarkBackedUp, Mark, plan, user, Sound, Goto,
           Fails, Throw, TypeOK, JournalInv, LoopInv, BackupInv, Trying, Staging, Moving,
           Validating, Rolling, Cleaning, Finalizing, Pending
  <2>8. CASE Link(p)
    BY <2>8, OneFirst, DistinctContents DEF Link, Sound, TakeOver, Goto, Throw, disk, user,
           MayFail, plan, Fails, TypeOK, JournalInv, LoopInv, BackupInv, Trying, Staging,
           Moving, Validating, Rolling, Cleaning, Finalizing, Pending
  <2>9. CASE Unlink(p)
    BY <2>9, OneFirst, DistinctContents DEF Unlink, Sound, Goto, MayFail, plan, user, Fails,
           Throw, disk, TypeOK, JournalInv, LoopInv, BackupInv, Trying, Staging, Moving,
           Validating, Rolling, Cleaning, Finalizing, Pending
  <2>10. CASE MarkCommitted(p)
    BY <2>10, OneFirst, DistinctContents DEF MarkCommitted, Mark, plan, user, Sound, Goto,
           Fails, Throw, TypeOK, JournalInv, LoopInv, BackupInv, Trying, Staging, Moving,
           Validating, Rolling, Cleaning, Finalizing, Pending
  <2> QED BY <2>1, <2>2, <2>3, <2>4, <2>5, <2>6, <2>7, <2>8, <2>9, <2>10 DEF Commit
<1>6. CASE \E p \in Paths : Rollback(p)
  <2> PICK p \in Paths : Rollback(p)
    BY <1>6
  <2>1. CASE RollbackRead(p)
    <3>1. /\ pc \in Rolling /\ pc' \in {"rb_remove", "rb_drop", "rb_temp", "rb_read"} /\ p \in todo
          /\ \A q \in todo : Last(q, todo) => q = p
      BY <2>1, OneFirst DEF RollbackRead, Goto, GiveUp, Rolling, TypeOK
    <3>2. /\ \A q \in Paths : q = p \/ backup'[q] = backup[q]
          /\ work' = work
          /\ \/ todo' = todo /\ failed' = failed
             \/ /\ todo' = todo \ {p} /\ failed' = failed \cup {p} /\ pc' = "rb_read"
                /\ backup' = backup
      BY <2>1, <3>1 DEF RollbackRead, GiveUp, Goto, disk, plan, TypeOK
    <3>3. /\ pc' \in {"rb_drop", "rb_temp"} => backup'[p] = Absent
          /\ pc' \in {"rb_remove", "rb_rename"} => backup'[p] # Absent
      BY <2>1, <3>1 DEF RollbackRead, GiveUp, Goto, disk, LoopInv, TypeOK
    <3>4. \A q \in work : q \in todo' \/ q \in failed' \/ backup'[q] = Absent
      BY <3>1, <3>2 DEF LoopInv, TypeOK
    <3>5. todo' \subseteq work
      BY <3>1, <3>2 DEF LoopInv
    <3> QED
      BY <3>1, <3>2, <3>3, <3>4, <3>5 DEF LoopInv, Trying, Staging, Moving, Validating, Rolling,
             Cleaning, Finalizing
  <2>2. CASE RollbackRemove(p)
    BY <2>2, OneFirst, DistinctContents DEF RollbackRemove, Sound, Goto, Fails, GiveUp,
           plan, user, TypeOK, JournalInv, LoopInv, BackupInv, Trying, Staging, Moving,
           Validating, Rolling, Cleaning, Finalizing, Pending
  <2>3. CASE RollbackRename(p)
    <3>1. /\ pc \in Rolling /\ pc' \in {"rb_temp", "rb_read"} /\ p \in todo
          /\ \A q \in todo : Last(q, todo) => q = p
      BY <2>3, OneFirst DEF RollbackRename, Goto, GiveUp, Rolling, TypeOK
    <3>2. /\ \A q \in Paths : q = p \/ backup'[q] = backup[q]
          /\ work' = work
          /\ \/ todo' = todo /\ failed' = failed
             \/ /\ todo' = todo \ {p} /\ failed' = failed \cup {p} /\ pc' = "rb_read"
                /\ backup' = backup
      BY <2>3, <3>1 DEF RollbackRename, GiveUp, Goto, disk, plan, TypeOK
    <3>3. /\ pc' \in {"rb_drop", "rb_temp"} => backup'[p] = Absent
          /\ pc' \in {"rb_remove", "rb_rename"} => backup'[p] # Absent
      BY <2>3, <3>1 DEF RollbackRename, GiveUp, Goto, disk, LoopInv, TypeOK
    <3>4. \A q \in work : q \in todo' \/ q \in failed' \/ backup'[q] = Absent
      BY <3>1, <3>2 DEF LoopInv, TypeOK
    <3>5. todo' \subseteq work
      BY <3>1, <3>2 DEF LoopInv
    <3> QED
      BY <3>1, <3>2, <3>3, <3>4, <3>5 DEF LoopInv, Trying, Staging, Moving, Validating, Rolling,
             Cleaning, Finalizing
  <2>4. CASE RollbackDrop(p)
    BY <2>4, OneFirst, DistinctContents DEF RollbackDrop, Sound, Goto, Fails, GiveUp, plan,
           user, TypeOK, JournalInv, LoopInv, BackupInv, Trying, Staging, Moving,
           Validating, Rolling, Cleaning, Finalizing, Pending
  <2>5. CASE RollbackTemp(p)
    BY <2>5, OneFirst, DistinctContents DEF RollbackTemp, Sound, Goto, Fails, GiveUp, plan,
           user, TypeOK, JournalInv, LoopInv, BackupInv, Trying, Staging, Moving,
           Validating, Rolling, Cleaning, Finalizing, Pending
  <2> QED BY <2>1, <2>2, <2>3, <2>4, <2>5 DEF Rollback
<1>7. CASE \E p \in Paths : CleanUp(p)
  <2> PICK p \in Paths : CleanUp(p)
    BY <1>7
  <2>1. CASE CleanCheck(p)
    BY <2>1, OneFirst, DistinctContents DEF CleanCheck, Sound, Goto, Fails, AfterClean,
           disk, plan, user, TypeOK, JournalInv, LoopInv, BackupInv, Trying, Staging,
           Moving, Validating, Rolling, Cleaning, Finalizing, Pending
  <2>2. CASE CleanRemove(p)
    BY <2>2, OneFirst, DistinctContents DEF CleanRemove, AfterClean, Sound, Fails, plan,
           user, Goto, TypeOK, JournalInv, LoopInv, BackupInv, Trying, Staging, Moving,
           Validating, Rolling, Cleaning, Finalizing, Pending
  <2>3. CASE FinalRemove(p)
    BY <2>3, OneFirst, DistinctContents DEF FinalRemove, Sound, Fails, Finish, plan, user,
           Goto, TypeOK, JournalInv, LoopInv, BackupInv, Trying, Staging, Moving,
           Validating, Rolling, Cleaning, Finalizing, Pending
  <2> QED BY <2>1, <2>2, <2>3 DEF CleanUp
<1>8. CASE Environment
  <2>1. CASE Crash
    BY <2>1, OneFirst, DistinctContents DEF Crash, plan, user, TypeOK, JournalInv, LoopInv,
           BackupInv, Trying, Staging, Moving, Validating, Rolling, Cleaning, Finalizing,
           Pending
  <2>2. ASSUME NEW p \in Paths, UserDelete(p) PROVE LoopInv'
    BY <2>2, OneFirst, DistinctContents DEF UserDelete, Edit, proc, plan, TypeOK,
           JournalInv, LoopInv, BackupInv, Trying, Staging, Moving, Validating, Rolling,
           Cleaning, Finalizing, Pending
  <2>3. ASSUME NEW p \in Paths, NEW b \in Bodies, UserWrite(p, b) PROVE LoopInv'
    BY <2>3, OneFirst, DistinctContents DEF UserWrite, Edit, proc, plan, TypeOK, JournalInv,
           LoopInv, BackupInv, Trying, Staging, Moving, Validating, Rolling, Cleaning,
           Finalizing, Pending
  <2>4. ASSUME NEW p \in Paths, NEW b \in Bodies, StaleWrite(p, b) PROVE LoopInv'
    BY <2>4, OneFirst, DistinctContents DEF StaleWrite, Edit, proc, plan, TypeOK,
           JournalInv, LoopInv, BackupInv, Trying, Staging, Moving, Validating, Rolling,
           Cleaning, Finalizing, Pending
  <2> QED BY <1>8, <2>1, <2>2, <2>3, <2>4 DEF Environment
<1>9. CASE UNCHANGED vars
  BY <1>9, OneFirst, DistinctContents DEF vars, disk, proc, plan, user, TypeOK, JournalInv,
         LoopInv, BackupInv, Trying, Staging, Moving, Validating, Rolling, Cleaning,
         Finalizing, Pending
<1> QED BY <1>1, <1>2, <1>3, <1>4, <1>5, <1>6, <1>7, <1>8, <1>9 DEF Next, Process

LEMMA BackupStep == ASSUME TypeOK, JournalInv, LoopInv, BackupInv, [Next]_vars PROVE BackupInv'
<1>1. CASE Start \/ Plan \/ Prepare
  BY <1>1, MarkStates, OneFirst DEF Start, Plan, Prepare, Goto, plan, user, disk, Finish, TypeOK,
         JournalInv, LoopInv, BackupInv, Trying, Staging, Moving, Validating,
         Cleaning, Finalizing, Rolling, Pending, EntryStates, JournalStates
<1>2. CASE \/ CreateJournal \/ MarkAllStaged \/ Expect \/ MarkCommitting
             \/ Post \/ MarkValidating \/ Validate \/ MarkComplete
  BY <1>2, MarkStates, OneFirst DEF CreateJournal, MarkAllStaged, Expect, MarkCommitting, Post, MarkValidating,
         Validate, MarkComplete, Mark, plan, user, Sound, Goto, Fails, Throw, disk,
         MayFail, TypeOK, JournalInv, LoopInv, BackupInv, Trying,
         Staging, Moving, Validating, Cleaning, Finalizing, Rolling, Pending,
         EntryStates, JournalStates
<1>3. CASE CleanJournal \/ RollbackMark \/ RollbackEnd
  BY <1>3, MarkStates, OneFirst DEF CleanJournal, RollbackMark, RollbackEnd, Sound, Finish, Fails, plan, user,
         Goto, TypeOK, JournalInv, LoopInv, BackupInv, Trying, Staging,
         Moving, Validating, Cleaning, Finalizing, Rolling, Pending, EntryStates,
         JournalStates
<1>4. CASE FinalCheck \/ FinalEnd
  BY <1>4, MarkStates, OneFirst DEF FinalCheck, FinalEnd, Goto, Finish, disk, plan, user, Sound, Fails, TypeOK, JournalInv, LoopInv, BackupInv, Trying, Staging, Moving,
         Validating, Cleaning, Finalizing, Rolling, Pending, EntryStates, JournalStates
<1>5. CASE \E p \in Paths : Commit(p)
  <2> PICK p \in Paths : Commit(p)
    BY <1>5
  <2>1. CASE StageTemp(p)
    BY <2>1, MarkStates, OneFirst DEF StageTemp, Sound, Goto, Fails, Throw, plan, user, TypeOK, JournalInv,
           LoopInv, BackupInv, Trying, Staging, Moving, Validating, Cleaning,
           Finalizing, Rolling, Pending, EntryStates, JournalStates
  <2>2. CASE MarkStaged(p)
    BY <2>2, MarkStates, OneFirst DEF MarkStaged, Mark, plan, user, Sound, Goto, Fails, Throw, TypeOK,
           JournalInv, LoopInv, BackupInv, Trying, Staging, Moving,
           Validating, Cleaning, Finalizing, Rolling, Pending, EntryStates,
           JournalStates
  <2>3. CASE BackUp(p)
    BY <2>3, MarkStates, OneFirst DEF BackUp, Sound, TakeOver, Goto, Throw, disk, user, MayFail, plan, Fails,
           TypeOK, JournalInv, LoopInv, BackupInv, Trying, Staging,
           Moving, Validating, Cleaning, Finalizing, Rolling, Pending, EntryStates,
           JournalStates
  <2>4. CASE Verify(p)
    BY <2>4, MarkStates, OneFirst DEF Verify, Sound, Goto, disk, MayFail, plan, user, Fails, Throw, TypeOK,
           JournalInv, LoopInv, BackupInv, Trying, Staging, Moving,
           Validating, Cleaning, Finalizing, Rolling, Pending, EntryStates,
           JournalStates
  <2>5. CASE PutBackLink(p)
    BY <2>5, MarkStates, OneFirst DEF PutBackLink, Sound, Goto, Throw, disk, MayFail, plan, user, Fails, TypeOK, JournalInv, LoopInv, BackupInv, Trying, Staging, Moving,
           Validating, Cleaning, Finalizing, Rolling, Pending, EntryStates,
           JournalStates
  <2>6. CASE PutBackUnlink(p)
    BY <2>6, MarkStates, OneFirst DEF PutBackUnlink, Sound, Throw, MayFail, plan, user, Fails, disk, Goto, TypeOK, JournalInv, LoopInv, BackupInv, Trying, Staging, Moving,
           Validating, Cleaning, Finalizing, Rolling, Pending, EntryStates,
           JournalStates
  <2>7. CASE MarkBackedUp(p)
    BY <2>7, MarkStates, OneFirst DEF MarkBackedUp, Mark, plan, user, Sound, Goto, Fails, Throw, TypeOK,
           JournalInv, LoopInv, BackupInv, Trying, Staging, Moving,
           Validating, Cleaning, Finalizing, Rolling, Pending, EntryStates,
           JournalStates
  <2>8. CASE Link(p)
    BY <2>8, MarkStates, OneFirst DEF Link, Sound, TakeOver, Goto, Throw, disk, user, MayFail, plan, Fails, TypeOK, JournalInv, LoopInv, BackupInv, Trying, Staging, Moving,
           Validating, Cleaning, Finalizing, Rolling, Pending, EntryStates,
           JournalStates
  <2>9. CASE Unlink(p)
    BY <2>9, MarkStates, OneFirst DEF Unlink, Sound, Goto, MayFail, plan, user, Fails, Throw, disk, TypeOK,
           JournalInv, LoopInv, BackupInv, Trying, Staging, Moving,
           Validating, Cleaning, Finalizing, Rolling, Pending, EntryStates,
           JournalStates
  <2>10. CASE MarkCommitted(p)
    BY <2>10, MarkStates, OneFirst DEF MarkCommitted, Mark, plan, user, Sound, Goto, Fails, Throw, TypeOK,
           JournalInv, LoopInv, BackupInv, Trying, Staging, Moving,
           Validating, Cleaning, Finalizing, Rolling, Pending, EntryStates,
           JournalStates
  <2> QED BY <2>1, <2>2, <2>3, <2>4, <2>5, <2>6, <2>7, <2>8, <2>9, <2>10 DEF Commit
<1>6. CASE \E p \in Paths : Rollback(p)
  BY <1>6, MarkStates, OneFirst DEF Rollback, RollbackRead, RollbackRemove, RollbackRename, RollbackDrop,
         RollbackTemp, Sound, Goto, GiveUp, Fails, disk, plan, user, TypeOK,
         JournalInv, LoopInv, BackupInv, Trying, Staging, Moving, Validating,
         Cleaning, Finalizing, Rolling, Pending, EntryStates, JournalStates
<1>7. CASE \E p \in Paths : CleanUp(p)
  BY <1>7, MarkStates, OneFirst DEF CleanUp, CleanCheck, CleanRemove, FinalRemove, Sound, Goto, Fails, AfterClean,
         disk, plan, user, Finish, TypeOK, JournalInv, LoopInv, BackupInv,
         Trying, Staging, Moving, Validating, Cleaning, Finalizing, Rolling,
         Pending, EntryStates, JournalStates
<1>8. CASE Environment
  BY <1>8, MarkStates, OneFirst DEF Environment, Crash, UserDelete, UserWrite, StaleWrite, plan, user, Edit, proc,
         TypeOK, JournalInv, LoopInv, BackupInv, Trying, Staging,
         Moving, Validating, Cleaning, Finalizing, Rolling, Pending, EntryStates,
         JournalStates
<1>9. CASE UNCHANGED vars
  BY <1>9, MarkStates, OneFirst DEF vars, disk, proc, plan, user, disk, proc, plan, user, TypeOK,
         JournalInv, LoopInv, BackupInv, Trying, Staging, Moving, Validating,
         Cleaning, Finalizing, Rolling, Pending, EntryStates, JournalStates
<1> QED BY <1>1, <1>2, <1>3, <1>4, <1>5, <1>6, <1>7, <1>8, <1>9 DEF Next, Process

LEMMA TempStep == ASSUME TypeOK, LoopInv, TempInv, [Next]_vars PROVE TempInv'
<1>1. CASE Start \/ Plan \/ Prepare
  BY <1>1, OneFirst DEF Start, Plan, Prepare, Goto, plan, user, disk, Finish, TypeOK, TempInv,
         LoopInv, Trying, Staging, Moving, Validating, Cleaning, Finalizing, Rolling,
         New
<1>2. CASE \/ CreateJournal \/ MarkAllStaged \/ Expect \/ MarkCommitting
             \/ Post \/ MarkValidating \/ Validate \/ MarkComplete
  BY <1>2, OneFirst DEF CreateJournal, MarkAllStaged, Expect, MarkCommitting, Post, MarkValidating,
         Validate, MarkComplete, Mark, plan, user, Sound, Goto, Fails, Throw, disk,
         MayFail, TypeOK, TempInv, LoopInv, Trying, Staging, Moving, Validating,
         Cleaning, Finalizing, Rolling, New
<1>3. CASE CleanJournal \/ RollbackMark \/ RollbackEnd
  BY <1>3, OneFirst DEF CleanJournal, RollbackMark, RollbackEnd, Sound, Finish, Fails, plan, user,
         Goto, TypeOK, TempInv, LoopInv, Trying, Staging, Moving, Validating,
         Cleaning, Finalizing, Rolling, New
<1>4. CASE FinalCheck \/ FinalEnd
  BY <1>4, OneFirst DEF FinalCheck, FinalEnd, Goto, Finish, disk, plan, user, Sound, Fails,
         TypeOK, TempInv, LoopInv, Trying, Staging, Moving, Validating, Cleaning,
         Finalizing, Rolling, New
<1>5. CASE \E p \in Paths : Commit(p)
  <2> PICK p \in Paths : Commit(p)
    BY <1>5
  <2>1. CASE StageTemp(p)
    BY <2>1, OneFirst DEF StageTemp, Sound, Goto, Fails, Throw, plan, user, TypeOK, TempInv,
           LoopInv, Trying, Staging, Moving, Validating, Cleaning, Finalizing, Rolling,
           New
  <2>2. CASE MarkStaged(p)
    BY <2>2, OneFirst DEF MarkStaged, Mark, plan, user, Sound, Goto, Fails, Throw, TypeOK,
           TempInv, LoopInv, Trying, Staging, Moving, Validating, Cleaning, Finalizing,
           Rolling, New
  <2>3. CASE BackUp(p)
    BY <2>3, OneFirst DEF BackUp, Sound, TakeOver, Goto, Throw, disk, user, MayFail, plan, Fails,
           TypeOK, TempInv, LoopInv, Trying, Staging, Moving, Validating,
           Cleaning, Finalizing, Rolling, New
  <2>4. CASE Verify(p)
    BY <2>4, OneFirst DEF Verify, Sound, Goto, disk, MayFail, plan, user, Fails, Throw, TypeOK,
           TempInv, LoopInv, Trying, Staging, Moving, Validating, Cleaning, Finalizing,
           Rolling, New
  <2>5. CASE PutBackLink(p)
    BY <2>5, OneFirst DEF PutBackLink, Sound, Goto, Throw, disk, MayFail, plan, user, Fails,
           TypeOK, TempInv, LoopInv, Trying, Staging, Moving, Validating, Cleaning,
           Finalizing, Rolling, New
  <2>6. CASE PutBackUnlink(p)
    BY <2>6, OneFirst DEF PutBackUnlink, Sound, Throw, MayFail, plan, user, Fails, disk, Goto,
           TypeOK, TempInv, LoopInv, Trying, Staging, Moving, Validating, Cleaning,
           Finalizing, Rolling, New
  <2>7. CASE MarkBackedUp(p)
    BY <2>7, OneFirst DEF MarkBackedUp, Mark, plan, user, Sound, Goto, Fails, Throw, TypeOK,
           TempInv, LoopInv, Trying, Staging, Moving, Validating, Cleaning, Finalizing,
           Rolling, New
  <2>8. CASE Link(p)
    BY <2>8, OneFirst DEF Link, Sound, TakeOver, Goto, Throw, disk, user, MayFail, plan, Fails,
           TypeOK, TempInv, LoopInv, Trying, Staging, Moving, Validating, Cleaning,
           Finalizing, Rolling, New
  <2>9. CASE Unlink(p)
    BY <2>9, OneFirst DEF Unlink, Sound, Goto, MayFail, plan, user, Fails, Throw, disk, TypeOK,
           TempInv, LoopInv, Trying, Staging, Moving, Validating, Cleaning, Finalizing,
           Rolling, New
  <2>10. CASE MarkCommitted(p)
    BY <2>10, OneFirst DEF MarkCommitted, Mark, plan, user, Sound, Goto, Fails, Throw, TypeOK,
           TempInv, LoopInv, Trying, Staging, Moving, Validating, Cleaning, Finalizing,
           Rolling, New
  <2> QED BY <2>1, <2>2, <2>3, <2>4, <2>5, <2>6, <2>7, <2>8, <2>9, <2>10 DEF Commit
<1>6. CASE \E p \in Paths : Rollback(p)
  BY <1>6, OneFirst DEF Rollback, RollbackRead, RollbackRemove, RollbackRename, RollbackDrop,
         RollbackTemp, Sound, Goto, GiveUp, Fails, disk, plan, user, TypeOK,
         TempInv, LoopInv, Trying, Staging, Moving, Validating, Cleaning, Finalizing,
         Rolling, New
<1>7. CASE \E p \in Paths : CleanUp(p)
  BY <1>7, OneFirst DEF CleanUp, CleanCheck, CleanRemove, FinalRemove, Sound, Goto, Fails, AfterClean,
         disk, plan, user, Finish, TypeOK, TempInv, LoopInv, Trying, Staging,
         Moving, Validating, Cleaning, Finalizing, Rolling, New
<1>8. CASE Environment
  BY <1>8, OneFirst DEF Environment, Crash, UserDelete, UserWrite, StaleWrite, plan, user, Edit, proc,
         TypeOK, TempInv, LoopInv, Trying, Staging, Moving, Validating, Cleaning,
         Finalizing, Rolling, New
<1>9. CASE UNCHANGED vars
  BY <1>9, OneFirst DEF vars, disk, proc, plan, user, disk, proc, plan, user, TypeOK, TempInv,
         LoopInv, Trying, Staging, Moving, Validating, Cleaning, Finalizing, Rolling,
         New
<1> QED BY <1>1, <1>2, <1>3, <1>4, <1>5, <1>6, <1>7, <1>8, <1>9 DEF Next, Process

LEMMA CheckStep == ASSUME ~CheckActRace, IInv, [Next]_vars PROVE CheckInv'
<1>1. CASE Start \/ Plan \/ Prepare
  BY <1>1, OneFirst DEF Start, Plan, Prepare, Goto, plan, user, disk, Finish, IInv, TypeOK, CheckInv,
         LoopInv, Cleaning, Finalizing, Owned, New, Rolling, AllNew, TargetWindow,
         BackupWindow, Edit
<1>2. CASE \/ CreateJournal \/ MarkAllStaged \/ Expect \/ MarkCommitting
             \/ Post \/ MarkValidating \/ Validate \/ MarkComplete
  BY <1>2, OneFirst DEF CreateJournal, MarkAllStaged, Expect, MarkCommitting, Post, MarkValidating,
         Validate, MarkComplete, Mark, plan, user, Sound, Goto, Fails, Throw, disk,
         MayFail, IInv, TypeOK, CheckInv, LoopInv, Cleaning, Finalizing, Owned, New,
         Rolling, AllNew, TargetWindow, BackupWindow, Edit
<1>3. CASE CleanJournal \/ RollbackMark \/ RollbackEnd
  BY <1>3, OneFirst DEF CleanJournal, RollbackMark, RollbackEnd, Sound, Finish, Fails, plan, user,
         Goto, IInv, TypeOK, CheckInv, LoopInv, Cleaning, Finalizing, Owned, New,
         Rolling, AllNew, TargetWindow, BackupWindow, Edit
<1>4. CASE FinalCheck \/ FinalEnd
  BY <1>4, OneFirst DEF FinalCheck, FinalEnd, Goto, Finish, disk, plan, user, Sound, Fails, IInv,
         TypeOK, CheckInv, LoopInv, Cleaning, Finalizing, Owned, New, Rolling, AllNew,
         TargetWindow, BackupWindow, Edit
<1>5. CASE \E p \in Paths : Commit(p)
  BY <1>5, OneFirst DEF Commit, StageTemp, MarkStaged, BackUp, Verify, PutBackLink, PutBackUnlink,
         MarkBackedUp, Link, Unlink, MarkCommitted, Sound, Goto, Fails, Throw, plan,
         user, Mark, TakeOver, disk, MayFail, IInv, TypeOK, CheckInv, LoopInv,
         Cleaning, Finalizing, Owned, New, Rolling, AllNew, TargetWindow, BackupWindow,
         Edit
<1>6. CASE \E p \in Paths : Rollback(p)
  <2> PICK p \in Paths : Rollback(p)
    BY <1>6
  <2>1. CASE RollbackRead(p)
    <3>1. /\ \A q \in Paths : Owned(q)' <=> Owned(q)
          /\ Last(p, todo) /\ UNCHANGED <<target, backup, base>>
      BY <2>1 DEF RollbackRead, disk, plan, Owned, New
    <3>2. \A q \in todo : Last(q, todo) => q = p
      BY <3>1, OneFirst DEF IInv, TypeOK
    <3>3. CASE pc' = "rb_remove"
      BY <2>1, <3>1, <3>2, <3>3, OneFirst DEF RollbackRead, Goto, GiveUp, IInv, TypeOK, CheckInv
    <3>4. CASE pc' = "rb_drop"
      <4>1. backup[p] = Absent /\ base[p] = Absent /\ Owned(p) /\ todo' = todo
        BY <2>1, <3>4 DEF RollbackRead, Goto, GiveUp, Owned
      <4> QED BY <3>1, <3>2, <3>4, <4>1, OneFirst DEF CheckInv, IInv, TypeOK
    <3>5. CASE pc' = "rb_temp"
      <4>1. backup[p] = Absent /\ todo' = todo
        BY <2>1, <3>5 DEF RollbackRead, Goto, GiveUp
      <4> QED BY <3>1, <3>2, <3>5, <4>1, OneFirst DEF CheckInv, IInv, TypeOK
    <3>6. CASE pc' = "rb_read"
      BY <3>6 DEF CheckInv
    <3> QED BY <2>1, <3>3, <3>4, <3>5, <3>6 DEF RollbackRead, Goto, GiveUp
  <2>2. CASE RollbackRemove(p)
    BY <2>2, OneFirst DEF RollbackRemove, Sound, Goto, Fails, GiveUp, plan, user, IInv, TypeOK,
           CheckInv, LoopInv, Cleaning, Finalizing, Owned, New, Rolling, AllNew,
           TargetWindow, BackupWindow, Edit
  <2>3. CASE RollbackRename(p)
    BY <2>3, OneFirst DEF RollbackRename, Sound, Goto, Fails, GiveUp, plan, user, IInv, TypeOK,
           CheckInv, LoopInv, Cleaning, Finalizing, Owned, New, Rolling, AllNew,
           TargetWindow, BackupWindow, Edit
  <2>4. CASE RollbackDrop(p)
    BY <2>4, OneFirst DEF RollbackDrop, Sound, Goto, Fails, GiveUp, plan, user, IInv, TypeOK,
           CheckInv, LoopInv, Cleaning, Finalizing, Owned, New, Rolling, AllNew,
           TargetWindow, BackupWindow, Edit
  <2>5. CASE RollbackTemp(p)
    BY <2>5, OneFirst DEF RollbackTemp, Sound, Goto, Fails, GiveUp, plan, user, IInv, TypeOK,
           CheckInv, LoopInv, Cleaning, Finalizing, Owned, New, Rolling, AllNew,
           TargetWindow, BackupWindow, Edit
  <2> QED BY <2>1, <2>2, <2>3, <2>4, <2>5 DEF Rollback
<1>7. CASE \E p \in Paths : CleanUp(p)
  <2> PICK p \in Paths : CleanUp(p)
    BY <1>7
  <2>1. CASE CleanCheck(p)
    BY <2>1, OneFirst DEF CleanCheck, Sound, Goto, Fails, AfterClean, disk, plan, user, IInv, TypeOK,
           CheckInv, LoopInv, Cleaning, Finalizing, Owned, New, Rolling, AllNew,
           TargetWindow, BackupWindow, Edit
  <2>2. CASE CleanRemove(p)
    BY <2>2, OneFirst DEF CleanRemove, AfterClean, Sound, Fails, plan, user, Goto, IInv, TypeOK,
           CheckInv, LoopInv, Cleaning, Finalizing, Owned, New, Rolling, AllNew,
           TargetWindow, BackupWindow, Edit
  <2>3. CASE FinalRemove(p)
    BY <2>3, OneFirst DEF FinalRemove, Sound, Fails, Finish, plan, user, Goto, IInv, TypeOK, CheckInv,
           LoopInv, Cleaning, Finalizing, Owned, New, Rolling, AllNew, TargetWindow,
           BackupWindow, Edit
  <2> QED BY <2>1, <2>2, <2>3 DEF CleanUp
<1>8. CASE Environment
  <2>1. CASE Crash
    BY <2>1, OneFirst DEF Crash, plan, user, IInv, TypeOK, CheckInv, LoopInv, Cleaning, Finalizing,
           Owned, New, Rolling, AllNew, TargetWindow, BackupWindow, Edit
  <2>2. ASSUME NEW p \in Paths, UserDelete(p) PROVE CheckInv'
    BY <2>2, OneFirst DEF UserDelete, Edit, proc, plan, IInv, TypeOK, CheckInv, LoopInv, Cleaning,
           Finalizing, Owned, New, Rolling, AllNew, TargetWindow, BackupWindow
  <2>3. ASSUME NEW p \in Paths, NEW b \in Bodies, UserWrite(p, b) PROVE CheckInv'
    BY <2>3, OneFirst DEF UserWrite, Edit, proc, plan, IInv, TypeOK, CheckInv, LoopInv, Cleaning,
           Finalizing, Owned, New, Rolling, AllNew, TargetWindow, BackupWindow
  <2>4. ASSUME NEW p \in Paths, NEW b \in Bodies, StaleWrite(p, b) PROVE CheckInv'
    BY <2>4, OneFirst, DistinctContents DEF StaleWrite, Edit, proc, plan, IInv, TypeOK, CheckInv, LoopInv, Cleaning,
           Finalizing, Owned, New, Rolling, AllNew, TargetWindow, BackupWindow
  <2> QED BY <1>8, <2>1, <2>2, <2>3, <2>4 DEF Environment
<1>9. CASE UNCHANGED vars
  BY <1>9, OneFirst DEF vars, disk, proc, plan, user, disk, proc, plan, user, IInv, TypeOK, CheckInv,
         LoopInv, Cleaning, Finalizing, Owned, New, Rolling, AllNew, TargetWindow,
         BackupWindow, Edit
<1> QED BY <1>1, <1>2, <1>3, <1>4, <1>5, <1>6, <1>7, <1>8, <1>9 DEF Next, Process

LEMMA WorkStep == ASSUME ~CheckActRace, IInv, [Next]_vars PROVE UserWorkSurvives'
<1>1. CASE Start \/ Plan \/ Prepare
  BY <1>1, DistinctContents, OneFirst DEF Start, Plan, Prepare, Goto, plan, user, disk, Finish, IInv, TypeOK,
         UserWorkSurvives, CustodyInv, JournalInv, LoopInv, BackupInv, CheckInv,
         TempInv, Owned, New, Keeps, Trying, Staging, Moving, Validating, Rolling,
         Cleaning, Finalizing, Pending
<1>2. CASE \/ CreateJournal \/ MarkAllStaged \/ Expect \/ MarkCommitting
             \/ Post \/ MarkValidating \/ Validate \/ MarkComplete
  BY <1>2, DistinctContents, OneFirst DEF CreateJournal, MarkAllStaged, Expect, MarkCommitting, Post, MarkValidating,
         Validate, MarkComplete, Mark, plan, user, Sound, Goto, Fails, Throw, disk,
         MayFail, IInv, TypeOK, UserWorkSurvives, CustodyInv, JournalInv, LoopInv,
         BackupInv, CheckInv, TempInv, Owned, New, Keeps, Trying, Staging, Moving,
         Validating, Rolling, Cleaning, Finalizing, Pending
<1>3. CASE CleanJournal \/ RollbackMark \/ RollbackEnd
  BY <1>3, DistinctContents, OneFirst DEF CleanJournal, RollbackMark, RollbackEnd, Sound, Finish, Fails, plan, user,
         Goto, IInv, TypeOK, UserWorkSurvives, CustodyInv, JournalInv, LoopInv,
         BackupInv, CheckInv, TempInv, Owned, New, Keeps, Trying, Staging, Moving,
         Validating, Rolling, Cleaning, Finalizing, Pending
<1>4. CASE FinalCheck \/ FinalEnd
  BY <1>4, DistinctContents, OneFirst DEF FinalCheck, FinalEnd, Goto, Finish, disk, plan, user, Sound, Fails, IInv,
         TypeOK, UserWorkSurvives, CustodyInv, JournalInv, LoopInv, BackupInv,
         CheckInv, TempInv, Owned, New, Keeps, Trying, Staging, Moving, Validating,
         Rolling, Cleaning, Finalizing, Pending
<1>5. CASE \E p \in Paths : Commit(p)
  <2> PICK p \in Paths : Commit(p)
    BY <1>5
  <2>1. CASE StageTemp(p)
    BY <2>1, DistinctContents, OneFirst DEF StageTemp, Sound, Goto, Fails, Throw, plan, user, IInv, TypeOK,
           UserWorkSurvives, CustodyInv, JournalInv, LoopInv, BackupInv, CheckInv,
           TempInv, Owned, New, Keeps, Trying, Staging, Moving, Validating, Rolling,
           Cleaning, Finalizing, Pending
  <2>2. CASE MarkStaged(p)
    BY <2>2, DistinctContents, OneFirst DEF MarkStaged, Mark, plan, user, Sound, Goto, Fails, Throw, IInv, TypeOK,
           UserWorkSurvives, CustodyInv, JournalInv, LoopInv, BackupInv, CheckInv,
           TempInv, Owned, New, Keeps, Trying, Staging, Moving, Validating, Rolling,
           Cleaning, Finalizing, Pending
  <2>3. CASE BackUp(p)
    BY <2>3, DistinctContents, OneFirst DEF BackUp, Sound, TakeOver, Goto, Throw, disk, user, MayFail, plan, Fails,
           IInv, TypeOK, UserWorkSurvives, CustodyInv, JournalInv, LoopInv, BackupInv,
           CheckInv, TempInv, Owned, New, Keeps, Trying, Staging, Moving, Validating,
           Rolling, Cleaning, Finalizing, Pending
  <2>4. CASE Verify(p)
    BY <2>4, DistinctContents, OneFirst DEF Verify, Sound, Goto, disk, MayFail, plan, user, Fails, Throw, IInv, TypeOK,
           UserWorkSurvives, CustodyInv, JournalInv, LoopInv, BackupInv, CheckInv,
           TempInv, Owned, New, Keeps, Trying, Staging, Moving, Validating, Rolling,
           Cleaning, Finalizing, Pending
  <2>5. CASE PutBackLink(p)
    BY <2>5, DistinctContents, OneFirst DEF PutBackLink, Sound, Goto, Throw, disk, MayFail, plan, user, Fails, IInv,
           TypeOK, UserWorkSurvives, CustodyInv, JournalInv, LoopInv, BackupInv,
           CheckInv, TempInv, Owned, New, Keeps, Trying, Staging, Moving, Validating,
           Rolling, Cleaning, Finalizing, Pending
  <2>6. CASE PutBackUnlink(p)
    BY <2>6, DistinctContents, OneFirst DEF PutBackUnlink, Sound, Throw, MayFail, plan, user, Fails, disk, Goto, IInv,
           TypeOK, UserWorkSurvives, CustodyInv, JournalInv, LoopInv, BackupInv,
           CheckInv, TempInv, Owned, New, Keeps, Trying, Staging, Moving, Validating,
           Rolling, Cleaning, Finalizing, Pending
  <2>7. CASE MarkBackedUp(p)
    BY <2>7, DistinctContents, OneFirst DEF MarkBackedUp, Mark, plan, user, Sound, Goto, Fails, Throw, IInv, TypeOK,
           UserWorkSurvives, CustodyInv, JournalInv, LoopInv, BackupInv, CheckInv,
           TempInv, Owned, New, Keeps, Trying, Staging, Moving, Validating, Rolling,
           Cleaning, Finalizing, Pending
  <2>8. CASE Link(p)
    BY <2>8, DistinctContents, OneFirst DEF Link, Sound, TakeOver, Goto, Throw, disk, user, MayFail, plan, Fails, IInv,
           TypeOK, UserWorkSurvives, CustodyInv, JournalInv, LoopInv, BackupInv,
           CheckInv, TempInv, Owned, New, Keeps, Trying, Staging, Moving, Validating,
           Rolling, Cleaning, Finalizing, Pending
  <2>9. CASE Unlink(p)
    BY <2>9, DistinctContents, OneFirst DEF Unlink, Sound, Goto, MayFail, plan, user, Fails, Throw, disk, IInv, TypeOK,
           UserWorkSurvives, CustodyInv, JournalInv, LoopInv, BackupInv, CheckInv,
           TempInv, Owned, New, Keeps, Trying, Staging, Moving, Validating, Rolling,
           Cleaning, Finalizing, Pending
  <2>10. CASE MarkCommitted(p)
    BY <2>10, DistinctContents, OneFirst DEF MarkCommitted, Mark, plan, user, Sound, Goto, Fails, Throw, IInv, TypeOK,
           UserWorkSurvives, CustodyInv, JournalInv, LoopInv, BackupInv, CheckInv,
           TempInv, Owned, New, Keeps, Trying, Staging, Moving, Validating, Rolling,
           Cleaning, Finalizing, Pending
  <2> QED BY <2>1, <2>2, <2>3, <2>4, <2>5, <2>6, <2>7, <2>8, <2>9, <2>10 DEF Commit
<1>6. CASE \E p \in Paths : Rollback(p)
  <2> PICK p \in Paths : Rollback(p)
    BY <1>6
  <2>1. CASE RollbackRead(p)
    BY <2>1, DistinctContents, OneFirst DEF RollbackRead, Sound, Goto, GiveUp, Fails, disk, plan, user, IInv, TypeOK,
           UserWorkSurvives, CustodyInv, JournalInv, LoopInv, BackupInv, CheckInv,
           TempInv, Owned, New, Keeps, Trying, Staging, Moving, Validating, Rolling,
           Cleaning, Finalizing, Pending
  <2>2. CASE RollbackRemove(p)
    <3>1. Last(p, todo) /\ p \in todo /\ backup[p] # Absent /\ UNCHANGED <<last, backup>>
      BY <2>2, OneFirst DEF RollbackRemove, IInv, TypeOK, LoopInv, CheckInv, user
    <3>2. Owned(p) /\ Keeps(backup[p], p)
      BY <2>2, <3>1 DEF RollbackRemove, IInv, CheckInv, CustodyInv, Owned
    <3> QED BY <2>2, <3>1, <3>2 DEF RollbackRemove, GiveUp, IInv, TypeOK, UserWorkSurvives, Keeps
  <2>3. CASE RollbackRename(p)
    <3>1. Last(p, todo) /\ p \in todo /\ backup[p] # Absent /\ UNCHANGED <<last, user>>
      BY <2>3, OneFirst DEF RollbackRename, IInv, TypeOK, LoopInv, CheckInv, user
    <3>2. Owned(p) /\ Keeps(backup[p], p)
      BY <2>3, <3>1 DEF RollbackRename, IInv, CheckInv, CustodyInv, Owned
    <3> QED BY <2>3, <3>1, <3>2 DEF RollbackRename, GiveUp, IInv, TypeOK, UserWorkSurvives, Keeps
  <2>4. CASE RollbackDrop(p)
    <3>1. /\ Last(p, todo) /\ p \in todo /\ UNCHANGED <<last, backup>>
          /\ backup[p] = Absent /\ base[p] = Absent /\ Owned(p)
      BY <2>4, OneFirst DEF RollbackDrop, IInv, TypeOK, LoopInv, CheckInv, user
    <3>2. last[p] \notin Bodies
      BY <3>1, DistinctContents DEF IInv, UserWorkSurvives, Owned, New
    <3> QED BY <2>4, <3>1, <3>2 DEF RollbackDrop, IInv, TypeOK, UserWorkSurvives
  <2>5. CASE RollbackTemp(p)
    BY <2>5, DistinctContents, OneFirst DEF RollbackTemp, Sound, Goto, Fails, GiveUp, plan, user, IInv, TypeOK,
           UserWorkSurvives, CustodyInv, JournalInv, LoopInv, BackupInv, CheckInv,
           TempInv, Owned, New, Keeps, Trying, Staging, Moving, Validating, Rolling,
           Cleaning, Finalizing, Pending
  <2> QED BY <2>1, <2>2, <2>3, <2>4, <2>5 DEF Rollback
<1>7. CASE \E p \in Paths : CleanUp(p)
  <2> PICK p \in Paths : CleanUp(p)
    BY <1>7
  <2>1. CASE CleanCheck(p)
    BY <2>1, DistinctContents, OneFirst DEF CleanCheck, Sound, Goto, Fails, AfterClean, disk, plan, user, IInv, TypeOK,
           UserWorkSurvives, CustodyInv, JournalInv, LoopInv, BackupInv, CheckInv,
           TempInv, Owned, New, Keeps, Trying, Staging, Moving, Validating, Rolling,
           Cleaning, Finalizing, Pending
  <2>2. CASE CleanRemove(p)
    BY <2>2, DistinctContents, OneFirst DEF CleanRemove, AfterClean, Sound, Fails, plan, user, Goto, IInv, TypeOK,
           UserWorkSurvives, CustodyInv, JournalInv, LoopInv, BackupInv, CheckInv,
           TempInv, Owned, New, Keeps, Trying, Staging, Moving, Validating, Rolling,
           Cleaning, Finalizing, Pending
  <2>3. CASE FinalRemove(p)
    BY <2>3, DistinctContents, OneFirst DEF FinalRemove, Sound, Fails, Finish, plan, user, Goto, IInv, TypeOK,
           UserWorkSurvives, CustodyInv, JournalInv, LoopInv, BackupInv, CheckInv,
           TempInv, Owned, New, Keeps, Trying, Staging, Moving, Validating, Rolling,
           Cleaning, Finalizing, Pending
  <2> QED BY <2>1, <2>2, <2>3 DEF CleanUp
<1>8. CASE Environment
  <2>1. CASE Crash
    BY <2>1, DistinctContents, OneFirst DEF Crash, plan, user, IInv, TypeOK, UserWorkSurvives, CustodyInv, JournalInv,
           LoopInv, BackupInv, CheckInv, TempInv, Owned, New, Keeps, Trying, Staging,
           Moving, Validating, Rolling, Cleaning, Finalizing, Pending
  <2>2. ASSUME NEW p \in Paths, UserDelete(p) PROVE UserWorkSurvives'
    BY <2>2, DistinctContents, OneFirst DEF UserDelete, Edit, proc, plan, IInv, TypeOK, UserWorkSurvives, CustodyInv,
           JournalInv, LoopInv, BackupInv, CheckInv, TempInv, Owned, New, Keeps,
           Trying, Staging, Moving, Validating, Rolling, Cleaning, Finalizing, Pending
  <2>3. ASSUME NEW p \in Paths, NEW b \in Bodies, UserWrite(p, b) PROVE UserWorkSurvives'
    BY <2>3, DistinctContents, OneFirst DEF UserWrite, Edit, proc, plan, IInv, TypeOK, UserWorkSurvives, CustodyInv,
           JournalInv, LoopInv, BackupInv, CheckInv, TempInv, Owned, New, Keeps,
           Trying, Staging, Moving, Validating, Rolling, Cleaning, Finalizing, Pending
  <2>4. ASSUME NEW p \in Paths, NEW b \in Bodies, StaleWrite(p, b) PROVE UserWorkSurvives'
    BY <2>4, DistinctContents, OneFirst DEF StaleWrite, Edit, proc, plan, IInv, TypeOK, UserWorkSurvives, CustodyInv,
           JournalInv, LoopInv, BackupInv, CheckInv, TempInv, Owned, New, Keeps,
           Trying, Staging, Moving, Validating, Rolling, Cleaning, Finalizing, Pending
  <2> QED BY <1>8, <2>1, <2>2, <2>3, <2>4 DEF Environment
<1>9. CASE UNCHANGED vars
  BY <1>9, DistinctContents, OneFirst DEF vars, disk, proc, plan, user, disk, proc, plan, user, IInv, TypeOK,
         UserWorkSurvives, CustodyInv, JournalInv, LoopInv, BackupInv, CheckInv,
         TempInv, Owned, New, Keeps, Trying, Staging, Moving, Validating, Rolling,
         Cleaning, Finalizing, Pending
<1> QED BY <1>1, <1>2, <1>3, <1>4, <1>5, <1>6, <1>7, <1>8, <1>9 DEF Next, Process

LEMMA CustodyStep == ASSUME ~CheckActRace, IInv, [Next]_vars PROVE CustodyInv'
<1>1. CASE Start \/ Plan \/ Prepare
  <2>1. CASE Start
    BY <2>1, MarkStates, DistinctContents, OneFirst DEF Start, Goto, plan, user, IInv, TypeOK, UserWorkSurvives, CustodyInv,
           JournalInv, LoopInv, BackupInv, CheckInv, TempInv, Owned, New, Keeps,
           Trying, Staging, Moving, Validating, Rolling, Cleaning, Finalizing, Pending,
           EntryStates, JournalStates, AllNew
  <2>2. CASE Plan
    BY <2>2, MarkStates, DistinctContents, OneFirst DEF Plan, plan, Goto, disk, IInv, TypeOK, UserWorkSurvives, CustodyInv,
           JournalInv, LoopInv, BackupInv, CheckInv, TempInv, Owned, New, Keeps,
           Trying, Staging, Moving, Validating, Rolling, Cleaning, Finalizing, Pending,
           EntryStates, JournalStates, AllNew
  <2>3. CASE Prepare
    BY <2>3, MarkStates, DistinctContents, OneFirst DEF Prepare, Finish, Goto, disk, plan, user, IInv, TypeOK, UserWorkSurvives,
           CustodyInv, JournalInv, LoopInv, BackupInv, CheckInv, TempInv, Owned, New,
           Keeps, Trying, Staging, Moving, Validating, Rolling, Cleaning, Finalizing,
           Pending, EntryStates, JournalStates, AllNew
  <2> QED BY <1>1, <2>1, <2>2, <2>3
<1>2. CASE \/ CreateJournal \/ MarkAllStaged \/ Expect \/ MarkCommitting
             \/ Post \/ MarkValidating \/ Validate \/ MarkComplete
  <2>1. CASE CreateJournal
    BY <2>1, MarkStates, DistinctContents, OneFirst DEF CreateJournal, Mark, plan, user, Sound, Goto, Fails, Throw, IInv, TypeOK,
           UserWorkSurvives, CustodyInv, JournalInv, LoopInv, BackupInv, CheckInv,
           TempInv, Owned, New, Keeps, Trying, Staging, Moving, Validating, Rolling,
           Cleaning, Finalizing, Pending, EntryStates, JournalStates, AllNew
  <2>2. CASE MarkAllStaged
    BY <2>2, MarkStates, DistinctContents, OneFirst DEF MarkAllStaged, Mark, plan, user, Sound, Goto, Fails, Throw, IInv, TypeOK,
           UserWorkSurvives, CustodyInv, JournalInv, LoopInv, BackupInv, CheckInv,
           TempInv, Owned, New, Keeps, Trying, Staging, Moving, Validating, Rolling,
           Cleaning, Finalizing, Pending, EntryStates, JournalStates, AllNew
  <2>3. CASE Expect
    BY <2>3, MarkStates, DistinctContents, OneFirst DEF Expect, Sound, Goto, disk, Throw, MayFail, plan, user, Fails, IInv, TypeOK,
           UserWorkSurvives, CustodyInv, JournalInv, LoopInv, BackupInv, CheckInv,
           TempInv, Owned, New, Keeps, Trying, Staging, Moving, Validating, Rolling,
           Cleaning, Finalizing, Pending, EntryStates, JournalStates, AllNew
  <2>4. CASE MarkCommitting
    BY <2>4, MarkStates, DistinctContents, OneFirst DEF MarkCommitting, Mark, plan, user, Sound, Goto, Fails, Throw, IInv, TypeOK,
           UserWorkSurvives, CustodyInv, JournalInv, LoopInv, BackupInv, CheckInv,
           TempInv, Owned, New, Keeps, Trying, Staging, Moving, Validating, Rolling,
           Cleaning, Finalizing, Pending, EntryStates, JournalStates, AllNew
  <2>5. CASE Post
    BY <2>5, MarkStates, DistinctContents, OneFirst DEF Post, Sound, Goto, disk, Throw, MayFail, plan, user, Fails, IInv, TypeOK,
           UserWorkSurvives, CustodyInv, JournalInv, LoopInv, BackupInv, CheckInv,
           TempInv, Owned, New, Keeps, Trying, Staging, Moving, Validating, Rolling,
           Cleaning, Finalizing, Pending, EntryStates, JournalStates, AllNew
  <2>6. CASE MarkValidating
    BY <2>6, MarkStates, DistinctContents, OneFirst DEF MarkValidating, Mark, plan, user, Sound, Goto, Fails, Throw, IInv, TypeOK,
           UserWorkSurvives, CustodyInv, JournalInv, LoopInv, BackupInv, CheckInv,
           TempInv, Owned, New, Keeps, Trying, Staging, Moving, Validating, Rolling,
           Cleaning, Finalizing, Pending, EntryStates, JournalStates, AllNew
  <2>7. CASE Validate
    BY <2>7, MarkStates, DistinctContents, OneFirst DEF Validate, Sound, Goto, disk, Throw, MayFail, plan, user, Fails, IInv,
           TypeOK, UserWorkSurvives, CustodyInv, JournalInv, LoopInv, BackupInv,
           CheckInv, TempInv, Owned, New, Keeps, Trying, Staging, Moving, Validating,
           Rolling, Cleaning, Finalizing, Pending, EntryStates, JournalStates, AllNew
  <2>8. CASE MarkComplete
    BY <2>8, MarkStates, DistinctContents, OneFirst DEF MarkComplete, Mark, plan, user, Sound, Goto, Fails, Throw, IInv, TypeOK,
           UserWorkSurvives, CustodyInv, JournalInv, LoopInv, BackupInv, CheckInv,
           TempInv, Owned, New, Keeps, Trying, Staging, Moving, Validating, Rolling,
           Cleaning, Finalizing, Pending, EntryStates, JournalStates, AllNew
  <2> QED BY <1>2, <2>1, <2>2, <2>3, <2>4, <2>5, <2>6, <2>7, <2>8
<1>3. CASE CleanJournal \/ RollbackMark \/ RollbackEnd
  <2>1. CASE CleanJournal
    BY <2>1, MarkStates, DistinctContents, OneFirst DEF CleanJournal, Sound, Finish, Fails, plan, user, Goto, IInv, TypeOK,
           UserWorkSurvives, CustodyInv, JournalInv, LoopInv, BackupInv, CheckInv,
           TempInv, Owned, New, Keeps, Trying, Staging, Moving, Validating, Rolling,
           Cleaning, Finalizing, Pending, EntryStates, JournalStates, AllNew
  <2>2. CASE RollbackMark
    BY <2>2, MarkStates, DistinctContents, OneFirst DEF RollbackMark, Sound, Fails, Goto, plan, user, IInv, TypeOK,
           UserWorkSurvives, CustodyInv, JournalInv, LoopInv, BackupInv, CheckInv,
           TempInv, Owned, New, Keeps, Trying, Staging, Moving, Validating, Rolling,
           Cleaning, Finalizing, Pending, EntryStates, JournalStates, AllNew
  <2>3. CASE RollbackEnd
    BY <2>3, MarkStates, DistinctContents, OneFirst DEF RollbackEnd, Sound, Fails, Finish, Goto, plan, user, IInv, TypeOK,
           UserWorkSurvives, CustodyInv, JournalInv, LoopInv, BackupInv, CheckInv,
           TempInv, Owned, New, Keeps, Trying, Staging, Moving, Validating, Rolling,
           Cleaning, Finalizing, Pending, EntryStates, JournalStates, AllNew
  <2> QED BY <1>3, <2>1, <2>2, <2>3
<1>4. CASE FinalCheck \/ FinalEnd
  BY <1>4, MarkStates, DistinctContents, OneFirst DEF FinalCheck, FinalEnd, Goto, Finish, disk, plan, user, Sound, Fails, IInv,
         TypeOK, UserWorkSurvives, CustodyInv, JournalInv, LoopInv, BackupInv,
         CheckInv, TempInv, Owned, New, Keeps, Trying, Staging, Moving, Validating,
         Rolling, Cleaning, Finalizing, Pending, EntryStates, JournalStates, AllNew
<1>5. CASE \E p \in Paths : Commit(p)
  <2> PICK p \in Paths : Commit(p)
    BY <1>5
  <2>1. CASE StageTemp(p)
    BY <2>1, MarkStates, DistinctContents, OneFirst DEF StageTemp, Sound, Goto, Fails, Throw, plan, user, IInv, TypeOK,
           UserWorkSurvives, CustodyInv, JournalInv, LoopInv, BackupInv, CheckInv,
           TempInv, Owned, New, Keeps, Trying, Staging, Moving, Validating, Rolling,
           Cleaning, Finalizing, Pending, EntryStates, JournalStates, AllNew
  <2>2. CASE MarkStaged(p)
    BY <2>2, MarkStates, DistinctContents, OneFirst DEF MarkStaged, Mark, plan, user, Sound, Goto, Fails, Throw, IInv, TypeOK,
           UserWorkSurvives, CustodyInv, JournalInv, LoopInv, BackupInv, CheckInv,
           TempInv, Owned, New, Keeps, Trying, Staging, Moving, Validating, Rolling,
           Cleaning, Finalizing, Pending, EntryStates, JournalStates, AllNew
  <2>3. CASE BackUp(p)
    BY <2>3, MarkStates, DistinctContents, OneFirst DEF BackUp, Sound, TakeOver, Goto, Throw, disk, user, MayFail, plan, Fails,
           IInv, TypeOK, UserWorkSurvives, CustodyInv, JournalInv, LoopInv, BackupInv,
           CheckInv, TempInv, Owned, New, Keeps, Trying, Staging, Moving, Validating,
           Rolling, Cleaning, Finalizing, Pending, EntryStates, JournalStates, AllNew
  <2>4. CASE Verify(p)
    BY <2>4, MarkStates, DistinctContents, OneFirst DEF Verify, Sound, Goto, disk, MayFail, plan, user, Fails, Throw, IInv, TypeOK,
           UserWorkSurvives, CustodyInv, JournalInv, LoopInv, BackupInv, CheckInv,
           TempInv, Owned, New, Keeps, Trying, Staging, Moving, Validating, Rolling,
           Cleaning, Finalizing, Pending, EntryStates, JournalStates, AllNew
  <2>5. CASE PutBackLink(p)
    BY <2>5, MarkStates, DistinctContents, OneFirst DEF PutBackLink, Sound, Goto, Throw, disk, MayFail, plan, user, Fails, IInv,
           TypeOK, UserWorkSurvives, CustodyInv, JournalInv, LoopInv, BackupInv,
           CheckInv, TempInv, Owned, New, Keeps, Trying, Staging, Moving, Validating,
           Rolling, Cleaning, Finalizing, Pending, EntryStates, JournalStates, AllNew
  <2>6. CASE PutBackUnlink(p)
    BY <2>6, MarkStates, DistinctContents, OneFirst DEF PutBackUnlink, Sound, Throw, MayFail, plan, user, Fails, disk, Goto, IInv,
           TypeOK, UserWorkSurvives, CustodyInv, JournalInv, LoopInv, BackupInv,
           CheckInv, TempInv, Owned, New, Keeps, Trying, Staging, Moving, Validating,
           Rolling, Cleaning, Finalizing, Pending, EntryStates, JournalStates, AllNew
  <2>7. CASE MarkBackedUp(p)
    BY <2>7, MarkStates, DistinctContents, OneFirst DEF MarkBackedUp, Mark, plan, user, Sound, Goto, Fails, Throw, IInv, TypeOK,
           UserWorkSurvives, CustodyInv, JournalInv, LoopInv, BackupInv, CheckInv,
           TempInv, Owned, New, Keeps, Trying, Staging, Moving, Validating, Rolling,
           Cleaning, Finalizing, Pending, EntryStates, JournalStates, AllNew
  <2>8. CASE Link(p)
    BY <2>8, MarkStates, DistinctContents, OneFirst DEF Link, Sound, TakeOver, Goto, Throw, disk, user, MayFail, plan, Fails, IInv,
           TypeOK, UserWorkSurvives, CustodyInv, JournalInv, LoopInv, BackupInv,
           CheckInv, TempInv, Owned, New, Keeps, Trying, Staging, Moving, Validating,
           Rolling, Cleaning, Finalizing, Pending, EntryStates, JournalStates, AllNew
  <2>9. CASE Unlink(p)
    BY <2>9, MarkStates, DistinctContents, OneFirst DEF Unlink, Sound, Goto, MayFail, plan, user, Fails, Throw, disk, IInv, TypeOK,
           UserWorkSurvives, CustodyInv, JournalInv, LoopInv, BackupInv, CheckInv,
           TempInv, Owned, New, Keeps, Trying, Staging, Moving, Validating, Rolling,
           Cleaning, Finalizing, Pending, EntryStates, JournalStates, AllNew
  <2>10. CASE MarkCommitted(p)
    BY <2>10, MarkStates, DistinctContents, OneFirst DEF MarkCommitted, Mark, plan, user, Sound, Goto, Fails, Throw, IInv, TypeOK,
           UserWorkSurvives, CustodyInv, JournalInv, LoopInv, BackupInv, CheckInv,
           TempInv, Owned, New, Keeps, Trying, Staging, Moving, Validating, Rolling,
           Cleaning, Finalizing, Pending, EntryStates, JournalStates, AllNew
  <2> QED BY <2>1, <2>2, <2>3, <2>4, <2>5, <2>6, <2>7, <2>8, <2>9, <2>10 DEF Commit
<1>6. CASE \E p \in Paths : Rollback(p)
  <2> PICK p \in Paths : Rollback(p)
    BY <1>6
  <2>1. CASE RollbackRead(p)
    BY <2>1, MarkStates, DistinctContents, OneFirst DEF RollbackRead, Sound, Goto, GiveUp, Fails, disk, plan, user, IInv, TypeOK,
           UserWorkSurvives, CustodyInv, JournalInv, LoopInv, BackupInv, CheckInv,
           TempInv, Owned, New, Keeps, Trying, Staging, Moving, Validating, Rolling,
           Cleaning, Finalizing, Pending, EntryStates, JournalStates, AllNew
  <2>2. CASE RollbackRemove(p)
    <3>1. /\ Last(p, todo) /\ p \in todo /\ pc = "rb_remove"
          /\ UNCHANGED <<last, backup, base, journal>>
          /\ \A q \in Paths \ {p} : target'[q] = target[q]
          /\ target'[p] \in {target[p], Absent}
          /\ pc' \notin Validating /\ pc' # "put_unlink"
      BY <2>2, OneFirst DEF RollbackRemove, GiveUp, Goto, IInv, TypeOK, Validating, plan, user
    <3>2. journal.state # "complete"
      BY <3>1 DEF IInv, JournalInv, Cleaning, Finalizing
    <3>3. Owned(p)
      BY <3>1 DEF IInv, CheckInv
    <3>4. ASSUME NEW q \in Paths PROVE Owned(q)' => Owned(q)
      BY <3>1, <3>3 DEF Owned, New
    <3> QED BY <3>1, <3>2, <3>4 DEF IInv, CustodyInv, Keeps
  <2>3. CASE RollbackRename(p)
    BY <2>3, MarkStates, DistinctContents, OneFirst DEF RollbackRename, Sound, Goto, Fails, GiveUp, plan, user, IInv, TypeOK,
           UserWorkSurvives, CustodyInv, JournalInv, LoopInv, BackupInv, CheckInv,
           TempInv, Owned, New, Keeps, Trying, Staging, Moving, Validating, Rolling,
           Cleaning, Finalizing, Pending, EntryStates, JournalStates, AllNew
  <2>4. CASE RollbackDrop(p)
    <3>1. /\ Last(p, todo) /\ p \in todo /\ pc = "rb_drop"
          /\ UNCHANGED <<last, backup, base, journal>>
          /\ \A q \in Paths \ {p} : target'[q] = target[q]
          /\ target'[p] \in {target[p], Absent}
          /\ pc' \notin Validating /\ pc' # "put_unlink"
      BY <2>4, OneFirst DEF RollbackDrop, GiveUp, Goto, IInv, TypeOK, Validating, plan, user
    <3>2. journal.state # "complete"
      BY <3>1 DEF IInv, JournalInv, Cleaning, Finalizing
    <3>3. Owned(p)
      BY <3>1 DEF IInv, CheckInv
    <3>4. ASSUME NEW q \in Paths PROVE Owned(q)' => Owned(q)
      BY <3>1, <3>3 DEF Owned, New
    <3> QED BY <3>1, <3>2, <3>4 DEF IInv, CustodyInv, Keeps
  <2>5. CASE RollbackTemp(p)
    BY <2>5, MarkStates, DistinctContents, OneFirst DEF RollbackTemp, Sound, Goto, Fails, GiveUp, plan, user, IInv, TypeOK,
           UserWorkSurvives, CustodyInv, JournalInv, LoopInv, BackupInv, CheckInv,
           TempInv, Owned, New, Keeps, Trying, Staging, Moving, Validating, Rolling,
           Cleaning, Finalizing, Pending, EntryStates, JournalStates, AllNew
  <2> QED BY <2>1, <2>2, <2>3, <2>4, <2>5 DEF Rollback
<1>7. CASE \E p \in Paths : CleanUp(p)
  <2> PICK p \in Paths : CleanUp(p)
    BY <1>7
  <2>1. CASE CleanCheck(p)
    BY <2>1, MarkStates, DistinctContents, OneFirst DEF CleanCheck, Sound, Goto, Fails, AfterClean, disk, plan, user, IInv, TypeOK,
           UserWorkSurvives, CustodyInv, JournalInv, LoopInv, BackupInv, CheckInv,
           TempInv, Owned, New, Keeps, Trying, Staging, Moving, Validating, Rolling,
           Cleaning, Finalizing, Pending, EntryStates, JournalStates, AllNew
  <2>2. CASE CleanRemove(p)
    BY <2>2, MarkStates, DistinctContents, OneFirst DEF CleanRemove, AfterClean, Sound, Fails, plan, user, Goto, IInv, TypeOK,
           UserWorkSurvives, CustodyInv, JournalInv, LoopInv, BackupInv, CheckInv,
           TempInv, Owned, New, Keeps, Trying, Staging, Moving, Validating, Rolling,
           Cleaning, Finalizing, Pending, EntryStates, JournalStates, AllNew
  <2>3. CASE FinalRemove(p)
    BY <2>3, MarkStates, DistinctContents, OneFirst DEF FinalRemove, Sound, Fails, Finish, plan, user, Goto, IInv, TypeOK,
           UserWorkSurvives, CustodyInv, JournalInv, LoopInv, BackupInv, CheckInv,
           TempInv, Owned, New, Keeps, Trying, Staging, Moving, Validating, Rolling,
           Cleaning, Finalizing, Pending, EntryStates, JournalStates, AllNew
  <2> QED BY <2>1, <2>2, <2>3 DEF CleanUp
<1>8. CASE Environment
  <2>1. CASE Crash
    BY <2>1, MarkStates, DistinctContents, OneFirst DEF Crash, plan, user, IInv, TypeOK, UserWorkSurvives, CustodyInv, JournalInv,
           LoopInv, BackupInv, CheckInv, TempInv, Owned, New, Keeps, Trying, Staging,
           Moving, Validating, Rolling, Cleaning, Finalizing, Pending, EntryStates,
           JournalStates, AllNew
  <2>2. ASSUME NEW p \in Paths, UserDelete(p) PROVE CustodyInv'
    BY <2>2, MarkStates, DistinctContents, OneFirst DEF UserDelete, Edit, proc, plan, IInv, TypeOK, UserWorkSurvives, CustodyInv,
           JournalInv, LoopInv, BackupInv, CheckInv, TempInv, Owned, New, Keeps,
           Trying, Staging, Moving, Validating, Rolling, Cleaning, Finalizing, Pending,
           EntryStates, JournalStates, AllNew
  <2>3. ASSUME NEW p \in Paths, NEW b \in Bodies, UserWrite(p, b) PROVE CustodyInv'
    BY <2>3, MarkStates, DistinctContents, OneFirst DEF UserWrite, Edit, proc, plan, IInv, TypeOK, UserWorkSurvives, CustodyInv,
           JournalInv, LoopInv, BackupInv, CheckInv, TempInv, Owned, New, Keeps,
           Trying, Staging, Moving, Validating, Rolling, Cleaning, Finalizing, Pending,
           EntryStates, JournalStates, AllNew
  <2>4. ASSUME NEW p \in Paths, NEW b \in Bodies, StaleWrite(p, b) PROVE CustodyInv'
    BY <2>4, MarkStates, DistinctContents, OneFirst DEF StaleWrite, Edit, proc, plan, IInv, TypeOK, UserWorkSurvives, CustodyInv,
           JournalInv, LoopInv, BackupInv, CheckInv, TempInv, Owned, New, Keeps,
           Trying, Staging, Moving, Validating, Rolling, Cleaning, Finalizing, Pending,
           EntryStates, JournalStates, AllNew, BackupWindow
  <2> QED BY <1>8, <2>1, <2>2, <2>3, <2>4 DEF Environment
<1>9. CASE UNCHANGED vars
  BY <1>9, MarkStates, DistinctContents, OneFirst DEF vars, disk, proc, plan, user, disk, proc, plan, user, IInv, TypeOK,
         UserWorkSurvives, CustodyInv, JournalInv, LoopInv, BackupInv, CheckInv,
         TempInv, Owned, New, Keeps, Trying, Staging, Moving, Validating, Rolling,
         Cleaning, Finalizing, Pending, EntryStates, JournalStates, AllNew
<1> QED BY <1>1, <1>2, <1>3, <1>4, <1>5, <1>6, <1>7, <1>8, <1>9 DEF Next, Process

LEMMA InvInit == Init => IInv
<1> SUFFICES ASSUME Init PROVE IInv
  OBVIOUS
<1>1. CustodyInv /\ BackupInv
  BY DEF Init, CustodyInv, BackupInv, Pending, Moving, Staging
<1>2. LoopInv /\ TempInv /\ CheckInv
  BY DEF Init, LoopInv, TempInv, CheckInv, Trying, Staging, Moving, Validating, Rolling,
         Cleaning, Finalizing
<1>3. UserWorkSurvives
  BY DEF Init, UserWorkSurvives
<1> QED BY <1>1, <1>2, <1>3, TypeInit, JournalInit DEF IInv

LEMMA InvStep == ~CheckActRace => (IInv /\ [Next]_vars => IInv')
<1> SUFFICES ASSUME ~CheckActRace, IInv, [Next]_vars PROVE IInv'
  OBVIOUS
<1>1. TypeOK' /\ JournalInv'
  BY TypeStep, JournalStep DEF IInv
<1> QED BY <1>1, LoopStep, BackupStep, TempStep, CheckStep, CustodyStep, WorkStep DEF IInv

(* What a user last wrote is never destroyed, when no write falls between a *)
(* check and the deletion it allows.                                        *)
THEOREM UserWorkIsSafe == ~CheckActRace => (Spec => []UserWorkSurvives)
<1> SUFFICES ASSUME ~CheckActRace PROVE Spec => []UserWorkSurvives
  OBVIOUS
<1>1. IInv /\ [Next]_vars => IInv'
  BY InvStep
<1>2. IInv => UserWorkSurvives
  BY DEF IInv
<1> QED BY InvInit, <1>1, <1>2, PTL DEF Spec

TakesItsOwn ==
    \A p \in Paths :
      pc \in {"rb_remove", "rb_rename", "rb_drop"} /\ target'[p] # target[p] /\ edits' = edits
        => target[p] \in {Absent, New(p)}

LEMMA OwnStep == ASSUME IInv, [Next]_vars PROVE TakesItsOwn
<1>1. CASE Start \/ Plan \/ Prepare
  BY <1>1, OneFirst DEF Start, Plan, Prepare, Goto, plan, user, disk, Finish, IInv, TypeOK, CheckInv,
         TakesItsOwn
<1>2. CASE \/ CreateJournal \/ MarkAllStaged \/ Expect \/ MarkCommitting
             \/ Post \/ MarkValidating \/ Validate \/ MarkComplete
  BY <1>2, OneFirst DEF CreateJournal, MarkAllStaged, Expect, MarkCommitting, Post, MarkValidating,
         Validate, MarkComplete, Mark, plan, user, Sound, Goto, Fails, Throw, disk,
         MayFail, IInv, TypeOK, CheckInv, TakesItsOwn
<1>3. CASE CleanJournal \/ RollbackMark \/ RollbackEnd
  BY <1>3, OneFirst DEF CleanJournal, RollbackMark, RollbackEnd, Sound, Finish, Fails, plan, user,
         Goto, IInv, TypeOK, CheckInv, TakesItsOwn
<1>4. CASE FinalCheck \/ FinalEnd
  BY <1>4, OneFirst DEF FinalCheck, FinalEnd, Goto, Finish, disk, plan, user, Sound, Fails, IInv,
         TypeOK, CheckInv, TakesItsOwn
<1>5. CASE \E p \in Paths : Commit(p)
  BY <1>5, OneFirst DEF Commit, StageTemp, MarkStaged, BackUp, Verify, PutBackLink, PutBackUnlink,
         MarkBackedUp, Link, Unlink, MarkCommitted, Sound, Goto, Fails, Throw, plan,
         user, Mark, TakeOver, disk, MayFail, IInv, TypeOK, CheckInv, TakesItsOwn
<1>6. CASE \E p \in Paths : Rollback(p)
  <2> PICK p \in Paths : Rollback(p)
    BY <1>6
  <2>1. CASE RollbackRead(p)
    BY <2>1, OneFirst DEF RollbackRead, Sound, Goto, GiveUp, Fails, disk, plan, user, IInv, TypeOK,
           CheckInv, TakesItsOwn
  <2>2. CASE RollbackRemove(p)
    <3>1. Last(p, todo) /\ p \in todo /\ \A q \in Paths \ {p} : target'[q] = target[q]
      BY <2>2, OneFirst DEF RollbackRemove, GiveUp, IInv, TypeOK
    <3>2. Owned(p)
      BY <2>2, <3>1 DEF RollbackRemove, IInv, CheckInv, Owned
    <3> QED BY <3>1, <3>2 DEF TakesItsOwn, Owned
  <2>3. CASE RollbackRename(p)
    <3>1. Last(p, todo) /\ p \in todo /\ \A q \in Paths \ {p} : target'[q] = target[q]
      BY <2>3, OneFirst DEF RollbackRename, GiveUp, IInv, TypeOK
    <3>2. Owned(p)
      BY <2>3, <3>1 DEF RollbackRename, IInv, CheckInv, Owned
    <3> QED BY <3>1, <3>2 DEF TakesItsOwn, Owned
  <2>4. CASE RollbackDrop(p)
    <3>1. Last(p, todo) /\ p \in todo /\ \A q \in Paths \ {p} : target'[q] = target[q]
      BY <2>4, OneFirst DEF RollbackDrop, GiveUp, IInv, TypeOK
    <3>2. Owned(p)
      BY <2>4, <3>1 DEF RollbackDrop, IInv, CheckInv, Owned
    <3> QED BY <3>1, <3>2 DEF TakesItsOwn, Owned
  <2>5. CASE RollbackTemp(p)
    BY <2>5, OneFirst DEF RollbackTemp, Sound, Goto, Fails, GiveUp, plan, user, IInv, TypeOK,
           CheckInv, TakesItsOwn
  <2> QED BY <2>1, <2>2, <2>3, <2>4, <2>5 DEF Rollback
<1>7. CASE \E p \in Paths : CleanUp(p)
  BY <1>7, OneFirst DEF CleanUp, CleanCheck, CleanRemove, FinalRemove, Sound, Goto, Fails, AfterClean,
         disk, plan, user, Finish, IInv, TypeOK, CheckInv, TakesItsOwn
<1>8. CASE Environment
  BY <1>8, OneFirst DEF Environment, Crash, UserDelete, UserWrite, StaleWrite, plan, user, Edit, proc,
         IInv, TypeOK, CheckInv, TakesItsOwn
<1>9. CASE UNCHANGED vars
  BY <1>9, OneFirst DEF vars, disk, proc, plan, user, disk, proc, plan, user, IInv, TypeOK, CheckInv,
         TakesItsOwn
<1> QED BY <1>1, <1>2, <1>3, <1>4, <1>5, <1>6, <1>7, <1>8, <1>9 DEF Next, Process

(* Rollback replaces or deletes a target only while it is absent or holds   *)
(* the transaction's own bytes, under the same condition.                   *)
THEOREM RollbackIsModest == ~CheckActRace => (Spec => RollbackTakesOnlyItsOwn)
<1> SUFFICES ASSUME ~CheckActRace PROVE Spec => RollbackTakesOnlyItsOwn
  OBVIOUS
<1>1. IInv /\ [Next]_vars => IInv'
  BY InvStep
<1>2. IInv /\ [Next]_vars => [TakesItsOwn]_vars
  BY OwnStep
<1> QED BY InvInit, <1>1, <1>2, PTL DEF Spec, RollbackTakesOnlyItsOwn, TakesItsOwn

-----------------------------------------------------------------------------
(* What a recovery finds, and what a rollback leaves, whoever races *)

LEMMA LeftoverStep == ASSUME TypeOK, JournalInv, LoopInv, LeftoverInv, [Next]_vars PROVE LeftoverInv'
<1>1. CASE Start \/ Plan \/ Prepare
  BY <1>1, MarkStates, OneFirst DEF Start, Plan, Prepare, Goto, plan, user, disk, Finish,
         TypeOK, JournalInv, LoopInv, LeftoverInv, Trying, Staging, Moving, Validating,
         Rolling, Cleaning, Finalizing, Pending, EntryStates, JournalStates
<1>2. CASE \/ CreateJournal \/ MarkAllStaged \/ Expect \/ MarkCommitting
             \/ Post \/ MarkValidating \/ Validate \/ MarkComplete
  BY <1>2, MarkStates, OneFirst DEF CreateJournal, MarkAllStaged, Expect, MarkCommitting,
         Post, MarkValidating, Validate, MarkComplete, Mark, plan, user, Sound, Goto, Fails,
         Throw, disk, MayFail, TypeOK, JournalInv, LoopInv, LeftoverInv, Trying, Staging,
         Moving, Validating, Rolling, Cleaning, Finalizing, Pending, EntryStates,
         JournalStates
<1>3. CASE CleanJournal \/ RollbackMark \/ RollbackEnd
  BY <1>3, MarkStates, OneFirst DEF CleanJournal, RollbackMark, RollbackEnd, Sound, Finish,
         Fails, plan, user, Goto, TypeOK, JournalInv, LoopInv, LeftoverInv, Trying, Staging,
         Moving, Validating, Rolling, Cleaning, Finalizing, Pending, EntryStates,
         JournalStates
<1>4. CASE FinalCheck \/ FinalEnd
  BY <1>4, MarkStates, OneFirst DEF FinalCheck, FinalEnd, Goto, Finish, disk, plan, user,
         Sound, Fails, TypeOK, JournalInv, LoopInv, LeftoverInv, Trying, Staging, Moving,
         Validating, Rolling, Cleaning, Finalizing, Pending, EntryStates, JournalStates
<1>5. CASE \E p \in Paths : Commit(p)
  <2> PICK p \in Paths : Commit(p)
    BY <1>5
  <2>1. CASE StageTemp(p)
    BY <2>1, MarkStates, OneFirst DEF StageTemp, Sound, Goto, Fails, Throw, plan, user,
           TypeOK, JournalInv, LoopInv, LeftoverInv, Trying, Staging, Moving, Validating,
           Rolling, Cleaning, Finalizing, Pending, EntryStates, JournalStates
  <2>2. CASE MarkStaged(p)
    BY <2>2, MarkStates, OneFirst DEF MarkStaged, Mark, plan, user, Sound, Goto, Fails,
           Throw, TypeOK, JournalInv, LoopInv, LeftoverInv, Trying, Staging, Moving,
           Validating, Rolling, Cleaning, Finalizing, Pending, EntryStates, JournalStates
  <2>3. CASE BackUp(p)
    BY <2>3, MarkStates, OneFirst DEF BackUp, Sound, TakeOver, Goto, Throw, disk, user,
           MayFail, plan, Fails, TypeOK, JournalInv, LoopInv, LeftoverInv, Trying, Staging,
           Moving, Validating, Rolling, Cleaning, Finalizing, Pending, EntryStates,
           JournalStates
  <2>4. CASE Verify(p)
    BY <2>4, MarkStates, OneFirst DEF Verify, Sound, Goto, disk, MayFail, plan, user, Fails,
           Throw, TypeOK, JournalInv, LoopInv, LeftoverInv, Trying, Staging, Moving,
           Validating, Rolling, Cleaning, Finalizing, Pending, EntryStates, JournalStates
  <2>5. CASE PutBackLink(p)
    BY <2>5, MarkStates, OneFirst DEF PutBackLink, Sound, Goto, Throw, disk, MayFail, plan,
           user, Fails, TypeOK, JournalInv, LoopInv, LeftoverInv, Trying, Staging, Moving,
           Validating, Rolling, Cleaning, Finalizing, Pending, EntryStates, JournalStates
  <2>6. CASE PutBackUnlink(p)
    BY <2>6, MarkStates, OneFirst DEF PutBackUnlink, Sound, Throw, MayFail, plan, user,
           Fails, disk, Goto, TypeOK, JournalInv, LoopInv, LeftoverInv, Trying, Staging,
           Moving, Validating, Rolling, Cleaning, Finalizing, Pending, EntryStates,
           JournalStates
  <2>7. CASE MarkBackedUp(p)
    BY <2>7, MarkStates, OneFirst DEF MarkBackedUp, Mark, plan, user, Sound, Goto, Fails,
           Throw, TypeOK, JournalInv, LoopInv, LeftoverInv, Trying, Staging, Moving,
           Validating, Rolling, Cleaning, Finalizing, Pending, EntryStates, JournalStates
  <2>8. CASE Link(p)
    BY <2>8, MarkStates, OneFirst DEF Link, Sound, TakeOver, Goto, Throw, disk, user,
           MayFail, plan, Fails, TypeOK, JournalInv, LoopInv, LeftoverInv, Trying, Staging,
           Moving, Validating, Rolling, Cleaning, Finalizing, Pending, EntryStates,
           JournalStates
  <2>9. CASE Unlink(p)
    BY <2>9, MarkStates, OneFirst DEF Unlink, Sound, Goto, MayFail, plan, user, Fails,
           Throw, disk, TypeOK, JournalInv, LoopInv, LeftoverInv, Trying, Staging, Moving,
           Validating, Rolling, Cleaning, Finalizing, Pending, EntryStates, JournalStates
  <2>10. CASE MarkCommitted(p)
    BY <2>10, MarkStates, OneFirst DEF MarkCommitted, Mark, plan, user, Sound, Goto, Fails,
           Throw, TypeOK, JournalInv, LoopInv, LeftoverInv, Trying, Staging, Moving,
           Validating, Rolling, Cleaning, Finalizing, Pending, EntryStates, JournalStates
  <2> QED BY <2>1, <2>2, <2>3, <2>4, <2>5, <2>6, <2>7, <2>8, <2>9, <2>10 DEF Commit
<1>6. CASE \E p \in Paths : Rollback(p)
  <2> PICK p \in Paths : Rollback(p)
    BY <1>6
  <2>1. CASE RollbackRead(p)
    BY <2>1, MarkStates, OneFirst DEF RollbackRead, Sound, Goto, GiveUp, Fails, disk, plan,
           user, TypeOK, JournalInv, LoopInv, LeftoverInv, Trying, Staging, Moving,
           Validating, Rolling, Cleaning, Finalizing, Pending, EntryStates, JournalStates
  <2>2. CASE RollbackRemove(p)
    BY <2>2, MarkStates, OneFirst DEF RollbackRemove, Sound, Goto, Fails, GiveUp, plan,
           user, TypeOK, JournalInv, LoopInv, LeftoverInv, Trying, Staging, Moving,
           Validating, Rolling, Cleaning, Finalizing, Pending, EntryStates, JournalStates
  <2>3. CASE RollbackRename(p)
    BY <2>3, MarkStates, OneFirst DEF RollbackRename, Sound, Goto, Fails, GiveUp, plan,
           user, TypeOK, JournalInv, LoopInv, LeftoverInv, Trying, Staging, Moving,
           Validating, Rolling, Cleaning, Finalizing, Pending, EntryStates, JournalStates
  <2>4. CASE RollbackDrop(p)
    BY <2>4, MarkStates, OneFirst DEF RollbackDrop, Sound, Goto, Fails, GiveUp, plan, user,
           TypeOK, JournalInv, LoopInv, LeftoverInv, Trying, Staging, Moving, Validating,
           Rolling, Cleaning, Finalizing, Pending, EntryStates, JournalStates
  <2>5. CASE RollbackTemp(p)
    BY <2>5, MarkStates, OneFirst DEF RollbackTemp, Sound, Goto, Fails, GiveUp, plan, user,
           TypeOK, JournalInv, LoopInv, LeftoverInv, Trying, Staging, Moving, Validating,
           Rolling, Cleaning, Finalizing, Pending, EntryStates, JournalStates
  <2> QED BY <2>1, <2>2, <2>3, <2>4, <2>5 DEF Rollback
<1>7. CASE \E p \in Paths : CleanUp(p)
  <2> PICK p \in Paths : CleanUp(p)
    BY <1>7
  <2>1. CASE CleanCheck(p)
    BY <2>1, MarkStates, OneFirst DEF CleanCheck, Sound, Goto, Fails, AfterClean, disk,
           plan, user, TypeOK, JournalInv, LoopInv, LeftoverInv, Trying, Staging, Moving,
           Validating, Rolling, Cleaning, Finalizing, Pending, EntryStates, JournalStates
  <2>2. CASE CleanRemove(p)
    BY <2>2, MarkStates, OneFirst DEF CleanRemove, AfterClean, Sound, Fails, plan, user,
           Goto, TypeOK, JournalInv, LoopInv, LeftoverInv, Trying, Staging, Moving,
           Validating, Rolling, Cleaning, Finalizing, Pending, EntryStates, JournalStates
  <2>3. CASE FinalRemove(p)
    BY <2>3, MarkStates, OneFirst DEF FinalRemove, Sound, Fails, Finish, plan, user, Goto,
           TypeOK, JournalInv, LoopInv, LeftoverInv, Trying, Staging, Moving, Validating,
           Rolling, Cleaning, Finalizing, Pending, EntryStates, JournalStates
  <2> QED BY <2>1, <2>2, <2>3 DEF CleanUp
<1>8. CASE Environment
  <2>1. CASE Crash
    BY <2>1, MarkStates, OneFirst DEF Crash, plan, user, TypeOK, JournalInv, LoopInv,
           LeftoverInv, Trying, Staging, Moving, Validating, Rolling, Cleaning, Finalizing,
           Pending, EntryStates, JournalStates
  <2>2. ASSUME NEW p \in Paths, UserDelete(p) PROVE LeftoverInv'
    BY <2>2, MarkStates, OneFirst DEF UserDelete, Edit, proc, plan, TypeOK, JournalInv,
           LoopInv, LeftoverInv, Trying, Staging, Moving, Validating, Rolling, Cleaning,
           Finalizing, Pending, EntryStates, JournalStates
  <2>3. ASSUME NEW p \in Paths, NEW b \in Bodies, UserWrite(p, b) PROVE LeftoverInv'
    BY <2>3, MarkStates, OneFirst DEF UserWrite, Edit, proc, plan, TypeOK, JournalInv,
           LoopInv, LeftoverInv, Trying, Staging, Moving, Validating, Rolling, Cleaning,
           Finalizing, Pending, EntryStates, JournalStates
  <2>4. ASSUME NEW p \in Paths, NEW b \in Bodies, StaleWrite(p, b) PROVE LeftoverInv'
    BY <2>4, MarkStates, OneFirst DEF StaleWrite, Edit, proc, plan, TypeOK, JournalInv,
           LoopInv, LeftoverInv, Trying, Staging, Moving, Validating, Rolling, Cleaning,
           Finalizing, Pending, EntryStates, JournalStates
  <2> QED BY <1>8, <2>1, <2>2, <2>3, <2>4 DEF Environment
<1>9. CASE UNCHANGED vars
  BY <1>9, MarkStates, OneFirst DEF vars, disk, proc, plan, user, TypeOK, JournalInv,
         LoopInv, LeftoverInv, Trying, Staging, Moving, Validating, Rolling, Cleaning,
         Finalizing, Pending, EntryStates, JournalStates
<1> QED BY <1>1, <1>2, <1>3, <1>4, <1>5, <1>6, <1>7, <1>8, <1>9 DEF Next, Process

LEMMA RestoreStep == ASSUME HInv, [Next]_vars PROVE RestoreInv'
<1>1. CASE Start \/ Plan \/ Prepare
  <2>1. CASE Start
    BY <2>1 DEF Start, Goto, plan, user, HInv, JournalInv, RestoreInv, Covered, Revocable, Untaken,
           New, Pending, Rolling
  <2>2. CASE Plan
    BY <2>2 DEF Plan, Goto, disk, HInv, TypeOK, JournalInv, BackupInv, RestoreInv, Covered,
           Revocable, Untaken, Rolling, Pending
  <2>3. CASE Prepare
    BY <2>3 DEF Prepare, Goto, Finish, disk, plan, user, HInv, JournalInv, RestoreInv, Covered,
           Revocable, Untaken, New, Rolling, Pending
  <2> QED BY <1>1, <2>1, <2>2, <2>3
<1>2. CASE \/ CreateJournal \/ MarkAllStaged \/ Expect \/ MarkCommitting
             \/ Post \/ MarkValidating \/ Validate \/ MarkComplete
  BY <1>2, MarkStates, OneFirst, DistinctContents DEF CreateJournal, MarkAllStaged, Expect,
         MarkCommitting, Post, MarkValidating, Validate, MarkComplete, Mark, plan, user,
         Sound, Goto, Fails, Throw, disk, MayFail, HInv, TypeOK, JournalInv, LoopInv,
         RestoreInv, Covered, Revocable, Untaken, Owned, New, Trying, Staging, Moving,
         Validating, Rolling, Cleaning, Finalizing, Pending, EntryStates, JournalStates
<1>3. CASE CleanJournal \/ RollbackMark \/ RollbackEnd
  BY <1>3, MarkStates, OneFirst, DistinctContents DEF CleanJournal, RollbackMark,
         RollbackEnd, Sound, Finish, Fails, plan, user, Goto, HInv, TypeOK, JournalInv,
         LoopInv, RestoreInv, Covered, Revocable, Untaken, Owned, New, Trying, Staging,
         Moving, Validating, Rolling, Cleaning, Finalizing, Pending, EntryStates,
         JournalStates
<1>4. CASE FinalCheck \/ FinalEnd
  BY <1>4, MarkStates, OneFirst, DistinctContents DEF FinalCheck, FinalEnd, Goto, Finish,
         disk, plan, user, Sound, Fails, HInv, TypeOK, JournalInv, LoopInv, RestoreInv,
         Covered, Revocable, Untaken, Owned, New, Trying, Staging, Moving, Validating,
         Rolling, Cleaning, Finalizing, Pending, EntryStates, JournalStates
<1>5. CASE \E p \in Paths : Commit(p)
  <2> PICK p \in Paths : Commit(p)
    BY <1>5
  <2>1. CASE StageTemp(p)
    BY <2>1, MarkStates, OneFirst, DistinctContents DEF StageTemp, Sound, Goto, Fails,
           Throw, plan, user, HInv, TypeOK, JournalInv, LoopInv, RestoreInv, Covered,
           Revocable, Untaken, Owned, New, Trying, Staging, Moving, Validating, Rolling,
           Cleaning, Finalizing, Pending, EntryStates, JournalStates
  <2>2. CASE MarkStaged(p)
    BY <2>2, MarkStates, OneFirst, DistinctContents DEF MarkStaged, Mark, plan, user, Sound,
           Goto, Fails, Throw, HInv, TypeOK, JournalInv, LoopInv, RestoreInv, Covered,
           Revocable, Untaken, Owned, New, Trying, Staging, Moving, Validating, Rolling,
           Cleaning, Finalizing, Pending, EntryStates, JournalStates
  <2>3. CASE BackUp(p)
    <3>1. /\ p \in todo /\ First(p, todo) /\ \A q \in todo : First(q, todo) => q = p
          /\ p \in work /\ work \subseteq Paths
      BY <2>3, OneFirst DEF BackUp, HInv, TypeOK, LoopInv, Trying, Rolling, Moving, Staging, Validating
    <3>2. /\ \A q \in Paths \ {p} : target'[q] = target[q] /\ backup'[q] = backup[q]
                                        /\ (q \in touched <=> q \in touched')
          /\ UNCHANGED <<work, base, journal>>
      BY <2>3, <3>1 DEF BackUp, TakeOver, GiveUp, Throw, MayFail, disk, plan, user, HInv, TypeOK
    <3>3. Revocable /\ Revocable'
      BY <2>3, <3>2 DEF BackUp, GiveUp, Goto, Throw, MayFail, HInv, JournalInv, Revocable, Pending, Rolling,
             Trying, Moving, Staging, Validating, Cleaning, Finalizing
    <3>4. Covered(p)'
      BY <2>3, <3>1, <3>2, <3>3, DistinctContents DEF BackUp, TakeOver, Throw, MayFail, disk, user, plan, HInv, TypeOK,
             BackupInv, RestoreInv, Covered, Untaken, New
    <3>5. \A q \in work : Covered(q)'
      BY <3>2, <3>3, <3>4 DEF HInv, RestoreInv, Covered, Untaken, New, TypeOK
    <3>6. pc' = "verify" => backup'[p] # Absent
      BY <2>3, <3>1 DEF BackUp, Goto, Throw, MayFail, HInv, TypeOK
    <3>7. pc' \in {"verify", "rb_mark"} /\ (pc' = "verify" => todo' = todo)
      BY <2>3 DEF BackUp, Goto, Throw, MayFail
    <3> QED BY <3>1, <3>2, <3>5, <3>6, <3>7 DEF RestoreInv, Rolling
  <2>4. CASE Verify(p)
    BY <2>4, MarkStates, OneFirst, DistinctContents DEF Verify, Sound, Goto, disk, MayFail,
           plan, user, Fails, Throw, HInv, TypeOK, JournalInv, LoopInv, RestoreInv, Covered,
           Revocable, Untaken, Owned, New, Trying, Staging, Moving, Validating, Rolling,
           Cleaning, Finalizing, Pending, EntryStates, JournalStates
  <2>5. CASE PutBackLink(p)
    BY <2>5, MarkStates, OneFirst, DistinctContents DEF PutBackLink, Sound, Goto, Throw,
           disk, MayFail, plan, user, Fails, HInv, TypeOK, JournalInv, LoopInv, RestoreInv,
           Covered, Revocable, Untaken, Owned, New, Trying, Staging, Moving, Validating,
           Rolling, Cleaning, Finalizing, Pending, EntryStates, JournalStates
  <2>6. CASE PutBackUnlink(p)
    BY <2>6, MarkStates, OneFirst, DistinctContents DEF PutBackUnlink, Sound, Throw,
           MayFail, plan, user, Fails, disk, Goto, HInv, TypeOK, JournalInv, LoopInv,
           RestoreInv, Covered, Revocable, Untaken, Owned, New, Trying, Staging, Moving,
           Validating, Rolling, Cleaning, Finalizing, Pending, EntryStates, JournalStates
  <2>7. CASE MarkBackedUp(p)
    BY <2>7, MarkStates, OneFirst, DistinctContents DEF MarkBackedUp, Mark, plan, user,
           Sound, Goto, Fails, Throw, HInv, TypeOK, JournalInv, LoopInv, RestoreInv,
           Covered, Revocable, Untaken, Owned, New, Trying, Staging, Moving, Validating,
           Rolling, Cleaning, Finalizing, Pending, EntryStates, JournalStates
  <2>8. CASE Link(p)
    <3>1. /\ p \in todo /\ First(p, todo) /\ \A q \in todo : First(q, todo) => q = p
          /\ p \in work /\ work \subseteq Paths
      BY <2>8, OneFirst DEF Link, HInv, TypeOK, LoopInv, Trying, Rolling, Moving, Staging, Validating
    <3>2. /\ \A q \in Paths \ {p} : target'[q] = target[q] /\ backup'[q] = backup[q]
                                        /\ (q \in touched <=> q \in touched')
          /\ UNCHANGED <<work, base, journal>>
      BY <2>8, <3>1 DEF Link, TakeOver, GiveUp, Throw, MayFail, disk, plan, user, HInv, TypeOK
    <3>3. Revocable /\ Revocable'
      BY <2>8, <3>2 DEF Link, GiveUp, Goto, Throw, MayFail, HInv, JournalInv, Revocable, Pending, Rolling,
             Trying, Moving, Staging, Validating, Cleaning, Finalizing
    <3>4. Covered(p)'
      BY <2>8, <3>1, <3>2, <3>3, DistinctContents DEF Link, TakeOver, Throw, MayFail, disk, user, plan, HInv, TypeOK,
             BackupInv, TempInv, RestoreInv, Covered, Untaken, New, Moving
    <3>5. \A q \in work : Covered(q)'
      BY <3>2, <3>3, <3>4 DEF HInv, RestoreInv, Covered, Untaken, New, TypeOK
    <3>6. pc' \in {"unlink", "rb_mark"}
      BY <2>8 DEF Link, Goto, Throw, MayFail
    <3> QED BY <3>2, <3>5, <3>6 DEF RestoreInv, Rolling
  <2>9. CASE Unlink(p)
    BY <2>9, MarkStates, OneFirst, DistinctContents DEF Unlink, Sound, Goto, MayFail, plan,
           user, Fails, Throw, disk, HInv, TypeOK, JournalInv, LoopInv, RestoreInv, Covered,
           Revocable, Untaken, Owned, New, Trying, Staging, Moving, Validating, Rolling,
           Cleaning, Finalizing, Pending, EntryStates, JournalStates
  <2>10. CASE MarkCommitted(p)
    BY <2>10, MarkStates, OneFirst, DistinctContents DEF MarkCommitted, Mark, plan, user,
           Sound, Goto, Fails, Throw, HInv, TypeOK, JournalInv, LoopInv, RestoreInv,
           Covered, Revocable, Untaken, Owned, New, Trying, Staging, Moving, Validating,
           Rolling, Cleaning, Finalizing, Pending, EntryStates, JournalStates
  <2> QED BY <2>1, <2>2, <2>3, <2>4, <2>5, <2>6, <2>7, <2>8, <2>9, <2>10 DEF Commit
<1>6. CASE \E p \in Paths : Rollback(p)
  <2> PICK p \in Paths : Rollback(p)
    BY <1>6
  <2>1. CASE RollbackRead(p)
    <3>1. /\ p \in todo /\ Last(p, todo) /\ \A q \in todo : Last(q, todo) => q = p
          /\ p \in work /\ work \subseteq Paths
      BY <2>1, OneFirst DEF RollbackRead, HInv, TypeOK, LoopInv, Trying, Rolling, Moving, Staging, Validating
    <3>2. /\ \A q \in Paths \ {p} : target'[q] = target[q] /\ backup'[q] = backup[q]
                                        /\ (q \in touched <=> q \in touched')
          /\ UNCHANGED <<work, base, journal>>
      BY <2>1, <3>1 DEF RollbackRead, TakeOver, GiveUp, Throw, MayFail, disk, plan, user, HInv, TypeOK
    <3>3. Revocable /\ Revocable'
      BY <2>1, <3>2 DEF RollbackRead, GiveUp, Goto, Throw, MayFail, HInv, JournalInv, Revocable, Pending, Rolling,
             Trying, Moving, Staging, Validating, Cleaning, Finalizing
    <3>4. Covered(p)'
      BY <2>1, <3>1, <3>2, <3>3 DEF RollbackRead, disk, user, plan, HInv, RestoreInv, Covered, Untaken, New
    <3>5. /\ pc' = "rb_drop" => base'[p] = Absent
          /\ pc' = "rb_temp" => Untaken(p)'
      BY <2>1, <3>1, <3>2, <3>3, DistinctContents DEF RollbackRead, Goto, GiveUp, disk, user, HInv, RestoreInv, Covered,
             Untaken, New
    <3>6. \A q \in work : Covered(q)'
      BY <3>2, <3>3, <3>4 DEF HInv, RestoreInv, Covered, Untaken, New, TypeOK
    <3>7. \A q \in work : q \in todo' \/ q \in failed' \/ Untaken(q)'
      BY <2>1, <3>1, <3>2 DEF RollbackRead, GiveUp, HInv, RestoreInv, Untaken, Rolling, TypeOK
    <3>8. pc' \in {"rb_remove", "rb_drop", "rb_temp", "rb_read"} /\ (pc' # "rb_read" => todo' = todo)
      BY <2>1 DEF RollbackRead, Goto, GiveUp
    <3> QED BY <3>1, <3>2, <3>5, <3>6, <3>7, <3>8 DEF RestoreInv, Rolling
  <2>2. CASE RollbackRemove(p)
    <3>1. /\ p \in todo /\ Last(p, todo) /\ \A q \in todo : Last(q, todo) => q = p
          /\ p \in work /\ work \subseteq Paths
      BY <2>2, OneFirst DEF RollbackRemove, HInv, TypeOK, LoopInv, Trying, Rolling, Moving, Staging, Validating
    <3>2. /\ \A q \in Paths \ {p} : target'[q] = target[q] /\ backup'[q] = backup[q]
                                        /\ (q \in touched <=> q \in touched')
          /\ UNCHANGED <<work, base, journal>>
      BY <2>2, <3>1 DEF RollbackRemove, TakeOver, GiveUp, Throw, MayFail, disk, plan, user, HInv, TypeOK
    <3>3. Revocable /\ Revocable'
      BY <2>2, <3>2 DEF RollbackRemove, GiveUp, Goto, Throw, MayFail, HInv, JournalInv, Revocable, Pending, Rolling,
             Trying, Moving, Staging, Validating, Cleaning, Finalizing
    <3>4. Covered(p)'
      BY <2>2, <3>1, <3>2, <3>3 DEF RollbackRemove, user, plan, HInv, LoopInv, RestoreInv, Covered, Untaken, New, GiveUp, TypeOK
    <3>5. pc' \notin {"rb_drop", "rb_temp"}
      BY <2>2 DEF RollbackRemove, Goto, GiveUp
    <3>6. \A q \in work : Covered(q)'
      BY <3>2, <3>3, <3>4 DEF HInv, RestoreInv, Covered, Untaken, New, TypeOK
    <3>7. \A q \in work : q \in todo' \/ q \in failed' \/ Untaken(q)'
      BY <2>2, <3>1, <3>2 DEF RollbackRemove, GiveUp, HInv, RestoreInv, Untaken, Rolling, TypeOK
    <3>8. pc' \in {"rb_rename", "rb_read"} /\ (pc' # "rb_read" => todo' = todo)
      BY <2>2 DEF RollbackRemove, Goto, GiveUp
    <3> QED BY <3>1, <3>2, <3>5, <3>6, <3>7, <3>8 DEF RestoreInv, Rolling
  <2>3. CASE RollbackRename(p)
    <3>1. /\ p \in todo /\ Last(p, todo) /\ \A q \in todo : Last(q, todo) => q = p
          /\ p \in work /\ work \subseteq Paths
      BY <2>3, OneFirst DEF RollbackRename, HInv, TypeOK, LoopInv, Trying, Rolling, Moving, Staging, Validating
    <3>2. /\ \A q \in Paths \ {p} : target'[q] = target[q] /\ backup'[q] = backup[q]
                                        /\ (q \in touched <=> q \in touched')
          /\ UNCHANGED <<work, base, journal>>
      BY <2>3, <3>1 DEF RollbackRename, TakeOver, GiveUp, Throw, MayFail, disk, plan, user, HInv, TypeOK
    <3>3. Revocable /\ Revocable'
      BY <2>3, <3>2 DEF RollbackRename, GiveUp, Goto, Throw, MayFail, HInv, JournalInv, Revocable, Pending, Rolling,
             Trying, Moving, Staging, Validating, Cleaning, Finalizing
    <3>4. Covered(p)' /\ (pc' = "rb_temp" => Untaken(p)')
      BY <2>3, <3>1, <3>2, <3>3 DEF RollbackRename, Goto, user, plan, HInv, LoopInv, RestoreInv, Covered, Untaken, New, GiveUp,
             TypeOK
    <3>5. pc' # "rb_drop" /\ (pc' = "rb_temp" => Untaken(p)')
      BY <2>3, <3>4 DEF RollbackRename, Goto, GiveUp
    <3>6. \A q \in work : Covered(q)'
      BY <3>2, <3>3, <3>4 DEF HInv, RestoreInv, Covered, Untaken, New, TypeOK
    <3>7. \A q \in work : q \in todo' \/ q \in failed' \/ Untaken(q)'
      BY <2>3, <3>1, <3>2 DEF RollbackRename, GiveUp, HInv, RestoreInv, Untaken, Rolling, TypeOK
    <3>8. pc' \in {"rb_temp", "rb_read"} /\ (pc' # "rb_read" => todo' = todo)
      BY <2>3 DEF RollbackRename, Goto, GiveUp
    <3> QED BY <3>1, <3>2, <3>5, <3>6, <3>7, <3>8 DEF RestoreInv, Rolling
  <2>4. CASE RollbackDrop(p)
    <3>1. /\ p \in todo /\ Last(p, todo) /\ \A q \in todo : Last(q, todo) => q = p
          /\ p \in work /\ work \subseteq Paths
      BY <2>4, OneFirst DEF RollbackDrop, HInv, TypeOK, LoopInv, Trying, Rolling, Moving, Staging, Validating
    <3>2. /\ \A q \in Paths \ {p} : target'[q] = target[q] /\ backup'[q] = backup[q]
                                        /\ (q \in touched <=> q \in touched')
          /\ UNCHANGED <<work, base, journal>>
      BY <2>4, <3>1 DEF RollbackDrop, TakeOver, GiveUp, Throw, MayFail, disk, plan, user, HInv, TypeOK
    <3>3. Revocable /\ Revocable'
      BY <2>4, <3>2 DEF RollbackDrop, GiveUp, Goto, Throw, MayFail, HInv, JournalInv, Revocable, Pending, Rolling,
             Trying, Moving, Staging, Validating, Cleaning, Finalizing
    <3>4. Covered(p)' /\ (pc' = "rb_temp" => Untaken(p)')
      BY <2>4, <3>1, <3>2, <3>3 DEF RollbackDrop, Goto, user, plan, HInv, LoopInv, RestoreInv, Covered, Untaken, New, GiveUp,
             TypeOK
    <3>5. pc' # "rb_drop" /\ (pc' = "rb_temp" => Untaken(p)')
      BY <2>4, <3>4 DEF RollbackDrop, Goto, GiveUp
    <3>6. \A q \in work : Covered(q)'
      BY <3>2, <3>3, <3>4 DEF HInv, RestoreInv, Covered, Untaken, New, TypeOK
    <3>7. \A q \in work : q \in todo' \/ q \in failed' \/ Untaken(q)'
      BY <2>4, <3>1, <3>2 DEF RollbackDrop, GiveUp, HInv, RestoreInv, Untaken, Rolling, TypeOK
    <3>8. pc' \in {"rb_temp", "rb_read"} /\ (pc' # "rb_read" => todo' = todo)
      BY <2>4 DEF RollbackDrop, Goto, GiveUp
    <3> QED BY <3>1, <3>2, <3>5, <3>6, <3>7, <3>8 DEF RestoreInv, Rolling
  <2>5. CASE RollbackTemp(p)
    BY <2>5, MarkStates, OneFirst, DistinctContents DEF RollbackTemp, Sound, Goto, Fails,
           GiveUp, plan, user, HInv, TypeOK, JournalInv, LoopInv, RestoreInv, Covered,
           Revocable, Untaken, Owned, New, Trying, Staging, Moving, Validating, Rolling,
           Cleaning, Finalizing, Pending, EntryStates, JournalStates
  <2> QED BY <2>1, <2>2, <2>3, <2>4, <2>5 DEF Rollback
<1>7. CASE \E p \in Paths : CleanUp(p)
  <2> PICK p \in Paths : CleanUp(p)
    BY <1>7
  <2>1. CASE CleanCheck(p)
    BY <2>1, MarkStates, OneFirst, DistinctContents DEF CleanCheck, Sound, Goto, Fails,
           AfterClean, disk, plan, user, HInv, TypeOK, JournalInv, LoopInv, RestoreInv,
           Covered, Revocable, Untaken, Owned, New, Trying, Staging, Moving, Validating,
           Rolling, Cleaning, Finalizing, Pending, EntryStates, JournalStates
  <2>2. CASE CleanRemove(p)
    BY <2>2, MarkStates, OneFirst, DistinctContents DEF CleanRemove, AfterClean, Sound,
           Fails, plan, user, Goto, HInv, TypeOK, JournalInv, LoopInv, RestoreInv, Covered,
           Revocable, Untaken, Owned, New, Trying, Staging, Moving, Validating, Rolling,
           Cleaning, Finalizing, Pending, EntryStates, JournalStates
  <2>3. CASE FinalRemove(p)
    BY <2>3, MarkStates, OneFirst, DistinctContents DEF FinalRemove, Sound, Fails, Finish,
           plan, user, Goto, HInv, TypeOK, JournalInv, LoopInv, RestoreInv, Covered,
           Revocable, Untaken, Owned, New, Trying, Staging, Moving, Validating, Rolling,
           Cleaning, Finalizing, Pending, EntryStates, JournalStates
  <2> QED BY <2>1, <2>2, <2>3 DEF CleanUp
<1>8. CASE Environment
  <2>1. CASE Crash
    BY <2>1, MarkStates, OneFirst, DistinctContents DEF Crash, plan, user, HInv, TypeOK,
           JournalInv, LoopInv, RestoreInv, Covered, Revocable, Untaken, Owned, New, Trying,
           Staging, Moving, Validating, Rolling, Cleaning, Finalizing, Pending, EntryStates,
           JournalStates
  <2>2. ASSUME NEW p \in Paths, UserDelete(p) PROVE RestoreInv'
    BY <2>2, MarkStates, OneFirst, DistinctContents DEF UserDelete, Edit, proc, plan, HInv,
           TypeOK, JournalInv, LoopInv, RestoreInv, Covered, Revocable, Untaken, Owned, New,
           Trying, Staging, Moving, Validating, Rolling, Cleaning, Finalizing, Pending,
           EntryStates, JournalStates
  <2>3. ASSUME NEW p \in Paths, NEW b \in Bodies, UserWrite(p, b) PROVE RestoreInv'
    BY <2>3, MarkStates, OneFirst, DistinctContents DEF UserWrite, Edit, proc, plan, HInv,
           TypeOK, JournalInv, LoopInv, RestoreInv, Covered, Revocable, Untaken, Owned, New,
           Trying, Staging, Moving, Validating, Rolling, Cleaning, Finalizing, Pending,
           EntryStates, JournalStates
  <2>4. ASSUME NEW p \in Paths, NEW b \in Bodies, StaleWrite(p, b) PROVE RestoreInv'
    BY <2>4, MarkStates, OneFirst, DistinctContents DEF StaleWrite, Edit, proc, plan, HInv,
           TypeOK, JournalInv, LoopInv, RestoreInv, Covered, Revocable, Untaken, Owned, New,
           Trying, Staging, Moving, Validating, Rolling, Cleaning, Finalizing, Pending,
           EntryStates, JournalStates
  <2> QED BY <1>8, <2>1, <2>2, <2>3, <2>4 DEF Environment
<1>9. CASE UNCHANGED vars
  BY <1>9, MarkStates, OneFirst, DistinctContents DEF vars, disk, proc, plan, user, HInv,
         TypeOK, JournalInv, LoopInv, RestoreInv, Covered, Revocable, Untaken, Owned, New,
         Trying, Staging, Moving, Validating, Rolling, Cleaning, Finalizing, Pending,
         EntryStates, JournalStates
<1> QED BY <1>1, <1>2, <1>3, <1>4, <1>5, <1>6, <1>7, <1>8, <1>9 DEF Next, Process

LEMMA HeldInit == Init => HInv
<1> SUFFICES ASSUME Init PROVE HInv
  OBVIOUS
<1>1. LoopInv /\ BackupInv /\ TempInv /\ LeftoverInv
  BY DEF Init, LoopInv, BackupInv, TempInv, LeftoverInv, Pending, Trying, Staging, Moving, Validating,
         Rolling, Cleaning, Finalizing
<1>2. RestoreInv
  BY DEF Init, RestoreInv, Revocable, Pending, Rolling
<1> QED BY <1>1, <1>2, TypeInit, JournalInit DEF HInv

LEMMA HeldStep == HInv /\ [Next]_vars => HInv'
<1> SUFFICES ASSUME HInv, [Next]_vars PROVE HInv'
  OBVIOUS
<1>1. TypeOK' /\ JournalInv'
  BY TypeStep, JournalStep DEF HInv
<1>2. LoopInv' /\ BackupInv' /\ TempInv' /\ LeftoverInv'
  BY LoopStep, BackupStep, TempStep, LeftoverStep DEF HInv
<1> QED BY <1>1, <1>2, RestoreStep DEF HInv

(* Whatever crashes, fails or races, no staged file and no backup is ever   *)
(* without a journal that leads a recovery to it.                           *)
THEOREM NothingIsOrphaned == Spec => []LeftoversAreJournaled
<1>1. HInv => LeftoversAreJournaled
  BY DEF HInv, LeftoverInv, BackupInv, LeftoversAreJournaled
<1> QED BY HeldInit, HeldStep, <1>1, PTL DEF Spec

GivenUpWhole ==
    Pending /\ journal.state # "complete" /\ ~Pending'
      => \A p \in work : target[p] = base[p] \/ p \in touched

\* Of a transaction that was not complete.
GoneByRollback == Pending /\ journal.state # "complete" /\ ~Pending' => RollbackEnd

LEMMA GoneStep == ASSUME TypeOK, JournalInv, [Next]_vars PROVE GoneByRollback
<1>1. CASE Start \/ Plan \/ Prepare
  BY <1>1, MarkStates DEF Start, Plan, Prepare, Goto, plan, user, disk, Finish, TypeOK,
         JournalInv, GoneByRollback, EntryStates, JournalStates, Trying, Staging, Moving,
         Validating, Rolling, Cleaning, Finalizing, Pending
<1>2. CASE \/ CreateJournal \/ MarkAllStaged \/ Expect \/ MarkCommitting
             \/ Post \/ MarkValidating \/ Validate \/ MarkComplete
  BY <1>2, MarkStates DEF CreateJournal, MarkAllStaged, Expect, MarkCommitting, Post,
         MarkValidating, Validate, MarkComplete, Mark, plan, user, Sound, Goto, Fails,
         Throw, disk, MayFail, TypeOK, JournalInv, GoneByRollback, EntryStates,
         JournalStates, Trying, Staging, Moving, Validating, Rolling, Cleaning, Finalizing,
         Pending
<1>3. CASE CleanJournal \/ RollbackMark
  BY <1>3, MarkStates DEF CleanJournal, RollbackMark, Sound, Finish, Fails,
         plan, user, Goto, TypeOK, JournalInv, GoneByRollback, EntryStates, JournalStates,
         Trying, Staging, Moving, Validating, Rolling, Cleaning, Finalizing, Pending
<1>4. CASE FinalCheck \/ FinalEnd
  BY <1>4, MarkStates DEF FinalCheck, FinalEnd, Goto, Finish, disk, plan, user, Sound,
         Fails, TypeOK, JournalInv, GoneByRollback, EntryStates, JournalStates, Trying,
         Staging, Moving, Validating, Rolling, Cleaning, Finalizing, Pending
<1>5. CASE \E p \in Paths : Commit(p)
  <2> PICK p \in Paths : Commit(p)
    BY <1>5
  <2>1. CASE StageTemp(p)
    BY <2>1, MarkStates DEF StageTemp, Sound, Goto, Fails, Throw, plan, user, TypeOK,
           JournalInv, GoneByRollback, EntryStates, JournalStates, Trying, Staging, Moving,
           Validating, Rolling, Cleaning, Finalizing, Pending
  <2>2. CASE MarkStaged(p)
    BY <2>2, MarkStates DEF MarkStaged, Mark, plan, user, Sound, Goto, Fails, Throw, TypeOK,
           JournalInv, GoneByRollback, EntryStates, JournalStates, Trying, Staging, Moving,
           Validating, Rolling, Cleaning, Finalizing, Pending
  <2>3. CASE BackUp(p)
    BY <2>3, MarkStates DEF BackUp, Sound, TakeOver, Goto, Throw, disk, user, MayFail, plan,
           Fails, TypeOK, JournalInv, GoneByRollback, EntryStates, JournalStates, Trying,
           Staging, Moving, Validating, Rolling, Cleaning, Finalizing, Pending
  <2>4. CASE Verify(p)
    BY <2>4, MarkStates DEF Verify, Sound, Goto, disk, MayFail, plan, user, Fails, Throw,
           TypeOK, JournalInv, GoneByRollback, EntryStates, JournalStates, Trying, Staging,
           Moving, Validating, Rolling, Cleaning, Finalizing, Pending
  <2>5. CASE PutBackLink(p)
    BY <2>5, MarkStates DEF PutBackLink, Sound, Goto, Throw, disk, MayFail, plan, user,
           Fails, TypeOK, JournalInv, GoneByRollback, EntryStates, JournalStates, Trying,
           Staging, Moving, Validating, Rolling, Cleaning, Finalizing, Pending
  <2>6. CASE PutBackUnlink(p)
    BY <2>6, MarkStates DEF PutBackUnlink, Sound, Throw, MayFail, plan, user, Fails, disk,
           Goto, TypeOK, JournalInv, GoneByRollback, EntryStates, JournalStates, Trying,
           Staging, Moving, Validating, Rolling, Cleaning, Finalizing, Pending
  <2>7. CASE MarkBackedUp(p)
    BY <2>7, MarkStates DEF MarkBackedUp, Mark, plan, user, Sound, Goto, Fails, Throw,
           TypeOK, JournalInv, GoneByRollback, EntryStates, JournalStates, Trying, Staging,
           Moving, Validating, Rolling, Cleaning, Finalizing, Pending
  <2>8. CASE Link(p)
    BY <2>8, MarkStates DEF Link, Sound, TakeOver, Goto, Throw, disk, user, MayFail, plan,
           Fails, TypeOK, JournalInv, GoneByRollback, EntryStates, JournalStates, Trying,
           Staging, Moving, Validating, Rolling, Cleaning, Finalizing, Pending
  <2>9. CASE Unlink(p)
    BY <2>9, MarkStates DEF Unlink, Sound, Goto, MayFail, plan, user, Fails, Throw, disk,
           TypeOK, JournalInv, GoneByRollback, EntryStates, JournalStates, Trying, Staging,
           Moving, Validating, Rolling, Cleaning, Finalizing, Pending
  <2>10. CASE MarkCommitted(p)
    BY <2>10, MarkStates DEF MarkCommitted, Mark, plan, user, Sound, Goto, Fails, Throw,
           TypeOK, JournalInv, GoneByRollback, EntryStates, JournalStates, Trying, Staging,
           Moving, Validating, Rolling, Cleaning, Finalizing, Pending
  <2> QED BY <2>1, <2>2, <2>3, <2>4, <2>5, <2>6, <2>7, <2>8, <2>9, <2>10 DEF Commit
<1>6. CASE \E p \in Paths : Rollback(p)
  <2> PICK p \in Paths : Rollback(p)
    BY <1>6
  <2>1. CASE RollbackRead(p)
    BY <2>1, MarkStates DEF RollbackRead, Sound, Goto, GiveUp, Fails, disk, plan, user,
           TypeOK, JournalInv, GoneByRollback, EntryStates, JournalStates, Trying, Staging,
           Moving, Validating, Rolling, Cleaning, Finalizing, Pending
  <2>2. CASE RollbackRemove(p)
    BY <2>2, MarkStates DEF RollbackRemove, Sound, Goto, Fails, GiveUp, plan, user, TypeOK,
           JournalInv, GoneByRollback, EntryStates, JournalStates, Trying, Staging, Moving,
           Validating, Rolling, Cleaning, Finalizing, Pending
  <2>3. CASE RollbackRename(p)
    BY <2>3, MarkStates DEF RollbackRename, Sound, Goto, Fails, GiveUp, plan, user, TypeOK,
           JournalInv, GoneByRollback, EntryStates, JournalStates, Trying, Staging, Moving,
           Validating, Rolling, Cleaning, Finalizing, Pending
  <2>4. CASE RollbackDrop(p)
    BY <2>4, MarkStates DEF RollbackDrop, Sound, Goto, Fails, GiveUp, plan, user, TypeOK,
           JournalInv, GoneByRollback, EntryStates, JournalStates, Trying, Staging, Moving,
           Validating, Rolling, Cleaning, Finalizing, Pending
  <2>5. CASE RollbackTemp(p)
    BY <2>5, MarkStates DEF RollbackTemp, Sound, Goto, Fails, GiveUp, plan, user, TypeOK,
           JournalInv, GoneByRollback, EntryStates, JournalStates, Trying, Staging, Moving,
           Validating, Rolling, Cleaning, Finalizing, Pending
  <2> QED BY <2>1, <2>2, <2>3, <2>4, <2>5 DEF Rollback
<1>7. CASE \E p \in Paths : CleanUp(p)
  <2> PICK p \in Paths : CleanUp(p)
    BY <1>7
  <2>1. CASE CleanCheck(p)
    BY <2>1, MarkStates DEF CleanCheck, Sound, Goto, Fails, AfterClean, disk, plan, user,
           TypeOK, JournalInv, GoneByRollback, EntryStates, JournalStates, Trying, Staging,
           Moving, Validating, Rolling, Cleaning, Finalizing, Pending
  <2>2. CASE CleanRemove(p)
    BY <2>2, MarkStates DEF CleanRemove, AfterClean, Sound, Fails, plan, user, Goto, TypeOK,
           JournalInv, GoneByRollback, EntryStates, JournalStates, Trying, Staging, Moving,
           Validating, Rolling, Cleaning, Finalizing, Pending
  <2>3. CASE FinalRemove(p)
    BY <2>3, MarkStates DEF FinalRemove, Sound, Fails, Finish, plan, user, Goto, TypeOK,
           JournalInv, GoneByRollback, EntryStates, JournalStates, Trying, Staging, Moving,
           Validating, Rolling, Cleaning, Finalizing, Pending
  <2> QED BY <2>1, <2>2, <2>3 DEF CleanUp
<1>8. CASE Environment
  <2>1. CASE Crash
    BY <2>1, MarkStates DEF Crash, plan, user, TypeOK, JournalInv, GoneByRollback,
           EntryStates, JournalStates, Trying, Staging, Moving, Validating, Rolling,
           Cleaning, Finalizing, Pending
  <2>2. ASSUME NEW p \in Paths, UserDelete(p) PROVE GoneByRollback
    BY <2>2, MarkStates DEF UserDelete, Edit, proc, plan, TypeOK, JournalInv,
           GoneByRollback, EntryStates, JournalStates, Trying, Staging, Moving, Validating,
           Rolling, Cleaning, Finalizing, Pending
  <2>3. ASSUME NEW p \in Paths, NEW b \in Bodies, UserWrite(p, b) PROVE GoneByRollback
    BY <2>3, MarkStates DEF UserWrite, Edit, proc, plan, TypeOK, JournalInv, GoneByRollback,
           EntryStates, JournalStates, Trying, Staging, Moving, Validating, Rolling,
           Cleaning, Finalizing, Pending
  <2>4. ASSUME NEW p \in Paths, NEW b \in Bodies, StaleWrite(p, b) PROVE GoneByRollback
    BY <2>4, MarkStates DEF StaleWrite, Edit, proc, plan, TypeOK, JournalInv,
           GoneByRollback, EntryStates, JournalStates, Trying, Staging, Moving, Validating,
           Rolling, Cleaning, Finalizing, Pending
  <2> QED BY <1>8, <2>1, <2>2, <2>3, <2>4 DEF Environment
<1>9. CASE UNCHANGED vars
  BY <1>9, MarkStates DEF vars, disk, proc, plan, user, TypeOK, JournalInv, GoneByRollback,
         EntryStates, JournalStates, Trying, Staging, Moving, Validating, Rolling, Cleaning,
         Finalizing, Pending
<1> QED BY <1>1, <1>2, <1>3, <1>4, <1>5, <1>6, <1>7, <1>8, <1>9 DEF Next, Process, GoneByRollback

LEMMA GivenUpStep == ASSUME HInv, [Next]_vars PROVE GivenUpWhole
<1> SUFFICES ASSUME Pending, journal.state # "complete", ~Pending', NEW p \in work
             PROVE  target[p] = base[p] \/ p \in touched
  BY DEF GivenUpWhole
<1>1. RollbackEnd
  BY GoneStep DEF HInv, GoneByRollback
<1>2. failed = {} /\ todo = {} /\ pc \in Rolling
  BY <1>1, MarkStates DEF RollbackEnd, Pending, Rolling, HInv, JournalStates
<1> QED BY <1>2 DEF HInv, RestoreInv, Untaken

(* Whatever crashes, fails or races: when the journal of a transaction that *)
(* was not complete goes, every file is as planned from or as the user left *)
(* it since.                                                                *)
THEOREM RollbackIsWhole == Spec => RollbackRestoresAll
<1>1. HInv /\ [Next]_vars => [GivenUpWhole]_vars
  BY GivenUpStep
<1> QED BY HeldInit, HeldStep, <1>1, PTL DEF Spec, RollbackRestoresAll, GivenUpWhole

-----------------------------------------------------------------------------
(* What the tree stands for *)

LEMMA ScopeStep == ASSUME IInv, ScopeInv, [Next]_vars PROVE ScopeInv'
<1>1. CASE Start \/ Plan \/ Prepare
  BY <1>1, MarkStates, OneFirst, DistinctContents DEF Start, Goto, plan, user, Plan, disk,
         Prepare, Finish, IInv, TypeOK, JournalInv, LoopInv, BackupInv, ScopeInv, Trying,
         Staging, Moving, Validating, Rolling, Cleaning, Finalizing, Pending, EntryStates,
         JournalStates
<1>2. CASE \/ CreateJournal \/ MarkAllStaged \/ Expect \/ MarkCommitting
          \/ Post \/ MarkValidating \/ Validate \/ MarkComplete
  BY <1>2, MarkStates, OneFirst, DistinctContents DEF CreateJournal, Mark, Sound, Fails, Goto,
         Throw, plan, user, MarkAllStaged, Expect, MayFail, disk, MarkCommitting, Post,
         MarkValidating, Validate, MarkComplete, IInv, TypeOK, JournalInv, LoopInv, BackupInv,
         ScopeInv, Trying, Staging, Moving, Validating, Rolling, Cleaning, Finalizing, Pending,
         EntryStates, JournalStates
<1>3. CASE CleanJournal \/ RollbackMark \/ RollbackEnd
  BY <1>3, MarkStates, OneFirst, DistinctContents DEF CleanJournal, Finish, Goto, plan, user,
         RollbackMark, RollbackEnd, IInv, TypeOK, JournalInv, LoopInv, BackupInv, ScopeInv,
         Trying, Staging, Moving, Validating, Rolling, Cleaning, Finalizing, Pending,
         EntryStates, JournalStates
<1>4. CASE FinalCheck \/ FinalEnd
  BY <1>4, MarkStates, OneFirst, DistinctContents DEF FinalCheck, Finish, Goto, disk, plan,
         user, FinalEnd, IInv, TypeOK, JournalInv, LoopInv, BackupInv, ScopeInv, Trying,
         Staging, Moving, Validating, Rolling, Cleaning, Finalizing, Pending, EntryStates,
         JournalStates
<1>5. CASE \E p \in Paths : Commit(p)
  <2> PICK p \in Paths : Commit(p)
    BY <1>5
  <2>1. CASE StageTemp(p)
    BY <2>1, MarkStates, OneFirst, DistinctContents DEF StageTemp, Sound, Goto, Fails, Throw,
           plan, user, IInv, TypeOK, JournalInv, LoopInv, BackupInv, ScopeInv, Trying, Staging,
           Moving, Validating, Rolling, Cleaning, Finalizing, Pending, EntryStates,
           JournalStates
  <2>2. CASE MarkStaged(p)
    BY <2>2, MarkStates, OneFirst, DistinctContents DEF MarkStaged, Mark, plan, user, Sound,
           Goto, Fails, Throw, IInv, TypeOK, JournalInv, LoopInv, BackupInv, ScopeInv, Trying,
           Staging, Moving, Validating, Rolling, Cleaning, Finalizing, Pending, EntryStates,
           JournalStates
  <2>3. CASE BackUp(p)
    BY <2>3, MarkStates, OneFirst, DistinctContents DEF BackUp, TakeOver, Goto, Throw, disk,
           user, MayFail, plan, IInv, TypeOK, JournalInv, LoopInv, BackupInv, ScopeInv, Trying,
           Staging, Moving, Validating, Rolling, Cleaning, Finalizing, Pending, EntryStates,
           JournalStates
  <2>4. CASE Verify(p)
    BY <2>4, MarkStates, OneFirst, DistinctContents DEF Verify, Goto, disk, MayFail, plan, user,
           Throw, IInv, TypeOK, JournalInv, LoopInv, BackupInv, ScopeInv, Trying, Staging,
           Moving, Validating, Rolling, Cleaning, Finalizing, Pending, EntryStates,
           JournalStates
  <2>5. CASE PutBackLink(p)
    BY <2>5, MarkStates, OneFirst, DistinctContents DEF PutBackLink, Goto, Throw, disk, MayFail,
           plan, user, IInv, TypeOK, JournalInv, LoopInv, BackupInv, ScopeInv, Trying, Staging,
           Moving, Validating, Rolling, Cleaning, Finalizing, Pending, EntryStates,
           JournalStates
  <2>6. CASE PutBackUnlink(p)
    BY <2>6, MarkStates, OneFirst, DistinctContents DEF PutBackUnlink, Throw, MayFail, plan,
           user, disk, Goto, IInv, TypeOK, JournalInv, LoopInv, BackupInv, ScopeInv, Trying,
           Staging, Moving, Validating, Rolling, Cleaning, Finalizing, Pending, EntryStates,
           JournalStates
  <2>7. CASE MarkBackedUp(p)
    BY <2>7, MarkStates, OneFirst, DistinctContents DEF MarkBackedUp, Mark, plan, user, Goto,
           Throw, IInv, TypeOK, JournalInv, LoopInv, BackupInv, ScopeInv, Trying, Staging,
           Moving, Validating, Rolling, Cleaning, Finalizing, Pending, EntryStates,
           JournalStates
  <2>8. CASE Link(p)
    BY <2>8, MarkStates, OneFirst, DistinctContents DEF Link, TakeOver, Goto, Throw, disk, user,
           MayFail, plan, IInv, TypeOK, JournalInv, LoopInv, BackupInv, ScopeInv, Trying,
           Staging, Moving, Validating, Rolling, Cleaning, Finalizing, Pending, EntryStates,
           JournalStates
  <2>9. CASE Unlink(p)
    BY <2>9, MarkStates, OneFirst, DistinctContents DEF Unlink, Goto, MayFail, plan, user,
           Throw, disk, IInv, TypeOK, JournalInv, LoopInv, BackupInv, ScopeInv, Trying, Staging,
           Moving, Validating, Rolling, Cleaning, Finalizing, Pending, EntryStates,
           JournalStates
  <2>10. CASE MarkCommitted(p)
    BY <2>10, MarkStates, OneFirst, DistinctContents DEF MarkCommitted, Mark, plan, user, Goto,
           Throw, IInv, TypeOK, JournalInv, LoopInv, BackupInv, ScopeInv, Trying, Staging,
           Moving, Validating, Rolling, Cleaning, Finalizing, Pending, EntryStates,
           JournalStates
  <2> QED BY <2>1, <2>2, <2>3, <2>4, <2>5, <2>6, <2>7, <2>8, <2>9, <2>10 DEF Commit
<1>6. CASE \E p \in Paths : Rollback(p)
  <2> PICK p \in Paths : Rollback(p)
    BY <1>6
  <2>1. CASE RollbackRead(p)
    BY <2>1, MarkStates, OneFirst, DistinctContents DEF RollbackRead, Goto, GiveUp, disk, plan,
           user, IInv, TypeOK, JournalInv, LoopInv, BackupInv, ScopeInv, Trying, Staging,
           Moving, Validating, Rolling, Cleaning, Finalizing, Pending, EntryStates,
           JournalStates
  <2>2. CASE RollbackRemove(p)
    BY <2>2, MarkStates, OneFirst, DistinctContents DEF RollbackRemove, Goto, GiveUp, plan,
           user, IInv, TypeOK, JournalInv, LoopInv, BackupInv, ScopeInv, Trying, Staging,
           Moving, Validating, Rolling, Cleaning, Finalizing, Pending, EntryStates,
           JournalStates
  <2>3. CASE RollbackRename(p)
    BY <2>3, MarkStates, OneFirst, DistinctContents DEF RollbackRename, Goto, GiveUp, plan,
           user, IInv, TypeOK, JournalInv, LoopInv, BackupInv, ScopeInv, Trying, Staging,
           Moving, Validating, Rolling, Cleaning, Finalizing, Pending, EntryStates,
           JournalStates
  <2>4. CASE RollbackDrop(p)
    BY <2>4, MarkStates, OneFirst, DistinctContents DEF RollbackDrop, Goto, GiveUp, plan, user,
           IInv, TypeOK, JournalInv, LoopInv, BackupInv, ScopeInv, Trying, Staging, Moving,
           Validating, Rolling, Cleaning, Finalizing, Pending, EntryStates, JournalStates
  <2>5. CASE RollbackTemp(p)
    BY <2>5, MarkStates, OneFirst, DistinctContents DEF RollbackTemp, Goto, GiveUp, plan, user,
           IInv, TypeOK, JournalInv, LoopInv, BackupInv, ScopeInv, Trying, Staging, Moving,
           Validating, Rolling, Cleaning, Finalizing, Pending, EntryStates, JournalStates
  <2> QED BY <2>1, <2>2, <2>3, <2>4, <2>5 DEF Rollback
<1>7. CASE \E p \in Paths : CleanUp(p)
  BY <1>7, MarkStates, OneFirst, DistinctContents DEF CleanUp, CleanCheck, Goto, AfterClean,
         disk, plan, user, CleanRemove, FinalRemove, Finish, IInv, TypeOK, JournalInv, LoopInv,
         BackupInv, ScopeInv, Trying, Staging, Moving, Validating, Rolling, Cleaning,
         Finalizing, Pending, EntryStates, JournalStates
<1>8. CASE Environment
  <2>1. CASE Crash
    BY <2>1, MarkStates, OneFirst, DistinctContents DEF Crash, plan, user, IInv, TypeOK,
           JournalInv, LoopInv, BackupInv, ScopeInv, Trying, Staging, Moving, Validating,
           Rolling, Cleaning, Finalizing, Pending, EntryStates, JournalStates
  <2>2. ASSUME NEW p \in Paths, UserDelete(p) PROVE ScopeInv'
    BY <2>2, MarkStates, OneFirst, DistinctContents DEF UserDelete, proc, plan, IInv, TypeOK,
           JournalInv, LoopInv, BackupInv, ScopeInv, Trying, Staging, Moving, Validating,
           Rolling, Cleaning, Finalizing, Pending, EntryStates, JournalStates
  <2>3. ASSUME NEW p \in Paths, NEW b \in Bodies, UserWrite(p, b) PROVE ScopeInv'
    BY <2>3, MarkStates, OneFirst, DistinctContents DEF UserWrite, proc, plan, IInv, TypeOK,
           JournalInv, LoopInv, BackupInv, ScopeInv, Trying, Staging, Moving, Validating,
           Rolling, Cleaning, Finalizing, Pending, EntryStates, JournalStates
  <2>4. ASSUME NEW p \in Paths, NEW b \in Bodies, StaleWrite(p, b) PROVE ScopeInv'
    BY <2>4, MarkStates, OneFirst, DistinctContents DEF StaleWrite, proc, plan, IInv, TypeOK,
           JournalInv, LoopInv, BackupInv, ScopeInv, Trying, Staging, Moving, Validating,
           Rolling, Cleaning, Finalizing, Pending, EntryStates, JournalStates
  <2> QED BY <1>8, <2>1, <2>2, <2>3, <2>4 DEF Environment
<1>9. CASE UNCHANGED vars
  BY <1>9, MarkStates, OneFirst, DistinctContents DEF vars, disk, proc, plan, user, IInv,
         TypeOK, JournalInv, LoopInv, BackupInv, ScopeInv, Trying, Staging, Moving, Validating,
         Rolling, Cleaning, Finalizing, Pending, EntryStates, JournalStates
<1> QED BY <1>1, <1>2, <1>3, <1>4, <1>5, <1>6, <1>7, <1>8, <1>9 DEF Next, Process

LEMMA ReplacedStep ==
    ASSUME ~StaleWriters, IInv, ScopeInv, ReplacedInv, [Next]_vars PROVE ReplacedInv'
<1>1. CASE Start \/ Plan \/ Prepare
  BY <1>1, MarkStates, OneFirst, DistinctContents DEF Start, Goto, plan, user, Plan, disk,
         Prepare, Finish, IInv, TypeOK, JournalInv, LoopInv, BackupInv, TempInv, ScopeInv,
         ReplacedInv, Replaced, New, Trying, Staging, Moving, Validating, Rolling, Cleaning,
         Finalizing, Pending, EntryStates, JournalStates
<1>2. CASE \/ CreateJournal \/ MarkAllStaged \/ Expect \/ MarkCommitting
          \/ Post \/ MarkValidating \/ Validate \/ MarkComplete
  BY <1>2, MarkStates, OneFirst, DistinctContents DEF CreateJournal, Mark, Sound, Fails, Goto,
         Throw, plan, user, MarkAllStaged, Expect, MayFail, disk, MarkCommitting, Post,
         MarkValidating, Validate, MarkComplete, IInv, TypeOK, JournalInv, LoopInv, BackupInv,
         TempInv, ScopeInv, ReplacedInv, Replaced, New, Trying, Staging, Moving, Validating,
         Rolling, Cleaning, Finalizing, Pending, EntryStates, JournalStates
<1>3. CASE CleanJournal \/ RollbackMark \/ RollbackEnd
  BY <1>3, MarkStates, OneFirst, DistinctContents DEF CleanJournal, Finish, Goto, plan, user,
         RollbackMark, RollbackEnd, IInv, TypeOK, JournalInv, LoopInv, BackupInv, TempInv,
         ScopeInv, ReplacedInv, Replaced, New, Trying, Staging, Moving, Validating, Rolling,
         Cleaning, Finalizing, Pending, EntryStates, JournalStates
<1>4. CASE FinalCheck \/ FinalEnd
  BY <1>4, MarkStates, OneFirst, DistinctContents DEF FinalCheck, Finish, Goto, disk, plan,
         user, FinalEnd, IInv, TypeOK, JournalInv, LoopInv, BackupInv, TempInv, ScopeInv,
         ReplacedInv, Replaced, New, Trying, Staging, Moving, Validating, Rolling, Cleaning,
         Finalizing, Pending, EntryStates, JournalStates
<1>5. CASE \E p \in Paths : Commit(p)
  <2> PICK p \in Paths : Commit(p)
    BY <1>5
  <2>1. CASE StageTemp(p)
    BY <2>1, MarkStates, OneFirst, DistinctContents DEF StageTemp, Sound, Goto, Fails, Throw,
           plan, user, IInv, TypeOK, JournalInv, LoopInv, BackupInv, TempInv, ScopeInv,
           ReplacedInv, Replaced, New, Trying, Staging, Moving, Validating, Rolling, Cleaning,
           Finalizing, Pending, EntryStates, JournalStates
  <2>2. CASE MarkStaged(p)
    BY <2>2, MarkStates, OneFirst, DistinctContents DEF MarkStaged, Mark, plan, user, Sound,
           Goto, Fails, Throw, IInv, TypeOK, JournalInv, LoopInv, BackupInv, TempInv, ScopeInv,
           ReplacedInv, Replaced, New, Trying, Staging, Moving, Validating, Rolling, Cleaning,
           Finalizing, Pending, EntryStates, JournalStates
  <2>3. CASE BackUp(p)
    BY <2>3, MarkStates, OneFirst, DistinctContents DEF BackUp, TakeOver, Goto, Throw, disk,
           user, MayFail, plan, IInv, TypeOK, JournalInv, LoopInv, BackupInv, TempInv, ScopeInv,
           ReplacedInv, Replaced, New, Trying, Staging, Moving, Validating, Rolling, Cleaning,
           Finalizing, Pending, EntryStates, JournalStates
  <2>4. CASE Verify(p)
    BY <2>4, MarkStates, OneFirst, DistinctContents DEF Verify, Goto, disk, MayFail, plan, user,
           Throw, IInv, TypeOK, JournalInv, LoopInv, BackupInv, TempInv, ScopeInv, ReplacedInv,
           Replaced, New, Trying, Staging, Moving, Validating, Rolling, Cleaning, Finalizing,
           Pending, EntryStates, JournalStates
  <2>5. CASE PutBackLink(p)
    BY <2>5, MarkStates, OneFirst, DistinctContents DEF PutBackLink, Goto, Throw, disk, MayFail,
           plan, user, IInv, TypeOK, JournalInv, LoopInv, BackupInv, TempInv, ScopeInv,
           ReplacedInv, Replaced, New, Trying, Staging, Moving, Validating, Rolling, Cleaning,
           Finalizing, Pending, EntryStates, JournalStates
  <2>6. CASE PutBackUnlink(p)
    BY <2>6, MarkStates, OneFirst, DistinctContents DEF PutBackUnlink, Throw, MayFail, plan,
           user, disk, Goto, IInv, TypeOK, JournalInv, LoopInv, BackupInv, TempInv, ScopeInv,
           ReplacedInv, Replaced, New, Trying, Staging, Moving, Validating, Rolling, Cleaning,
           Finalizing, Pending, EntryStates, JournalStates
  <2>7. CASE MarkBackedUp(p)
    BY <2>7, MarkStates, OneFirst, DistinctContents DEF MarkBackedUp, Mark, plan, user, Goto,
           Throw, IInv, TypeOK, JournalInv, LoopInv, BackupInv, TempInv, ScopeInv, ReplacedInv,
           Replaced, New, Trying, Staging, Moving, Validating, Rolling, Cleaning, Finalizing,
           Pending, EntryStates, JournalStates
  <2>8. CASE Link(p)
    BY <2>8, MarkStates, OneFirst, DistinctContents DEF Link, TakeOver, Goto, Throw, disk, user,
           MayFail, plan, IInv, TypeOK, JournalInv, LoopInv, BackupInv, TempInv, ScopeInv,
           ReplacedInv, Replaced, New, Trying, Staging, Moving, Validating, Rolling, Cleaning,
           Finalizing, Pending, EntryStates, JournalStates
  <2>9. CASE Unlink(p)
    BY <2>9, MarkStates, OneFirst, DistinctContents DEF Unlink, Goto, MayFail, plan, user,
           Throw, disk, IInv, TypeOK, JournalInv, LoopInv, BackupInv, TempInv, ScopeInv,
           ReplacedInv, Replaced, New, Trying, Staging, Moving, Validating, Rolling, Cleaning,
           Finalizing, Pending, EntryStates, JournalStates
  <2>10. CASE MarkCommitted(p)
    BY <2>10, MarkStates, OneFirst, DistinctContents DEF MarkCommitted, Mark, plan, user, Goto,
           Throw, IInv, TypeOK, JournalInv, LoopInv, BackupInv, TempInv, ScopeInv, ReplacedInv,
           Replaced, New, Trying, Staging, Moving, Validating, Rolling, Cleaning, Finalizing,
           Pending, EntryStates, JournalStates
  <2> QED BY <2>1, <2>2, <2>3, <2>4, <2>5, <2>6, <2>7, <2>8, <2>9, <2>10 DEF Commit
<1>6. CASE \E p \in Paths : Rollback(p)
  <2> PICK p \in Paths : Rollback(p)
    BY <1>6
  <2>1. CASE RollbackRead(p)
    BY <2>1, MarkStates, OneFirst, DistinctContents DEF RollbackRead, Goto, GiveUp, disk, plan,
           user, IInv, TypeOK, JournalInv, LoopInv, BackupInv, TempInv, ScopeInv, ReplacedInv,
           Replaced, New, Trying, Staging, Moving, Validating, Rolling, Cleaning, Finalizing,
           Pending, EntryStates, JournalStates
  <2>2. CASE RollbackRemove(p)
    BY <2>2, MarkStates, OneFirst, DistinctContents DEF RollbackRemove, Goto, GiveUp, plan,
           user, IInv, TypeOK, JournalInv, LoopInv, BackupInv, TempInv, ScopeInv, ReplacedInv,
           Replaced, New, Trying, Staging, Moving, Validating, Rolling, Cleaning, Finalizing,
           Pending, EntryStates, JournalStates
  <2>3. CASE RollbackRename(p)
    BY <2>3, MarkStates, OneFirst, DistinctContents DEF RollbackRename, Goto, GiveUp, plan,
           user, IInv, TypeOK, JournalInv, LoopInv, BackupInv, TempInv, ScopeInv, ReplacedInv,
           Replaced, New, Trying, Staging, Moving, Validating, Rolling, Cleaning, Finalizing,
           Pending, EntryStates, JournalStates
  <2>4. CASE RollbackDrop(p)
    BY <2>4, MarkStates, OneFirst, DistinctContents DEF RollbackDrop, Goto, GiveUp, plan, user,
           IInv, TypeOK, JournalInv, LoopInv, BackupInv, TempInv, ScopeInv, ReplacedInv,
           Replaced, New, Trying, Staging, Moving, Validating, Rolling, Cleaning, Finalizing,
           Pending, EntryStates, JournalStates
  <2>5. CASE RollbackTemp(p)
    BY <2>5, MarkStates, OneFirst, DistinctContents DEF RollbackTemp, Goto, GiveUp, plan, user,
           IInv, TypeOK, JournalInv, LoopInv, BackupInv, TempInv, ScopeInv, ReplacedInv,
           Replaced, New, Trying, Staging, Moving, Validating, Rolling, Cleaning, Finalizing,
           Pending, EntryStates, JournalStates
  <2> QED BY <2>1, <2>2, <2>3, <2>4, <2>5 DEF Rollback
<1>7. CASE \E p \in Paths : CleanUp(p)
  BY <1>7, MarkStates, OneFirst, DistinctContents DEF CleanUp, CleanCheck, Goto, AfterClean,
         disk, plan, user, CleanRemove, FinalRemove, Finish, IInv, TypeOK, JournalInv, LoopInv,
         BackupInv, TempInv, ScopeInv, ReplacedInv, Replaced, New, Trying, Staging, Moving,
         Validating, Rolling, Cleaning, Finalizing, Pending, EntryStates, JournalStates
<1>8. CASE Environment
  <2>1. CASE Crash
    BY <2>1, MarkStates, OneFirst, DistinctContents DEF Crash, plan, user, IInv, TypeOK,
           JournalInv, LoopInv, BackupInv, TempInv, ScopeInv, ReplacedInv, Replaced, New,
           Trying, Staging, Moving, Validating, Rolling, Cleaning, Finalizing, Pending,
           EntryStates, JournalStates
  <2>2. ASSUME NEW p \in Paths, UserDelete(p) PROVE ReplacedInv'
    BY <2>2, MarkStates, OneFirst, DistinctContents DEF UserDelete, proc, plan, IInv, TypeOK,
           JournalInv, LoopInv, BackupInv, TempInv, ScopeInv, ReplacedInv, Replaced, New,
           Trying, Staging, Moving, Validating, Rolling, Cleaning, Finalizing, Pending,
           EntryStates, JournalStates
  <2>3. ASSUME NEW p \in Paths, NEW b \in Bodies, UserWrite(p, b) PROVE ReplacedInv'
    <3>1. Raw(b) # Absent /\ ~Raw(b).header
      BY BodiesAssumption DEF Raw, Absent
    <3>2. \A q \in Paths : Replaced(q) => Replaced(q)'
      BY <2>3, <3>1 DEF UserWrite, proc, plan, IInv, TypeOK, Replaced, New
    <3> QED BY <2>3, <3>2 DEF UserWrite, proc, plan, IInv, TypeOK, ReplacedInv
  <2>4. ASSUME NEW p \in Paths, NEW b \in Bodies, StaleWrite(p, b) PROVE ReplacedInv'
    BY <2>4, MarkStates, OneFirst, DistinctContents DEF StaleWrite, proc, plan, IInv, TypeOK,
           JournalInv, LoopInv, BackupInv, TempInv, ScopeInv, ReplacedInv, Replaced, New,
           Trying, Staging, Moving, Validating, Rolling, Cleaning, Finalizing, Pending,
           EntryStates, JournalStates
  <2> QED BY <1>8, <2>1, <2>2, <2>3, <2>4 DEF Environment
<1>9. CASE UNCHANGED vars
  BY <1>9, MarkStates, OneFirst, DistinctContents DEF vars, disk, proc, plan, user, IInv,
         TypeOK, JournalInv, LoopInv, BackupInv, TempInv, ScopeInv, ReplacedInv, Replaced, New,
         Trying, Staging, Moving, Validating, Rolling, Cleaning, Finalizing, Pending,
         EntryStates, JournalStates
<1> QED BY <1>1, <1>2, <1>3, <1>4, <1>5, <1>6, <1>7, <1>8, <1>9 DEF Next, Process

LEMMA ReturnedStep ==
    ASSUME ~StaleWriters, IInv, HInv, ScopeInv, ReturnedInv, [Next]_vars PROVE ReturnedInv'
<1>1. CASE Start \/ Plan \/ Prepare
  BY <1>1, MarkStates, OneFirst, DistinctContents DEF Start, Goto, plan, user, Plan, disk,
         Prepare, Finish, IInv, HInv, TypeOK, JournalInv, LoopInv, BackupInv, RestoreInv,
         CheckInv, ScopeInv, ReturnedInv, PutThere, GivenBack, Owned, New, Trying, Staging,
         Moving, Validating, Rolling, Cleaning, Finalizing, Pending, EntryStates, JournalStates
<1>2. CASE \/ CreateJournal \/ MarkAllStaged \/ Expect \/ MarkCommitting
          \/ Post \/ MarkValidating \/ Validate \/ MarkComplete
  BY <1>2, MarkStates, OneFirst, DistinctContents DEF CreateJournal, Mark, Sound, Fails, Goto,
         Throw, plan, user, MarkAllStaged, Expect, MayFail, disk, MarkCommitting, Post,
         MarkValidating, Validate, MarkComplete, IInv, HInv, TypeOK, JournalInv, LoopInv,
         BackupInv, RestoreInv, CheckInv, ScopeInv, ReturnedInv, PutThere, GivenBack, Owned,
         New, Trying, Staging, Moving, Validating, Rolling, Cleaning, Finalizing, Pending,
         EntryStates, JournalStates
<1>3. CASE CleanJournal \/ RollbackMark \/ RollbackEnd
  BY <1>3, MarkStates, OneFirst, DistinctContents DEF CleanJournal, Finish, Goto, plan, user,
         RollbackMark, RollbackEnd, IInv, HInv, TypeOK, JournalInv, LoopInv, BackupInv,
         RestoreInv, CheckInv, ScopeInv, ReturnedInv, PutThere, GivenBack, Owned, New, Trying,
         Staging, Moving, Validating, Rolling, Cleaning, Finalizing, Pending, EntryStates,
         JournalStates
<1>4. CASE FinalCheck \/ FinalEnd
  BY <1>4, MarkStates, OneFirst, DistinctContents DEF FinalCheck, Finish, Goto, disk, plan,
         user, FinalEnd, IInv, HInv, TypeOK, JournalInv, LoopInv, BackupInv, RestoreInv,
         CheckInv, ScopeInv, ReturnedInv, PutThere, GivenBack, Owned, New, Trying, Staging,
         Moving, Validating, Rolling, Cleaning, Finalizing, Pending, EntryStates, JournalStates
<1>5. CASE \E p \in Paths : Commit(p)
  <2> PICK p \in Paths : Commit(p)
    BY <1>5
  <2>1. CASE StageTemp(p)
    BY <2>1, MarkStates, OneFirst, DistinctContents DEF StageTemp, Sound, Goto, Fails, Throw,
           plan, user, IInv, HInv, TypeOK, JournalInv, LoopInv, BackupInv, RestoreInv, CheckInv,
           ScopeInv, ReturnedInv, PutThere, GivenBack, Owned, New, Trying, Staging, Moving,
           Validating, Rolling, Cleaning, Finalizing, Pending, EntryStates, JournalStates
  <2>2. CASE MarkStaged(p)
    BY <2>2, MarkStates, OneFirst, DistinctContents DEF MarkStaged, Mark, plan, user, Sound,
           Goto, Fails, Throw, IInv, HInv, TypeOK, JournalInv, LoopInv, BackupInv, RestoreInv,
           CheckInv, ScopeInv, ReturnedInv, PutThere, GivenBack, Owned, New, Trying, Staging,
           Moving, Validating, Rolling, Cleaning, Finalizing, Pending, EntryStates,
           JournalStates
  <2>3. CASE BackUp(p)
    BY <2>3, MarkStates, OneFirst, DistinctContents DEF BackUp, TakeOver, Goto, Throw, disk,
           user, MayFail, plan, IInv, HInv, TypeOK, JournalInv, LoopInv, BackupInv, RestoreInv,
           CheckInv, ScopeInv, ReturnedInv, PutThere, GivenBack, Owned, New, Trying, Staging,
           Moving, Validating, Rolling, Cleaning, Finalizing, Pending, EntryStates,
           JournalStates
  <2>4. CASE Verify(p)
    BY <2>4, MarkStates, OneFirst, DistinctContents DEF Verify, Goto, disk, MayFail, plan, user,
           Throw, IInv, HInv, TypeOK, JournalInv, LoopInv, BackupInv, RestoreInv, CheckInv,
           ScopeInv, ReturnedInv, PutThere, GivenBack, Owned, New, Trying, Staging, Moving,
           Validating, Rolling, Cleaning, Finalizing, Pending, EntryStates, JournalStates
  <2>5. CASE PutBackLink(p)
    BY <2>5, MarkStates, OneFirst, DistinctContents DEF PutBackLink, Goto, Throw, disk, MayFail,
           plan, user, IInv, HInv, TypeOK, JournalInv, LoopInv, BackupInv, RestoreInv, CheckInv,
           ScopeInv, ReturnedInv, PutThere, GivenBack, Owned, New, Trying, Staging, Moving,
           Validating, Rolling, Cleaning, Finalizing, Pending, EntryStates, JournalStates
  <2>6. CASE PutBackUnlink(p)
    BY <2>6, MarkStates, OneFirst, DistinctContents DEF PutBackUnlink, Throw, MayFail, plan,
           user, disk, Goto, IInv, HInv, TypeOK, JournalInv, LoopInv, BackupInv, RestoreInv,
           CheckInv, ScopeInv, ReturnedInv, PutThere, GivenBack, Owned, New, Trying, Staging,
           Moving, Validating, Rolling, Cleaning, Finalizing, Pending, EntryStates,
           JournalStates
  <2>7. CASE MarkBackedUp(p)
    BY <2>7, MarkStates, OneFirst, DistinctContents DEF MarkBackedUp, Mark, plan, user, Goto,
           Throw, IInv, HInv, TypeOK, JournalInv, LoopInv, BackupInv, RestoreInv, CheckInv,
           ScopeInv, ReturnedInv, PutThere, GivenBack, Owned, New, Trying, Staging, Moving,
           Validating, Rolling, Cleaning, Finalizing, Pending, EntryStates, JournalStates
  <2>8. CASE Link(p)
    BY <2>8, MarkStates, OneFirst, DistinctContents DEF Link, TakeOver, Goto, Throw, disk, user,
           MayFail, plan, IInv, HInv, TypeOK, JournalInv, LoopInv, BackupInv, RestoreInv,
           CheckInv, ScopeInv, ReturnedInv, PutThere, GivenBack, Owned, New, Trying, Staging,
           Moving, Validating, Rolling, Cleaning, Finalizing, Pending, EntryStates,
           JournalStates
  <2>9. CASE Unlink(p)
    BY <2>9, MarkStates, OneFirst, DistinctContents DEF Unlink, Goto, MayFail, plan, user,
           Throw, disk, IInv, HInv, TypeOK, JournalInv, LoopInv, BackupInv, RestoreInv,
           CheckInv, ScopeInv, ReturnedInv, PutThere, GivenBack, Owned, New, Trying, Staging,
           Moving, Validating, Rolling, Cleaning, Finalizing, Pending, EntryStates,
           JournalStates
  <2>10. CASE MarkCommitted(p)
    BY <2>10, MarkStates, OneFirst, DistinctContents DEF MarkCommitted, Mark, plan, user, Goto,
           Throw, IInv, HInv, TypeOK, JournalInv, LoopInv, BackupInv, RestoreInv, CheckInv,
           ScopeInv, ReturnedInv, PutThere, GivenBack, Owned, New, Trying, Staging, Moving,
           Validating, Rolling, Cleaning, Finalizing, Pending, EntryStates, JournalStates
  <2> QED BY <2>1, <2>2, <2>3, <2>4, <2>5, <2>6, <2>7, <2>8, <2>9, <2>10 DEF Commit
<1>6. CASE \E p \in Paths : Rollback(p)
  <2> PICK p \in Paths : Rollback(p)
    BY <1>6
  <2>1. CASE RollbackRead(p)
    <3>1. /\ p \in todo /\ \A q \in todo : Last(q, todo) => q = p
          /\ p \in work /\ work \subseteq Paths
      BY <2>1, OneFirst DEF RollbackRead, IInv, TypeOK, LoopInv, Rolling
    <3>2. /\ \A q \in Paths \ {p} : target'[q] = target[q]
          /\ UNCHANGED <<work, base, journal>>
      BY <2>1 DEF RollbackRead, GiveUp, disk, plan, IInv, TypeOK
    <3>3. \A q \in Paths : ~PutThere(q) => ~PutThere(q)'
      BY <2>1, <3>1, <3>2, DistinctContents DEF RollbackRead, GiveUp, disk, IInv, TypeOK, PutThere, New
    <3>4. pc' = "rb_temp" => ~PutThere(p)'
      BY <2>1, <3>1, DistinctContents DEF RollbackRead, Goto, GiveUp, disk, plan, IInv, TypeOK, PutThere, New
    <3>5. /\ pc \in Rolling /\ pc' \in Rolling
          /\ \A q \in work : q \in todo => q = p \/ q \in todo'
          /\ \A q \in work : q \in failed => q \in failed'
          /\ p \in todo' \/ p \in failed'
          /\ pc' = "rb_temp" => todo' = todo
      BY <2>1, <3>1 DEF RollbackRead, Goto, GiveUp, Rolling, IInv, TypeOK
    <3> QED BY <3>1, <3>2, <3>3, <3>4, <3>5 DEF ReturnedInv, Pending, Rolling
  <2>2. CASE RollbackRemove(p)
    BY <2>2, MarkStates, OneFirst, DistinctContents DEF RollbackRemove, Goto, GiveUp, plan,
           user, IInv, HInv, TypeOK, JournalInv, LoopInv, BackupInv, RestoreInv, CheckInv,
           ScopeInv, ReturnedInv, PutThere, GivenBack, Owned, New, Trying, Staging, Moving,
           Validating, Rolling, Cleaning, Finalizing, Pending, EntryStates, JournalStates
  <2>3. CASE RollbackRename(p)
    BY <2>3, MarkStates, OneFirst, DistinctContents DEF RollbackRename, Goto, GiveUp, plan,
           user, IInv, HInv, TypeOK, JournalInv, LoopInv, BackupInv, RestoreInv, CheckInv,
           ScopeInv, ReturnedInv, PutThere, GivenBack, Owned, New, Trying, Staging, Moving,
           Validating, Rolling, Cleaning, Finalizing, Pending, EntryStates, JournalStates
  <2>4. CASE RollbackDrop(p)
    <3>1. /\ p \in todo /\ \A q \in todo : Last(q, todo) => q = p
          /\ p \in work /\ work \subseteq Paths
      BY <2>4, OneFirst DEF RollbackDrop, IInv, TypeOK, LoopInv, Rolling
    <3>2. /\ \A q \in Paths \ {p} : target'[q] = target[q]
          /\ UNCHANGED <<work, base, journal>>
      BY <2>4 DEF RollbackDrop, GiveUp, disk, plan, IInv, TypeOK
    <3>3. \A q \in Paths : ~PutThere(q) => ~PutThere(q)'
      BY <2>4, <3>1, <3>2, DistinctContents DEF RollbackDrop, GiveUp, disk, IInv, TypeOK, PutThere, New
    <3>4. pc' = "rb_temp" => ~PutThere(p)'
      BY <2>4, <3>1, DistinctContents DEF RollbackDrop, Goto, GiveUp, disk, plan, IInv, TypeOK, PutThere, New
    <3>5. /\ pc \in Rolling /\ pc' \in Rolling
          /\ \A q \in work : q \in todo => q = p \/ q \in todo'
          /\ \A q \in work : q \in failed => q \in failed'
          /\ p \in todo' \/ p \in failed'
          /\ pc' = "rb_temp" => todo' = todo
      BY <2>4, <3>1 DEF RollbackDrop, Goto, GiveUp, Rolling, IInv, TypeOK
    <3> QED BY <3>1, <3>2, <3>3, <3>4, <3>5 DEF ReturnedInv, Pending, Rolling
  <2>5. CASE RollbackTemp(p)
    BY <2>5, MarkStates, OneFirst, DistinctContents DEF RollbackTemp, Goto, GiveUp, plan, user,
           IInv, HInv, TypeOK, JournalInv, LoopInv, BackupInv, RestoreInv, CheckInv, ScopeInv,
           ReturnedInv, PutThere, GivenBack, Owned, New, Trying, Staging, Moving, Validating,
           Rolling, Cleaning, Finalizing, Pending, EntryStates, JournalStates
  <2> QED BY <2>1, <2>2, <2>3, <2>4, <2>5 DEF Rollback
<1>7. CASE \E p \in Paths : CleanUp(p)
  BY <1>7, MarkStates, OneFirst, DistinctContents DEF CleanUp, CleanCheck, Goto, AfterClean,
         disk, plan, user, CleanRemove, FinalRemove, Finish, IInv, HInv, TypeOK, JournalInv,
         LoopInv, BackupInv, RestoreInv, CheckInv, ScopeInv, ReturnedInv, PutThere, GivenBack,
         Owned, New, Trying, Staging, Moving, Validating, Rolling, Cleaning, Finalizing,
         Pending, EntryStates, JournalStates
<1>8. CASE Environment
  <2>1. CASE Crash
    BY <2>1, MarkStates, OneFirst, DistinctContents DEF Crash, plan, user, IInv, HInv, TypeOK,
           JournalInv, LoopInv, BackupInv, RestoreInv, CheckInv, ScopeInv, ReturnedInv,
           PutThere, GivenBack, Owned, New, Trying, Staging, Moving, Validating, Rolling,
           Cleaning, Finalizing, Pending, EntryStates, JournalStates
  <2>2. ASSUME NEW p \in Paths, UserDelete(p) PROVE ReturnedInv'
    BY <2>2, MarkStates, OneFirst, DistinctContents DEF UserDelete, proc, plan, IInv, HInv,
           TypeOK, JournalInv, LoopInv, BackupInv, RestoreInv, CheckInv, ScopeInv, ReturnedInv,
           PutThere, GivenBack, Owned, New, Trying, Staging, Moving, Validating, Rolling,
           Cleaning, Finalizing, Pending, EntryStates, JournalStates
  <2>3. ASSUME NEW p \in Paths, NEW b \in Bodies, UserWrite(p, b) PROVE ReturnedInv'
    <3>1. Raw(b) # Absent /\ ~Raw(b).header /\ \A q : Raw(b) # New(q)
      BY DistinctContents DEF Raw, Absent, New
    <3>2. \A q \in Paths : /\ ~PutThere(q) => ~PutThere(q)'
                           /\ GivenBack(q) => GivenBack(q)'
      BY <2>3, <3>1 DEF UserWrite, proc, plan, IInv, TypeOK, PutThere, GivenBack, New
    <3> QED BY <2>3, <3>2 DEF UserWrite, proc, plan, IInv, TypeOK, ReturnedInv, Pending
  <2>4. ASSUME NEW p \in Paths, NEW b \in Bodies, StaleWrite(p, b) PROVE ReturnedInv'
    BY <2>4, MarkStates, OneFirst, DistinctContents DEF StaleWrite, proc, plan, IInv, HInv,
           TypeOK, JournalInv, LoopInv, BackupInv, RestoreInv, CheckInv, ScopeInv, ReturnedInv,
           PutThere, GivenBack, Owned, New, Trying, Staging, Moving, Validating, Rolling,
           Cleaning, Finalizing, Pending, EntryStates, JournalStates
  <2> QED BY <1>8, <2>1, <2>2, <2>3, <2>4 DEF Environment
<1>9. CASE UNCHANGED vars
  BY <1>9, MarkStates, OneFirst, DistinctContents DEF vars, disk, proc, plan, user, IInv, HInv,
         TypeOK, JournalInv, LoopInv, BackupInv, RestoreInv, CheckInv, ScopeInv, ReturnedInv,
         PutThere, GivenBack, Owned, New, Trying, Staging, Moving, Validating, Rolling,
         Cleaning, Finalizing, Pending, EntryStates, JournalStates
<1> QED BY <1>1, <1>2, <1>3, <1>4, <1>5, <1>6, <1>7, <1>8, <1>9 DEF Next, Process

-----------------------------------------------------------------------------
(* The refinement: which step of AtomicApply each step is *)

LEMMA StandInit == Init => SInv
<1> SUFFICES ASSUME Init PROVE SInv
  OBVIOUS
<1>1. ScopeInv
  BY DEF Init, ScopeInv, Pending, Trying, Staging, Moving, Validating, Rolling
<1>2. ReplacedInv /\ ReturnedInv
  BY DEF Init, ReplacedInv, ReturnedInv, Pending, Moving, Validating, Rolling
<1> QED BY <1>1, <1>2, InvInit, HeldInit DEF SInv

LEMMA StandStep == ~CheckActRace /\ ~StaleWriters => (SInv /\ [Next]_vars => SInv')
<1> SUFFICES ASSUME ~CheckActRace, ~StaleWriters, SInv, [Next]_vars PROVE SInv'
  OBVIOUS
<1>1. IInv' /\ HInv'
  BY InvStep, HeldStep DEF SInv
<1> QED BY <1>1, ScopeStep, ReplacedStep, ReturnedStep DEF SInv

\* The two modules speak of the same files and contents.
LEMMA SameTerms ==
    /\ Atomic!Paths = Paths /\ Atomic!Absent = Absent
    /\ \A b : Atomic!Raw(b) = Raw(b)
    /\ \A c : Atomic!Render(c) = Render(c)
BY DEF Atomic!Paths, Paths, Atomic!Absent, Absent, Atomic!Raw, Raw, Atomic!Render, Render, Generated

Files == [p \in Paths |-> Settled(p)]
Kept  == [p \in Paths |-> IF Open /\ p \in work THEN backup[p] ELSE Absent]

\* With no transaction open, the tree stands for itself and nothing is kept.
LEMMA WhenClosed == ASSUME TypeOK, ~Open PROVE Files = target /\ Kept = Atomic!Nothing
BY SameTerms DEF Files, Kept, Settled, TypeOK, Atomic!Nothing

\* An entry without a backup that is not the transaction's to delete stands for itself.
LEMMA StandsForItself ==
    ASSUME NEW p \in Paths, backup[p] = Absent, ~PutThere(p) PROVE Settled(p) = target[p]
BY DEF Settled, PutThere

Same == UNCHANGED <<target, backup, work, base, touched, gone, Open>>

LEMMA SameIsStutter == ASSUME Same PROVE UNCHANGED Atomic!vars
BY DEF Same, Atomic!vars, Settled, Owned, New

LEMMA ClosedIsStutter ==
    ASSUME TypeOK, ~Open, ~Open', target' = target PROVE UNCHANGED Atomic!vars
BY DEF Atomic!vars, Settled, TypeOK

\* What a step does to one file, it does to the tree.
LEMMA Elsewhere ==
    ASSUME NEW p \in Paths, UNCHANGED <<work, base, Open>>,
           \A q \in Paths \ {p} : target'[q] = target[q] /\ backup'[q] = backup[q]
    PROVE  /\ Files' = [Files EXCEPT ![p] = Settled(p)']
           /\ Kept' = [Kept EXCEPT ![p] = IF Open /\ p \in work THEN backup'[p] ELSE Absent]
<1>1. \A q \in Paths \ {p} : Settled(q)' = Settled(q)
  BY DEF Settled, Owned, New
<1> QED BY <1>1 DEF Files, Kept

\* A journal appears.
LEMMA BeginStep ==
    ASSUME SInv, ~Pending, \A p \in work : ~PutThere(p), work # {},
           Open', UNCHANGED <<target, backup, work, base, touched, gone>>
    PROVE  Atomic!Begin
<1>1. ~Open /\ \A p \in Paths : backup[p] = Absent
  BY DEF Open, SInv, IInv, BackupInv
<1>2. Files' = Files
  <2>1. \A p \in Paths : Settled(p)' = target[p]
    BY <1>1 DEF Settled, PutThere, Owned, New, SInv, IInv, TypeOK
  <2>2. \A p \in Paths : Settled(p) = target[p]
    BY <1>1 DEF Settled
  <2> QED BY <2>1, <2>2 DEF Files
<1>3. Kept' = Kept
  BY <1>1 DEF Kept
<1> QED BY <1>1, <1>2, <1>3, SameTerms DEF Atomic!Begin, Files, Kept, SInv, IInv, TypeOK, ScopeInv

\* What the tree stands for moves only with the files, the journal and the plan.
Moves == Atomic!Next \/ UNCHANGED Atomic!vars

\* While a journal is written, in a state that is not complete.
LEMMA MarkStep ==
    ASSUME SInv, NEW t, NEW l, Mark(t, l), Pending, journal.state # "complete",
           t.state \notin {"none", "complete"}, UNCHANGED <<target, backup, plan, user>>
    PROVE  Same
<1>1. journal' \in {journal, t}
  BY DEF Mark
<1>2. Open /\ Open'
  BY <1>1, MarkStates DEF Open, Pending, SInv, IInv
<1> QED BY <1>2 DEF Same, plan, user

LEMMA PlainStep ==
    ASSUME SInv, Start \/ Prepare \/ MarkAllStaged \/ Expect \/ MarkCommitting \/ Post
                  \/ MarkValidating \/ Validate \/ Crash
                  \/ \E p \in Paths : \/ StageTemp(p) \/ MarkStaged(p) \/ Verify(p) \/ MarkBackedUp(p)
                                      \/ Unlink(p) \/ MarkCommitted(p)
                                      \/ RollbackRead(p) \/ RollbackTemp(p) \/ CleanCheck(p)
    PROVE  Same
<1>1. CASE \/ Start \/ Prepare \/ Expect \/ Post \/ Validate \/ Crash
           \/ \E p \in Paths : \/ StageTemp(p) \/ Verify(p) \/ Unlink(p)
                               \/ RollbackRead(p) \/ RollbackTemp(p) \/ CleanCheck(p)
  <2>1. UNCHANGED <<target, backup, journal, work, base, touched, gone>>
    BY <1>1 DEF Start, Prepare, Expect, Post, Validate, Crash, StageTemp, Verify, Unlink,
           RollbackRead, RollbackTemp, CleanCheck, MayFail, disk, plan, user
  <2> QED BY <2>1 DEF Same, Open, Pending
<1>2. CASE \/ MarkAllStaged \/ MarkCommitting \/ MarkValidating
           \/ \E p \in Paths : MarkStaged(p) \/ MarkBackedUp(p) \/ MarkCommitted(p)
  <2>1. /\ UNCHANGED <<target, backup, plan, user>>
        /\ \E t \in Journals, l \in PCs : t.state \notin {"none", "complete"} /\ Mark(t, l)
    BY <1>2, MarkTypes, MarkStates DEF MarkAllStaged, MarkCommitting, MarkValidating, MarkStaged,
           MarkBackedUp, MarkCommitted, SInv, IInv, JournalInv, Trying, Staging, Moving, Validating,
           JournalStates, EntryStates, PCs
  <2>2. Pending /\ journal.state # "complete"
    BY <1>2 DEF MarkAllStaged, MarkCommitting, MarkValidating, MarkStaged, MarkBackedUp, MarkCommitted,
           SInv, IInv, JournalInv, Trying, Staging, Moving, Validating, Cleaning, Finalizing
  <2> QED BY <2>1, <2>2, MarkStep
<1> QED BY <1>1, <1>2

\* Behind `complete`, and before there is a journal.
LEMMA ClosedStep ==
    ASSUME SInv, Plan \/ CleanJournal \/ FinalCheck \/ FinalEnd
                  \/ \E p \in Paths : CleanRemove(p) \/ FinalRemove(p)
    PROVE  UNCHANGED Atomic!vars
<1>1. ~Open /\ target' = target /\ journal' \in {journal, NoJournal}
  BY DEF Plan, CleanJournal, FinalCheck, FinalEnd, CleanRemove, FinalRemove, disk, Open, SInv, IInv,
         JournalInv, Cleaning, Finalizing
<1>2. ~Open'
  BY <1>1 DEF Open, Pending
<1> QED BY <1>1, <1>2, ClosedIsStutter DEF SInv, IInv

LEMMA CreateStep == ASSUME SInv, CreateJournal PROVE Moves
<1>1. /\ ~Pending /\ tx.state \notin {"none", "complete"} /\ work # {}
      /\ \A p \in work : ~PutThere(p)
      /\ UNCHANGED <<target, backup, work, base, touched, gone>>
  BY DEF CreateJournal, plan, user, SInv, IInv, JournalInv, ScopeInv, ReturnedInv, Trying, Staging
<1>2. journal' \in {journal, tx}
  BY DEF CreateJournal, Mark
<1>3. CASE journal' = journal
  BY <1>1, <1>3, SameIsStutter DEF Same, Open, Pending, Moves
<1>4. CASE journal' = tx
  <2>1. Open'
    BY <1>1, <1>4, MarkStates DEF Open, Pending, SInv, IInv
  <2> QED BY <1>1, <2>1, BeginStep DEF Moves, Atomic!Next
<1> QED BY <1>2, <1>3, <1>4

\* The mark that a rollback has begun or has failed: of the journal, or the first of one.
LEMMA RollMarkStep ==
    ASSUME SInv, pc \in {"rb_mark"} \cup Rolling, NEW s \in {"rolling_back", "rollback_failed"},
           journal' \in {journal, SetState(s)},
           UNCHANGED <<target, backup, work, base, touched, gone>>
    PROVE  Moves
<1>1. journal.state # "complete" /\ work # {} /\ SetState(s).state = s /\ NoJournal.state = "none"
  BY MarkStates DEF SInv, IInv, JournalInv, ScopeInv, Rolling, Cleaning, Finalizing, JournalStates
<1>2. CASE journal' = journal \/ Pending
  <2>1. Open' = Open
    BY <1>1, <1>2 DEF Open, Pending
  <2> QED BY <2>1, SameIsStutter DEF Same, Moves
<1>3. CASE journal' = SetState(s) /\ ~Pending
  <2>1. Open'
    BY <1>1, <1>3 DEF Open, Pending
  <2>2. \A p \in work : ~PutThere(p)
    BY <1>3 DEF SInv, ReturnedInv
  <2> QED BY <1>1, <1>3, <2>1, <2>2, BeginStep DEF Moves, Atomic!Next
<1> QED BY <1>2, <1>3

\* The moves of the files themselves: entry p, in a transaction that is open.
LEMMA AtEntry ==
    ASSUME SInv, NEW p \in Paths,
           \/ pc \in {"commit"} \cup Moving /\ First(p, todo)
           \/ pc \in Rolling /\ Last(p, todo)
    PROVE  /\ p \in work /\ p \in todo /\ work # {} /\ work \subseteq Paths
           /\ journal.state # "complete"
           /\ target[p] \in Content /\ backup[p] \in Content /\ base[p] \in Content
           /\ Pending \/ backup[p] = Absent
           /\ pc \in {"commit"} \cup Moving => Pending
BY DEF SInv, IInv, TypeOK, JournalInv, LoopInv, BackupInv, ScopeInv, First, Last, Rolling, Trying, Moving,
       Staging, Validating, Cleaning, Finalizing

LEMMA BackUpStep == ASSUME SInv, NEW p \in Paths, BackUp(p) PROVE Moves
<1>1. CASE UNCHANGED <<disk, user>>
  BY <1>1, SameIsStutter DEF BackUp, Same, disk, user, plan, Open, Pending, Moves
<1>2. CASE /\ target[p] # Absent /\ base[p] # Absent
           /\ backup' = [backup EXCEPT ![p] = target[p]]
           /\ target' = [target EXCEPT ![p] = Absent]
           /\ TakeOver(p, target[p] = base[p]) /\ UNCHANGED journal
  <2>1. /\ p \in work /\ Open /\ Open' /\ backup[p] = Absent
        /\ target \in [Paths -> Content] /\ backup \in [Paths -> Content]
        /\ UNCHANGED <<work, base, Open>>
    BY <1>2, AtEntry DEF BackUp, plan, Open, Pending, SInv, IInv, TypeOK, BackupInv
  <2>2. Settled(p) = target[p] /\ Settled(p)' = target[p]
    BY <1>2, <2>1 DEF Settled, Owned
  <2>3. Files' = Files /\ Kept' = [Kept EXCEPT ![p] = target[p]]
    <3>1. \A q \in Paths \ {p} : target'[q] = target[q] /\ backup'[q] = backup[q]
      BY <1>2, <2>1
    <3>2. /\ Files' = [Files EXCEPT ![p] = Settled(p)']
          /\ Kept' = [Kept EXCEPT ![p] = IF Open /\ p \in work THEN backup'[p] ELSE Absent]
      BY <2>1, <3>1, Elsewhere
    <3> QED BY <1>2, <2>1, <2>2, <3>2 DEF Files
  <2>4. Files[p] = target[p]
    BY <2>2 DEF Files
  <2>5. Atomic!TakeOver(p)
    BY <1>2, <2>1, <2>3, <2>4 DEF Atomic!TakeOver, TakeOver, Files, Kept
  <2> QED BY <2>5, SameTerms DEF Moves, Atomic!Next
<1> QED BY <1>1, <1>2 DEF BackUp, MayFail

LEMMA LinkStep == ASSUME SInv, NEW p \in Paths, Link(p) PROVE Moves
<1>1. CASE UNCHANGED <<disk, user>>
  BY <1>1, SameIsStutter DEF Link, Same, disk, user, plan, Open, Pending, Moves
<1>2. CASE /\ target[p] = Absent
           /\ target' = [target EXCEPT ![p] = temp[p]]
           /\ TakeOver(p, backup[p] = base[p]) /\ UNCHANGED <<backup, journal>>
  <2>1. /\ p \in work /\ Open /\ Open'
        /\ target \in [Paths -> Content] /\ backup \in [Paths -> Content]
        /\ UNCHANGED <<work, base, Open>>
    BY <1>2, AtEntry DEF Link, plan, Open, Pending, SInv, IInv, TypeOK, Moving
  <2>2. temp[p] = New(p) /\ New(p) # Absent
    BY AtEntry, DistinctContents DEF Link, SInv, IInv, TempInv, Moving, New
  <2>3. backup[p] # Absent \/ (backup[p] = Absent /\ base[p] = Absent)
    BY AtEntry DEF Link, SInv, IInv, HInv, BackupInv, RestoreInv, Moving
  <2>4. Settled(p) = backup[p] /\ Settled(p)' = backup[p]
    <3>1. target'[p] = New(p) /\ New(p)' = New(p)
      BY <1>2, <2>1, <2>2 DEF New
    <3> QED BY <1>2, <2>1, <2>2, <2>3, <3>1 DEF Settled, Owned
  <2>5. Files' = Files /\ Kept' = [Kept EXCEPT ![p] = backup[p]]
    <3>1. \A q \in Paths \ {p} : target'[q] = target[q] /\ backup'[q] = backup[q]
      BY <1>2, <2>1
    <3>2. /\ Files' = [Files EXCEPT ![p] = Settled(p)']
          /\ Kept' = [Kept EXCEPT ![p] = IF Open /\ p \in work THEN backup'[p] ELSE Absent]
      BY <2>1, <3>1, Elsewhere
    <3> QED BY <1>2, <2>1, <2>4, <3>2 DEF Files
  <2>6. Files[p] = backup[p]
    BY <2>4 DEF Files
  <2>7. Atomic!TakeOver(p)
    BY <1>2, <2>1, <2>5, <2>6 DEF Atomic!TakeOver, TakeOver, Files, Kept
  <2> QED BY <2>7, SameTerms DEF Moves, Atomic!Next
<1> QED BY <1>1, <1>2 DEF Link, MayFail

\* A file that only has the transaction's name changed under it.
LEMMA HiddenStep ==
    ASSUME NEW p \in Paths, target \in [Paths -> Content],
           \E c : target' = [target EXCEPT ![p] = c],
           UNCHANGED <<backup, journal, plan, user>>, Settled(p)' = Settled(p)
    PROVE  UNCHANGED Atomic!vars
<1>1. UNCHANGED <<work, base, Open, touched, gone>>
  BY DEF plan, user, Open, Pending
<1>2. \A q \in Paths \ {p} : target'[q] = target[q] /\ backup'[q] = backup[q]
  OBVIOUS
<1>3. Files' = Files
  BY <1>1, <1>2, Elsewhere DEF Files
<1>4. Kept' = Kept
  BY <1>1 DEF Kept
<1> QED BY <1>1, <1>3, <1>4 DEF Atomic!vars, Files, Kept

LEMMA PutBackLinkStep == ASSUME SInv, NEW p \in Paths, PutBackLink(p) PROVE Moves
<1>1. CASE UNCHANGED disk
  BY <1>1, SameIsStutter DEF PutBackLink, Same, disk, user, plan, Open, Pending, Moves
<1>2. CASE /\ target[p] = Absent
           /\ target' = [target EXCEPT ![p] = backup[p]]
           /\ UNCHANGED <<backup, journal, plan, user>>
  <2>1. /\ p \in work /\ Open /\ Open' /\ backup[p] # Absent
        /\ target \in [Paths -> Content]
    BY <1>2, AtEntry DEF PutBackLink, Open, Pending, SInv, IInv, TypeOK, HInv, RestoreInv, Moving
  <2>2. Settled(p)' = Settled(p)
    <3>1. target'[p] = backup[p] /\ New(p)' = New(p) /\ backup'[p] = backup[p] /\ work' = work
          /\ base'[p] = base[p]
      BY <1>2, <2>1 DEF New, plan
    <3> QED BY <1>2, <2>1, <3>1 DEF Settled, Owned
  <2> QED BY <1>2, <2>1, <2>2, HiddenStep DEF Moves
<1> QED BY <1>1, <1>2 DEF PutBackLink, MayFail

\* The backup goes, and the file stands for itself again.
LEMMA GiveBackStep ==
    ASSUME SInv, NEW p \in Paths, Open, p \in work, backup[p] # Absent,
           UNCHANGED <<journal, plan, user>>,
           target' = [target EXCEPT ![p] = target'[p]],
           backup' = [backup EXCEPT ![p] = Absent],
           \/ target'[p] = Settled(p)
           \/ p \in gone /\ target'[p] = Absent
    PROVE  Moves
<1>1. /\ UNCHANGED <<work, base, Open, touched, gone>> /\ Open'
      /\ target \in [Paths -> Content] /\ backup \in [Paths -> Content]
      /\ base[p] # Absent /\ New(p)' = New(p)
  BY DEF plan, user, Open, Pending, SInv, IInv, TypeOK, ScopeInv, New
<1>2. Settled(p)' = target'[p]
  BY <1>1 DEF Settled
<1>3. \A q \in Paths \ {p} : target'[q] = target[q] /\ backup'[q] = backup[q]
  BY <1>1
<1>4. Files' = [Files EXCEPT ![p] = target'[p]] /\ Kept' = [Kept EXCEPT ![p] = Absent]
  <2>1. /\ Files' = [Files EXCEPT ![p] = Settled(p)']
        /\ Kept' = [Kept EXCEPT ![p] = IF Open /\ p \in work THEN backup'[p] ELSE Absent]
    BY <1>1, <1>3, Elsewhere
  <2> QED BY <1>1, <1>2, <2>1
<1>5. Files' = Files \/ (p \in gone /\ Files' = [Files EXCEPT ![p] = Absent])
  BY <1>4 DEF Files
<1>6. Atomic!GiveBack(p)
  BY <1>1, <1>4, <1>5, SameTerms DEF Atomic!GiveBack, Files, Kept
<1> QED BY <1>6, SameTerms DEF Moves, Atomic!Next

LEMMA PutBackUnlinkStep == ASSUME SInv, NEW p \in Paths, PutBackUnlink(p) PROVE Moves
<1>1. CASE UNCHANGED disk
  BY <1>1, SameIsStutter DEF PutBackUnlink, Same, disk, user, plan, Open, Pending, Moves
<1>2. CASE /\ backup' = [backup EXCEPT ![p] = Absent]
           /\ UNCHANGED <<target, journal, plan, user>>
  <2>1. /\ p \in work /\ Open /\ backup[p] # Absent /\ target \in [Paths -> Content]
        /\ GivenBack(p)
    BY AtEntry DEF PutBackUnlink, Open, Pending, SInv, IInv, TypeOK, HInv, RestoreInv, ReturnedInv, Moving
  <2>2. base[p] # Absent /\ New(p).header
    BY <2>1, DistinctContents DEF SInv, ScopeInv, New
  <2>3. target[p] = Settled(p) \/ (p \in gone /\ target[p] = Absent)
    <3>1. CASE target[p] # Absent /\ ~target[p].header
      <4>1. target[p] # New(p)
        BY <2>2, <3>1, Zenon
      <4>2. target[p] # Absent
        BY <3>1
      <4>3. target[p] = Settled(p)
        BY <4>1, <4>2 DEF Settled, Owned
      <4> QED BY <4>3
    <3>2. CASE target[p] = backup[p]
      BY <2>2, <3>2 DEF Settled
    <3> QED BY <2>1, <3>1, <3>2 DEF GivenBack
  <2> QED BY <1>2, <2>1, <2>3, GiveBackStep
<1> QED BY <1>1, <1>2 DEF PutBackUnlink, MayFail

LEMMA RollbackRenameStep == ASSUME ~CheckActRace, SInv, NEW p \in Paths, RollbackRename(p) PROVE Moves
<1>1. CASE UNCHANGED <<target, backup>>
  BY <1>1, SameIsStutter DEF RollbackRename, Same, user, plan, Open, Pending, Moves
<1>2. CASE /\ target' = [target EXCEPT ![p] = backup[p]]
           /\ backup' = [backup EXCEPT ![p] = Absent]
  <2>1. /\ p \in work /\ Open /\ backup[p] # Absent /\ target[p] = Absent
        /\ target \in [Paths -> Content]
    BY AtEntry DEF RollbackRename, Open, Pending, SInv, IInv, TypeOK, LoopInv, CheckInv, Rolling
  <2>2. backup[p] = Settled(p)
    BY <2>1 DEF Settled, Owned
  <2>3. target'[p] = backup[p] /\ target' = [target EXCEPT ![p] = target'[p]]
    BY <1>2, <2>1
  <2> QED BY <1>2, <2>1, <2>2, <2>3, GiveBackStep DEF RollbackRename
<1> QED BY <1>1, <1>2 DEF RollbackRename

LEMMA RollbackRemoveStep == ASSUME ~CheckActRace, SInv, NEW p \in Paths, RollbackRemove(p) PROVE Moves
<1>1. CASE UNCHANGED target
  BY <1>1, SameIsStutter DEF RollbackRemove, Same, user, plan, Open, Pending, Moves
<1>2. CASE target' = [target EXCEPT ![p] = Absent]
  <2>1. /\ p \in work /\ Open /\ backup[p] # Absent /\ Owned(p)
        /\ target \in [Paths -> Content]
    BY AtEntry DEF RollbackRemove, Open, Pending, SInv, IInv, TypeOK, LoopInv, CheckInv, Rolling
  <2>2. UNCHANGED <<backup, journal, plan, user, Open, work>> /\ target'[p] = Absent
    BY <1>2, <2>1 DEF RollbackRemove, Open, Pending, plan
  <2>3. Settled(p)' = Settled(p)
    BY <2>1, <2>2 DEF Settled, Owned
  <2> QED BY <1>2, <2>1, <2>2, <2>3, HiddenStep DEF Moves
<1> QED BY <1>1, <1>2 DEF RollbackRemove

LEMMA RollbackDropStep == ASSUME ~CheckActRace, SInv, NEW p \in Paths, RollbackDrop(p) PROVE Moves
<1>1. CASE UNCHANGED target
  BY <1>1, SameIsStutter DEF RollbackDrop, Same, user, plan, Open, Pending, Moves
<1>2. CASE target' = [target EXCEPT ![p] = Absent]
  <2>1. /\ p \in work /\ backup[p] = Absent /\ base[p] = Absent /\ Owned(p)
        /\ target \in [Paths -> Content] /\ journal.state # "complete"
        /\ ~Pending => ~PutThere(p)
    BY AtEntry DEF RollbackDrop, SInv, IInv, TypeOK, LoopInv, CheckInv, ReturnedInv, Rolling
  <2>2. UNCHANGED <<backup, journal, plan, user, Open, work, base>> /\ target'[p] = Absent
    BY <1>2, <2>1 DEF RollbackDrop, Open, Pending, plan
  <2>3. Settled(p)' = Absent
    BY <2>1, <2>2 DEF Settled
  <2>4. Settled(p) = Absent
    BY <2>1 DEF Settled, Owned, PutThere, Open
  <2> QED BY <1>2, <2>1, <2>2, <2>3, <2>4, HiddenStep DEF Moves
<1> QED BY <1>1, <1>2 DEF RollbackDrop

LEMMA RollbackEndStep == ASSUME SInv, RollbackEnd PROVE Moves
<1>1. pc \in Rolling /\ UNCHANGED <<target, backup, work, base, touched, gone>>
  BY DEF RollbackEnd, Rolling, plan, user
<1>2. CASE journal' \in {journal, SetState("rollback_failed")}
  BY <1>1, <1>2, RollMarkStep
<1>3. CASE failed = {} /\ journal' = NoJournal
  <2>1. ~Open' /\ TypeOK' /\ TypeOK
    BY <1>1, <1>3, TypeStep DEF Open, Pending, SInv, IInv, Next, Process
  <2>2. CASE ~Open
    BY <1>1, <2>1, <2>2, ClosedIsStutter DEF Moves
  <2>3. CASE Open
    <3>1. \A p \in work : backup[p] = Absent /\ ~PutThere(p)
      BY <1>1, <1>3 DEF RollbackEnd, SInv, IInv, LoopInv, ReturnedInv
    <3>2. \A p \in Paths : Settled(p) = target[p]
      BY <3>1 DEF Settled, PutThere
    <3>3. Files = target
      BY <2>1, <3>2 DEF Files, TypeOK
    <3>4. Files' = target' /\ Kept' = Atomic!Nothing
      BY <2>1, SameTerms DEF Files, Kept, Settled, TypeOK, Atomic!Nothing
    <3>5. work # {}
      BY <1>1 DEF SInv, ScopeInv
    <3>6. Atomic!Abort
      BY <1>1, <2>1, <2>3, <3>3, <3>4, <3>5 DEF Atomic!Abort, Atomic!Idle, Files, Kept
    <3> QED BY <3>6 DEF Moves, Atomic!Next
  <2> QED BY <2>2, <2>3
<1> QED BY <1>2, <1>3 DEF RollbackEnd

LEMMA CompleteStep == ASSUME SInv, MarkComplete PROVE Moves
<1>1. UNCHANGED <<target, backup, work, base, touched, gone>> /\ Open /\ TypeOK
  BY DEF MarkComplete, plan, user, SInv, IInv, JournalInv, Open, Trying, Validating, Staging, Cleaning, Finalizing
<1>2. CASE journal' = journal
  BY <1>1, <1>2, SameIsStutter DEF Same, Open, Pending, Moves
<1>3. CASE journal'.state = "complete"
  <2>1. ~Open' /\ TypeOK'
    BY <1>3, TypeStep DEF Open, SInv, IInv, Next, Process
  <2>2. work # {} /\ \A p \in work : Replaced(p)
    BY DEF MarkComplete, SInv, ScopeInv, ReplacedInv, Trying, Validating
  <2>3. \A p \in Paths : target[p] = IF p \in gone THEN Absent
                                     ELSE IF p \in work \ touched THEN Render(Settled(p))
                                     ELSE Settled(p)
    <3> TAKE p \in Paths
    <3>1. New(p).header /\ New(p) # Absent
      BY DistinctContents DEF New
    <3>2. CASE p \notin work
      BY <3>2, <1>1 DEF Settled, SInv, ScopeInv
    <3>3. CASE p \in gone /\ p \in work
      BY <2>2, <3>3 DEF Replaced, SInv, ScopeInv
    <3>4. CASE p \in work \ touched
      <4>1. target[p] = New(p) /\ backup[p] = base[p] /\ p \notin gone
        BY <2>2, <3>4 DEF Replaced, SInv, ScopeInv
      <4>2. Settled(p) = base[p]
        BY <1>1, <3>1, <3>4, <4>1 DEF Settled, Owned
      <4> QED BY <3>4, <4>1, <4>2 DEF New
    <3>5. CASE p \in work /\ p \in touched \ gone
      BY <1>1, <2>2, <3>1, <3>5 DEF Replaced, Settled, Owned
    <3> QED BY <3>2, <3>3, <3>4, <3>5
  <2>4. Files' = target' /\ Kept' = Atomic!Nothing
    BY <2>1, SameTerms DEF Files, Kept, Settled, TypeOK, Atomic!Nothing
  <2>5. Files' = [p \in Paths |-> IF p \in gone THEN Absent
                                  ELSE IF p \in work \ touched THEN Render(Files[p])
                                  ELSE Files[p]]
    <3>1. target = [p \in Paths |-> IF p \in gone THEN Absent
                                    ELSE IF p \in work \ touched THEN Render(Settled(p))
                                    ELSE Settled(p)]
      BY <1>1, <2>3 DEF TypeOK
    <3> QED BY <1>1, <2>4, <3>1 DEF Files
  <2>6. Atomic!Commit
    BY <1>1, <2>1, <2>2, <2>4, <2>5, SameTerms DEF Atomic!Commit, Atomic!Idle, Files, Kept
  <2> QED BY <2>6 DEF Moves, Atomic!Next
<1> QED BY <1>2, <1>3 DEF MarkComplete, Mark

LEMMA UserWriteStep == ASSUME SInv, NEW p \in Paths, NEW b \in Bodies, UserWrite(p, b) PROVE Moves
<1>1. /\ UNCHANGED <<backup, work, base, Open>>
      /\ target \in [Paths -> Content] /\ touched' = touched \cup {p} /\ gone' = gone \ {p}
  BY DEF UserWrite, plan, Open, Pending, SInv, IInv, TypeOK
<1>2. \A q \in Paths \ {p} : target'[q] = target[q] /\ backup'[q] = backup[q]
  BY <1>1 DEF UserWrite
<1>3. Settled(p)' = Raw(b)
  <2>1. target'[p] = Raw(b) /\ Raw(b) # Absent /\ Raw(b) # New(p)'
    BY <1>1, DistinctContents DEF UserWrite, New
  <2> QED BY <2>1 DEF Settled, Owned
<1>4. Files' = [Files EXCEPT ![p] = Raw(b)] /\ Kept' = Kept
  <2>1. Files' = [Files EXCEPT ![p] = Settled(p)']
    BY <1>1, <1>2, Elsewhere
  <2>2. Kept' = Kept
    BY <1>1 DEF Kept
  <2> QED BY <1>3, <2>1, <2>2
<1>5. Open => work # {}
  BY DEF Open, SInv, ScopeInv
<1>6. Atomic!UserWrite(p, b)
  BY <1>1, <1>4, <1>5, SameTerms DEF Atomic!UserWrite, Files, Kept
<1> QED BY <1>6, SameTerms DEF Moves, Atomic!Next

LEMMA UserDeleteStep == ASSUME SInv, NEW p \in Paths, UserDelete(p) PROVE Moves
<1>1. /\ UNCHANGED <<backup, work, base, Open>>
      /\ target \in [Paths -> Content] /\ touched' = touched \cup {p} /\ gone' = gone \cup {p}
  BY DEF UserDelete, plan, Open, Pending, SInv, IInv, TypeOK
<1>2. \A q \in Paths \ {p} : target'[q] = target[q] /\ backup'[q] = backup[q]
  BY <1>1 DEF UserDelete
<1>3. Settled(p)' = Kept[p]
  <2>1. target'[p] = Absent /\ New(p)' # Absent
    BY <1>1, DistinctContents DEF UserDelete, New
  <2> QED BY <1>1, <2>1 DEF Settled, Owned, Kept
<1>4. Files' = [Files EXCEPT ![p] = Kept[p]] /\ Kept' = Kept
  <2>1. Files' = [Files EXCEPT ![p] = Settled(p)']
    BY <1>1, <1>2, Elsewhere
  <2>2. Kept' = Kept
    BY <1>1 DEF Kept
  <2> QED BY <1>3, <2>1, <2>2
<1>5. Open => work # {}
  BY DEF Open, SInv, ScopeInv
<1>6. Atomic!UserDelete(p)
  BY <1>1, <1>4, <1>5, SameTerms DEF Atomic!UserDelete, Files, Kept
<1> QED BY <1>6, SameTerms DEF Moves, Atomic!Next

LEMMA AtomicInit == Init => Atomic!Init
<1> SUFFICES ASSUME Init PROVE Atomic!Init
  OBVIOUS
<1>1. ~Open /\ TypeOK
  BY TypeInit DEF Init, Open, Pending
<1>2. Files = target /\ Kept = Atomic!Nothing
  BY <1>1, WhenClosed
<1>3. target \in [Atomic!Paths -> {Atomic!Absent} \cup {Atomic!Raw(b) : b \in Bodies}]
  BY SameTerms DEF Init
<1> QED BY <1>1, <1>2, <1>3 DEF Atomic!Init, Files, Kept

LEMMA AtomicStep == ASSUME ~CheckActRace, ~StaleWriters, SInv, [Next]_vars PROVE Moves
<1>1. CASE Start \/ Prepare \/ MarkAllStaged \/ Expect \/ MarkCommitting \/ Post
           \/ MarkValidating \/ Validate
  BY <1>1, PlainStep, SameIsStutter DEF Moves
<1>2. CASE Plan \/ CleanJournal \/ FinalCheck \/ FinalEnd
  BY <1>2, ClosedStep DEF Moves
<1>3. CASE CreateJournal \/ MarkComplete \/ RollbackEnd
  BY <1>3, CreateStep, CompleteStep, RollbackEndStep
<1>4. CASE RollbackMark
  <2>1. journal' \in {journal, SetState("rolling_back")} /\ pc \in {"rb_mark"} \cup Rolling
        /\ UNCHANGED <<target, backup, work, base, touched, gone>>
    BY <1>4 DEF RollbackMark, plan, user
  <2> QED BY <2>1, RollMarkStep
<1>5. ASSUME NEW p \in Paths, Commit(p) PROVE Moves
  <2>1. CASE StageTemp(p) \/ MarkStaged(p) \/ Verify(p) \/ MarkBackedUp(p) \/ Unlink(p) \/ MarkCommitted(p)
    BY <2>1, PlainStep, SameIsStutter DEF Moves
  <2>2. CASE BackUp(p) \/ Link(p) \/ PutBackLink(p) \/ PutBackUnlink(p)
    BY <2>2, BackUpStep, LinkStep, PutBackLinkStep, PutBackUnlinkStep
  <2> QED BY <1>5, <2>1, <2>2 DEF Commit
<1>6. ASSUME NEW p \in Paths, Rollback(p) PROVE Moves
  <2>1. CASE RollbackRead(p) \/ RollbackTemp(p)
    BY <2>1, PlainStep, SameIsStutter DEF Moves
  <2>2. CASE RollbackRemove(p) \/ RollbackRename(p) \/ RollbackDrop(p)
    BY <2>2, RollbackRemoveStep, RollbackRenameStep, RollbackDropStep
  <2> QED BY <1>6, <2>1, <2>2 DEF Rollback
<1>7. ASSUME NEW p \in Paths, CleanUp(p) PROVE Moves
  <2>1. CASE CleanCheck(p)
    BY <2>1, PlainStep, SameIsStutter DEF Moves
  <2>2. CASE CleanRemove(p) \/ FinalRemove(p)
    BY <2>2, ClosedStep DEF Moves
  <2> QED BY <1>7, <2>1, <2>2 DEF CleanUp
<1>8. CASE Environment
  <2>1. CASE Crash
    BY <2>1, PlainStep, SameIsStutter DEF Moves
  <2>2. ASSUME NEW p \in Paths PROVE UserDelete(p) => Moves
    BY UserDeleteStep
  <2>3. ASSUME NEW p \in Paths, NEW b \in Bodies PROVE UserWrite(p, b) => Moves
    BY UserWriteStep
  <2>4. ASSUME NEW p \in Paths, NEW b \in Bodies PROVE ~StaleWrite(p, b)
    BY DEF StaleWrite
  <2> QED BY <1>8, <2>1, <2>2, <2>3, <2>4 DEF Environment
<1>9. CASE UNCHANGED vars
  <2>1. Same
    BY <1>9 DEF vars, disk, proc, plan, user, Same, Open, Pending
  <2> QED BY <2>1, SameIsStutter DEF Moves
<1> QED BY <1>1, <1>2, <1>3, <1>4, <1>5, <1>6, <1>7, <1>8, <1>9 DEF Next, Process

(* Where no user's write falls between a check and the deletion it allows,  *)
(* and none into a backup, the journaled protocol, its crashes, failures,   *)
(* recoveries and users included, is one atomic replacement of the set: all *)
(* the files change at the durable `complete`, or none does.                *)
THEOREM ApplyIsAtomic == ~CheckActRace /\ ~StaleWriters => (Spec => IsAtomic)
<1> SUFFICES ASSUME ~CheckActRace, ~StaleWriters PROVE Spec => IsAtomic
  OBVIOUS
<1>1. SInv /\ [Next]_vars => SInv'
  BY StandStep
<1>2. SInv /\ [Next]_vars => [Atomic!Next]_(Atomic!vars)
  BY AtomicStep DEF Moves
<1> QED BY StandInit, AtomicInit, <1>1, <1>2, PTL DEF Spec, IsAtomic, Atomic!Spec
=============================================================================
