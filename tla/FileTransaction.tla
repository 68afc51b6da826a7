-------------------------- MODULE FileTransaction --------------------------
(***************************************************************************)
(* The governed apply of the injector as src/src/file_transaction.ts and   *)
(* src/src/apply.ts run it: recover what an earlier run left behind, plan, *)
(* then replace a set of files under one durable journal.                  *)
(*                                                                         *)
(* A file is told apart only as far as the code tells it apart: whose      *)
(* words it holds and whether the metadata header is in place.  Every      *)
(* system call that another process or a crash can fall behind is a step   *)
(* of its own.  A user edits, deletes and creates targets at any time; a   *)
(* user program that opened the original before it was renamed still       *)
(* writes into the backup.                                                 *)
(***************************************************************************)
EXTENDS Naturals, FiniteSets

CONSTANTS
    N,              \* number of files the planner can touch, in path order
    Bodies,         \* what a user can write into a file
    Created,        \* the files an apply creates when they are missing
    CheckActRace,   \* may a user write land between a check and the deletion it allows?
    StaleWriters,   \* may a user program write through a descriptor opened earlier?
    MaxEdits,       \* bound on user writes and deletions
    MaxCrashes,     \* bound on crashes of the process
    MaxFaults       \* bound on system calls, hooks and validations that fail

Paths == 1 .. N

ASSUME NAssumption == N \in Nat
ASSUME BodiesAssumption == {"none", "generated", "partial"} \cap Bodies = {}
ASSUME CreatedAssumption == Created \subseteq Paths
ASSUME FlagAssumption == CheckActRace \in BOOLEAN /\ StaleWriters \in BOOLEAN
ASSUME BoundAssumption == MaxEdits \in Nat /\ MaxCrashes \in Nat /\ MaxFaults \in Nat

VARIABLES
    target,     \* the files themselves
    temp,       \* `.name.l9txn-id-NNNN.tmp` beside each
    backup,     \* `.name.l9txn-id-NNNN.bak` beside each
    journal,    \* the journal on disk, or NoJournal
    next,       \* is there a `.json.next` left of an unfinished journal write?
    pc,         \* where the process is
    todo,       \* entries the current loop has still to visit
    tx,         \* journal state and entry states in memory
    failed,     \* entries whose rollback or cleanup failed in this run
    recovering, \* is the rollback under way the one of a recovery?
    work,       \* the prepared entries of the transaction ...
    base,       \* ... and the bytes each was planned from
    outcome,    \* how the last run ended
    last,       \* history: what the user last left in each file
    touched,    \* history: files the user changed since the plan
    gone,       \* history: files the user deleted while the transaction held them
    edits, crashes, faults

disk  == <<target, temp, backup, journal, next>>
proc  == <<pc, todo, tx, failed, recovering, outcome>>
plan  == <<work, base>>
user  == <<last, touched, gone, edits>>
vars  == <<disk, proc, plan, user, crashes, faults>>

-----------------------------------------------------------------------------
(* Contents *)

Content   == [body : Bodies \cup {"none", "generated", "partial"}, header : BOOLEAN]
Absent    == [body |-> "none", header |-> FALSE]
Generated == [body |-> "generated", header |-> TRUE]
Partial   == [body |-> "partial", header |-> FALSE]
Raw(b)    == [body |-> b, header |-> FALSE]

\* The complete replacement bytes: the header is put in place, the body is kept.
Render(c) == IF c = Absent THEN Generated ELSE [body |-> c.body, header |-> TRUE]

New(p) == Render(base[p])

EntryStates   == {"planned", "staged", "backed_up", "committed", "validated"}
JournalStates == {"preparing", "staged", "committing", "validating", "complete",
                  "rolling_back", "rollback_failed"}
Journals  == [state : JournalStates \cup {"none"}, es : [Paths -> EntryStates]]
NoJournal == [state |-> "none", es |-> [p \in Paths |-> "planned"]]

\* Mutants, here and below, are what a slip in the code would make of the
\* definition that follows: no action uses them.
Mutant_OwnsEverything(p) == TRUE

Pending == journal # NoJournal
Owned(p) == target[p] \in {Absent, New(p)}

First(p, S) == p \in S /\ \A q \in S : p <= q
Last(p, S)  == p \in S /\ \A q \in S : q <= p

-----------------------------------------------------------------------------
Init ==
    /\ target \in [Paths -> {Absent} \cup {Raw(b) : b \in Bodies}]
    /\ temp = [p \in Paths |-> Absent]
    /\ backup = [p \in Paths |-> Absent]
    /\ journal = NoJournal /\ next = FALSE
    /\ pc = "idle" /\ todo = {} /\ tx = NoJournal /\ failed = {}
    /\ recovering = FALSE /\ outcome = "none"
    /\ work = {} /\ base = target
    /\ last = [p \in Paths |-> target[p].body]
    /\ touched = {} /\ gone = {}
    /\ edits = 0 /\ crashes = 0 /\ faults = 0

Goto(l) == pc' = l
Fails   == faults < MaxFaults /\ faults' = faults + 1
Sound   == UNCHANGED faults

\* `catch (error)` of executeFileTransaction: whatever was thrown, roll back.
Throw == Goto("rb_mark") /\ recovering' = FALSE

\* Mutant: a failure after the rename is thrown too, as a failed directory sync.
Mutant_ThrowsAfterRename(t, label) ==
    /\ tx' = t /\ next' = FALSE
    /\ \/ Sound /\ journal' = t /\ Goto(label) /\ UNCHANGED recovering
       \/ Fails /\ Throw /\ journal' \in {journal, t}

\* writeJournal: `.next` is written, then renamed over the journal.  Nothing
\* after the rename throws: a directory that cannot be synced is no failure.
Mark(t, label) ==
    /\ tx' = t
    /\ \/ /\ Sound /\ journal' = t /\ next' = FALSE
          /\ Goto(label) /\ UNCHANGED recovering
       \/ /\ Fails /\ Throw
          /\ UNCHANGED journal /\ next' \in BOOLEAN

SetEntry(p, s) == [tx EXCEPT !.es[p] = s]
SetState(s)    == [tx EXCEPT !.state = s]

\* Any call that can fail and leaves the disk as it was.
MayFail == Fails /\ Throw /\ UNCHANGED <<disk, tx, todo>>

-----------------------------------------------------------------------------
(* The run: recovery, then the plan *)

Start ==
    /\ pc = "idle"
    /\ outcome' = "running" /\ failed' = {}
    /\ IF Pending
         THEN /\ tx' = journal /\ todo' = work /\ recovering' = TRUE
              /\ Goto(IF journal.state = "complete" THEN "final_check" ELSE "rb_mark")
              /\ UNCHANGED next
         ELSE /\ Goto("plan") /\ next' = FALSE
              /\ UNCHANGED <<tx, todo, recovering>>
    /\ UNCHANGED <<target, temp, backup, journal, plan, user, crashes, faults>>

\* The planner reads every file; what needs no change makes no entry.
Plan ==
    /\ pc = "plan"
    /\ base' = target
    /\ work' = {p \in Paths : /\ target[p] = Absent => p \in Created
                              /\ Render(target[p]) # target[p]}
    /\ tx' = [state |-> "preparing", es |-> [p \in Paths |-> "planned"]]
    /\ touched' = {} /\ gone' = {}
    /\ recovering' = FALSE
    /\ Goto("prepare")
    /\ UNCHANGED <<disk, todo, failed, outcome, last, edits, crashes, faults>>

Finish(how) == Goto("idle") /\ outcome' = how

\* prepareEntries: the plan is stale when a file changed since it was read.
Prepare ==
    /\ pc = "prepare"
    /\ \/ \E p \in work : target[p] # base[p] /\ Finish("stale")
       \/ work = {} /\ Finish("unchanged")
       \/ /\ work # {} /\ \A p \in work : target[p] = base[p]
          /\ Goto("create") /\ UNCHANGED outcome
    /\ UNCHANGED <<disk, todo, tx, failed, recovering, plan, user, crashes, faults>>

-----------------------------------------------------------------------------
(* executeFileTransaction, inside its try block *)

CreateJournal ==
    /\ pc = "create" /\ todo' = work
    /\ Mark(tx, "stage")
    /\ UNCHANGED <<target, temp, backup, failed, outcome, plan, user, crashes>>

StageTemp(p) ==
    /\ pc = "stage" /\ First(p, todo)
    /\ \/ /\ Sound /\ temp' = [temp EXCEPT ![p] = New(p)]
          /\ Goto("mark_staged") /\ UNCHANGED recovering
       \/ /\ Fails /\ Throw
          /\ \E c \in {Absent, Partial, New(p)} : temp' = [temp EXCEPT ![p] = c]
    /\ UNCHANGED <<target, backup, journal, next, todo, tx, failed, outcome, plan, user, crashes>>

MarkStaged(p) ==
    /\ pc = "mark_staged" /\ First(p, todo)
    /\ todo' = todo \ {p}
    /\ Mark(SetEntry(p, "staged"), IF todo = {p} THEN "mark_all_staged" ELSE "stage")
    /\ UNCHANGED <<target, temp, backup, failed, outcome, plan, user, crashes>>

MarkAllStaged ==
    /\ pc = "mark_all_staged"
    /\ Mark(SetState("staged"), "expect")
    /\ UNCHANGED <<target, temp, backup, todo, failed, outcome, plan, user, crashes>>

\* The before_commit hook, then assertExpected for every entry.
Expect ==
    /\ pc = "expect"
    /\ \/ /\ \A p \in work : target[p] = base[p]
          /\ Sound /\ Goto("mark_committing") /\ UNCHANGED <<disk, tx, todo, recovering>>
       \/ /\ \E p \in work : target[p] # base[p]
          /\ Sound /\ Throw /\ UNCHANGED <<disk, tx, todo>>
       \/ MayFail
    /\ UNCHANGED <<failed, outcome, plan, user, crashes>>

MarkCommitting ==
    /\ pc = "mark_committing" /\ todo' = work
    /\ Mark(SetState("committing"), "commit")
    /\ UNCHANGED <<target, temp, backup, failed, outcome, plan, user, crashes>>

\* An edit that was undone by the time the file is taken over is none.
TakeOver(p, asPlanned) ==
    /\ touched' = IF asPlanned THEN touched \ {p} ELSE touched
    /\ gone' = IF asPlanned THEN gone \ {p} ELSE gone
    /\ UNCHANGED <<last, edits>>

\* rename(target, backup); a target the user deleted makes it throw.
BackUp(p) ==
    /\ pc = "commit" /\ First(p, todo) /\ base[p] # Absent
    /\ \/ /\ target[p] # Absent /\ Sound
          /\ backup' = [backup EXCEPT ![p] = target[p]]
          /\ target' = [target EXCEPT ![p] = Absent]
          /\ TakeOver(p, target[p] = base[p])
          /\ Goto("verify") /\ UNCHANGED <<temp, journal, next, tx, todo, recovering>>
       \/ target[p] = Absent /\ Sound /\ Throw /\ UNCHANGED <<disk, tx, todo, user>>
       \/ MayFail /\ UNCHANGED user
    /\ UNCHANGED <<failed, outcome, plan, crashes>>

\* holdsBytes(backup, originalHash): was it the planned original that was moved?
Verify(p) ==
    /\ pc = "verify" /\ First(p, todo)
    /\ \/ /\ Sound /\ Goto(IF backup[p] = base[p] THEN "mark_backed_up" ELSE "put_back")
          /\ UNCHANGED <<disk, tx, todo, recovering>>
       \/ MayFail
    /\ UNCHANGED <<failed, outcome, plan, user, crashes>>

\* moveNoReplace(backup, target): link unless the name exists, then unlink.
PutBackLink(p) ==
    /\ pc = "put_back" /\ First(p, todo)
    /\ \/ /\ target[p] = Absent /\ Sound
          /\ target' = [target EXCEPT ![p] = backup[p]]
          /\ Goto("put_unlink") /\ UNCHANGED <<temp, backup, journal, next, tx, todo, recovering>>
       \/ target[p] # Absent /\ Sound /\ Throw /\ UNCHANGED <<disk, tx, todo>>
       \/ MayFail
    /\ UNCHANGED <<failed, outcome, plan, user, crashes>>

PutBackUnlink(p) ==
    /\ pc = "put_unlink" /\ First(p, todo)
    /\ \/ /\ Sound /\ Throw
          /\ backup' = [backup EXCEPT ![p] = Absent]
          /\ UNCHANGED <<target, temp, journal, next, tx, todo>>
       \/ MayFail
    /\ UNCHANGED <<failed, outcome, plan, user, crashes>>

MarkBackedUp(p) ==
    /\ pc = "mark_backed_up" /\ First(p, todo)
    /\ Mark(SetEntry(p, "backed_up"), "link")
    /\ UNCHANGED <<target, temp, backup, todo, failed, outcome, plan, user, crashes>>

\* moveNoReplace(temp, target), its link ...
Link(p) ==
    /\ First(p, todo)
    /\ pc = "link" \/ (pc = "commit" /\ base[p] = Absent)
    /\ \/ /\ target[p] = Absent /\ Sound
          /\ target' = [target EXCEPT ![p] = temp[p]]
          /\ TakeOver(p, backup[p] = base[p])
          /\ Goto("unlink") /\ UNCHANGED <<temp, backup, journal, next, tx, todo, recovering>>
       \/ target[p] # Absent /\ Sound /\ Throw /\ UNCHANGED <<disk, tx, todo, user>>
       \/ MayFail /\ UNCHANGED user
    /\ UNCHANGED <<failed, outcome, plan, crashes>>

\* ... and its unlink
Unlink(p) ==
    /\ pc = "unlink" /\ First(p, todo)
    /\ \/ /\ Sound /\ temp' = [temp EXCEPT ![p] = Absent]
          /\ Goto("mark_committed")
          /\ UNCHANGED <<target, backup, journal, next, tx, todo, recovering>>
       \/ MayFail
    /\ UNCHANGED <<failed, outcome, plan, user, crashes>>

MarkCommitted(p) ==
    /\ pc = "mark_committed" /\ First(p, todo)
    /\ todo' = todo \ {p}
    /\ Mark(SetEntry(p, "committed"), IF todo = {p} THEN "post" ELSE "commit")
    /\ UNCHANGED <<target, temp, backup, failed, outcome, plan, user, crashes>>

\* assertPostconditions, and validateCommittedPlan, which checks the hashes again.
AllNew == \A p \in work : target[p] = New(p)

Post ==
    /\ pc = "post"
    /\ \/ AllNew /\ Sound /\ Goto("mark_validating") /\ UNCHANGED <<disk, tx, todo, recovering>>
       \/ ~AllNew /\ Sound /\ Throw /\ UNCHANGED <<disk, tx, todo>>
       \/ MayFail
    /\ UNCHANGED <<failed, outcome, plan, user, crashes>>

MarkValidating ==
    /\ pc = "mark_validating"
    /\ Mark(SetState("validating"), "validate")
    /\ UNCHANGED <<target, temp, backup, todo, failed, outcome, plan, user, crashes>>

Validate ==
    /\ pc = "validate"
    /\ \/ AllNew /\ Sound /\ Goto("mark_complete") /\ UNCHANGED <<disk, tx, todo, recovering>>
       \/ ~AllNew /\ Sound /\ Throw /\ UNCHANGED <<disk, tx, todo>>
       \/ MayFail
    /\ UNCHANGED <<failed, outcome, plan, user, crashes>>

MarkComplete ==
    /\ pc = "mark_complete" /\ todo' = work
    /\ Mark([state |-> "complete",
             es |-> [p \in Paths |-> IF p \in work THEN "validated" ELSE tx.es[p]]],
            "clean_check")
    /\ UNCHANGED <<target, temp, backup, failed, outcome, plan, user, crashes>>

-----------------------------------------------------------------------------
(* Cleanup after `complete`, outside the rollback boundary *)

AfterClean(p) == Goto(IF todo = {p} THEN "clean_journal" ELSE "clean_check")

\* A backup that no longer holds the original, or a failing call, is left for later.
CleanCheck(p) ==
    /\ pc = "clean_check" /\ First(p, todo)
    /\ \/ /\ Sound /\ backup[p] \in {Absent, base[p]}
          /\ Goto("clean_remove") /\ UNCHANGED <<todo, failed>>
       \/ /\ \/ Sound /\ backup[p] \notin {Absent, base[p]}
             \/ Fails
          /\ failed' = failed \cup {p} /\ todo' = todo \ {p} /\ AfterClean(p)
    /\ UNCHANGED <<disk, tx, recovering, outcome, plan, user, crashes>>

CleanRemove(p) ==
    /\ pc = "clean_remove" /\ First(p, todo)
    /\ todo' = todo \ {p} /\ AfterClean(p)
    /\ \/ Sound /\ backup' = [backup EXCEPT ![p] = Absent] /\ UNCHANGED failed
       \/ Fails /\ failed' = failed \cup {p} /\ UNCHANGED backup
    /\ UNCHANGED <<target, temp, journal, next, tx, recovering, outcome, plan, user, crashes>>

CleanJournal ==
    /\ pc = "clean_journal"
    /\ \/ /\ failed = {} /\ Sound /\ journal' = NoJournal /\ next' = FALSE
          /\ Finish("applied")
       \/ /\ (failed # {} /\ Sound) \/ (failed = {} /\ Fails)
          /\ UNCHANGED <<journal, next>> /\ Finish("cleanup_pending")
    /\ UNCHANGED <<target, temp, backup, todo, tx, failed, recovering, plan, user, crashes>>

-----------------------------------------------------------------------------
(* rollbackEntries: shared by a failed run and by recovery *)

\* Mutant: only the entries marked as changed are rolled back.
Mutant_TrustsTheMarks ==
    /\ pc = "rb_mark" /\ Sound
    /\ todo' = {p \in work : tx.es[p] \in {"backed_up", "committed", "validated"}}
    /\ tx' = SetState("rolling_back") /\ journal' = tx' /\ next' = FALSE /\ failed' = {}
    /\ Goto("rb_read")
    /\ UNCHANGED <<target, temp, backup, recovering, outcome, plan, user, crashes>>

\* A failing write of the rolling_back mark does not stop the restore.
RollbackMark ==
    /\ pc = "rb_mark"
    /\ tx' = SetState("rolling_back") /\ todo' = work /\ failed' = {}
    /\ \/ Sound /\ journal' = tx' /\ next' = FALSE
       \/ Fails /\ UNCHANGED journal /\ next' \in BOOLEAN
    /\ Goto("rb_read")
    /\ UNCHANGED <<target, temp, backup, recovering, outcome, plan, user, crashes>>

\* Mutants: the failure is forgotten; the entry is tried again and again.
Mutant_ForgetsFailure(p) == UNCHANGED failed /\ todo' = todo \ {p} /\ Goto("rb_read")
Mutant_TriesAgain(p) == failed' = failed \cup {p} /\ UNCHANGED todo /\ Goto("rb_read")

\* One entry failed: note it, keep its files, go on with the next one.
GiveUp(p) == failed' = failed \cup {p} /\ todo' = todo \ {p} /\ Goto("rb_read")

\* Compare-and-swap on the target: what is not the transaction's own is kept.
RollbackRead(p) ==
    /\ pc = "rb_read" /\ Last(p, todo)
    /\ \/ /\ backup[p] # Absent /\ Owned(p) /\ Sound
          /\ Goto("rb_remove") /\ UNCHANGED <<todo, failed>>
       \/ /\ backup[p] = Absent /\ base[p] = Absent /\ target[p] = New(p) /\ Sound
          /\ Goto("rb_drop") /\ UNCHANGED <<todo, failed>>
       \/ /\ backup[p] = Absent
          /\ ~(base[p] = Absent /\ target[p] # Absent
               /\ (target[p] = New(p) \/ tx.es[p] \in {"committed", "validated"}))
          /\ Sound /\ Goto("rb_temp") /\ UNCHANGED <<todo, failed>>
       \/ /\ \/ backup[p] # Absent /\ ~Owned(p)
             \/ /\ backup[p] = Absent /\ base[p] = Absent
                /\ ~Owned(p) /\ tx.es[p] \in {"committed", "validated"}
          /\ Sound /\ GiveUp(p)
       \/ Fails /\ GiveUp(p)
    /\ UNCHANGED <<disk, tx, recovering, outcome, plan, user, crashes>>

RollbackRemove(p) ==
    /\ pc = "rb_remove" /\ Last(p, todo)
    /\ \/ /\ Sound /\ target' = [target EXCEPT ![p] = Absent]
          /\ Goto("rb_rename") /\ UNCHANGED <<todo, failed>>
       \/ Fails /\ GiveUp(p) /\ UNCHANGED target
    /\ UNCHANGED <<temp, backup, journal, next, tx, recovering, outcome, plan, user, crashes>>

\* rename(backup, target) replaces whatever has the name by now.
RollbackRename(p) ==
    /\ pc = "rb_rename" /\ Last(p, todo)
    /\ \/ /\ Sound /\ target' = [target EXCEPT ![p] = backup[p]]
          /\ backup' = [backup EXCEPT ![p] = Absent]
          /\ Goto("rb_temp") /\ UNCHANGED <<todo, failed>>
       \/ Fails /\ GiveUp(p) /\ UNCHANGED <<target, backup>>
    /\ UNCHANGED <<temp, journal, next, tx, recovering, outcome, plan, user, crashes>>

RollbackDrop(p) ==
    /\ pc = "rb_drop" /\ Last(p, todo)
    /\ \/ /\ Sound /\ target' = [target EXCEPT ![p] = Absent]
          /\ Goto("rb_temp") /\ UNCHANGED <<todo, failed>>
       \/ Fails /\ GiveUp(p) /\ UNCHANGED target
    /\ UNCHANGED <<temp, backup, journal, next, tx, recovering, outcome, plan, user, crashes>>

\* The temp goes; an entry the transaction had changed must be back at its original.
RollbackTemp(p) ==
    /\ pc = "rb_temp" /\ Last(p, todo)
    /\ \/ /\ Sound /\ temp' = [temp EXCEPT ![p] = Absent]
          /\ todo' = todo \ {p} /\ Goto("rb_read")
          /\ LET changed == tx.es[p] \in {"backed_up", "committed", "validated"}
                            \/ backup[p] # Absent
             IN failed' = IF changed /\ target[p] # base[p] THEN failed \cup {p} ELSE failed
       \/ Fails /\ GiveUp(p) /\ UNCHANGED temp
    /\ UNCHANGED <<target, backup, journal, next, tx, recovering, outcome, plan, user, crashes>>

RollbackEnd ==
    /\ pc = "rb_read" /\ todo = {}
    /\ \/ /\ failed # {} /\ tx' = SetState("rollback_failed")
          /\ \/ Sound /\ journal' = tx' /\ next' = FALSE
             \/ Fails /\ UNCHANGED journal /\ next' \in BOOLEAN
          /\ Finish("rollback_failed")
       \/ /\ failed = {} /\ Sound
          /\ journal' = NoJournal /\ next' = FALSE /\ UNCHANGED tx
          /\ IF recovering THEN Goto("plan") /\ UNCHANGED outcome ELSE Finish("rolled_back")
       \/ /\ failed = {} /\ Fails /\ UNCHANGED <<journal, next, tx>>
          /\ Finish("rollback_failed")
    /\ UNCHANGED <<target, temp, backup, todo, failed, recovering, plan, user, crashes>>

-----------------------------------------------------------------------------
(* recoverPendingTransactions on a `complete` journal *)

\* Mutant: a backup that is gone already is taken for a changed one.
Mutant_WantsEveryBackup ==
    /\ pc = "final_check"
    /\ IF AllNew /\ \A p \in work : backup[p] = base[p]
         THEN Goto("final_remove") /\ UNCHANGED outcome
         ELSE Finish("refused")
    /\ UNCHANGED <<disk, todo, tx, failed, recovering, plan, user, crashes, faults>>

FinalCheck ==
    /\ pc = "final_check"
    /\ IF /\ AllNew
          /\ \A p \in work : backup[p] \in {Absent, base[p]}
         THEN Goto("final_remove") /\ UNCHANGED outcome
         ELSE Finish("refused")
    /\ UNCHANGED <<disk, todo, tx, failed, recovering, plan, user, crashes, faults>>

FinalRemove(p) ==
    /\ pc = "final_remove" /\ First(p, todo)
    /\ \/ /\ Sound /\ todo' = todo \ {p}
          /\ backup' = [backup EXCEPT ![p] = Absent]
          /\ temp' = [temp EXCEPT ![p] = Absent]
          /\ UNCHANGED <<pc, outcome>>
       \/ Fails /\ Finish("refused") /\ UNCHANGED <<backup, temp, todo>>
    /\ UNCHANGED <<target, journal, next, tx, failed, recovering, plan, user, crashes>>

FinalEnd ==
    /\ pc = "final_remove" /\ todo = {}
    /\ \/ Sound /\ journal' = NoJournal /\ next' = FALSE /\ Goto("plan") /\ UNCHANGED outcome
       \/ Fails /\ Finish("refused") /\ UNCHANGED <<journal, next>>
    /\ UNCHANGED <<target, temp, backup, todo, tx, failed, recovering, plan, user, crashes>>

-----------------------------------------------------------------------------
(* The environment *)

\* Between a check of p and the deletion it allows, with nothing in between.
TargetWindow(p) == pc \in {"rb_remove", "rb_rename", "rb_drop"} /\ Last(p, todo)
BackupWindow(p) ==
    \/ pc = "clean_remove" /\ First(p, todo)
    \/ pc = "final_remove" /\ p \in todo
    \/ pc = "put_unlink" /\ First(p, todo)  \* backup and target are one file here

\* Where a journal write is under way.
Marking == {"create", "mark_staged", "mark_all_staged", "mark_committing", "mark_backed_up",
            "mark_committed", "mark_validating", "mark_complete", "rb_mark", "rb_read"}

Edit == edits < MaxEdits /\ edits' = edits + 1

UserWrite(p, b) ==
    /\ Edit /\ (CheckActRace \/ ~TargetWindow(p))
    /\ target' = [target EXCEPT ![p] = Raw(b)]
    /\ last' = [last EXCEPT ![p] = b]
    /\ touched' = touched \cup {p} /\ gone' = gone \ {p}
    /\ UNCHANGED <<temp, backup, journal, next, proc, plan, crashes, faults>>

UserDelete(p) ==
    /\ Edit /\ target[p] # Absent
    /\ target' = [target EXCEPT ![p] = Absent]
    /\ last' = [last EXCEPT ![p] = "none"]
    /\ touched' = touched \cup {p} /\ gone' = gone \cup {p}
    /\ UNCHANGED <<temp, backup, journal, next, proc, plan, crashes, faults>>

\* A program that opened the original before it was moved aside saves its work.
StaleWrite(p, b) ==
    /\ Edit /\ StaleWriters /\ (CheckActRace \/ ~BackupWindow(p))
    /\ backup[p] # Absent /\ b # base[p].body
    /\ backup' = [backup EXCEPT ![p] = Raw(b)]
    /\ last' = [last EXCEPT ![p] = b]
    /\ touched' = touched \cup {p}
    /\ UNCHANGED <<target, temp, journal, next, proc, plan, gone, crashes, faults>>

\* The process dies: memory is lost, a journal or staging write may be cut short.
Crash ==
    /\ pc # "idle" /\ crashes < MaxCrashes /\ crashes' = crashes + 1
    /\ pc' = "idle" /\ outcome' = "crashed"
    /\ todo' = {} /\ tx' = NoJournal /\ failed' = {} /\ recovering' = FALSE
    /\ next' \in {next, next \/ pc \in Marking}
    /\ \/ UNCHANGED temp
       \/ \E p \in Paths : /\ pc = "stage" /\ First(p, todo)
                           /\ temp' = [temp EXCEPT ![p] = Partial]
    /\ UNCHANGED <<target, backup, journal, plan, user, faults>>

-----------------------------------------------------------------------------
Commit(p) ==
    \/ StageTemp(p) \/ MarkStaged(p) \/ BackUp(p) \/ Verify(p) \/ PutBackLink(p)
    \/ PutBackUnlink(p) \/ MarkBackedUp(p) \/ Link(p) \/ Unlink(p) \/ MarkCommitted(p)
Rollback(p) ==
    \/ RollbackRead(p) \/ RollbackRemove(p) \/ RollbackRename(p)
    \/ RollbackDrop(p) \/ RollbackTemp(p)
CleanUp(p) == CleanCheck(p) \/ CleanRemove(p) \/ FinalRemove(p)

Process ==
    \/ Start \/ Plan \/ Prepare
    \/ CreateJournal \/ MarkAllStaged \/ Expect \/ MarkCommitting
    \/ Post \/ MarkValidating \/ Validate \/ MarkComplete \/ CleanJournal
    \/ RollbackMark \/ RollbackEnd \/ FinalCheck \/ FinalEnd
    \/ \E p \in Paths : Commit(p) \/ Rollback(p) \/ CleanUp(p)

Environment ==
    \/ Crash
    \/ \E p \in Paths : UserDelete(p) \/ \E b \in Bodies : UserWrite(p, b) \/ StaleWrite(p, b)

Next == Process \/ Environment

Spec == Init /\ [][Next]_vars

\* Someone runs apply again and again, and the machine does run it.
FairSpec == Spec /\ WF_vars(Process)
-----------------------------------------------------------------------------
(* Properties *)

PCs == {"idle", "plan", "prepare", "create", "stage", "mark_staged", "mark_all_staged",
        "expect", "mark_committing", "commit", "verify", "put_back", "put_unlink",
        "mark_backed_up", "link", "unlink", "mark_committed", "post", "mark_validating",
        "validate", "mark_complete", "clean_check", "clean_remove", "clean_journal",
        "rb_mark", "rb_read", "rb_remove", "rb_rename", "rb_drop", "rb_temp",
        "final_check", "final_remove"}
Outcomes == {"none", "running", "stale", "unchanged", "applied", "cleanup_pending",
             "rolled_back", "rollback_failed", "refused", "crashed"}

(* Every variable stays in its type. *)
TypeOK ==
    /\ target \in [Paths -> Content]
    /\ temp \in [Paths -> Content]
    /\ backup \in [Paths -> Content]
    /\ journal \in Journals
    /\ next \in BOOLEAN
    /\ pc \in PCs /\ todo \in SUBSET Paths /\ failed \in SUBSET Paths
    /\ tx \in Journals
    /\ recovering \in BOOLEAN /\ outcome \in Outcomes
    /\ work \in SUBSET Paths /\ base \in [Paths -> Content]
    /\ last \in [Paths -> Bodies \cup {"none", "generated"}]
    /\ touched \in SUBSET Paths /\ gone \in SUBSET Paths
    /\ edits \in Nat /\ crashes \in Nat /\ faults \in Nat

(* What a user last wrote into a file is never destroyed: whatever failed,  *)
(* crashed or raced, the file or its backup still holds those words.        *)
UserWorkSurvives ==
    \A p \in Paths :
        last[p] \in Bodies => last[p] \in {target[p].body, backup[p].body}

(* Staged and backed-up files are always accounted for by a journal, so a   *)
(* recovery can find them.                                                  *)
LeftoversAreJournaled ==
    ~Pending => \A p \in Paths : temp[p] = Absent /\ backup[p] = Absent

(* INV-021: a transaction that is given up is given up whole. When its      *)
(* journal goes without having been complete, every file is as planned from *)
(* or as the user left it since.                                            *)
RollbackRestoresAll ==
    [][Pending /\ journal.state # "complete" /\ ~Pending'
         => \A p \in work : target[p] = base[p] \/ p \in touched]_vars

(* `complete` is durable before cleanup: from then on no step but a user's  *)
(* changes a target, and the journal only ever goes away.                   *)
CompleteIsFinal ==
    [][journal.state = "complete"
         => /\ journal' \in {journal, NoJournal}
            /\ target' = target \/ edits' # edits]_vars

(* rollbackEntries: "a target is replaced or deleted only while it is       *)
(* absent or still holds the transaction's own bytes".                      *)
RollbackTakesOnlyItsOwn ==
    [][\A p \in Paths :
         pc \in {"rb_remove", "rb_rename", "rb_drop"} /\ target'[p] # target[p] /\ edits' = edits
           => target[p] \in {Absent, New(p)}]_vars

(* Whatever crashed or failed, a transaction no user interfered with is     *)
(* eventually completed and cleaned up, or rolled back: it never blocks the *)
(* next apply for good.                                                     *)
PendingIsResolved == Pending ~> (~Pending \/ touched # {})

(* No apply runs forever: recovery, run and rollback all come to an end.    *)
RunsEnd == []<>(pc = "idle")

-----------------------------------------------------------------------------
(* What the tree stands for: while the transaction is not complete, an      *)
(* entry it has changed stands for what its rollback would bring back.      *)

Open == Pending /\ journal.state # "complete"
Settled(p) ==
    IF Open /\ p \in work /\ Owned(p) /\ backup[p] # Absent THEN backup[p]
    ELSE IF Open /\ p \in work /\ target[p] = New(p) /\ base[p] = Absent THEN Absent
    ELSE target[p]

Atomic == INSTANCE AtomicApply WITH
    files   <- [p \in Paths |-> Settled(p)],
    planned <- IF Open THEN work ELSE {},
    kept    <- [p \in Paths |-> IF Open /\ p \in work THEN backup[p] ELSE Absent],
    touched <- IF Open THEN touched ELSE {},
    gone    <- IF Open THEN gone ELSE {}

(* The journaled protocol is, crashes and faults included, one atomic       *)
(* replacement of the set, whose instant is the durable `complete`.         *)
IsAtomic == Atomic!Spec
=============================================================================
