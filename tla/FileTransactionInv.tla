------------------------ MODULE FileTransactionInv ------------------------
(***************************************************************************)
(* The inductive invariants behind the safety properties: what the process *)
(* knows at each of its steps, where a user's words are meanwhile (IInv),  *)
(* what the files are that a rollback would leave (HInv), and what the     *)
(* tree stands for at each step of the one replacement it is (SInv).       *)
(***************************************************************************)
EXTENDS FileTransaction

Staging    == {"create", "stage", "mark_staged", "mark_all_staged", "expect", "mark_committing"}
Moving     == {"verify", "put_back", "put_unlink", "mark_backed_up", "link", "unlink",
               "mark_committed"}
Validating == {"mark_validating", "validate", "mark_complete"}
Trying     == Staging \cup {"commit", "post"} \cup Moving \cup Validating
Rolling    == {"rb_read", "rb_remove", "rb_rename", "rb_drop", "rb_temp"}
Cleaning   == {"clean_check", "clean_remove", "clean_journal"}
Finalizing == {"final_check", "final_remove"}

(* The journal and the step the process is at agree. *)
JournalInv ==
    /\ pc \in {"plan", "prepare", "create"} => ~Pending
    /\ pc \in Trying \ {"create"} => Pending
    /\ pc \in Trying \cup {"prepare"} => tx.state \notin {"none", "complete"}
    /\ pc \in Cleaning \cup Finalizing => journal.state = "complete"
    /\ journal.state = "complete" => pc \in {"idle"} \cup Cleaning \cup Finalizing

(* The loops visit entries of the transaction; a finished entry is settled. *)
LoopInv ==
    /\ pc \in (Trying \ {"create"}) \cup Rolling \cup Cleaning \cup Finalizing => todo \subseteq work
    /\ pc \in Rolling \cup Cleaning =>
         \A p \in work : p \in todo \/ p \in failed \/ backup[p] = Absent
    /\ pc \in {"rb_drop", "rb_temp"} => \A p \in todo : Last(p, todo) => backup[p] = Absent
    /\ pc \in {"rb_remove", "rb_rename"} => \A p \in todo : Last(p, todo) => backup[p] # Absent
    /\ pc = "clean_journal" => todo = {}
    /\ pc = "final_check" => todo = work
    /\ pc = "final_remove" => \A p \in work : p \in todo \/ backup[p] = Absent

(* A backup is one of the pending transaction's, and made only once. *)
BackupInv ==
    /\ ~Pending => \A p \in Paths : backup[p] = Absent
    /\ \A p \in Paths \ work : backup[p] = Absent
    /\ pc \in Staging => \A p \in Paths : backup[p] = Absent
    /\ pc = "commit" => \A p \in todo : backup[p] = Absent
    /\ pc \in Moving => \A p \in todo : First(p, todo) \/ backup[p] = Absent

(* What is about to be linked into place is the replacement. *)
TempInv ==
    /\ pc = "stage" => \A p \in work \ todo : temp[p] = New(p)
    /\ pc = "mark_staged" => \A p \in work : p \notin todo \/ First(p, todo) => temp[p] = New(p)
    /\ pc \in {"mark_all_staged", "expect", "mark_committing"} =>
         \A p \in work : temp[p] = New(p)
    /\ pc \in {"commit"} \cup Moving =>
         \A p \in todo : \/ temp[p] = New(p)
                         \/ pc \in {"unlink", "mark_committed"} /\ First(p, todo)

(* What a check established still holds when the deletion it allows is made. *)
CheckInv ==
    /\ pc = "clean_remove" => \A p \in todo : First(p, todo) => backup[p] \in {Absent, base[p]}
    /\ pc = "final_remove" => \A p \in todo : backup[p] \in {Absent, base[p]}
    /\ pc = "rb_remove" => \A p \in todo : Last(p, todo) => Owned(p)
    /\ pc = "rb_rename" => \A p \in todo : Last(p, todo) => target[p] = Absent
    /\ pc = "rb_drop" => \A p \in todo : Last(p, todo) => base[p] = Absent /\ Owned(p)

\* The words the user last left in p are in content c, if the user left any.
Keeps(c, p) == last[p] \in Bodies => last[p] = c.body

(* Where the user's words are while a backup exists. *)
CustodyInv ==
    \A p \in Paths : backup[p] # Absent =>
        /\ Owned(p) => Keeps(backup[p], p)
        /\ backup[p] = base[p] /\ target[p] # Absent => Keeps(target[p], p)
        /\ pc = "put_unlink" /\ First(p, todo) => Keeps(target[p], p)
        /\ /\ journal.state = "complete" \/ pc \in Validating
           /\ backup[p] = base[p] /\ target[p] = Absent
           => last[p] \notin Bodies

IInv ==
    /\ TypeOK
    /\ JournalInv
    /\ LoopInv
    /\ BackupInv
    /\ TempInv
    /\ CheckInv
    /\ CustodyInv
    /\ UserWorkSurvives

(* A staged file is one of the pending transaction's, until it is linked    *)
(* into place and unlinked, or removed by the rollback.                     *)
LeftoverInv ==
    /\ ~Pending => \A p \in Paths : temp[p] = Absent
    /\ \A p \in Paths \ work : temp[p] = Absent
    /\ pc \in {"commit"} \cup Moving => \A p \in work : p \in todo \/ temp[p] = Absent
    /\ pc = "mark_committed" => \A p \in todo : First(p, todo) => temp[p] = Absent
    /\ journal.state = "complete" \/ pc \in {"post"} \cup Validating =>
         \A p \in work : temp[p] = Absent
    /\ pc \in Rolling => \A p \in work : p \in todo \/ p \in failed \/ temp[p] = Absent

\* As planned from, or as the user left it since.
Untaken(p) == target[p] = base[p] \/ p \in touched

\* The transaction may still be rolled back.
Revocable ==
    /\ journal.state # "complete"
    /\ Pending \/ pc \in {"prepare", "create", "rb_mark"} \cup Rolling

\* A backup holds what was planned from or the user's, and so, without one, does the
\* file, unless it is the transaction's to delete.
Covered(p) ==
    /\ backup[p] # Absent => backup[p] = base[p] \/ p \in touched
    /\ backup[p] = Absent => Untaken(p) \/ (base[p] = Absent /\ target[p] = New(p))

(* What a rollback would leave is what was planned from, or the user's.     *)
RestoreInv ==
    /\ Revocable => \A p \in work : Covered(p)
    /\ pc \in {"verify", "put_back", "put_unlink", "mark_backed_up", "link"} =>
         \A p \in todo : First(p, todo) => backup[p] # Absent
    /\ pc \in {"put_back", "put_unlink"} => \A p \in todo : First(p, todo) => p \in touched
    /\ pc = "rb_drop" => \A p \in todo : Last(p, todo) => base[p] = Absent
    /\ pc = "rb_temp" => \A p \in todo : Last(p, todo) => Untaken(p)
    /\ pc \in Rolling => \A p \in work : p \in todo \/ p \in failed \/ Untaken(p)

HInv ==
    /\ TypeOK
    /\ JournalInv
    /\ LoopInv
    /\ BackupInv
    /\ TempInv
    /\ LeftoverInv
    /\ RestoreInv
\* A file the transaction has put where there was none.
PutThere(p) == base[p] = Absent /\ target[p] = New(p)

\* Replaced, and then at most changed by its user.
Replaced(p) ==
    /\ backup[p] = base[p]
    /\ \/ p \notin touched /\ target[p] = New(p)
       \/ p \in touched \ gone /\ target[p] # Absent /\ ~target[p].header
       \/ p \in gone /\ target[p] = Absent

\* Given back as it was found, and then at most changed by its user.
GivenBack(p) ==
    \/ target[p] = backup[p]
    \/ p \in gone /\ target[p] = Absent
    \/ target[p] # Absent /\ ~target[p].header

(* The transaction is not empty, and backs up only what there was. *)
ScopeInv ==
    /\ Pending \/ pc \in {"rb_mark"} \cup Trying \cup Rolling => work # {}
    /\ \A p \in Paths : backup[p] # Absent => base[p] # Absent
    /\ gone \subseteq touched /\ \A p \in gone \ work : target[p] = Absent

(* While nobody writes into a backup, an entry that is done is replaced. *)
ReplacedInv ==
    /\ pc \in {"mark_backed_up", "link"} => \A p \in todo : First(p, todo) => backup[p] = base[p]
    /\ pc \in {"commit"} \cup Moving => \A p \in work \ todo : Replaced(p)
    /\ pc \in {"unlink", "mark_committed"} => \A p \in todo : First(p, todo) => Replaced(p)
    /\ pc \in {"post"} \cup Validating => \A p \in work : Replaced(p)

(* What was rolled back stands for itself, and so does all before a journal. *)
ReturnedInv ==
    /\ ~Pending /\ pc \in {"prepare", "create", "rb_mark"} \cup Rolling =>
         \A p \in work : ~PutThere(p)
    /\ pc = "put_unlink" => \A p \in todo : First(p, todo) => GivenBack(p)
    /\ pc \in Rolling => \A p \in work : p \in todo \/ p \in failed \/ ~PutThere(p)
    /\ pc = "rb_temp" => \A p \in todo : Last(p, todo) => ~PutThere(p)

SInv ==
    /\ IInv
    /\ HInv
    /\ ScopeInv
    /\ ReplacedInv
    /\ ReturnedInv
=============================================================================
