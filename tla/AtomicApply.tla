---------------------------- MODULE AtomicApply ----------------------------
(***************************************************************************)
(* What a governed apply promises (ADR-027, INV-021): a set of files is    *)
(* replaced as one, or not at all; what a user does to a file meanwhile    *)
(* wins over the replacement.                                              *)
(***************************************************************************)
EXTENDS Naturals, FiniteSets

CONSTANTS N, Bodies

VARIABLES
    files,      \* what each file holds
    planned,    \* the set being replaced, {} when none is
    kept,       \* the version held safe of a file the apply has taken over
    touched,    \* files the user wrote or deleted meanwhile ...
    gone        \* ... and those of them the user deleted last

vars == <<files, planned, kept, touched, gone>>

Paths   == 1 .. N
Absent  == [body |-> "none", header |-> FALSE]
Raw(b)  == [body |-> b, header |-> FALSE]
Render(c) == [body |-> IF c = Absent THEN "generated" ELSE c.body, header |-> TRUE]

Nothing == [p \in Paths |-> Absent]
Idle    == planned' = {} /\ kept' = Nothing /\ touched' = {} /\ gone' = {}

Init ==
    /\ files \in [Paths -> {Absent} \cup {Raw(b) : b \in Bodies}]
    /\ planned = {} /\ kept = Nothing /\ touched = {} /\ gone = {}

\* The user may have changed files between the plan and this instant.
Begin ==
    /\ planned = {}
    /\ planned' \in (SUBSET Paths) \ {{}}
    /\ touched' \in SUBSET Paths /\ gone' \in SUBSET touched'
    /\ UNCHANGED <<files, kept>>

\* The apply takes the file as it is now: an edit that was undone is none.
TakeOver(p) ==
    /\ p \in planned
    /\ kept' = [kept EXCEPT ![p] = files[p]]
    /\ \/ UNCHANGED <<touched, gone>>
       \/ touched' = touched \ {p} /\ gone' = gone \ {p}
    /\ UNCHANGED <<files, planned>>

\* The file is given back; a deletion that was waiting takes effect, or is undone.
GiveBack(p) ==
    /\ kept' = [kept EXCEPT ![p] = Absent]
    /\ \/ UNCHANGED files
       \/ p \in gone /\ files' = [files EXCEPT ![p] = Absent]
    /\ UNCHANGED <<planned, touched, gone>>

Commit ==
    /\ planned # {} /\ Idle
    /\ files' = [p \in Paths |->
                   IF p \in gone THEN Absent
                   ELSE IF p \in planned \ touched THEN Render(files[p])
                   ELSE files[p]]

Abort == planned # {} /\ Idle /\ UNCHANGED files

UserWrite(p, b) ==
    /\ files' = [files EXCEPT ![p] = Raw(b)]
    /\ IF planned = {} THEN UNCHANGED <<touched, gone>>
                       ELSE touched' = touched \cup {p} /\ gone' = gone \ {p}
    /\ UNCHANGED <<planned, kept>>

\* A file the apply has taken over stays what is held safe until the commit.
UserDelete(p) ==
    /\ files' = [files EXCEPT ![p] = kept[p]]
    /\ IF planned = {} THEN UNCHANGED <<touched, gone>>
                       ELSE touched' = touched \cup {p} /\ gone' = gone \cup {p}
    /\ UNCHANGED <<planned, kept>>

Next ==
    \/ Begin \/ Commit \/ Abort
    \/ \E p \in Paths :
          \/ TakeOver(p) \/ GiveBack(p) \/ UserDelete(p)
          \/ \E b \in Bodies : UserWrite(p, b)

Spec == Init /\ [][Next]_vars
=============================================================================
