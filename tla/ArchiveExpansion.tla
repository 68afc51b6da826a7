-------------------------- MODULE ArchiveExpansion --------------------------
(***************************************************************************)
(* expandArchivesUnderRoot of src/src/archives.ts: every archive below a   *)
(* root is expanded beside itself, and then those found inside, under one  *)
(* budget for the run.  An expansion is written to a candidate directory   *)
(* and swapped into place; a user keeps working in the tree, and the       *)
(* process may die between any two system calls.                           *)
(*                                                                         *)
(* `tree` maps paths to nodes.  A path is a sequence of steps; a step has  *)
(* the `mark` of a candidate or of what was moved aside, and the `run` that*)
(* made it.                                                                *)
(***************************************************************************)
EXTENDS ArchivePreflight, FiniteSets, Functions

CONSTANTS
    Archives,       \* file names of archives
    ExtractDir,     \* file name -> name of the directory it expands into
    Contents,       \* what an archive may hold
    Directory,      \* content -> its central directory
    Size,           \* content -> bytes of the archive file
    Names,          \* archives a user may put under the root
    None,
    MaxRuns, MaxEdits, MaxFailures  \* bounds on runs, the user, and crashes and errors

\* The name of the file a member becomes.
FileNameOf(e) == Last(CanonicalMemberPath(e.name))

ASSUME ExtractDirAssumption == DOMAIN ExtractDir = Archives /\ Names \subseteq Archives
ASSUME ContentsAssumption == None \notin Contents \cup Archives /\ Size \in [Contents -> Nat]
ASSUME DirectoryAssumption ==
    \A c \in Contents :
        /\ DOMAIN Directory[c] = 1 .. Len(Directory[c]) /\ Len(Directory[c]) \in Nat
        /\ \A i \in DOMAIN Directory[c] :
            LET e == Directory[c][i]
            IN  /\ e.name \in Seq(STRING)
                /\ e.kind \in {"file", "directory", "symlink", "special", "unknown"}
                /\ e.declares \in Nat /\ e.yields \in Nat
                /\ FileNameOf(e) \in Archives => e.holds \in Contents

VARIABLES
    tree,           \* the source tree
    pc, dry,        \* where the run is, and whether it may write
    queue, seen,    \* archives to visit, and visited
    at,             \* the one at hand: its path and depth
    staged,         \* the content of its snapshot
    written, bytes, \* members written to the candidate, and their size
    backup,         \* was an earlier extraction there (hadPrevious)?
    late,           \* has the run used up its time?
    spent, opened,  \* ArchiveSessionBudget
    kept,           \* history: bytes this run wrote and did not remove
    told, quiet,    \* history: what the last dry run would extract, undisturbed?
    work,           \* history: directories users made, not in the excused window
    safe,           \* history: extractions once whole that no user removed
    strays,         \* history: directories the run may have had to leave behind
    runs, edits, failures

source  == <<tree, work, safe, strays>>
visit   == <<at, staged, written, bytes, backup>>
budget  == <<spent, opened, kept>>
oracle  == <<told, quiet>>
bounds  == <<runs, edits, failures>>
expansionVars    == <<source, pc, dry, queue, seen, visit, late, budget, oracle, bounds>>

-----------------------------------------------------------------------------
(* Paths and nodes *)

Plain(name) == [name |-> name, mark |-> "plain", run |-> 0]
InDirectory(dir, canonical) == dir \o [i \in DOMAIN canonical |-> Plain(canonical[i])]

Node(kind, of, whose) == [kind |-> kind, of |-> of, whose |-> whose]
IsZip(t, p) == p \in DOMAIN t /\ t[p].kind = "zip"
Owned(t, d) == d \in DOMAIN t /\ t[d].kind = "dir" /\ t[d].whose # None

ExtractDirFor(p) == Append(Front(p), Plain(ExtractDir[Last(p).name]))
Beside(d, mark) ==
    Append(Front(d), [name |-> Last(d).name, mark |-> mark, run |-> runs])
Target    == ExtractDirFor(at.path)
Candidate == Beside(Target, "candidate")
Previous  == Beside(Target, "previous")

Inside(t, d)  == {p \in DOMAIN t : IsPrefix(d, p)}
Stands(t, d)  == Inside(t, d) # {}
Without(t, d) == Restrict(t, DOMAIN t \ Inside(t, d))
With(t, p, node) == [q \in DOMAIN t \cup {p} |-> IF q = p THEN node ELSE t[q]]
Rebased(p, from, to) == to \o SubSeq(p, Len(from) + 1, Len(p))
Moved(t, from, to) ==
    LET arrived == {Rebased(p, from, to) : p \in Inside(t, from)}
    IN  [p \in (DOMAIN t \ Inside(t, from)) \cup arrived |->
            IF p \in arrived THEN t[Rebased(p, to, from)] ELSE t[p]]

\* Archives a walk finds: what an earlier run extracted is skipped, by its marker.
FindArchives(t) ==
    {p \in DOMAIN t : IsZip(t, p) /\
        \A n \in 1 .. Len(p) - 1 : Owned(t, SubSeq(p, 1, n)) => p[n].mark # "plain"}

\* In one fixed order, as the sorting of the code has it.
Queued(paths, depth) == SetToSeq({[path |-> p, depth |-> depth] : p \in paths})

EnqueueNestedZips(d, depth) ==
    IF depth >= Policy.depth THEN <<>>
    ELSE Queued({p \in Inside(tree, d) : IsZip(tree, p)}, depth + 1)

-----------------------------------------------------------------------------
(* Admission *)

\* extractionRefusalReason: exact provenance, never a suffix or a guess.
MayReplace(d, archive) == Stands(tree, d) => Owned(tree, d) /\ tree[d].whose = archive

Verdicts == [c \in Contents |->
                [depth \in 0 .. Policy.depth |-> PreflightArchive(Directory[c], depth, Size[c])]]
Preflight == Verdicts[staged][at.depth]
Members   == Preflight.members

\* ArchiveSessionBudget.refuseReason
SessionAdmits ==
    opened < Policy.archives /\ ~late /\ spent + Preflight.declared <= Policy.session

\* streamVerifiedMember: the allowance left to one more member ...
Ceiling(done) ==
    LET rest(limit, used) == IF limit > used THEN limit - used ELSE 0
        allowances == {Policy.member, rest(Policy.archive, done), rest(Policy.session, spent + done)}
    IN  CHOOSE n \in allowances : \A m \in allowances : n <= m

\* ... which must be some, even for an empty one, and must bound what it yields.
Streams(e, done) ==
    /\ Ceiling(done) > 0
    /\ e.yields = e.declares /\ e.yields \in 0 .. Ceiling(done)
    /\ e.yields > 0 => ~late

\* Where member e of content c lands in a directory, and what it leaves there.
Piece(c, e) ==
    IF FileNameOf(e) \in Archives THEN Node("zip", e.holds, None) ELSE Node("file", c, None)
PathIn(d, e) == InDirectory(d, CanonicalMemberPath(e.name))

-----------------------------------------------------------------------------
(* The run *)

ExpansionInit ==
    /\ tree = <<>> /\ work = {} /\ safe = {} /\ strays = 0
    /\ pc = "idle" /\ dry = FALSE /\ queue = <<>> /\ seen = {}
    /\ at = [path |-> <<>>, depth |-> 0] /\ staged = None
    /\ written = 0 /\ bytes = 0 /\ backup = FALSE
    /\ late = FALSE /\ spent = 0 /\ opened = 0 /\ kept = 0
    /\ told = {} /\ quiet = FALSE
    /\ runs = 0 /\ edits = 0 /\ failures = 0

Goto(next) == pc' = next
Unless(limit, count) == count < limit /\ count' = count + 1

\* A run begins: one resolution of the policy, one budget, one walk.
Start(observe) ==
    /\ pc = "idle" /\ Goto("take") /\ Unless(MaxRuns, runs)
    /\ dry' = observe
    /\ queue' = Queued(FindArchives(tree), 0) /\ seen' = {}
    /\ late' = FALSE /\ spent' = 0 /\ opened' = 0 /\ kept' = 0
    /\ IF observe THEN told' = {} /\ quiet' = TRUE ELSE UNCHANGED oracle
    /\ UNCHANGED <<source, visit, edits, failures>>

Finish ==
    /\ pc = "take" /\ queue = <<>> /\ Goto("idle")
    /\ quiet' = (quiet /\ dry)
    /\ UNCHANGED <<source, dry, queue, seen, visit, late, budget, told, bounds>>

Take ==
    /\ pc = "take" /\ queue # <<>>
    /\ queue' = Tail(queue)
    /\ LET next == Head(queue)
       IN  IF next.path \in seen
           THEN UNCHANGED <<pc, seen, visit>>
           ELSE /\ seen' = seen \cup {next.path}
                /\ at' = next /\ Goto("stage")
                /\ staged' = None /\ written' = 0 /\ bytes' = 0 /\ backup' = FALSE
    /\ UNCHANGED <<source, dry, late, budget, oracle, bounds>>

\* The archive at hand is observed and not expanded; the run goes on.
Hold == Goto("take") /\ UNCHANGED <<tree, work, safe, strays, budget, oracle>>

\* ArchiveExecutionContext: the archive is copied and hashed in one pass; every later
\* step reads the copy.
Snapshot == staged

Stage ==
    /\ pc = "stage" /\ IsZip(tree, at.path)
    /\ IF late \/ Size[tree[at.path].of] > Policy.compressed
       THEN Hold /\ UNCHANGED staged
       ELSE /\ Goto("admit") /\ staged' = tree[at.path].of
            /\ UNCHANGED <<source, budget, oracle>>
    /\ UNCHANGED <<dry, queue, seen, at, written, bytes, backup, late, bounds>>

\* expandOneArchive, up to the point where a dry run and a real one part.
Admit ==
    /\ pc = "admit"
    /\ IF MayReplace(Target, Last(at.path).name) /\ Preflight.accepted /\ SessionAdmits
       THEN Goto(IF dry THEN "verify" ELSE "prepare") /\ UNCHANGED <<source, budget, oracle>>
       ELSE Hold
    /\ UNCHANGED <<dry, queue, seen, visit, late, bounds>>

\* Mutant: the budget is charged for the archive, and not for its bytes.
Mutant_FreeOfCharge(total) == spent' = spent /\ opened' = opened + 1

\* recordSuccess
Record(total) == spent' = spent + total /\ opened' = opened + 1

Foretell == Goto("take") /\ told' = told \cup {at.path} /\ Record(bytes)

\* Mutant: a dry run trusts the central directory.
Mutant_ReadsNoMember ==
    /\ pc = "verify" /\ Foretell
    /\ UNCHANGED <<source, dry, queue, seen, visit, late, kept, quiet, bounds>>

\* verifyMembersWithoutMaterializing
Verify ==
    /\ pc = "verify"
    /\ IF written = Len(Members)
       THEN Foretell /\ UNCHANGED <<source, kept, quiet, written, bytes>>
       ELSE LET e == Members[written + 1]
            IN  IF Streams(e, bytes)
                THEN /\ written' = written + 1 /\ bytes' = bytes + e.yields
                     /\ UNCHANGED <<source, pc, budget, oracle>>
                ELSE Hold /\ UNCHANGED <<written, bytes>>
    /\ UNCHANGED <<dry, queue, seen, at, staged, backup, late, bounds>>

-----------------------------------------------------------------------------
(* materializeArchiveContext *)

\* Mutant: an error leaves the candidate where it is.
Mutant_LeavesTheCandidate ==
    /\ UNCHANGED tree
    /\ kept' = (IF pc \in {"drop", "record"} THEN kept ELSE kept - bytes) /\ bytes' = 0

\* After an error the candidate is removed, and the bytes in it.
Cleaned ==
    /\ tree' = Without(tree, Candidate)
    /\ kept' = (IF pc \in {"drop", "record"} THEN kept ELSE kept - bytes) /\ bytes' = 0

\* A refusal the archive earned ...
HoldCandidate ==
    /\ Goto("take") /\ Cleaned
    /\ UNCHANGED <<work, safe, strays, spent, opened, oracle, at, staged, written, backup>>

\* ... and an error it did not: the whole run ends.
Throw ==
    /\ Goto("idle") /\ Cleaned /\ quiet' = FALSE
    /\ UNCHANGED <<work, safe, spent, opened, told, at, staged, written, backup>>

\* The checks of Admit are made again.
Prepare ==
    /\ pc = "prepare"
    /\ CASE ~MayReplace(Target, Last(at.path).name) -> Throw /\ UNCHANGED strays
         [] MayReplace(Target, Last(at.path).name) /\ ~SessionAdmits -> HoldCandidate
         [] OTHER -> /\ Goto("write")
                     /\ tree' = With(tree, Candidate, Node("dir", staged, None))
                     /\ UNCHANGED <<work, safe, strays, visit, budget, oracle>>
    /\ UNCHANGED <<dry, queue, seen, late, bounds>>

\* writeMember, one member at a time, from the copy.
Write ==
    /\ pc = "write" /\ written < Len(Members)
    /\ LET e == Members[written + 1]
       IN  IF Streams(e, bytes)
           THEN /\ tree' = With(tree, PathIn(Candidate, e), Piece(Snapshot, e))
                /\ written' = written + 1
                /\ bytes' = bytes + e.yields /\ kept' = kept + e.yields
                /\ UNCHANGED <<pc, work, safe, strays, at, staged, backup, spent, opened, oracle>>
           ELSE HoldCandidate
    /\ UNCHANGED <<dry, queue, seen, late, bounds>>

\* Mutant: the marker is written before the members.
Mutant_MarksFirst ==
    /\ pc = "write" /\ written = 0 /\ Goto("check")
    /\ tree' = [tree EXCEPT ![Candidate].whose = Last(at.path).name]
    /\ UNCHANGED <<work, safe, strays, dry, queue, seen, visit, late, budget, oracle, bounds>>

\* writeExtractionOwnership: once every member has verified.
Mark ==
    /\ pc = "write" /\ written = Len(Members) /\ Goto("check")
    /\ tree' = [tree EXCEPT ![Candidate].whose = Last(at.path).name]
    /\ UNCHANGED <<work, safe, strays, dry, queue, seen, visit, late, budget, oracle, bounds>>

\* Mutant: the swap trusts the check made before the members were written.
Mutant_ChecksOnce ==
    /\ pc = "check" /\ backup' = Stands(tree, Target)
    /\ Goto(IF Stands(tree, Target) THEN "out" ELSE "in")
    /\ UNCHANGED <<source, at, staged, written, bytes, budget, oracle, dry, queue, seen, late, bounds>>

\* swapCandidateIntoPlace: look once more at what stands there, ...
Check ==
    /\ pc = "check"
    /\ IF MayReplace(Target, Last(at.path).name)
       THEN /\ backup' = Stands(tree, Target)
            /\ Goto(IF Stands(tree, Target) THEN "out" ELSE "in")
            /\ UNCHANGED <<source, at, staged, written, bytes, budget, oracle>>
       ELSE Throw /\ UNCHANGED strays
    /\ UNCHANGED <<dry, queue, seen, late, bounds>>

\* Mutant: what stands there is deleted, and not moved aside.
Mutant_DeletesFirst ==
    /\ pc = "out" /\ Stands(tree, Target) /\ Goto("in")
    /\ tree' = Without(tree, Target)
    /\ UNCHANGED <<work, safe, strays, dry, queue, seen, visit, late, budget, oracle, bounds>>

\* ... move it aside, ...
MoveOut ==
    /\ pc = "out" /\ Stands(tree, Target) /\ Goto("in")
    /\ tree' = Moved(tree, Target, Previous)
    /\ UNCHANGED <<work, safe, strays, dry, queue, seen, visit, late, budget, oracle, bounds>>

\* ... move the candidate in; the rename fails on a directory that is not empty, ...
MoveIn ==
    /\ pc = "in" /\ ~Stands(tree, Target)
    /\ Goto(IF backup THEN "drop" ELSE "record")
    /\ tree' = Moved(tree, Candidate, Target)
    /\ safe' = safe \cup (IF Len(Target) = 1 THEN {Target} ELSE {})
    /\ UNCHANGED <<work, strays, dry, queue, seen, visit, late, budget, oracle, bounds>>

\* ... and drop what was there.
DropBackup ==
    /\ pc = "drop" /\ Goto("record")
    /\ tree' = Without(tree, Previous)
    /\ UNCHANGED <<work, safe, strays, dry, queue, seen, visit, late, budget, oracle, bounds>>

\* recordSuccess, the sidecar, and what the archive held for the queue.
Extracted ==
    /\ pc = "record" /\ Goto("take")
    /\ Record(bytes) /\ bytes' = 0
    /\ queue' = queue \o EnqueueNestedZips(Target, at.depth)
    /\ UNCHANGED <<source, dry, seen, at, staged, written, backup, late, kept, oracle, bounds>>

-----------------------------------------------------------------------------
(* What goes wrong *)

\* The archive is gone, or the rename of a directory that is gone: errors of the system.
Vanished ==
    /\ \/ pc = "stage" /\ ~IsZip(tree, at.path)
       \/ pc = "out" /\ ~Stands(tree, Target)
    /\ Throw /\ UNCHANGED <<strays, dry, queue, seen, late, bounds>>

\* Any other call may fail; behind the swap there is nothing left to clean up.
CallFails ==
    /\ pc \in {"write", "check", "out", "drop", "record"} /\ Unless(MaxFailures, failures)
    /\ Throw /\ strays' = strays + (IF pc = "drop" THEN 1 ELSE 0)
    /\ UNCHANGED <<dry, queue, seen, late, runs, edits>>

\* The candidate cannot be moved in: the backup goes back, unless that fails too.
Restore ==
    /\ pc = "in"
    /\ \/ Stands(tree, Target) /\ UNCHANGED failures
       \/ ~Stands(tree, Target) /\ Unless(MaxFailures, failures)
    /\ Goto("idle") /\ quiet' = FALSE
    /\ LET back == backup /\ ~Stands(tree, Target)
       IN  /\ tree' = Without(IF back THEN Moved(tree, Previous, Target) ELSE tree, Candidate)
           /\ strays' = strays + (IF backup /\ ~back THEN 1 ELSE 0)
    /\ kept' = kept - bytes /\ bytes' = 0
    /\ UNCHANGED <<work, safe, at, staged, written, backup, spent, opened, told>>
    /\ UNCHANGED <<dry, queue, seen, late, runs, edits>>

\* A crash leaves everything where it is.
Crash ==
    /\ pc # "idle" /\ Unless(MaxFailures, failures) /\ Goto("idle")
    /\ quiet' = FALSE /\ strays' = strays + 2
    /\ UNCHANGED <<tree, work, safe, dry, queue, seen, visit, late, budget, told, runs, edits>>

\* The run passes maxProcessingMs.
TimeRunsOut ==
    /\ pc # "idle" /\ ~late /\ late' = TRUE /\ quiet' = FALSE
    /\ UNCHANGED <<source, pc, dry, queue, seen, visit, budget, told, bounds>>

-----------------------------------------------------------------------------
(* The user *)

UserActs ==
    /\ Unless(MaxEdits, edits) /\ quiet' = FALSE
    /\ UNCHANGED <<pc, dry, queue, seen, visit, late, budget, told, runs, failures, strays>>

\* An archive is put under the root, or another in its place.
PutsArchive(name, c) ==
    /\ UserActs /\ (Stands(tree, <<Plain(name)>>) => IsZip(tree, <<Plain(name)>>))
    /\ tree' = With(tree, <<Plain(name)>>, Node("zip", c, None))
    /\ UNCHANGED <<work, safe>>

RemovesArchive(name) ==
    /\ UserActs /\ IsZip(tree, <<Plain(name)>>)
    /\ tree' = Restrict(tree, DOMAIN tree \ {<<Plain(name)>>}) /\ UNCHANGED <<work, safe>>

\* A directory with a name the tool would choose.  Between the last look at the target
\* and the rename the code cannot know of it.
MakesDirectory(name) ==
    LET d == <<Plain(ExtractDir[name])>>
    IN  /\ UserActs /\ ~Stands(tree, d)
        /\ tree' = With(tree, d, Node("user", edits', None))
        /\ work' = IF pc = "out" /\ d = Target THEN work ELSE work \cup {<<d, edits'>>}
        /\ UNCHANGED safe

\* Not while an archive inside it is being expanded: then the tool would be writing into
\* a directory that goes away.
RemovesExtraction(name) ==
    LET d == <<Plain(ExtractDir[name])>>
    IN  /\ UserActs /\ Owned(tree, d) /\ (pc \in {"idle", "take"} \/ Len(at.path) = 1)
        /\ tree' = Without(tree, d) /\ safe' = safe \ {d} /\ UNCHANGED work

User ==
    \E name \in Names :
        \/ \E c \in Contents : PutsArchive(name, c)
        \/ RemovesArchive(name) \/ MakesDirectory(name) \/ RemovesExtraction(name)

Step ==
    \/ \E observe \in BOOLEAN : Start(observe)
    \/ Finish \/ Take \/ Stage \/ Admit \/ Verify
    \/ Prepare \/ Write \/ Mark \/ Check \/ MoveOut \/ MoveIn \/ DropBackup \/ Extracted
    \/ Vanished \/ Restore

ExpansionNext == Step \/ CallFails \/ Crash \/ TimeRunsOut \/ User

ExpansionSpec == ExpansionInit /\ [][ExpansionNext]_expansionVars
-----------------------------------------------------------------------------
(* Properties *)

Places == {"idle", "take", "stage", "admit", "verify", "prepare", "write", "check", "out", "in",
           "drop", "record"}

ExpansionTypeOK ==
    /\ pc \in Places /\ (pc \in {"idle", "take", "stage"} \/ staged \in Contents)
    /\ dry \in BOOLEAN /\ late \in BOOLEAN /\ backup \in BOOLEAN
    /\ quiet \in BOOLEAN
    /\ staged \in Contents \cup {None} /\ at.depth \in Nat
    /\ written \in Nat /\ bytes \in Nat /\ spent \in Nat /\ opened \in Nat
    /\ kept \in Nat /\ strays \in Nat
    /\ runs \in Nat /\ edits \in Nat /\ failures \in Nat

(* "treated as user data and never removed" (archives.ts 198): what a user  *)
(* made where an extraction would go stays there, whatever the run does.    *)
UserDataSurvives ==
    \A made \in work :
        made[1] \in DOMAIN tree /\ tree[made[1]] = Node("user", made[2], None)

(* The marker vouches for the directory (archives.ts 205): every member of  *)
(* the one snapshot it names is there, whatever happened to the archive.    *)
ExtractionsAreWhole ==
    \A d \in DOMAIN tree : Owned(tree, d) =>
        LET c == tree[d].of
        IN  \A i \in DOMAIN Directory[c] : Directory[c][i].kind = "file" =>
                /\ PathIn(d, Directory[c][i]) \in DOMAIN tree
                /\ tree[PathIn(d, Directory[c][i])] = Piece(c, Directory[c][i])

(* Nothing once extracted is lost by a crash or a failure: where it stood,  *)
(* or beside that, a marked directory stands; and with no crash, and no     *)
(* failure behind the swap, it stands in its place after every archive.     *)
ExtractionSurvives ==
    \A d \in safe :
        /\ \E p \in DOMAIN tree : Len(p) = 1 /\ Last(p).name = Last(d).name /\ Owned(tree, p)
        /\ pc \in {"idle", "take"} /\ strays = 0 => Owned(tree, d)

(* Crashes and failures behind the swap are all that leaves a candidate or  *)
(* a backup behind, and no more than they must.                             *)
StraysAreAccountedFor ==
    pc \in {"idle", "take"} =>
        Cardinality({d \in DOMAIN tree : d # <<>> /\ Last(d).mark # "plain" /\ tree[d].kind = "dir"})
            <= strays

(* One budget for the run: what it wrote, nested archives and archives that *)
(* lie about their sizes included, stays within the session's limits.       *)
BudgetHolds == kept <= Policy.session /\ opened <= Policy.archives

(* ADR-016: a dry run applies the same admission and budget as a real one:  *)
(* what it says would be extracted is extracted, if nothing changed, as     *)
(* long as no two of the archives visited so far expand into one directory. *)
DryRunForetells ==
    [][\A p \in told :
         /\ quiet /\ ~dry /\ pc # "take" /\ pc' = "take" /\ at.path = p
         /\ \A q, r \in seen : ExtractDirFor(q) = ExtractDirFor(r) => q = r
         => pc = "record"]_expansionVars
=============================================================================
