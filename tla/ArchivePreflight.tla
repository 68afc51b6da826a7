-------------------------- MODULE ArchivePreflight --------------------------
(***************************************************************************)
(* src/src/archive_preflight.ts: may an archive be expanded at all?  The   *)
(* answer is taken from its central directory alone, entry by entry, and is*)
(* all or nothing.                                                         *)
(*                                                                         *)
(* A member name is a sequence of segments, with Gap, the empty one, for   *)
(* what stands between two separators: <<Gap, "a">> is "/a" and            *)
(* <<"a", Gap>> is "a/".                                                   *)
(***************************************************************************)
EXTENDS Naturals, Sequences, SequencesExt

CONSTANTS
    Nfc,        \* segment -> its Unicode normal form
    Lower,      \* normal form -> its case fold
    Drives,     \* segments such as "C:"
    Unstorable, \* segments with a NUL, or too long for any file system
    Policy      \* LocalArchivePolicy

ASSUME PolicyAssumption ==
    Policy \in [{"compressed", "path", "count", "member", "archive", "ratio",
                "session", "archives", "depth"} -> Nat]

-----------------------------------------------------------------------------
(* Paths *)

\* The segment between two separators, or before a leading one: no name is spelled so.
Gap == "/"

Rooted(name) == name # <<>> /\ name[1] = Gap

\* A leading separator survives, so that the absolute-path rule still sees it.
CanonicalMemberPath(name) ==
    LET steps[n \in 0 .. Len(name)] ==
            IF n = 0 THEN <<>>
            ELSE IF name[n] \in {Gap, "."} THEN steps[n - 1] ELSE Append(steps[n - 1], name[n])
    IN  IF Rooted(name) THEN <<Gap>> \o steps[Len(name)] ELSE steps[Len(name)]

FoldOf(s) == IF s = Gap THEN s ELSE Lower[Nfc[s]]
MemberCollisionKey(canonical) == [i \in DOMAIN canonical |-> FoldOf(canonical[i])]
NormalForm(canonical) ==
    [i \in DOMAIN canonical |-> IF canonical[i] = Gap THEN Gap ELSE Nfc[canonical[i]]]

\* How deep a path is after each of its steps, the root at 1; 0 is outside, for good.
ResolvesInsideRoot(canonical) ==
    FoldLeft(LAMBDA depth, s : CASE s = Gap -> depth
                                 [] s = ".." -> IF depth <= 1 THEN 0 ELSE depth - 1
                                 [] s \notin {Gap, ".."} -> IF depth = 0 THEN 0 ELSE depth + 1,
             1, canonical) > 1

PathHolds(name) ==
    LET canonical == CanonicalMemberPath(name)
        If(held, code) == IF held THEN {code} ELSE {}
        unc == Rooted(name) /\ Len(name) > 1 /\ name[2] = Gap
    IN  If(unc, "path_unc")
        \cup If(Rooted(name) /\ ~unc, "path_absolute")
        \cup If(Len(name) > 1 /\ name[1] \in Drives, "path_drive_absolute")
        \cup If(\E i \in DOMAIN name : name[i] = "..", "path_traversal")
        \cup If(canonical = <<>>, "path_empty")
        \cup If(Len(name) > Policy.path \/ \E i \in DOMAIN name : name[i] \in Unstorable,
                "path_too_long")
        \cup If(canonical # <<>> /\ ~ResolvesInsideRoot(canonical), "path_escapes_root")

-----------------------------------------------------------------------------
(* The walk over the central directory *)

Nothing ==
    [holds |-> {}, members |-> <<>>, declared |-> 0, exact |-> {},
     collision |-> <<>>, files |-> {}, directories |-> {}, duplicates |-> {}]

EntryKindHolds(e) ==
    CASE e.kind = "symlink" -> {"entry_symlink"}
      [] e.kind = "special" -> {"entry_special"}
      [] e.kind = "unknown" -> {"entry_kind_unknown"}
      [] OTHER -> {}

FileMemberHolds(e) ==
    (IF e.supported THEN {} ELSE {"compression_unsupported"})
    \cup (IF e.declares > Policy.member THEN {"member_too_large"} ELSE {})

\* A path that is there already, letter by letter or under the fold.
CollisionHolds(acc, e) ==
    LET canonical == CanonicalMemberPath(e.name)
        key == MemberCollisionKey(canonical)
    IN  CASE canonical = <<>> -> {}
          [] canonical \in acc.exact -> {"duplicate_member"}
          [] canonical \notin acc.exact /\ key \in DOMAIN acc.collision ->
                IF NormalForm(canonical) = NormalForm(acc.collision[key])
                THEN {"unicode_collision"} ELSE {"case_collision"}
          [] OTHER -> {}

\* Which keys are used as a file, and which as a directory, by anybody.
NotePathUsage(acc, e) ==
    LET canonical == CanonicalMemberPath(e.name)
        key == MemberCollisionKey(canonical)
        above == {SubSeq(key, 1, n) : n \in 1 .. Len(key) - 1}
    IN  IF canonical = <<>> \/ Rooted(canonical) THEN acc
        ELSE [acc EXCEPT
                !.files = @ \cup (IF e.kind = "file" THEN {key} ELSE {}),
                !.directories = @ \cup above \cup (IF e.kind = "directory" THEN {key} ELSE {})]

NoteCollision(acc, e) ==
    LET canonical == CanonicalMemberPath(e.name)
        key == MemberCollisionKey(canonical)
        fresh == key \notin DOMAIN acc.collision
    IN  IF canonical = <<>> THEN acc
        ELSE [acc EXCEPT
                !.exact = @ \cup {canonical},
                !.duplicates = @ \cup (IF fresh THEN {} ELSE {key}),
                !.collision = IF fresh THEN [k \in DOMAIN @ \cup {key} |->
                                               IF k = key THEN canonical ELSE @[k]]
                              ELSE @]

InspectEntry(acc, e) ==
    LET noted == NoteCollision(NotePathUsage(acc, e), e)
        file  == e.kind = "file"
    IN  [noted EXCEPT
           !.holds = @ \cup PathHolds(e.name)
                       \cup (IF e.encrypted THEN {"member_encrypted"} ELSE {})
                       \cup EntryKindHolds(e) \cup CollisionHolds(acc, e)
                       \cup (IF file THEN FileMemberHolds(e) ELSE {}),
           !.declared = @ + (IF file THEN e.declares ELSE 0),
           !.members = IF file THEN Append(@, e) ELSE @]

-----------------------------------------------------------------------------
(* What is judged once the whole directory is known *)

PathConflictHolds(acc) ==
    IF (acc.files \cap acc.directories) \ acc.duplicates # {} THEN {"path_conflict"} ELSE {}

ExpansionHolds(acc, size) ==
    (IF acc.declared > Policy.archive THEN {"total_uncompressed_exceeded"} ELSE {})
    \cup (IF acc.declared > Policy.ratio * (IF size = 0 THEN 1 ELSE size)
          THEN {"compression_ratio_exceeded"} ELSE {})

ArchiveScopeHolds(entries, depth) ==
    (IF depth > Policy.depth THEN {"nesting_depth_exceeded"} ELSE {})
    \cup (IF Len(entries) > Policy.count THEN {"member_count_exceeded"} ELSE {})

PreflightArchive(entries, depth, size) ==
    LET acc == FoldLeft(InspectEntry, Nothing, entries)
        holds == ArchiveScopeHolds(entries, depth) \cup acc.holds
                 \cup PathConflictHolds(acc) \cup ExpansionHolds(acc, size)
    IN  [accepted |-> holds = {}, holds |-> holds, members |-> acc.members,
         declared |-> acc.declared]

-----------------------------------------------------------------------------
(* The reference *)

Lands(name) ==
    /\ ~Rooted(name)
    /\ ~(Len(name) > 1 /\ name[1] \in Drives)
    /\ Len(name) <= Policy.path
    /\ \A i \in DOMAIN name : name[i] \notin Unstorable \cup {".."}
    /\ \E i \in DOMAIN name : name[i] \notin {Gap, "."}

Readable(e) ==
    /\ e.kind \in {"file", "directory"} /\ ~e.encrypted
    /\ e.kind = "file" => e.supported /\ e.declares <= Policy.member

\* Can both stand in one tree on every file system, whatever it folds?
Apart(d, e) ==
    LET dKey == MemberCollisionKey(CanonicalMemberPath(d.name))
        eKey == MemberCollisionKey(CanonicalMemberPath(e.name))
    IN  dKey # eKey /\ (d.kind = "file" => ~IsPrefix(dKey, eKey))

(* Preflight accepts exactly the archives whose members all land inside the *)
(* tree, can be read, and stand apart on every file system, within the      *)
(* limits: the order of the central directory decides nothing.              *)
AcceptsWhatIsSafe(entries, depth, size) ==
    LET declared == FoldLeft(LAMBDA sum, e : sum + IF e.kind = "file" THEN e.declares ELSE 0,
                             0, entries)
    IN  PreflightArchive(entries, depth, size).accepted <=>
        /\ \A i \in DOMAIN entries : Lands(entries[i].name) /\ Readable(entries[i])
        /\ \A i, j \in DOMAIN entries : i # j => Apart(entries[i], entries[j])
        /\ Len(entries) <= Policy.count /\ depth <= Policy.depth
        /\ declared <= Policy.archive
        /\ declared <= Policy.ratio * (IF size = 0 THEN 1 ELSE size)
=============================================================================
