---------------------------- MODULE GovernedRuns ----------------------------
(***************************************************************************)
(* Check and apply over one repository: carrier_operation.ts with the      *)
(* discovery (retrieval.ts), the pipeline's subjects (pipeline.ts), the    *)
(* carrier policy (mutation_policy.ts) and the metadata index              *)
(* (metadata_index.ts) it brings together, driven by check.ts and apply.ts.*)
(* A check and an apply may be under way at once, people edit files, the   *)
(* authority and the index meanwhile, and a run may be scoped to a part of *)
(* the paths.  The file transaction at the end of an apply is one step     *)
(* that happens or does not, which is what FileTransaction implements.     *)
(*                                                                         *)
(* A body is a version number, never used twice; `head` is the body the    *)
(* file's managed header describes.                                        *)
(***************************************************************************)
EXTENDS Naturals

CONSTANTS
    Paths,        \* the paths of the repository
    Rank,         \* the order runs take them in
    IdOf,         \* the metadata id a path and the kind of its text normalize to
    Scopes,       \* what a run may be asked for; all paths is an unscoped run
    Rules,        \* for each path, the sets of rules it may come to match
    Forms,        \* what an edit may make of a file
    IndexActs,    \* what people may do to the index
    MaxActs,      \* bound on acts of people
    MaxBegun,     \* bound on runs
    None

Runs  == {"check", "apply"}

FileStates == [body : Nat, form : Forms \cup {"prose"}, head : Nat \cup {None}]

ASSUME NoneIsNoFile == None \notin FileStates

ASSUME RanksAreApart ==
    /\ Rank \in [Paths -> Nat]
    /\ \A p, q \in Paths : Rank[p] = Rank[q] => p = q

ASSUME PathsExist == Paths # {}

ASSUME ScopesAreOfPaths == Scopes \subseteq SUBSET Paths

\* What people do to the index never writes one.
ASSUME PeopleWriteNoIndex == "v1" \notin IndexActs

VARIABLES
    files,     \* what stands at each path
    rules,     \* which rules of the policy and the authority each path matches
    index,     \* .l9/metadata-index.jsonl
    pc, memory,  \* where each run is, and what it holds in memory
    verdict,   \* how the latest check and the latest apply ended
    acts, begun,
    touched,   \* history: what changed since each run began
    covered    \* history: paths an apply passed over and nobody touched since

governedVars ==
    <<files, rules, index, pc, memory, verdict, acts, begun, touched, covered>>

-----------------------------------------------------------------------------
(* The carrier policy *)

\* Rules that keep a file's bytes as they are whatever inline_allow says.
Preserving == {"inline_exclude", "byte_sensitive", "skill_entry", "hidden_control"}
Blocked == {"limited", "malformed"}      \* frontmatter the patcher will not touch

Authorized(r) == "inline_allow" \in r /\ r \cap Preserving = {}

CarrierDecision(r, form) ==
    IF "protected" \in r \/ form = "binary" THEN "hard_skip"
    ELSE IF "vendored" \in r THEN "inventory_only"
    ELSE IF Authorized(r) /\ form = "prose" THEN "inline_managed"
    ELSE "central_manifest"

Unsatisfied(r, form) ==
    CarrierDecision(r, form) = "central_manifest" /\ Authorized(r) /\ form = "malformed"

-----------------------------------------------------------------------------
(* What a run makes of the tree *)

File(body, form, head) == [body |-> body, form |-> form, head |-> head]

Disposition(f, scope, p) ==
    IF f = None THEN "absent"
    ELSE IF p \notin scope THEN "glob_filtered"
    ELSE IF f.form \in {"sealed", "binary"} THEN f.form
    ELSE "eligible"

Record(r, p, f) ==
    [carrier |-> CarrierDecision(r, f.form), hash |-> f.body, id |-> IdOf[p][f.form]]

NoRecords == [p \in {} |-> None]
MetadataIndex(kind, records) == [kind |-> kind, records |-> records]

\* Subjects are what was seen, hard_skip left out.
Subjects(w) == {p \in DOMAIN memory[w].seen :
                    CarrierDecision(memory[w].rules[p], memory[w].seen[p].form) # "hard_skip"}
Filtered(w) == {p \in Paths : memory[w].ledger[p] = "glob_filtered"}
IsInline(w, p) == CarrierDecision(memory[w].rules[p], memory[w].seen[p].form) = "inline_managed"
Changes(w) == {p \in DOMAIN memory[w].plan : memory[w].plan[p].from # memory[w].plan[p].to}

Compiled(w) == [p \in Subjects(w) |-> Record(memory[w].rules[p], p, memory[w].seen[p])]

\* Mutants: a scoped run keeps what it did not compile; or compiles the index anew.
Mutant_KeepsEveryRecord(w) == index.records
Mutant_StartsAfresh(w) == NoRecords

\* Records carried forward: of an unscoped run, which filters nothing, none.
Preserved(w) ==
    [p \in DOMAIN index.records \cap Filtered(w) |-> index.records[p]]

Merge(old, new) ==
    [p \in DOMAIN old \cup DOMAIN new |-> IF p \in DOMAIN new THEN new[p] ELSE old[p]]

DistinctIds(records) ==
    \A p, q \in DOMAIN records : records[p].id = records[q].id => p = q

Unmergeable(w, base) == Filtered(w) # {} /\ base.kind \notin {"v1", "missing"}
Blocking(w) == \E p \in Paths : memory[w].ledger[p] = "sealed"
Conflicts(w) == {p \in Subjects(w) : Unsatisfied(memory[w].rules[p], memory[w].seen[p].form)}

Blank == [scope |-> {}, rules |-> NoRecords, ledger |-> NoRecords, seen |-> NoRecords,
          plan |-> NoRecords, todo |-> {}, base |-> None, out |-> NoRecords,
          before |-> None, drift |-> FALSE]

-----------------------------------------------------------------------------
GovernedInit ==
    /\ files \in [Paths -> {None, File(0, "prose", None)}]
    /\ rules = [p \in Paths |-> CHOOSE r \in Rules[p] : \A s \in Rules[p] : r \subseteq s]
    /\ index = MetadataIndex("missing", NoRecords)
    /\ pc = [w \in Runs |-> "idle"]
    /\ memory = [w \in Runs |-> Blank]
    /\ verdict = [w \in Runs |-> None]
    /\ acts = 0 /\ begun = 0
    /\ touched = [w \in Runs |-> {}]
    /\ covered = {}

\* The run ends: `how` is "passed", "drift" or "refused" (an error or a refusal).
Finish(w, how) ==
    /\ pc' = [pc EXCEPT ![w] = "idle"]
    /\ memory' = [memory EXCEPT ![w] = Blank]
    /\ verdict' = [verdict EXCEPT ![w] = how]

Refuse(w) == Finish(w, "refused") /\ UNCHANGED <<files, index, touched, covered>>

Go(w, to, held) ==
    /\ pc' = [pc EXCEPT ![w] = to]
    /\ memory' = [memory EXCEPT ![w] = held]
    /\ UNCHANGED <<files, index, verdict, touched, covered>>

\* The authority is read, and a check takes its snapshot, which an unreadable
\* file ends in an error.
Begin(w) ==
    /\ pc[w] = "idle" /\ begun < MaxBegun
    /\ begun' = begun + 1
    /\ \E scope \in Scopes :
        IF w = "check" /\ \E p \in Paths : files[p] # None /\ files[p].form = "sealed"
        THEN Refuse(w)
        ELSE /\ pc' = [pc EXCEPT ![w] = "discover"]
             /\ memory' = [memory EXCEPT ![w] =
                   [Blank EXCEPT
                       !.scope = scope, !.rules = rules,
                       !.before = IF w = "check" THEN <<files, rules, index>> ELSE None]]
             /\ verdict' = [verdict EXCEPT ![w] = None]
             /\ touched' = [touched EXCEPT ![w] = {}]
             /\ UNCHANGED <<files, index, covered>>
    /\ UNCHANGED <<rules, acts>>

IsNext(w, p) == \A q \in memory[w].todo : Rank[p] <= Rank[q]

Discover(w) ==
    /\ pc[w] = "discover"
    /\ LET found == [p \in Paths |-> Disposition(files[p], memory[w].scope, p)]
       IN  Go(w, "read", [memory[w] EXCEPT
                !.ledger = found,
                !.todo = {p \in Paths : found[p] = "eligible"}])
    /\ UNCHANGED <<rules, acts, begun>>

\* Bytes that stopped being text since discovery are decoded all the same.
ReadAs(form) == IF form = "binary" THEN {"prose", "script"} ELSE {form}

Read(w) ==
    /\ pc[w] = "read"
    /\ \E p \in memory[w].todo :
        /\ IsNext(w, p)
        /\ IF files[p] = None \/ files[p].form = "sealed"
           THEN Refuse(w)
           ELSE \E form \in ReadAs(files[p].form) :
                   Go(w, "read", [memory[w] EXCEPT
                        !.todo = @ \ {p},
                        !.seen = [q \in DOMAIN @ \cup {p} |->
                            IF q = p THEN [body |-> files[p].body, form |-> form] ELSE @[q]]])
    /\ UNCHANGED <<rules, acts, begun>>

\* assertUniqueMetadataIds; then every subject that may be rendered is planned,
\* also those whose plan the policy will not use.
EndRead(w) ==
    /\ pc[w] = "read" /\ memory[w].todo = {}
    /\ IF DistinctIds(Compiled(w))
       THEN Go(w, "plan", [memory[w] EXCEPT
                !.todo = {p \in Subjects(w) :
                    /\ memory[w].seen[p].form = "prose"
                    /\ CarrierDecision(memory[w].rules[p], "prose") # "inventory_only"}])
       ELSE Refuse(w)
    /\ UNCHANGED <<rules, acts, begun>>

\* readForInjection: the bytes the header is put into.
Plan(w) ==
    /\ pc[w] = "plan"
    /\ \E p \in memory[w].todo :
        /\ IsNext(w, p)
        /\ IF files[p] = None \/ files[p].form \in {"sealed", "binary"} \cup Blocked
           THEN Refuse(w)
           ELSE Go(w, "weigh", [memory[w] EXCEPT
                    !.plan = [q \in DOMAIN @ \cup {p} |->
                        IF q = p THEN [from |-> None,
                                       to |-> [files[p] EXCEPT !.head = memory[w].seen[p].body]]
                        ELSE @[q]]])
    /\ UNCHANGED <<rules, acts, begun>>

\* writeInjection, dry: the bytes the plan is to replace, read once more.
Weigh(w) ==
    /\ pc[w] = "weigh"
    /\ \E p \in memory[w].todo :
        /\ IsNext(w, p)
        /\ IF files[p] # None /\ files[p].form = "sealed"
           THEN Refuse(w)
           ELSE Go(w, "plan", [memory[w] EXCEPT
                    !.todo = @ \ {p},
                    !.plan = IF IsInline(w, p)
                             THEN [@ EXCEPT ![p].from = files[p]]
                             ELSE [q \in DOMAIN @ \ {p} |-> @[q]]])
    /\ UNCHANGED <<rules, acts, begun>>

\* A scoped run merges with the index it reads here; an unscoped one reads none.
Compile(w) ==
    /\ pc[w] = "plan" /\ memory[w].todo = {}
    /\ LET out == Merge(Preserved(w), Compiled(w))
       IN  IF \/ ~DistinctIds(out)
              \/ w = "apply" /\ (Blocking(w) \/ Unmergeable(w, index) \/ Conflicts(w) # {})
           THEN Refuse(w)
           ELSE Go(w, IF w = "check" THEN "compare" ELSE "intents",
                   [memory[w] EXCEPT !.base = IF Filtered(w) = {} THEN None ELSE index,
                                   !.out = out])
    /\ UNCHANGED <<rules, acts, begun>>

\* metadataIndexDrift and the other drifts.
Compare ==
    /\ pc["check"] = "compare"
    /\ LET c == memory["check"]
       IN  Go("check", "end", [c EXCEPT
                !.drift = \/ Blocking("check") \/ Conflicts("check") # {}
                          \/ Changes("check") # {}
                          \/ Unmergeable("check", c.base)
                          \/ index # MetadataIndex("v1", c.out)])
    /\ UNCHANGED <<rules, acts, begun>>

\* Mutant: a read-only run is taken to have read one tree.
Mutant_OneSnapshot ==
    /\ pc["check"] = "end"
    /\ Finish("check", IF memory["check"].drift THEN "drift" ELSE "passed")
    /\ UNCHANGED <<files, rules, index, acts, begun, touched, covered>>

\* The second snapshot: CHECK_MUTATION_DETECTED.
EndCheck ==
    /\ pc["check"] = "end"
    /\ IF memory["check"].before = <<files, rules, index>>
       THEN Finish("check", IF memory["check"].drift THEN "drift" ELSE "passed")
       ELSE Finish("check", "refused")
    /\ UNCHANGED <<files, rules, index, acts, begun, touched, covered>>

\* Each planned file is rendered again from what it now holds and must come out
\* as planned; the index to replace is the one merged with, or the present one.
Intents ==
    /\ pc["apply"] = "intents"
    /\ LET a == memory["apply"]
       IN  IF /\ \A p \in Changes("apply") :
                    /\ files[p] # None /\ files[p].form \notin {"sealed", "binary"} \cup Blocked
                    /\ files[p].body = a.plan[p].to.body
              /\ index.kind # "v2"
           THEN Go("apply", "commit",
                   [a EXCEPT !.base = IF Filtered("apply") = {} THEN index ELSE @])
           ELSE Refuse("apply")
    /\ UNCHANGED <<rules, acts, begun>>

\* Mutant: the index is replaced without comparing it with the one merged.
Mutant_TakesTheIndexAsRead ==
    \A p \in Changes("apply") : files[p] = memory["apply"].plan[p].from

\* The transaction: what is replaced is still what the plan was made from.
StillAsPlanned ==
    /\ \A p \in Changes("apply") : files[p] = memory["apply"].plan[p].from
    /\ index = memory["apply"].base

Commit ==
    /\ pc["apply"] = "commit"
    /\ LET a == memory["apply"]
       IN  IF StillAsPlanned
           THEN /\ Finish("apply", "passed")
                /\ files' = [p \in Paths |-> IF p \in Changes("apply") THEN a.plan[p].to
                                             ELSE files[p]]
                /\ index' = MetadataIndex("v1", a.out)
                /\ covered' = covered \cup (a.scope \ touched["apply"])
                /\ touched' = IF files' = files /\ index' = index THEN touched
                              ELSE [touched EXCEPT !["check"] = @ \cup {"apply"}]
           ELSE Refuse("apply")
    /\ UNCHANGED <<rules, acts, begun>>

-----------------------------------------------------------------------------
(* People *)

Touch(what) ==
    /\ acts < MaxActs /\ acts' = acts + 1
    /\ touched' = [w \in Runs |-> IF pc[w] = "idle" THEN touched[w] ELSE touched[w] \cup {what}]
    /\ UNCHANGED <<pc, memory, verdict, begun>>

\* A file is written, with its header or without, or deleted.
Edit(p) ==
    /\ Touch(p)
    /\ \/ \E form \in Forms, head \in {None, IF files[p] = None THEN None ELSE files[p].head} :
            files' = [files EXCEPT ![p] = File(acts + 1, form, head)]
       \/ files[p] # None /\ files' = [files EXCEPT ![p] = None]
    /\ covered' = covered \ {p}
    /\ UNCHANGED <<rules, index>>

\* The authority's patterns change, for one path.
Rule(p) ==
    /\ Touch(p)
    /\ \E r \in Rules[p] \ {rules[p]} : rules' = [rules EXCEPT ![p] = r]
    /\ covered' = covered \ {p}
    /\ UNCHANGED <<files, index>>

\* The index is removed, damaged, moved to the next schema, or loses a record.
ActOnIndex ==
    /\ Touch("index")
    /\ \E act \in IndexActs :
        IF act = "drop"
        THEN \E p \in DOMAIN index.records :
                index' = [index EXCEPT !.records = [q \in DOMAIN @ \ {p} |-> @[q]]]
        ELSE index.kind # act /\ index' = MetadataIndex(act, NoRecords)
    /\ covered' = {}
    /\ UNCHANGED <<files, rules>>

GovernedNext ==
    \/ \E w \in Runs : Begin(w) \/ Discover(w) \/ Read(w) \/ EndRead(w) \/ Plan(w)
                       \/ Weigh(w) \/ Compile(w)
    \/ Compare \/ EndCheck \/ Intents \/ Commit
    \/ \E p \in Paths : Edit(p) \/ Rule(p)
    \/ ActOnIndex

GovernedSpec == GovernedInit /\ [][GovernedNext]_governedVars

-----------------------------------------------------------------------------
(* Properties *)

\* What a whole-repository apply would leave at p.
Current(p) ==
    LET f == files[p]
    IN  IF f = None \/ f.form = "sealed" \/ CarrierDecision(rules[p], f.form) = "hard_skip"
        THEN p \notin DOMAIN index.records
        ELSE /\ p \in DOMAIN index.records /\ index.records[p] = Record(rules[p], p, f)
             /\ CarrierDecision(rules[p], f.form) = "inline_managed" => f.head = f.body

Passes(w) == pc[w] # "idle" /\ pc'[w] = "idle" /\ verdict'[w] = "passed"

\* An apply that passes leaves every file of its scope that nobody touched
\* meanwhile indexed and headed for what it holds.
AppliedIsCurrent ==
    [][Passes("apply") =>
        \A p \in memory["apply"].scope \ touched["apply"] : Current(p)']_governedVars

\* An apply changes headers of authorized files of its scope and no body, and
\* carries the records of files outside its scope forward as they are.
AppliesKeepToTheirScope ==
    [][pc["apply"] = "commit" /\ pc'["apply"] = "idle" =>
        /\ \A p \in Paths : files'[p] # files[p] =>
            /\ p \in memory["apply"].scope /\ Authorized(memory["apply"].rules[p])
            /\ files'[p] = [files[p] EXCEPT !.head = files'[p].head]
        /\ verdict'["apply"] = "passed" => \A p \in Paths \ memory["apply"].scope :
          memory["apply"].ledger[p] # "absent" =>
            /\ p \in DOMAIN index.records <=> p \in DOMAIN index'.records
            /\ p \in DOMAIN index.records => index'.records[p] = index.records[p]]_governedVars

\* What a check cannot tell from its two snapshots: that an apply changed the index
\* on what somebody made of p, or on an index somebody changed, and changed it back.
UndoneBehind(p) == "apply" \in touched["check"] /\ {p, "index"} \cap touched["check"] # {}

\* A check that passes is right of the tree as it stands when it ends, whatever
\* was edited or applied while it read (INV-015), but for what was undone behind it.
PassedMeansClean ==
    [][Passes("check") => \A p \in memory["check"].scope : Current(p) \/ UndoneBehind(p)
      ]_governedVars

\* Applies that together covered every path, in whatever scopes and order, leave
\* a repository in which a check of any scope passes (ADR-058).
AppliedStaysClean ==
    [][pc["check"] # "idle" /\ pc'["check"] = "idle" /\ covered = Paths /\ touched["check"] = {}
        => verdict'["check"] = "passed"]_governedVars
=============================================================================
