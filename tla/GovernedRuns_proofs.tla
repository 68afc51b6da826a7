------------------------- MODULE GovernedRuns_proofs -------------------------
(***************************************************************************)
(* Why an apply keeps to its scope.  An edit never brings a body back, so  *)
(* a file whose body is the one planned, when the plan is rendered again,  *)
(* has stood since the plan was made; what was weighed in between is that  *)
(* file, and a commit that finds what was weighed finds the planned body.  *)
(* Of the records, those out of scope come from the index read last, which *)
(* is the one the commit compares.                                         *)
(*                                                                         *)
(* Why what a check or an apply says is right, in the second part.  Of a   *)
(* path nobody touched since the run began, whatever the run holds is what *)
(* the tree is (SightInv); a check takes that from its first snapshot as   *)
(* well, as a body that is back has stood all along.  What an apply may do *)
(* under a check it does to what the check is to find (CheckInv); and what *)
(* applies covered stays current until somebody touches it (CoveredInv).   *)
(***************************************************************************)
EXTENDS GovernedRuns, TLAPS

Later   == {"read", "plan", "weigh", "compare", "end", "intents", "commit"}
Steps   == {"idle", "discover"} \cup Later
Decided == {"intents", "commit"}

A == memory["apply"]

PlanStates == [from : FileStates \cup {None}, to : FileStates]
SeenStates == [body : Nat, form : Forms \cup {"prose", "script"}]

\* The planned body is not newer than the file, and of one body there is one text.
PlannedBody(p) ==
    files[p] # None =>
        /\ A.plan[p].to.body <= files[p].body
        /\ files[p].body = A.plan[p].to.body => files[p].form = A.plan[p].to.form

\* What was weighed stood between the plan and the present.
Weighed(p) ==
    LET from == A.plan[p].from
        to   == A.plan[p].to
    IN  /\ from = None /\ files[p] # None => to.body < files[p].body
        /\ from # None =>
              /\ to.body <= from.body /\ from.body <= acts
              /\ from.body = to.body => from.form = to.form
              /\ files[p] # None => from.body <= files[p].body

FilesOK ==
    /\ files \in [Paths -> FileStates \cup {None}]
    /\ acts \in Nat
    /\ \A p \in Paths : files[p] # None => files[p].body <= acts

Fields == {"scope", "rules", "ledger", "seen", "plan", "todo", "base", "out", "before", "drift"}
IsHeld(r) == r = [f \in Fields |-> r[f]]

RunsOK ==
    /\ pc \in [Runs -> Steps]
    /\ memory = [w \in Runs |-> memory[w]]
    /\ \A w \in Runs : IsHeld(memory[w])

\* What the apply holds in memory while it is under way.
HeldOK ==
    /\ A.todo \subseteq A.scope \cap Paths
    /\ DOMAIN A.seen \subseteq A.scope \cap Paths
    /\ \A p \in DOMAIN A.seen : A.seen[p] \in SeenStates
    /\ DOMAIN A.plan \subseteq DOMAIN A.seen
    /\ pc["apply"] \in {"discover", "read"} => A.plan = NoRecords
    /\ pc["apply"] \in {"plan", "weigh"} => A.todo \subseteq DOMAIN A.seen
    /\ \A p \in DOMAIN A.plan :
          /\ A.plan[p] \in PlanStates
          /\ A.plan[p].to.body <= acts
          /\ PlannedBody(p)
          /\ p \notin A.todo => IsInline("apply", p) /\ Weighed(p)

RecordsOK ==
    \A p \in Paths \ A.scope :
        A.ledger[p] # "absent" =>
            /\ p \in Filtered("apply")
            /\ pc["apply"] \in Decided =>
                  /\ p \in DOMAIN A.base.records <=> p \in DOMAIN A.out
                  /\ p \in DOMAIN A.base.records => A.out[p] = A.base.records[p]

\* Rendered again, every planned change was of the file weighed.
RenderedOK ==
    pc["apply"] = "commit" =>
        \A p \in Changes("apply") : /\ A.plan[p].from # None
                                    /\ A.plan[p].from.body = A.plan[p].to.body

ScopeInv ==
    /\ FilesOK /\ RunsOK /\ RenderedOK
    /\ pc["apply"] # "idle" => HeldOK
    /\ pc["apply"] \in Later => RecordsOK
    /\ pc["apply"] \in Decided => A.todo = {}
-----------------------------------------------------------------------------
LEMMA InitScoped == GovernedInit => ScopeInv
  <1> SUFFICES ASSUME GovernedInit
               PROVE  ScopeInv
    OBVIOUS
  <1>1. FilesOK
    <2>1. File(0, "prose", None) \in FileStates /\ File(0, "prose", None).body = 0
      BY DEF File, FileStates
    <2> QED
      BY <2>1 DEF GovernedInit, FilesOK
  <1>2. RunsOK
    BY DEF GovernedInit, RunsOK, IsHeld, Fields, Blank, Runs, Steps
  <1>3. pc["apply"] = "idle"
    BY DEF GovernedInit, Runs
  <1> QED
    BY <1>1, <1>2, <1>3 DEF ScopeInv, RenderedOK, Later, Decided

\* What moves neither the apply nor a file disturbs nothing.
LEMMA ElsewhereScoped ==
    ASSUME ScopeInv, RunsOK', UNCHANGED <<files, acts>>,
           A' = A, pc'["apply"] = pc["apply"]
    PROVE  ScopeInv'
  BY DEF ScopeInv, FilesOK, RenderedOK, HeldOK, RecordsOK, PlannedBody, Weighed, Changes,
         IsInline, Filtered, A

\* An apply that has ended holds nothing.
LEMMA EndScoped ==
    ASSUME RunsOK', FilesOK', pc'["apply"] = "idle"
    PROVE  ScopeInv'
  BY DEF ScopeInv, RenderedOK, Later, Decided

\* Ends and moves of a run.
LEMMA FinishRuns ==
    ASSUME ScopeInv, NEW w \in Runs, NEW how, Finish(w, how)
    PROVE  /\ RunsOK' /\ pc'[w] = "idle"
           /\ w = "check" => A' = A /\ pc'["apply"] = pc["apply"]
  BY DEF ScopeInv, RunsOK, Finish, Blank, IsHeld, Fields, Runs, Steps, A

LEMMA GoRuns ==
    ASSUME ScopeInv, NEW w \in Runs, NEW to \in Steps, NEW held, IsHeld(held), Go(w, to, held)
    PROVE  /\ RunsOK' /\ pc'[w] = to /\ memory'[w] = held
           /\ UNCHANGED <<files, index>>
           /\ w = "check" => A' = A /\ pc'["apply"] = pc["apply"]
           /\ w = "apply" => A' = held /\ pc'["apply"] = to
  BY DEF ScopeInv, RunsOK, Go, Runs, Steps, A

\* A refusal, of either run, and a move of the check.
LEMMA RefuseScoped ==
    ASSUME ScopeInv, NEW w \in Runs, Refuse(w), UNCHANGED acts
    PROVE  ScopeInv'
  <1>1. RunsOK' /\ pc'[w] = "idle" /\ UNCHANGED files
    BY FinishRuns DEF Refuse
  <1>2. w = "check" => A' = A /\ pc'["apply"] = pc["apply"]
    BY FinishRuns DEF Refuse
  <1>3. FilesOK'
    BY <1>1 DEF ScopeInv, FilesOK
  <1>4. CASE w = "check"
    BY <1>1, <1>2, <1>4, ElsewhereScoped
  <1>5. CASE w = "apply"
    BY <1>1, <1>3, <1>5, EndScoped
  <1> QED
    BY <1>4, <1>5 DEF Runs

LEMMA CheckScoped ==
    ASSUME ScopeInv, NEW to \in Steps, NEW held, IsHeld(held), Go("check", to, held),
           UNCHANGED acts
    PROVE  ScopeInv'
  <1>1. RunsOK' /\ UNCHANGED files /\ A' = A /\ pc'["apply"] = pc["apply"]
    BY GoRuns DEF Runs
  <1> QED
    BY <1>1, ElsewhereScoped

\* An apply begins with nothing planned.
LEMMA BeginScoped ==
    ASSUME ScopeInv, NEW w \in Runs, Begin(w)
    PROVE  ScopeInv'
  <1>1. UNCHANGED <<files, acts>>
    BY DEF Begin, Refuse, Finish
  <1>2. PICK scope \in Scopes :
            IF w = "check" /\ \E p \in Paths : files[p] # None /\ files[p].form = "sealed"
            THEN Refuse(w)
            ELSE /\ pc' = [pc EXCEPT ![w] = "discover"]
                 /\ memory' = [memory EXCEPT ![w] =
                       [Blank EXCEPT !.scope = scope, !.rules = rules,
                           !.before = IF w = "check" THEN <<files, rules, index>> ELSE None]]
    BY DEF Begin
  <1>3. CASE Refuse(w)
    BY <1>1, <1>3, RefuseScoped
  <1>4. CASE ~Refuse(w)
    <2> DEFINE held == [Blank EXCEPT !.scope = scope, !.rules = rules,
                           !.before = IF w = "check" THEN <<files, rules, index>> ELSE None]
    <2>1. pc' = [pc EXCEPT ![w] = "discover"] /\ memory' = [memory EXCEPT ![w] = held]
      BY <1>2, <1>4
    <2>2. /\ IsHeld(held) /\ held.todo = {}
          /\ held.seen = NoRecords /\ held.plan = NoRecords
      BY DEF IsHeld, Fields, Blank
    <2> HIDE DEF held
    <2>3. RunsOK' /\ memory'[w] = held
      BY <2>1, <2>2 DEF ScopeInv, RunsOK, Steps
    <2>4. CASE w = "check"
      BY <1>1, <2>1, <2>3, <2>4, ElsewhereScoped DEF ScopeInv, RunsOK, Runs, A
    <2>5. CASE w = "apply"
      <3>1. pc'["apply"] = "discover" /\ A' = held
        BY <2>1, <2>3, <2>5 DEF ScopeInv, RunsOK, A
      <3>2. DOMAIN NoRecords = {}
        BY DEF NoRecords
      <3>3. HeldOK'
        BY <2>2, <3>1, <3>2 DEF HeldOK
      <3> QED
        BY <1>1, <2>3, <3>1, <3>3 DEF ScopeInv, FilesOK, RenderedOK, Later, Decided
    <2> QED
      BY <2>4, <2>5 DEF Runs
  <1> QED
    BY <1>3, <1>4

\* A file out of scope that is there is filtered.
LEMMA DiscoverScoped ==
    ASSUME ScopeInv, NEW w \in Runs, Discover(w)
    PROVE  ScopeInv'
  <1> DEFINE found == [p \in Paths |-> Disposition(files[p], memory[w].scope, p)]
             held  == [memory[w] EXCEPT !.ledger = found,
                                     !.todo = {p \in Paths : found[p] = "eligible"}]
  <1>1. Go(w, "read", held) /\ UNCHANGED acts /\ pc[w] = "discover"
    BY DEF Discover
  <1>2. IsHeld(memory[w])
    BY DEF ScopeInv, RunsOK
  <1>3. /\ IsHeld(held) /\ held.ledger = found /\ held.scope = memory[w].scope
        /\ held.todo = {p \in Paths : found[p] = "eligible"}
        /\ held.seen = memory[w].seen /\ held.plan = memory[w].plan
    BY <1>2 DEF IsHeld, Fields
  <1>4. \A p \in Paths \ memory[w].scope : found[p] # "eligible"
                                       /\ (found[p] # "absent" => found[p] = "glob_filtered")
    BY DEF Disposition
  <1> HIDE DEF held, found
  <1>5. CASE w = "check"
    BY <1>1, <1>3, <1>5, CheckScoped DEF Steps, Later
  <1>6. CASE w = "apply"
    <2>1. RunsOK' /\ A' = held /\ pc'["apply"] = "read" /\ UNCHANGED files
      BY <1>1, <1>3, <1>6, GoRuns DEF Steps, Later
    <2>2. HeldOK /\ A.plan = NoRecords
      BY <1>1, <1>6 DEF ScopeInv, HeldOK
    <2>3. DOMAIN NoRecords = {}
      BY DEF NoRecords
    <2>4. HeldOK'
      BY <1>3, <1>4, <1>6, <2>1, <2>2, <2>3 DEF HeldOK, A
    <2>5. RecordsOK'
      BY <1>3, <1>4, <1>6, <2>1 DEF RecordsOK, Filtered, A, Decided
    <2> QED
      BY <1>1, <2>1, <2>4, <2>5 DEF ScopeInv, FilesOK, RenderedOK, Decided
  <1> QED
    BY <1>5, <1>6 DEF Runs

LEMMA ReadScoped ==
    ASSUME ScopeInv, NEW w \in Runs, Read(w)
    PROVE  ScopeInv'
  <1>1. UNCHANGED acts /\ pc[w] = "read"
    BY DEF Read
  <1>2. IsHeld(memory[w])
    BY DEF ScopeInv, RunsOK
  <1>3. PICK p \in memory[w].todo :
            IF files[p] = None \/ files[p].form = "sealed"
            THEN Refuse(w)
            ELSE \E form \in ReadAs(files[p].form) :
                    Go(w, "read", [memory[w] EXCEPT
                        !.todo = @ \ {p},
                        !.seen = [q \in DOMAIN @ \cup {p} |->
                            IF q = p THEN [body |-> files[p].body, form |-> form] ELSE @[q]]])
    BY DEF Read
  <1>4. CASE files[p] = None \/ files[p].form = "sealed"
    BY <1>1, <1>3, <1>4, RefuseScoped
  <1>5. CASE ~(files[p] = None \/ files[p].form = "sealed")
    <2>1. PICK form \in ReadAs(files[p].form) :
            Go(w, "read", [memory[w] EXCEPT
                        !.todo = @ \ {p},
                        !.seen = [q \in DOMAIN @ \cup {p} |->
                            IF q = p THEN [body |-> files[p].body, form |-> form] ELSE @[q]]])
      BY <1>3, <1>5
    <2> DEFINE seen == [q \in DOMAIN memory[w].seen \cup {p} |->
                            IF q = p THEN [body |-> files[p].body, form |-> form]
                            ELSE memory[w].seen[q]]
               held == [memory[w] EXCEPT !.todo = @ \ {p}, !.seen = seen]
    <2>2. Go(w, "read", held)
      BY <1>2, <2>1 DEF IsHeld, Fields
    <2>3. /\ IsHeld(held) /\ held.seen = seen /\ held.todo = memory[w].todo \ {p}
          /\ held.scope = memory[w].scope /\ held.plan = memory[w].plan
          /\ held.ledger = memory[w].ledger
      BY <1>2 DEF IsHeld, Fields
    <2> HIDE DEF held
    <2>4. CASE w = "check"
      BY <1>1, <2>2, <2>3, <2>4, CheckScoped DEF Steps, Later
    <2>5. CASE w = "apply"
      <3>1. RunsOK' /\ A' = held /\ pc'["apply"] = "read" /\ UNCHANGED files
        BY <2>2, <2>3, <2>5, GoRuns DEF Steps, Later
      <3>2. HeldOK /\ A.plan = NoRecords /\ RecordsOK
        BY <1>1, <2>5 DEF ScopeInv, HeldOK, Later
      <3>3. p \in Paths /\ p \in A.scope /\ files[p] \in FileStates
        BY <1>5, <2>5, <3>2 DEF HeldOK, ScopeInv, FilesOK, A
      <3>4. seen[p] \in SeenStates /\ DOMAIN seen = DOMAIN memory[w].seen \cup {p}
            /\ \A q \in DOMAIN memory[w].seen : q # p => seen[q] = memory[w].seen[q]
        BY <3>3 DEF SeenStates, FileStates, ReadAs
      <3>5. DOMAIN NoRecords = {}
        BY DEF NoRecords
      <3> HIDE DEF seen
      <3>6. HeldOK'
        BY <2>3, <2>5, <3>1, <3>2, <3>3, <3>4, <3>5 DEF HeldOK, A
      <3>7. RecordsOK'
        BY <2>3, <2>5, <3>1, <3>2 DEF RecordsOK, Filtered, A, Decided
      <3> QED
        BY <1>1, <3>1, <3>6, <3>7 DEF ScopeInv, FilesOK, RenderedOK, Decided
    <2> QED
      BY <2>4, <2>5 DEF Runs
  <1> QED
    BY <1>4, <1>5

\* What is to be planned was read.
LEMMA EndReadScoped ==
    ASSUME ScopeInv, NEW w \in Runs, EndRead(w)
    PROVE  ScopeInv'
  <1> DEFINE todo == {p \in Subjects(w) :
                         /\ memory[w].seen[p].form = "prose"
                         /\ CarrierDecision(memory[w].rules[p], "prose") # "inventory_only"}
             held == [memory[w] EXCEPT !.todo = todo]
  <1>1. UNCHANGED acts /\ pc[w] = "read"
    BY DEF EndRead
  <1>2. IsHeld(memory[w])
    BY DEF ScopeInv, RunsOK
  <1>3. CASE Refuse(w)
    BY <1>1, <1>3, RefuseScoped
  <1>4. CASE Go(w, "plan", held)
    <2>1. todo \subseteq DOMAIN memory[w].seen
      BY DEF Subjects
    <2> HIDE DEF todo
    <2>2. /\ IsHeld(held) /\ held.todo = todo /\ held.seen = memory[w].seen
          /\ held.scope = memory[w].scope /\ held.plan = memory[w].plan
          /\ held.ledger = memory[w].ledger
      BY <1>2 DEF IsHeld, Fields
    <2> HIDE DEF held
    <2>3. CASE w = "check"
      BY <1>1, <1>4, <2>2, <2>3, CheckScoped DEF Steps, Later
    <2>4. CASE w = "apply"
      <3>1. RunsOK' /\ A' = held /\ pc'["apply"] = "plan" /\ UNCHANGED files
        BY <1>4, <2>2, <2>4, GoRuns DEF Steps, Later
      <3>2. HeldOK /\ A.plan = NoRecords /\ RecordsOK
        BY <1>1, <2>4 DEF ScopeInv, HeldOK, Later
      <3>3. DOMAIN NoRecords = {}
        BY DEF NoRecords
      <3>4. HeldOK'
        BY <2>1, <2>2, <2>4, <3>1, <3>2, <3>3 DEF HeldOK, A
      <3>5. RecordsOK'
        BY <2>2, <2>4, <3>1, <3>2 DEF RecordsOK, Filtered, A, Decided
      <3> QED
        BY <1>1, <3>1, <3>4, <3>5 DEF ScopeInv, FilesOK, RenderedOK, Decided
    <2> QED
      BY <2>3, <2>4 DEF Runs
  <1> QED
    BY <1>3, <1>4 DEF EndRead

\* The plan is of the file as it stands.
LEMMA PlanScoped ==
    ASSUME ScopeInv, NEW w \in Runs, Plan(w)
    PROVE  ScopeInv'
  <1>1. UNCHANGED acts /\ pc[w] = "plan"
    BY DEF Plan
  <1>2. IsHeld(memory[w])
    BY DEF ScopeInv, RunsOK
  <1>3. PICK p \in memory[w].todo :
            IF files[p] = None \/ files[p].form \in {"sealed", "binary"} \cup Blocked
            THEN Refuse(w)
            ELSE Go(w, "weigh", [memory[w] EXCEPT
                    !.plan = [q \in DOMAIN @ \cup {p} |->
                        IF q = p THEN [from |-> None,
                                       to |-> [files[p] EXCEPT !.head = memory[w].seen[p].body]]
                        ELSE @[q]]])
    BY DEF Plan
  <1> DEFINE to   == [files[p] EXCEPT !.head = memory[w].seen[p].body]
             plan == [q \in DOMAIN memory[w].plan \cup {p} |->
                        IF q = p THEN [from |-> None, to |-> to] ELSE memory[w].plan[q]]
             held == [memory[w] EXCEPT !.plan = plan]
  <1>4. CASE Refuse(w)
    BY <1>1, <1>4, RefuseScoped
  <1>5. CASE ~Refuse(w)
    <2>1. files[p] # None /\ Go(w, "weigh", held)
      BY <1>2, <1>3, <1>5 DEF IsHeld, Fields
    <2>2. /\ DOMAIN plan = DOMAIN memory[w].plan \cup {p}
          /\ plan[p] = [from |-> None, to |-> to]
          /\ \A q \in DOMAIN memory[w].plan : q # p => plan[q] = memory[w].plan[q]
      OBVIOUS
    <2> HIDE DEF plan
    <2>3. /\ IsHeld(held) /\ held.plan = plan /\ held.seen = memory[w].seen
          /\ held.scope = memory[w].scope /\ held.todo = memory[w].todo
          /\ held.ledger = memory[w].ledger /\ held.rules = memory[w].rules
      BY <1>2 DEF IsHeld, Fields
    <2> HIDE DEF held
    <2>4. CASE w = "check"
      BY <1>1, <2>1, <2>3, <2>4, CheckScoped DEF Steps, Later
    <2>5. CASE w = "apply"
      <3>1. RunsOK' /\ A' = held /\ pc'["apply"] = "weigh" /\ UNCHANGED files
        BY <2>1, <2>3, <2>5, GoRuns DEF Steps, Later
      <3>2. HeldOK /\ RecordsOK
        BY <1>1, <2>5 DEF ScopeInv, Later
      <3>3. p \in DOMAIN A.seen /\ p \in Paths /\ p \in A.todo
        BY <1>1, <2>5, <3>2 DEF HeldOK, A
      <3>4. files[p] \in FileStates /\ files[p].body <= acts /\ A.seen[p] \in SeenStates
        BY <2>1, <3>2, <3>3 DEF ScopeInv, FilesOK, HeldOK
      <3>5. /\ to \in FileStates /\ to.body = files[p].body /\ to.form = files[p].form
        BY <2>5, <3>4 DEF FileStates, SeenStates, A
      <3> HIDE DEF to
      <3>6. plan[p] \in PlanStates /\ plan[p].to = to
        BY <2>2, <3>5 DEF PlanStates
      <3>7. HeldOK'
        <4>1. \A q \in DOMAIN A'.plan : q # p =>
                 /\ A'.plan[q] = A.plan[q] /\ q \in DOMAIN A.plan
                 /\ IsInline("apply", q)' <=> IsInline("apply", q)
          BY <2>2, <2>3, <2>5, <3>1 DEF A, IsInline
        <4>2. \A q \in DOMAIN A'.plan :
                 /\ A'.plan[q] \in PlanStates
                 /\ A'.plan[q].to.body <= acts'
                 /\ PlannedBody(q)'
                 /\ q \notin A'.todo => IsInline("apply", q)' /\ Weighed(q)'
          <5> SUFFICES ASSUME NEW q \in DOMAIN A'.plan
                       PROVE  /\ A'.plan[q] \in PlanStates
                              /\ A'.plan[q].to.body <= acts'
                              /\ PlannedBody(q)'
                              /\ q \notin A'.todo => IsInline("apply", q)' /\ Weighed(q)'
            OBVIOUS
          <5>1. CASE q = p
            BY <1>1, <2>3, <2>5, <3>1, <3>3, <3>4, <3>5, <3>6, <5>1
            DEF PlannedBody, A, FileStates
          <5>2. CASE q # p
            BY <1>1, <2>3, <2>5, <3>1, <3>2, <4>1, <5>2 DEF PlannedBody, Weighed, HeldOK, A
          <5> QED
            BY <5>1, <5>2
        <4> QED
          BY <1>1, <2>2, <2>3, <2>5, <3>1, <3>2, <3>3, <4>2 DEF HeldOK, A
      <3>8. RecordsOK'
        BY <2>3, <2>5, <3>1, <3>2 DEF RecordsOK, Filtered, A, Decided
      <3> QED
        BY <1>1, <3>1, <3>7, <3>8 DEF ScopeInv, FilesOK, RenderedOK, Decided
    <2> QED
      BY <2>4, <2>5 DEF Runs
  <1> QED
    BY <1>4, <1>5

\* What is weighed stands now, and is the planned body or a later one.
LEMMA WeighScoped ==
    ASSUME ScopeInv, NEW w \in Runs, Weigh(w)
    PROVE  ScopeInv'
  <1>1. UNCHANGED acts /\ pc[w] = "weigh"
    BY DEF Weigh
  <1>2. IsHeld(memory[w])
    BY DEF ScopeInv, RunsOK
  <1>3. PICK p \in memory[w].todo :
            IF files[p] # None /\ files[p].form = "sealed"
            THEN Refuse(w)
            ELSE Go(w, "plan", [memory[w] EXCEPT
                    !.todo = @ \ {p},
                    !.plan = IF IsInline(w, p)
                             THEN [@ EXCEPT ![p].from = files[p]]
                             ELSE [q \in DOMAIN @ \ {p} |-> @[q]]])
    BY DEF Weigh
  <1> DEFINE plan == IF IsInline(w, p)
                     THEN [memory[w].plan EXCEPT ![p].from = files[p]]
                     ELSE [q \in DOMAIN memory[w].plan \ {p} |-> memory[w].plan[q]]
             held == [memory[w] EXCEPT !.todo = @ \ {p}, !.plan = plan]
  <1>4. CASE Refuse(w)
    BY <1>1, <1>4, RefuseScoped
  <1>5. CASE ~Refuse(w)
    <2>1. Go(w, "plan", held)
      BY <1>2, <1>3, <1>5 DEF IsHeld, Fields
    <2>2. /\ DOMAIN plan \subseteq DOMAIN memory[w].plan
          /\ p \in DOMAIN plan => /\ IsInline(w, p)
                                  /\ plan[p] = [memory[w].plan[p] EXCEPT !.from = files[p]]
          /\ \A q \in DOMAIN plan : q # p => plan[q] = memory[w].plan[q]
      OBVIOUS
    <2> HIDE DEF plan
    <2>3. /\ IsHeld(held) /\ held.plan = plan /\ held.seen = memory[w].seen
          /\ held.scope = memory[w].scope /\ held.todo = memory[w].todo \ {p}
          /\ held.ledger = memory[w].ledger /\ held.rules = memory[w].rules
      BY <1>2 DEF IsHeld, Fields
    <2> HIDE DEF held
    <2>4. CASE w = "check"
      BY <1>1, <2>1, <2>3, <2>4, CheckScoped DEF Steps, Later
    <2>5. CASE w = "apply"
      <3>1. RunsOK' /\ A' = held /\ pc'["apply"] = "plan" /\ UNCHANGED files
        BY <2>1, <2>3, <2>5, GoRuns DEF Steps, Later
      <3>2. HeldOK /\ RecordsOK
        BY <1>1, <2>5 DEF ScopeInv, Later
      <3>3. \A q \in DOMAIN A'.plan :
               /\ A'.plan[q] \in PlanStates
               /\ A'.plan[q].to.body <= acts'
               /\ PlannedBody(q)'
               /\ q \notin A'.todo => IsInline("apply", q)' /\ Weighed(q)'
        <4> SUFFICES ASSUME NEW q \in DOMAIN A'.plan
                     PROVE  /\ A'.plan[q] \in PlanStates
                            /\ A'.plan[q].to.body <= acts'
                            /\ PlannedBody(q)'
                            /\ q \notin A'.todo => IsInline("apply", q)' /\ Weighed(q)'
          OBVIOUS
        <4>1. q \in DOMAIN A.plan /\ (IsInline("apply", q)' <=> IsInline("apply", q))
          BY <2>2, <2>3, <2>5, <3>1 DEF A, IsInline
        <4>2. CASE q # p
          BY <1>1, <2>2, <2>3, <2>5, <3>1, <3>2, <4>1, <4>2 DEF PlannedBody, Weighed, HeldOK, A
        <4>3. CASE q = p
          <5>1. /\ A.plan[p] \in PlanStates /\ A.plan[p].to.body <= acts
                /\ PlannedBody(p) /\ p \in Paths
            BY <3>2, <4>1, <4>3 DEF HeldOK
          <5>2. A'.plan[p] = [A.plan[p] EXCEPT !.from = files[p]] /\ IsInline("apply", p)
            BY <2>2, <2>3, <2>5, <3>1, <4>3 DEF A
          <5>3. files[p] \in FileStates \cup {None}
            BY <5>1 DEF ScopeInv, FilesOK
          <5>4. /\ A'.plan[p] \in PlanStates /\ A'.plan[p].to = A.plan[p].to
                /\ A'.plan[p].from = files[p]
            BY <5>1, <5>2, <5>3 DEF PlanStates
          <5>5. PlannedBody(p)'
            BY <3>1, <5>1, <5>4 DEF PlannedBody
          <5>6. Weighed(p)'
            BY <1>1, <3>1, <5>1, <5>3, <5>4
            DEF PlannedBody, Weighed, FileStates, ScopeInv, FilesOK
          <5> QED
            BY <1>1, <4>1, <4>3, <5>1, <5>2, <5>4, <5>5, <5>6
        <4> QED
          BY <4>2, <4>3
      <3>4. HeldOK'
        BY <1>1, <2>2, <2>3, <2>5, <3>1, <3>2, <3>3 DEF HeldOK, A
      <3>5. RecordsOK'
        BY <2>3, <2>5, <3>1, <3>2 DEF RecordsOK, Filtered, A, Decided
      <3> QED
        BY <1>1, <3>1, <3>4, <3>5 DEF ScopeInv, FilesOK, RenderedOK, Decided
    <2> QED
      BY <2>4, <2>5 DEF Runs
  <1> QED
    BY <1>4, <1>5

\* Out of scope, the merged records are those of the index the run holds.
LEMMA CompileScoped ==
    ASSUME ScopeInv, NEW w \in Runs, Compile(w)
    PROVE  ScopeInv'
  <1> DEFINE out  == Merge(Preserved(w), Compiled(w))
             base == IF Filtered(w) = {} THEN None ELSE index
             next == IF w = "check" THEN "compare" ELSE "intents"
             held == [memory[w] EXCEPT !.base = base, !.out = out]
  <1>1. UNCHANGED acts /\ pc[w] = "plan" /\ memory[w].todo = {}
    BY DEF Compile
  <1>2. IsHeld(memory[w])
    BY DEF ScopeInv, RunsOK
  <1>3. CASE Refuse(w)
    BY <1>1, <1>3, RefuseScoped
  <1>4. CASE Go(w, next, held)
    <2>1. \A p \in Filtered(w) : p \notin DOMAIN memory[w].seen =>
             /\ p \in DOMAIN index.records <=> p \in DOMAIN out
             /\ p \in DOMAIN index.records => out[p] = index.records[p]
      BY DEF Merge, Preserved, Compiled, Subjects
    <2> HIDE DEF out
    <2>2. Filtered(w) # {} => base = index
      OBVIOUS
    <2> HIDE DEF base
    <2>3. /\ IsHeld(held) /\ held.plan = memory[w].plan /\ held.seen = memory[w].seen
          /\ held.scope = memory[w].scope /\ held.todo = memory[w].todo
          /\ held.ledger = memory[w].ledger /\ held.rules = memory[w].rules
          /\ held.base = base /\ held.out = out
      BY <1>2 DEF IsHeld, Fields
    <2> HIDE DEF held
    <2>4. CASE w = "check"
      BY <1>1, <1>4, <2>3, <2>4, CheckScoped DEF Steps, Later
    <2>5. CASE w = "apply"
      <3>1. RunsOK' /\ A' = held /\ pc'["apply"] = "intents" /\ UNCHANGED files
        BY <1>4, <2>3, <2>5, GoRuns DEF Steps, Later
      <3>2. HeldOK /\ RecordsOK
        BY <1>1, <2>5 DEF ScopeInv, Later
      <3>3. HeldOK'
        BY <1>1, <2>3, <2>5, <3>1, <3>2 DEF HeldOK, PlannedBody, Weighed, IsInline, A
      <3>4. RecordsOK'
        BY <2>1, <2>2, <2>3, <2>5, <3>1, <3>2 DEF RecordsOK, Filtered, HeldOK, A
      <3>5. A'.todo = {}
        BY <1>1, <2>3, <2>5, <3>1
      <3> QED
        BY <1>1, <3>1, <3>3, <3>4, <3>5 DEF ScopeInv, FilesOK, RenderedOK
    <2> QED
      BY <2>4, <2>5 DEF Runs
  <1> QED
    BY <1>3, <1>4 DEF Compile

LEMMA CompareScoped ==
    ASSUME ScopeInv, Compare
    PROVE  ScopeInv'
  <1>1. PICK drift : /\ Go("check", "end", [memory["check"] EXCEPT !.drift = drift])
                     /\ UNCHANGED acts
    BY DEF Compare
  <1>2. IsHeld([memory["check"] EXCEPT !.drift = drift])
    BY DEF ScopeInv, RunsOK, Runs, IsHeld, Fields
  <1> QED
    BY <1>1, <1>2, CheckScoped DEF Steps, Later

LEMMA EndCheckScoped ==
    ASSUME ScopeInv, EndCheck
    PROVE  ScopeInv'
  <1>1. UNCHANGED <<files, acts>> /\ \E how : Finish("check", how)
    BY DEF EndCheck
  <1>2. RunsOK' /\ A' = A /\ pc'["apply"] = pc["apply"]
    BY <1>1, FinishRuns DEF Runs
  <1> QED
    BY <1>1, <1>2, ElsewhereScoped

\* A change that renders as planned is of the very file that was weighed.
LEMMA IntentsScoped ==
    ASSUME ScopeInv, Intents
    PROVE  ScopeInv'
  <1> DEFINE base == IF Filtered("apply") = {} THEN index ELSE A.base
             held == [A EXCEPT !.base = base]
  <1>1. UNCHANGED acts /\ pc["apply"] = "intents"
    BY DEF Intents
  <1>2. IsHeld(A)
    BY DEF ScopeInv, RunsOK, Runs, A
  <1>3. CASE Refuse("apply")
    BY <1>1, <1>3, RefuseScoped DEF Runs
  <1>4. CASE ~Refuse("apply")
    <2>1. /\ Go("apply", "commit", held)
          /\ \A p \in Changes("apply") : files[p] # None /\ files[p].body = A.plan[p].to.body
      BY <1>2, <1>4 DEF Intents, IsHeld, Fields, A
    <2>2. /\ IsHeld(held) /\ held.plan = A.plan /\ held.seen = A.seen
          /\ held.scope = A.scope /\ held.todo = A.todo
          /\ held.ledger = A.ledger /\ held.rules = A.rules
          /\ held.out = A.out /\ held.base = base
      BY <1>2 DEF IsHeld, Fields
    <2>3. Filtered("apply") # {} => base = A.base
      OBVIOUS
    <2> HIDE DEF base, held
    <2>4. RunsOK' /\ A' = held /\ pc'["apply"] = "commit" /\ UNCHANGED files
      BY <2>1, <2>2, GoRuns DEF Runs, Steps, Later
    <2>5. HeldOK /\ RecordsOK /\ A.todo = {}
      BY <1>1 DEF ScopeInv, Later, Decided
    <2>6. HeldOK'
      BY <1>1, <2>2, <2>4, <2>5 DEF HeldOK, PlannedBody, Weighed, IsInline, A
    <2>7. RecordsOK'
      BY <1>1, <2>2, <2>3, <2>4, <2>5 DEF RecordsOK, Filtered, A, Decided
    <2>8. RenderedOK'
      <3> SUFFICES ASSUME NEW p \in Changes("apply")
                   PROVE  A.plan[p].from # None /\ A.plan[p].from.body = A.plan[p].to.body
        BY <2>2, <2>4 DEF RenderedOK, Changes, A
      <3>1. files[p] # None /\ files[p].body = A.plan[p].to.body
        BY <2>1
      <3>2. p \in DOMAIN A.plan
        BY DEF Changes, A
      <3>3. A.plan[p] \in PlanStates /\ Weighed(p)
        BY <2>5, <3>2 DEF HeldOK
      <3> QED
        BY <3>1, <3>3 DEF Weighed, PlanStates, FileStates
    <2> QED
      BY <1>1, <2>2, <2>4, <2>5, <2>6, <2>7, <2>8 DEF ScopeInv, FilesOK
  <1> QED
    BY <1>3, <1>4

\* What a commit replaces is what was weighed; the text is the same, the header is not.
LEMMA CommitReplacesHeaders ==
    ASSUME ScopeInv, pc["apply"] = "commit", StillAsPlanned, NEW p \in Changes("apply")
    PROVE  /\ p \in Paths /\ p \in A.scope /\ Authorized(A.rules[p])
           /\ files[p] \in FileStates /\ A.plan[p].to \in FileStates
           /\ A.plan[p].to.body = files[p].body
           /\ A.plan[p].to = [files[p] EXCEPT !.head = A.plan[p].to.head]
  <1>1. HeldOK /\ A.todo = {} /\ p \in DOMAIN A.plan
    BY DEF ScopeInv, Decided, Changes, A
  <1>2. A.plan[p].from # None /\ A.plan[p].from.body = A.plan[p].to.body
    BY DEF ScopeInv, RenderedOK
  <1>3. files[p] = A.plan[p].from
    BY DEF StillAsPlanned, A
  <1>4. A.plan[p] \in PlanStates /\ Weighed(p) /\ IsInline("apply", p)
    BY <1>1 DEF HeldOK
  <1>5. p \in Paths /\ p \in A.scope
    BY <1>1 DEF HeldOK
  <1>6. Authorized(A.rules[p])
    BY <1>4 DEF IsInline, CarrierDecision, A
  <1>7. /\ files[p] \in FileStates /\ A.plan[p].to \in FileStates
        /\ A.plan[p].to.body = files[p].body /\ A.plan[p].to.form = files[p].form
    BY <1>2, <1>3, <1>4 DEF PlanStates, Weighed
  <1>8. A.plan[p].to = [files[p] EXCEPT !.head = A.plan[p].to.head]
    BY <1>7 DEF FileStates
  <1> QED
    BY <1>5, <1>6, <1>7, <1>8

LEMMA CommitScoped ==
    ASSUME ScopeInv, Commit
    PROVE  ScopeInv'
  <1>1. UNCHANGED acts /\ pc["apply"] = "commit"
    BY DEF Commit
  <1>2. CASE Refuse("apply")
    BY <1>1, <1>2, RefuseScoped DEF Runs
  <1>3. CASE ~Refuse("apply")
    <2>1. /\ StillAsPlanned /\ Finish("apply", "passed")
          /\ files' = [p \in Paths |-> IF p \in Changes("apply") THEN A.plan[p].to
                                       ELSE files[p]]
      BY <1>3 DEF Commit, A
    <2>2. RunsOK' /\ pc'["apply"] = "idle"
      BY <2>1, FinishRuns DEF Runs
    <2>3. FilesOK'
      <3>1. FilesOK
        BY DEF ScopeInv
      <3>2. \A p \in Changes("apply") : /\ p \in Paths /\ files[p] \in FileStates
                                        /\ A.plan[p].to \in FileStates
                                        /\ A.plan[p].to.body = files[p].body
        BY <1>1, <2>1, CommitReplacesHeaders
      <3>3. \A p \in Paths : /\ files'[p] \in FileStates \cup {None}
                             /\ files'[p] # None => files'[p].body <= acts
        BY <2>1, <3>1, <3>2, NoneIsNoFile DEF FilesOK
      <3> QED
        BY <1>1, <2>1, <3>1, <3>3 DEF FilesOK
    <2> QED
      BY <2>2, <2>3, EndScoped
  <1> QED
    BY <1>2, <1>3

\* An edit makes a body newer than every one before it, or takes the file away.
LEMMA EditScoped ==
    ASSUME ScopeInv, NEW p \in Paths, Edit(p)
    PROVE  ScopeInv'
  <1>1. UNCHANGED <<pc, memory>> /\ acts' = acts + 1
    BY DEF Edit, Touch
  <1>2. FilesOK /\ acts \in Nat /\ p \in DOMAIN files
    BY DEF ScopeInv, FilesOK
  <1>3. /\ files'[p] = None \/ (files'[p] \in FileStates /\ files'[p].body = acts + 1)
        /\ \A q \in Paths : q # p => files'[q] = files[q]
        /\ files' \in [Paths -> FileStates \cup {None}]
    <2>1. CASE files[p] # None /\ files' = [files EXCEPT ![p] = None]
      BY <1>2, <2>1 DEF FilesOK
    <2>2. CASE \E form \in Forms,
                  head \in {None, IF files[p] = None THEN None ELSE files[p].head} :
                     files' = [files EXCEPT ![p] = File(acts + 1, form, head)]
      <3>1. PICK form \in Forms,
                 head \in {None, IF files[p] = None THEN None ELSE files[p].head} :
                    files' = [files EXCEPT ![p] = File(acts + 1, form, head)]
        BY <2>2
      <3>2. File(acts + 1, form, head) \in FileStates
            /\ File(acts + 1, form, head).body = acts + 1
        BY <1>2 DEF FilesOK, File, FileStates
      <3> QED
        BY <1>2, <3>1, <3>2 DEF FilesOK
    <2> QED
      BY <2>1, <2>2 DEF Edit
  <1>4. FilesOK'
    BY <1>1, <1>2, <1>3 DEF FilesOK, FileStates
  <1>5. RunsOK' /\ A' = A
    BY <1>1 DEF ScopeInv, RunsOK, IsHeld, A
  <1>6. CASE pc["apply"] = "idle"
    BY <1>1, <1>4, <1>5, <1>6, EndScoped
  <1>7. CASE pc["apply"] # "idle"
    <2>1. HeldOK
      BY <1>7 DEF ScopeInv
    <2>2. \A q \in DOMAIN A.plan : PlannedBody(q)' /\ (Weighed(q) => Weighed(q)')
      <3> SUFFICES ASSUME NEW q \in DOMAIN A.plan
                   PROVE  PlannedBody(q)' /\ (Weighed(q) => Weighed(q)')
        OBVIOUS
      <3>1. /\ q \in Paths /\ A.plan[q] \in PlanStates /\ A.plan[q].to.body <= acts
            /\ PlannedBody(q)
        BY <2>1 DEF HeldOK
      <3>2. CASE q # p
        BY <1>1, <1>2, <1>3, <1>5, <3>1, <3>2 DEF PlannedBody, Weighed, PlanStates, FileStates
      <3>3. CASE q = p
        <4>1. PlannedBody(q)'
          BY <1>2, <1>3, <1>5, <3>1, <3>3 DEF PlannedBody, PlanStates, FileStates
        <4>2. Weighed(q) => Weighed(q)'
          BY <1>1, <1>2, <1>3, <1>5, <3>1, <3>3 DEF Weighed, PlanStates, FileStates
        <4> QED
          BY <4>1, <4>2
      <3> QED
        BY <3>2, <3>3
    <2>3. HeldOK'
      BY <1>1, <1>2, <1>5, <2>1, <2>2 DEF HeldOK, IsInline, PlanStates, FileStates
    <2>4. pc["apply"] \in Later => RecordsOK'
      BY <1>1, <1>5 DEF ScopeInv, RecordsOK, Filtered, A
    <2>5. RenderedOK'
      BY <1>1, <1>5 DEF ScopeInv, RenderedOK, Changes, A
    <2> QED
      BY <1>1, <1>4, <1>5, <2>3, <2>4, <2>5 DEF ScopeInv
  <1> QED
    BY <1>6, <1>7

LEMMA TouchScoped ==
    ASSUME ScopeInv, NEW what, Touch(what), UNCHANGED files
    PROVE  ScopeInv'
  <1>1. UNCHANGED <<pc, memory, files>> /\ acts' = acts + 1 /\ acts \in Nat
    BY DEF Touch, ScopeInv, FilesOK
  <1>2. FilesOK'
    BY <1>1 DEF ScopeInv, FilesOK, FileStates
  <1>3. RunsOK' /\ A' = A
    BY <1>1 DEF ScopeInv, RunsOK, IsHeld, A
  <1>4. HeldOK => HeldOK'
    BY <1>1, <1>3 DEF HeldOK, PlannedBody, Weighed, IsInline, PlanStates, FileStates
  <1> QED
    BY <1>1, <1>2, <1>3, <1>4 DEF ScopeInv, RecordsOK, RenderedOK, Filtered, Changes, A

LEMMA NextScoped == ScopeInv /\ [GovernedNext]_governedVars => ScopeInv'
  <1> SUFFICES ASSUME ScopeInv, [GovernedNext]_governedVars
               PROVE  ScopeInv'
    OBVIOUS
  <1>1. CASE \E w \in Runs : Begin(w) \/ Discover(w) \/ Read(w) \/ EndRead(w) \/ Plan(w)
                            \/ Weigh(w) \/ Compile(w)
    BY <1>1, BeginScoped, DiscoverScoped, ReadScoped, EndReadScoped, PlanScoped, WeighScoped,
       CompileScoped
  <1>2. CASE Compare \/ EndCheck \/ Intents \/ Commit
    BY <1>2, CompareScoped, EndCheckScoped, IntentsScoped, CommitScoped
  <1>3. CASE \E p \in Paths : Edit(p)
    BY <1>3, EditScoped
  <1>4. CASE \E p \in Paths : Rule(p)
    BY <1>4, TouchScoped DEF Rule
  <1>5. CASE ActOnIndex
    BY <1>5, TouchScoped DEF ActOnIndex
  <1>6. CASE UNCHANGED governedVars
    <2>1. UNCHANGED <<files, acts, pc, memory>>
      BY <1>6 DEF governedVars
    <2>2. RunsOK'
      BY <2>1 DEF ScopeInv, RunsOK, IsHeld
    <2> QED
      BY <2>1, <2>2, ElsewhereScoped DEF A
  <1> QED
    BY <1>1, <1>2, <1>3, <1>4, <1>5, <1>6 DEF GovernedNext

\* Nothing but a commit ends an apply that stands before its transaction.
LEMMA OnlyCommitEnds ==
    ASSUME ScopeInv, [GovernedNext]_governedVars, pc["apply"] = "commit", pc'["apply"] = "idle"
    PROVE  Commit
  <1> USE DEF Runs
  <1>1. pc \in [Runs -> Steps]
    BY DEF ScopeInv, RunsOK
  <1>2. ASSUME NEW w \in Runs,
               Begin(w) \/ Discover(w) \/ Read(w) \/ EndRead(w) \/ Plan(w) \/ Weigh(w)
               \/ Compile(w)
        PROVE  FALSE
    <2>1. pc[w] # "commit"
      BY <1>2 DEF Begin, Discover, Read, EndRead, Plan, Weigh, Compile
    <2>2. w = "check"
      BY <2>1
    <2>3. \E to : pc' = [pc EXCEPT !["check"] = to]
      BY <1>2, <2>2 DEF Begin, Discover, Read, EndRead, Plan, Weigh, Compile, Refuse, Finish, Go
    <2> QED
      BY <1>1, <2>3
  <1>3. ~Compare /\ ~EndCheck
    BY <1>1 DEF Compare, EndCheck, Finish, Go
  <1>4. ~Intents
    BY DEF Intents
  <1>5. \A p \in Paths : ~Edit(p) /\ ~Rule(p)
    BY DEF Edit, Rule, Touch
  <1>6. ~ActOnIndex /\ ~UNCHANGED governedVars
    BY DEF ActOnIndex, Touch, governedVars
  <1> QED
    BY <1>2, <1>3, <1>4, <1>5, <1>6 DEF GovernedNext

-----------------------------------------------------------------------------
\* In every state an apply holds what ScopeInv says of its scope, plan and records.
THEOREM ScopeInvariant == GovernedSpec => []ScopeInv
  <1>1. GovernedInit => ScopeInv
    BY InitScoped
  <1>2. ScopeInv /\ [GovernedNext]_governedVars => ScopeInv'
    BY NextScoped
  <1> QED
    BY <1>1, <1>2, PTL DEF GovernedSpec

\* For any repository, scopes, authority and interleaving with checks and edits, an
\* apply changes headers of authorized files of its scope, no body of any, and no
\* record out of its scope (apply.ts, carrier_operation.ts).
THEOREM AppliesStayInScope == GovernedSpec => AppliesKeepToTheirScope
  <1> DEFINE Ends == pc["apply"] = "commit" /\ pc'["apply"] = "idle"
             Kept ==
               /\ \A p \in Paths : files'[p] # files[p] =>
                    /\ p \in memory["apply"].scope /\ Authorized(memory["apply"].rules[p])
                    /\ files'[p] = [files[p] EXCEPT !.head = files'[p].head]
               /\ verdict'["apply"] = "passed" => \A p \in Paths \ memory["apply"].scope :
                    memory["apply"].ledger[p] # "absent" =>
                      /\ p \in DOMAIN index.records <=> p \in DOMAIN index'.records
                      /\ p \in DOMAIN index.records => index'.records[p] = index.records[p]
  <1>1. ScopeInv /\ [GovernedNext]_governedVars => [Ends => Kept]_governedVars
    <2> SUFFICES ASSUME ScopeInv, [GovernedNext]_governedVars, Ends
                 PROVE  Kept
      OBVIOUS
    <2>1. Commit
      BY OnlyCommitEnds
    <2>2. CASE Refuse("apply")
      BY <2>2 DEF Refuse
    <2>3. CASE ~Refuse("apply")
      <3>1. /\ StillAsPlanned
            /\ files' = [p \in Paths |-> IF p \in Changes("apply") THEN A.plan[p].to
                                         ELSE files[p]]
            /\ index' = MetadataIndex("v1", A.out)
        BY <2>1, <2>3 DEF Commit, A
      <3>2. \A p \in Paths : files'[p] # files[p] =>
               /\ p \in A.scope /\ Authorized(A.rules[p])
               /\ files'[p] = [files[p] EXCEPT !.head = files'[p].head]
        <4> SUFFICES ASSUME NEW p \in Paths, files'[p] # files[p]
                     PROVE  /\ p \in A.scope /\ Authorized(A.rules[p])
                            /\ files'[p] = [files[p] EXCEPT !.head = files'[p].head]
          OBVIOUS
        <4>1. p \in Changes("apply") /\ files'[p] = A.plan[p].to
          BY <3>1
        <4> QED
          BY <3>1, <4>1, CommitReplacesHeaders
      <3>3. index'.records = A.out /\ index = A.base
        BY <3>1 DEF MetadataIndex, StillAsPlanned, A
      <3>4. RecordsOK /\ pc["apply"] \in Decided
        BY DEF ScopeInv, Later, Decided
      <3>5. \A p \in Paths \ A.scope : A.ledger[p] # "absent" =>
               /\ p \in DOMAIN index.records <=> p \in DOMAIN index'.records
               /\ p \in DOMAIN index.records => index'.records[p] = index.records[p]
        BY <3>3, <3>4 DEF RecordsOK
      <3> QED
        BY <3>2, <3>5 DEF A
    <2> QED
      BY <2>2, <2>3
  <1>2. AppliesKeepToTheirScope <=> [][Ends => Kept]_governedVars
    BY PTL DEF AppliesKeepToTheirScope
  <1> QED
    BY <1>1, <1>2, ScopeInvariant, PTL DEF GovernedSpec

-----------------------------------------------------------------------------
(* What a run holds of a tree that changes under it: of the paths nobody   *)
(* touched since it began, what they are now.                              *)

Merged == {"compare", "end", "intents", "commit"}

\* What the first snapshot of the check found.
Before == memory["check"].before
Was(p) == Before[1][p]

\* An edit never brings a body back, so this file has stood all along.
Stood(p) == Was(p) # None /\ files[p] # None /\ files[p].body = Was(p).body

\* Paths of which the run's view is still right.
Stands(w, p) == p \notin touched[w] \/ (w = "check" /\ Stood(p))

IsFcn(f)   == f = [x \in DOMAIN f |-> f[x]]
IsOld(records) == \A p \in DOMAIN records : records[p].hash \in 0 .. acts

IndexOK(ix) ==
    /\ ix = MetadataIndex(ix.kind, ix.records)
    /\ IsFcn(ix.records) /\ DOMAIN ix.records \subseteq Paths
    /\ IsOld(ix.records) /\ DistinctIds(ix.records)

\* The merged records: of what was read, and out of the run's scope the index's.
OutOK(w) ==
    LET out == memory[w].out
    IN  /\ IsFcn(out) /\ DOMAIN out \subseteq Paths /\ IsOld(out) /\ DistinctIds(out)
        /\ \A p \in Paths \ Filtered(w) :
              /\ p \in DOMAIN out <=> p \in Subjects(w)
              /\ p \in DOMAIN out => out[p] = Record(memory[w].rules[p], p, memory[w].seen[p])
        /\ \A p \in Filtered(w) :
              /\ p \in DOMAIN out <=> p \in DOMAIN memory[w].base.records
              /\ p \in DOMAIN out => out[p] = memory[w].base.records[p]

\* What a run holds whatever happens to the tree meanwhile.
HoldsOK(w) ==
    LET held == memory[w]
    IN  /\ held.scope \subseteq Paths /\ DOMAIN held.seen \subseteq Paths
        /\ \A p \in DOMAIN held.seen : held.seen[p].body \in 0 .. acts
        /\ DOMAIN held.plan \subseteq DOMAIN held.seen
        /\ \A p \in DOMAIN held.plan : DOMAIN held.plan[p] = {"from", "to"}
        /\ pc[w] = "discover" => DOMAIN held.seen = {}
        /\ pc[w] \in {"discover", "read"} => DOMAIN held.plan = {}
        /\ pc[w] = "read" => \A p \in held.todo : p \in Paths /\ held.ledger[p] = "eligible"
        /\ pc[w] \in {"plan", "weigh"} => \A p \in held.todo :
              p \in Subjects(w) /\ held.seen[p].form = "prose"
        /\ pc[w] = "weigh" => \A p \in held.todo : IsNext(w, p) => p \in DOMAIN held.plan
        /\ pc[w] \in {"plan", "weigh"} \cup Merged =>
              \A p \in DOMAIN held.plan : p \in held.todo \/ IsInline(w, p)
        /\ pc[w] \in Merged => held.todo = {} /\ OutOK(w)
        /\ pc[w] \in Later =>
              /\ \A p \in Filtered(w) : p \notin held.scope
              /\ \A p \in DOMAIN held.seen : held.ledger[p] = "eligible"
        /\ w = "apply" /\ pc[w] \in Merged => ~Blocking(w) /\ Conflicts(w) = {}

\* The run's view of a path.
View(w, p) ==
    LET held == memory[w]
    IN  /\ pc[w] \in Later => held.ledger[p] = Disposition(files[p], held.scope, p)
        /\ p \in DOMAIN held.seen =>
              /\ files[p] # None
              /\ held.seen[p].body = files[p].body /\ held.seen[p].form = files[p].form
        /\ pc[w] \in Later /\ held.ledger[p] = "eligible" =>
              p \in DOMAIN held.seen \/ (pc[w] = "read" /\ p \in held.todo)
        /\ pc[w] \in {"plan", "weigh"} \cup Merged /\ p \in DOMAIN held.seen /\ IsInline(w, p) =>
              p \in held.todo \/ (p \in DOMAIN held.plan /\ held.plan[p].from # None)
        /\ p \in DOMAIN held.plan =>
              /\ held.plan[p].to = File(files[p].body, files[p].form, files[p].body)
              /\ held.plan[p].from # None /\ (w = "check" => "apply" \notin touched[w]) =>
                    held.plan[p].from = files[p]

SightOf(w) ==
    pc[w] # "idle" =>
        /\ HoldsOK(w)
        /\ \A p \in Paths \ touched[w] : memory[w].rules[p] = rules[p]
        /\ \A p \in Paths : Stands(w, p) => View(w, p)

\* The first snapshot, and what the check goes by.
SnapshotOK ==
    /\ Before = <<Before[1], Before[2], Before[3]>>
    /\ Before[1] \in [Paths -> FileStates \cup {None}]
    /\ \A p \in Paths : Was(p) # None => Was(p).body <= acts
    /\ memory["check"].rules = Before[2]
    /\ IndexOK(Before[3])

SightInv ==
    /\ DOMAIN touched = Runs /\ DOMAIN verdict = Runs /\ DOMAIN rules = Paths
    /\ IndexOK(index)
    /\ \A w \in Runs : SightOf(w)
    /\ pc["check"] # "idle" => SnapshotOK

-----------------------------------------------------------------------------
(* What happens between the two snapshots of a check                       *)

\* The apply under way, if any, began after the check.
IsFresh == pc["apply"] # "idle" => touched["apply"] \subseteq touched["check"]

\* What the index says of a path is what it is.
Indexed(ix, p) ==
    IF \/ files[p] = None \/ files[p].form = "sealed"
       \/ CarrierDecision(rules[p], files[p].form) = "hard_skip"
    THEN p \notin DOMAIN ix.records
    ELSE p \in DOMAIN ix.records /\ ix.records[p] = Record(rules[p], p, files[p])

\* One index has no record the other has not.
Within(small, large) ==
    \A p \in DOMAIN small : p \in DOMAIN large /\ small[p] = large[p]

Headed(p) == files[p] # None /\ files[p].head = files[p].body

\* What was made where nothing was is newer than every record of the snapshot.
NewerOK(p) ==
    Was(p) = None /\ p \in DOMAIN Before[3].records =>
        /\ files[p] # None => files[p].body > Before[3].records[p].hash
        /\ p \in DOMAIN memory["check"].seen =>
              memory["check"].seen[p].body > Before[3].records[p].hash

\* No apply changes a thing: people only take records away.
NoApplyOK ==
    "apply" \notin touched["check"] =>
        /\ \A p \in Paths : Stood(p) => files[p] = Was(p)
        /\ index.kind = "v1" => Before[3].kind = "v1" /\ Within(index.records, Before[3].records)
        /\ pc["check"] = "end" /\ ~memory["check"].drift =>
              /\ Before[3].kind = "v1" /\ Within(memory["check"].out, Before[3].records)
              /\ index.kind = "v1" => Within(index.records, memory["check"].out)

\* An apply that does began after the check, unless the index is the snapshot's.
HeadOK(p) ==
    /\ Headed(p) /\ Was(p).head # files[p].body => IsFresh
    /\ p \in DOMAIN memory["check"].plan =>
          LET plan == memory["check"].plan[p]
          IN  plan.from # None /\ plan.from = plan.to => Headed(p) \/ Was(p).head = files[p].body

AppliesOK ==
    /\ \A p \in Paths \ touched["check"] : HeadOK(p)
    /\ "index" \notin touched["check"] => 
          /\ index = Before[3] \/ IsFresh
          /\ pc["check"] = "end" /\ ~memory["check"].drift =>
                \A p \in (Paths \cap memory["check"].scope) \ touched["check"] :
                    Indexed(Before[3], p) \/ (IsFresh /\ Indexed(index, p))

Drifts ==
    \/ Blocking("check") \/ Conflicts("check") # {} \/ Changes("check") # {}
    \/ Unmergeable("check", memory["check"].base)

DriftOK ==
    pc["check"] = "end" /\ ~memory["check"].drift => ~Drifts

CheckInv ==
    pc["check"] # "idle" =>
        /\ \A p \in Paths : NewerOK(p)
        /\ NoApplyOK /\ AppliesOK /\ DriftOK

-----------------------------------------------------------------------------
(* What applies have covered                                               *)

Settled(p) ==
    /\ Current(p)
    /\ files[p] # None => files[p].form # "sealed" /\ ~Unsatisfied(rules[p], files[p].form)

\* A check nothing happened under.
StillOK ==
    pc["check"] # "idle" /\ touched["check"] = {} =>
        /\ Before = <<files, rules, index>>
        /\ \A p \in Paths : files[p] # None => files[p].form # "sealed"
        /\ pc["check"] \in Merged /\ Filtered("check") # {} => memory["check"].base = index
        /\ pc["check"] = "end" /\ memory["check"].drift =>
              Drifts \/ index # MetadataIndex("v1", memory["check"].out)

CoveredInv ==
    /\ \A p \in covered \cap Paths : Settled(p) /\ index.kind = "v1"
    /\ pc["apply"] # "idle" => covered \cap touched["apply"] = {}
    /\ StillOK
-----------------------------------------------------------------------------
(* What each move of a run does                                            *)

\* The run goes on, over an unchanged tree.
Moves(w, to, held) ==
    /\ pc[w] # "idle" /\ to \in Later /\ IsHeld(held)
    /\ pc' = [pc EXCEPT ![w] = to] /\ memory' = [memory EXCEPT ![w] = held]
    /\ UNCHANGED <<files, rules, index, verdict, acts, touched, covered>>
    /\ held.scope = memory[w].scope /\ held.rules = memory[w].rules
    /\ held.before = memory[w].before

\* It ends without having changed a thing.
Stops(w, how) == Finish(w, how) /\ UNCHANGED <<files, rules, index, acts, touched, covered>>

LEMMA HeldIs == ASSUME ScopeInv, NEW w \in Runs PROVE IsHeld(memory[w])
  BY DEF ScopeInv, RunsOK

LEMMA DiscoverMoves ==
    ASSUME ScopeInv, NEW w \in Runs, Discover(w)
    PROVE  /\ pc[w] = "discover"
           /\ \E held : /\ Moves(w, "read", held)
                        /\ held.ledger = [p \in Paths |-> Disposition(files[p], memory[w].scope, p)]
                        /\ held.todo = {p \in Paths : held.ledger[p] = "eligible"}
                        /\ held.seen = memory[w].seen /\ held.plan = memory[w].plan
  <1> DEFINE found == [p \in Paths |-> Disposition(files[p], memory[w].scope, p)]
             held  == [memory[w] EXCEPT !.ledger = found,
                                     !.todo = {p \in Paths : found[p] = "eligible"}]
  <1>1. Go(w, "read", held) /\ UNCHANGED <<rules, acts>> /\ pc[w] = "discover"
    BY DEF Discover
  <1>2. IsHeld(memory[w])
    BY HeldIs
  <1>3. /\ IsHeld(held) /\ held.ledger = found /\ held.scope = memory[w].scope
        /\ held.todo = {p \in Paths : found[p] = "eligible"}
        /\ held.seen = memory[w].seen /\ held.plan = memory[w].plan
        /\ held.rules = memory[w].rules /\ held.before = memory[w].before
    BY <1>2 DEF IsHeld, Fields
  <1> HIDE DEF found, held
  <1>4. Moves(w, "read", held)
    BY <1>1, <1>3 DEF Moves, Go, Later
  <1> QED
    BY <1>1, <1>3, <1>4 DEF found

LEMMA ReadMoves ==
    ASSUME ScopeInv, NEW w \in Runs, Read(w)
    PROVE  /\ pc[w] = "read"
           /\ \E p \in memory[w].todo :
                \/ (files[p] = None \/ files[p].form = "sealed") /\ Stops(w, "refused")
                \/ \E form \in ReadAs(files[p].form) : \E held :
                     /\ files[p] # None /\ files[p].form # "sealed"
                     /\ Moves(w, "read", held)
                     /\ held.ledger = memory[w].ledger /\ held.plan = memory[w].plan
                     /\ held.todo = memory[w].todo \ {p}
                     /\ held.seen = [q \in DOMAIN memory[w].seen \cup {p} |->
                                       IF q = p THEN [body |-> files[p].body, form |-> form]
                                       ELSE memory[w].seen[q]]
  <1>1. UNCHANGED <<rules, acts>> /\ pc[w] = "read"
    BY DEF Read
  <1>2. IsHeld(memory[w])
    BY HeldIs
  <1>3. PICK p \in memory[w].todo :
            IF files[p] = None \/ files[p].form = "sealed"
            THEN Refuse(w)
            ELSE \E form \in ReadAs(files[p].form) :
                    Go(w, "read", [memory[w] EXCEPT
                        !.todo = @ \ {p},
                        !.seen = [q \in DOMAIN @ \cup {p} |->
                            IF q = p THEN [body |-> files[p].body, form |-> form] ELSE @[q]]])
    BY DEF Read
  <1>4. CASE files[p] = None \/ files[p].form = "sealed"
    BY <1>1, <1>3, <1>4 DEF Refuse, Stops
  <1>5. CASE ~(files[p] = None \/ files[p].form = "sealed")
    <2>1. PICK form \in ReadAs(files[p].form) :
            Go(w, "read", [memory[w] EXCEPT
                        !.todo = @ \ {p},
                        !.seen = [q \in DOMAIN @ \cup {p} |->
                            IF q = p THEN [body |-> files[p].body, form |-> form] ELSE @[q]]])
      BY <1>3, <1>5
    <2> DEFINE seen == [q \in DOMAIN memory[w].seen \cup {p} |->
                            IF q = p THEN [body |-> files[p].body, form |-> form]
                            ELSE memory[w].seen[q]]
               held == [memory[w] EXCEPT !.todo = @ \ {p}, !.seen = seen]
    <2>2. Go(w, "read", held)
      BY <1>2, <2>1 DEF IsHeld, Fields
    <2>3. /\ IsHeld(held) /\ held.seen = seen /\ held.todo = memory[w].todo \ {p}
          /\ held.scope = memory[w].scope /\ held.plan = memory[w].plan
          /\ held.ledger = memory[w].ledger
          /\ held.rules = memory[w].rules /\ held.before = memory[w].before
      BY <1>2 DEF IsHeld, Fields
    <2> HIDE DEF held, seen
    <2>4. Moves(w, "read", held)
      BY <1>1, <2>2, <2>3 DEF Moves, Go, Later
    <2> QED
      BY <1>1, <1>5, <2>3, <2>4 DEF seen
  <1> QED
    BY <1>4, <1>5

LEMMA EndReadMoves ==
    ASSUME ScopeInv, NEW w \in Runs, EndRead(w)
    PROVE  /\ pc[w] = "read" /\ memory[w].todo = {}
           /\ \/ ~DistinctIds(Compiled(w)) /\ Stops(w, "refused")
              \/ \E held :
                   /\ Moves(w, "plan", held)
                   /\ held.ledger = memory[w].ledger /\ held.plan = memory[w].plan
                   /\ held.seen = memory[w].seen
                   /\ held.todo = {p \in Subjects(w) :
                         /\ memory[w].seen[p].form = "prose"
                         /\ CarrierDecision(memory[w].rules[p], "prose") # "inventory_only"}
  <1> DEFINE todo == {p \in Subjects(w) :
                         /\ memory[w].seen[p].form = "prose"
                         /\ CarrierDecision(memory[w].rules[p], "prose") # "inventory_only"}
             held == [memory[w] EXCEPT !.todo = todo]
  <1>1. UNCHANGED <<rules, acts>> /\ pc[w] = "read" /\ memory[w].todo = {}
    BY DEF EndRead
  <1>2. IsHeld(memory[w])
    BY HeldIs
  <1>3. CASE ~DistinctIds(Compiled(w))
    BY <1>1, <1>3 DEF EndRead, Refuse, Stops
  <1>4. CASE DistinctIds(Compiled(w))
    <2>1. Go(w, "plan", held)
      BY <1>4 DEF EndRead
    <2> HIDE DEF todo
    <2>2. /\ IsHeld(held) /\ held.todo = todo /\ held.seen = memory[w].seen
          /\ held.scope = memory[w].scope /\ held.plan = memory[w].plan
          /\ held.ledger = memory[w].ledger
          /\ held.rules = memory[w].rules /\ held.before = memory[w].before
      BY <1>2 DEF IsHeld, Fields
    <2> HIDE DEF held
    <2>3. Moves(w, "plan", held)
      BY <1>1, <2>1, <2>2 DEF Moves, Go, Later
    <2> QED
      BY <1>1, <2>2, <2>3 DEF todo
  <1> QED
    BY <1>3, <1>4

LEMMA PlanMoves ==
    ASSUME ScopeInv, NEW w \in Runs, Plan(w)
    PROVE  /\ pc[w] = "plan"
           /\ \E p \in {q \in memory[w].todo : IsNext(w, q)} :
                \/ /\ files[p] = None \/ files[p].form \in {"sealed", "binary"} \cup Blocked
                   /\ Stops(w, "refused")
                \/ \E held :
                     /\ files[p] # None /\ Moves(w, "weigh", held)
                     /\ held.ledger = memory[w].ledger /\ held.seen = memory[w].seen
                     /\ held.todo = memory[w].todo
                     /\ held.plan = [q \in DOMAIN memory[w].plan \cup {p} |->
                          IF q = p THEN [from |-> None,
                                         to |-> [files[p] EXCEPT !.head = memory[w].seen[p].body]]
                          ELSE memory[w].plan[q]]
  <1>1. UNCHANGED <<rules, acts>> /\ pc[w] = "plan"
    BY DEF Plan
  <1>2. IsHeld(memory[w])
    BY HeldIs
  <1>3. PICK p \in {q \in memory[w].todo : IsNext(w, q)} :
            IF files[p] = None \/ files[p].form \in {"sealed", "binary"} \cup Blocked
            THEN Refuse(w)
            ELSE Go(w, "weigh", [memory[w] EXCEPT
                    !.plan = [q \in DOMAIN @ \cup {p} |->
                        IF q = p THEN [from |-> None,
                                       to |-> [files[p] EXCEPT !.head = memory[w].seen[p].body]]
                        ELSE @[q]]])
    BY DEF Plan
  <1> DEFINE plan == [q \in DOMAIN memory[w].plan \cup {p} |->
                        IF q = p THEN [from |-> None,
                                       to |-> [files[p] EXCEPT !.head = memory[w].seen[p].body]]
                        ELSE memory[w].plan[q]]
             held == [memory[w] EXCEPT !.plan = plan]
  <1>4. CASE files[p] = None \/ files[p].form \in {"sealed", "binary"} \cup Blocked
    BY <1>1, <1>3, <1>4 DEF Refuse, Stops
  <1>5. CASE ~(files[p] = None \/ files[p].form \in {"sealed", "binary"} \cup Blocked)
    <2>1. Go(w, "weigh", held)
      BY <1>2, <1>3, <1>5 DEF IsHeld, Fields
    <2> HIDE DEF plan
    <2>2. /\ IsHeld(held) /\ held.plan = plan /\ held.seen = memory[w].seen
          /\ held.scope = memory[w].scope /\ held.todo = memory[w].todo
          /\ held.ledger = memory[w].ledger
          /\ held.rules = memory[w].rules /\ held.before = memory[w].before
      BY <1>2 DEF IsHeld, Fields
    <2> HIDE DEF held
    <2>3. Moves(w, "weigh", held)
      BY <1>1, <2>1, <2>2 DEF Moves, Go, Later
    <2> QED
      BY <1>1, <1>5, <2>2, <2>3 DEF plan
  <1> QED
    BY <1>4, <1>5

LEMMA WeighMoves ==
    ASSUME ScopeInv, NEW w \in Runs, Weigh(w)
    PROVE  /\ pc[w] = "weigh"
           /\ \E p \in {q \in memory[w].todo : IsNext(w, q)} :
                \/ files[p] # None /\ files[p].form = "sealed" /\ Stops(w, "refused")
                \/ \E held :
                     /\ Moves(w, "plan", held)
                     /\ held.ledger = memory[w].ledger /\ held.seen = memory[w].seen
                     /\ held.todo = memory[w].todo \ {p}
                     /\ held.plan = IF IsInline(w, p)
                                    THEN [memory[w].plan EXCEPT ![p].from = files[p]]
                                    ELSE [q \in DOMAIN memory[w].plan \ {p} |-> memory[w].plan[q]]
  <1>1. UNCHANGED <<rules, acts>> /\ pc[w] = "weigh"
    BY DEF Weigh
  <1>2. IsHeld(memory[w])
    BY HeldIs
  <1>3. PICK p \in {q \in memory[w].todo : IsNext(w, q)} :
            IF files[p] # None /\ files[p].form = "sealed"
            THEN Refuse(w)
            ELSE Go(w, "plan", [memory[w] EXCEPT
                    !.todo = @ \ {p},
                    !.plan = IF IsInline(w, p)
                             THEN [@ EXCEPT ![p].from = files[p]]
                             ELSE [q \in DOMAIN @ \ {p} |-> @[q]]])
    BY DEF Weigh
  <1> DEFINE plan == IF IsInline(w, p)
                     THEN [memory[w].plan EXCEPT ![p].from = files[p]]
                     ELSE [q \in DOMAIN memory[w].plan \ {p} |-> memory[w].plan[q]]
             held == [memory[w] EXCEPT !.todo = @ \ {p}, !.plan = plan]
  <1>4. CASE files[p] # None /\ files[p].form = "sealed"
    BY <1>1, <1>3, <1>4 DEF Refuse, Stops
  <1>5. CASE ~(files[p] # None /\ files[p].form = "sealed")
    <2>1. Go(w, "plan", held)
      BY <1>2, <1>3, <1>5 DEF IsHeld, Fields
    <2> HIDE DEF plan
    <2>2. /\ IsHeld(held) /\ held.plan = plan /\ held.seen = memory[w].seen
          /\ held.scope = memory[w].scope /\ held.todo = memory[w].todo \ {p}
          /\ held.ledger = memory[w].ledger
          /\ held.rules = memory[w].rules /\ held.before = memory[w].before
      BY <1>2 DEF IsHeld, Fields
    <2> HIDE DEF held
    <2>3. Moves(w, "plan", held)
      BY <1>1, <2>1, <2>2 DEF Moves, Go, Later
    <2> QED
      BY <1>1, <2>2, <2>3 DEF plan
  <1> QED
    BY <1>4, <1>5

LEMMA CompileMoves ==
    ASSUME ScopeInv, NEW w \in Runs, Compile(w)
    PROVE  /\ pc[w] = "plan" /\ memory[w].todo = {}
           /\ \/ /\ w = "check" => ~DistinctIds(Merge(Preserved(w), Compiled(w)))
                 /\ Stops(w, "refused")
              \/ \E held :
                   /\ Moves(w, IF w = "check" THEN "compare" ELSE "intents", held)
                   /\ held.ledger = memory[w].ledger /\ held.plan = memory[w].plan
                   /\ held.seen = memory[w].seen /\ held.todo = memory[w].todo
                   /\ held.base = (IF Filtered(w) = {} THEN None ELSE index)
                   /\ held.out = Merge(Preserved(w), Compiled(w)) /\ DistinctIds(held.out)
                   /\ w = "apply" => ~Blocking(w) /\ Conflicts(w) = {}
  <1> DEFINE out  == Merge(Preserved(w), Compiled(w))
             base == IF Filtered(w) = {} THEN None ELSE index
             next == IF w = "check" THEN "compare" ELSE "intents"
             held == [memory[w] EXCEPT !.base = base, !.out = out]
             bad  == \/ ~DistinctIds(out)
                     \/ w = "apply" /\ (Blocking(w) \/ Unmergeable(w, index) \/ Conflicts(w) # {})
  <1>1. UNCHANGED <<rules, acts>> /\ pc[w] = "plan" /\ memory[w].todo = {}
    BY DEF Compile
  <1>2. IsHeld(memory[w])
    BY HeldIs
  <1>3. CASE bad
    <2>1. Refuse(w)
      BY <1>3 DEF Compile
    <2>2. w = "check" => ~DistinctIds(out)
      BY <1>3
    <2> QED
      BY <1>1, <2>1, <2>2 DEF Refuse, Stops
  <1>4. CASE ~bad
    <2>1. Go(w, next, held)
      BY <1>4 DEF Compile
    <2>2. DistinctIds(out) /\ (w = "apply" => ~Blocking(w) /\ Conflicts(w) = {})
      BY <1>4
    <2> HIDE DEF out, base
    <2>3. /\ IsHeld(held) /\ held.plan = memory[w].plan /\ held.seen = memory[w].seen
          /\ held.scope = memory[w].scope /\ held.todo = memory[w].todo
          /\ held.ledger = memory[w].ledger
          /\ held.rules = memory[w].rules /\ held.before = memory[w].before
          /\ held.base = base /\ held.out = out
      BY <1>2 DEF IsHeld, Fields
    <2> HIDE DEF held
    <2>4. next \in Later
      BY DEF Later
    <2> HIDE DEF next
    <2>5. Moves(w, next, held)
      BY <1>1, <2>1, <2>3, <2>4 DEF Moves, Go
    <2> QED
      BY <1>1, <2>2, <2>3, <2>5 DEF out, base, next
  <1> QED
    BY <1>3, <1>4

LEMMA CompareMoves ==
    ASSUME ScopeInv, Compare
    PROVE  /\ pc["check"] = "compare"
           /\ \E held :
                LET c == memory["check"]
                IN  /\ Moves("check", "end", held)
                    /\ held.ledger = c.ledger /\ held.plan = c.plan /\ held.seen = c.seen
                    /\ held.todo = c.todo /\ held.base = c.base /\ held.out = c.out
                    /\ held.drift <=> Drifts \/ index # MetadataIndex("v1", c.out)
  <1> DEFINE c == memory["check"]
             drift == \/ Blocking("check") \/ Conflicts("check") # {}
                      \/ Changes("check") # {}
                      \/ Unmergeable("check", c.base)
                      \/ index # MetadataIndex("v1", c.out)
             held == [c EXCEPT !.drift = drift]
  <1>1. UNCHANGED <<rules, acts>> /\ pc["check"] = "compare" /\ Go("check", "end", held)
    BY DEF Compare
  <1>2. IsHeld(c)
    BY HeldIs DEF Runs
  <1>3. drift <=> Drifts \/ index # MetadataIndex("v1", c.out)
    BY DEF Drifts
  <1> HIDE DEF drift
  <1>4. /\ IsHeld(held) /\ held.ledger = c.ledger /\ held.plan = c.plan /\ held.seen = c.seen
        /\ held.todo = c.todo /\ held.base = c.base /\ held.out = c.out
        /\ held.scope = c.scope /\ held.rules = c.rules /\ held.before = c.before
    BY <1>2 DEF IsHeld, Fields
  <1>5. held.drift = drift
    BY <1>2 DEF IsHeld, Fields
  <1> HIDE DEF held
  <1>6. Moves("check", "end", held)
    BY <1>1, <1>4 DEF Moves, Go, Later
  <1> QED
    BY <1>1, <1>3, <1>4, <1>5, <1>6

LEMMA IntentsMoves ==
    ASSUME ScopeInv, Intents
    PROVE  /\ pc["apply"] = "intents"
           /\ \/ Stops("apply", "refused")
              \/ \E held :
                   /\ Moves("apply", "commit", held)
                   /\ held.ledger = A.ledger /\ held.plan = A.plan /\ held.seen = A.seen
                   /\ held.todo = A.todo /\ held.out = A.out
                   /\ held.base = IF Filtered("apply") = {} THEN index ELSE A.base
  <1> DEFINE base == IF Filtered("apply") = {} THEN index ELSE A.base
             held == [A EXCEPT !.base = base]
  <1>1. UNCHANGED <<rules, acts>> /\ pc["apply"] = "intents"
    BY DEF Intents
  <1>2. IsHeld(A)
    BY HeldIs DEF Runs, A
  <1>3. CASE Refuse("apply")
    BY <1>1, <1>3 DEF Refuse, Stops
  <1>4. CASE ~Refuse("apply")
    <2>1. Go("apply", "commit", held)
      BY <1>2, <1>4 DEF Intents, IsHeld, Fields, A
    <2> HIDE DEF base
    <2>2. /\ IsHeld(held) /\ held.plan = A.plan /\ held.seen = A.seen
          /\ held.scope = A.scope /\ held.todo = A.todo
          /\ held.ledger = A.ledger /\ held.rules = A.rules /\ held.before = A.before
          /\ held.out = A.out /\ held.base = base
      BY <1>2 DEF IsHeld, Fields
    <2> HIDE DEF held
    <2>3. Moves("apply", "commit", held)
      BY <1>1, <2>1, <2>2 DEF Moves, Go, Later, A
    <2> QED
      BY <1>1, <2>2, <2>3 DEF base
  <1> QED
    BY <1>3, <1>4
-----------------------------------------------------------------------------
(* SightInv: what nobody touched is as the run has it                      *)

LEMMA InitSight == GovernedInit => SightInv
  <1> SUFFICES ASSUME GovernedInit
               PROVE  SightInv
    OBVIOUS
  <1>1. index = MetadataIndex("missing", NoRecords) /\ DOMAIN NoRecords = {}
    BY DEF GovernedInit, NoRecords
  <1>2. index.kind = "missing" /\ index.records = NoRecords
    BY <1>1 DEF MetadataIndex
  <1>3. IsFcn(NoRecords)
    BY DEF IsFcn, NoRecords
  <1>4. IndexOK(index)
    BY <1>1, <1>2, <1>3 DEF IndexOK, IsOld, DistinctIds
  <1> QED
    BY <1>4 DEF GovernedInit, SightInv, SightOf, Runs

\* What a run holds is none the worse for what others do.
LEMMA QuietHolds ==
    ASSUME NEW w \in Runs, HoldsOK(w), memory'[w] = memory[w], pc'[w] = pc[w],
           acts \in Nat, acts' \in Nat, acts <= acts'
    PROVE  HoldsOK(w)'
  <1>1. /\ Filtered(w)' = Filtered(w) /\ Subjects(w)' = Subjects(w)
        /\ Blocking(w)' = Blocking(w) /\ Conflicts(w)' = Conflicts(w)
        /\ \A p : (IsInline(w, p)' <=> IsInline(w, p)) /\ (IsNext(w, p)' <=> IsNext(w, p))
    BY DEF Filtered, Subjects, Blocking, Conflicts, IsInline, IsNext
  <1>2. \A x : x \in 0 .. acts => x \in 0 .. acts'
    OBVIOUS
  <1>3. OutOK(w) => OutOK(w)'
    BY <1>1, <1>2 DEF OutOK, IsOld
  <1> QED
    BY <1>1, <1>2, <1>3 DEF HoldsOK

\* Nor is its view of what still stands.
LEMMA QuietSight ==
    ASSUME NEW w \in Runs, SightOf(w), memory'[w] = memory[w], pc'[w] = pc[w],
           acts \in Nat, acts' \in Nat, acts <= acts',
           \A p \in Paths :
              /\ p \notin touched'[w] => p \notin touched[w] /\ rules'[p] = rules[p]
              /\ Stands(w, p)' =>
                   /\ Stands(w, p)
                   /\ files'[p] = None <=> files[p] = None
                   /\ files[p] # None => /\ files'[p].body = files[p].body
                                         /\ files'[p].form = files[p].form
                   /\ (w = "check" => "apply" \notin touched'[w]) =>
                         /\ w = "check" => "apply" \notin touched[w]
                         /\ files'[p] = files[p]
    PROVE  SightOf(w)'
  <1> SUFFICES ASSUME pc[w] # "idle"
               PROVE  SightOf(w)'
    BY DEF SightOf
  <1>1. HoldsOK(w)'
    BY QuietHolds DEF SightOf
  <1>2. \A p \in Paths \ touched'[w] : memory'[w].rules[p] = rules'[p]
    BY DEF SightOf
  <1>3. ASSUME NEW p \in Paths, Stands(w, p)'
        PROVE  View(w, p)'
    <2>1. /\ View(w, p)
          /\ files'[p] = None <=> files[p] = None
          /\ files[p] # None => files'[p].body = files[p].body /\ files'[p].form = files[p].form
          /\ (w = "check" => "apply" \notin touched'[w]) =>
                (w = "check" => "apply" \notin touched[w]) /\ files'[p] = files[p]
      BY <1>3 DEF SightOf
    <2>2. Disposition(files'[p], memory[w].scope, p) = Disposition(files[p], memory[w].scope, p)
      BY <2>1 DEF Disposition
    <2>3. IsInline(w, p)' <=> IsInline(w, p)
      BY DEF IsInline
    <2>4. p \in DOMAIN memory[w].plan /\ HoldsOK(w) => p \in DOMAIN memory[w].seen
      BY DEF HoldsOK
    <2>5. HoldsOK(w)
      BY DEF SightOf
    <2> QED
      BY <2>1, <2>2, <2>3, <2>4, <2>5 DEF View
  <1> QED
    BY <1>1, <1>2, <1>3 DEF SightOf

\* A run that goes on disturbs no other.
LEMMA MoveSight ==
    ASSUME ScopeInv, SightInv, NEW w \in Runs, NEW to, NEW held, Moves(w, to, held),
           HoldsOK(w)', \A p \in Paths : Stands(w, p) => View(w, p)'
    PROVE  SightInv'
  <1>1. /\ memory'[w] = held /\ pc'[w] = to /\ to # "idle"
        /\ \A v \in Runs : v # w => memory'[v] = memory[v] /\ pc'[v] = pc[v]
        /\ UNCHANGED <<files, rules, index, verdict, acts, touched>>
    BY DEF Moves, ScopeInv, RunsOK, Later
  <1>2. Before' = Before /\ (pc'["check"] # "idle" => pc["check"] # "idle")
    BY <1>1 DEF Moves, Before, Runs
  <1>3. \A v \in Runs, p \in Paths : Stands(v, p)' <=> Stands(v, p)
    BY <1>1, <1>2 DEF Stands, Stood, Was
  <1>4. acts \in Nat
    BY DEF ScopeInv, FilesOK
  <1>5. \A v \in Runs : v # w => SightOf(v)'
    BY <1>1, <1>3, <1>4, QuietSight DEF SightInv
  <1>6. SightOf(w)'
    BY <1>1, <1>3 DEF SightInv, SightOf, Moves
  <1>7. IndexOK(index)'
    BY <1>1 DEF SightInv, IndexOK, IsOld
  <1>8. pc'["check"] # "idle" => SnapshotOK'
    <2> SUFFICES ASSUME pc["check"] # "idle"
                 PROVE  SnapshotOK'
      BY <1>2
    <2>1. SnapshotOK
      BY DEF SightInv
    <2>2. memory'["check"].rules = memory["check"].rules
      BY <1>1 DEF Moves, Runs
    <2> QED
      BY <1>1, <1>2, <2>1, <2>2 DEF SnapshotOK, Was, IndexOK, IsOld
  <1> QED
    BY <1>1, <1>5, <1>6, <1>7, <1>8 DEF SightInv

\* Nor does one that ends.
LEMMA StopSight ==
    ASSUME ScopeInv, SightInv, NEW w \in Runs, NEW how, Stops(w, how)
    PROVE  SightInv'
  <1>1. /\ pc'[w] = "idle"
        /\ \A v \in Runs : v # w => memory'[v] = memory[v] /\ pc'[v] = pc[v]
        /\ UNCHANGED <<files, rules, index, acts, touched>>
        /\ DOMAIN verdict' = DOMAIN verdict
    BY DEF Stops, Finish, ScopeInv, RunsOK
  <1>2. pc'["check"] # "idle" => Before' = Before /\ memory'["check"] = memory["check"]
                                 /\ pc["check"] # "idle"
    BY <1>1 DEF Before, Runs
  <1>3. acts \in Nat
    BY DEF ScopeInv, FilesOK
  <1>4. ASSUME NEW v \in Runs
        PROVE  SightOf(v)'
    <2>1. CASE v = w
      BY <1>1, <2>1 DEF SightOf
    <2>2. CASE v # w
      <3>1. \A p \in Paths : Stands(v, p)' <=> Stands(v, p)
        BY <1>1, <2>2 DEF Stands, Stood, Was, Before
      <3> QED
        BY <1>1, <1>3, <2>2, <3>1, QuietSight DEF SightInv
    <2> QED
      BY <2>1, <2>2
  <1>5. IndexOK(index)'
    BY <1>1 DEF SightInv, IndexOK, IsOld
  <1>6. pc'["check"] # "idle" => SnapshotOK'
    BY <1>1, <1>2 DEF SightInv, SnapshotOK, Was, IndexOK, IsOld
  <1> QED
    BY <1>1, <1>4, <1>5, <1>6 DEF SightInv

\* What is discovered is as it is found.
LEMMA DiscoverSight ==
    ASSUME ScopeInv, SightInv, NEW w \in Runs, Discover(w)
    PROVE  SightInv'
  <1>1. PICK held : /\ Moves(w, "read", held) /\ pc[w] = "discover"
                    /\ held.ledger = [p \in Paths |-> Disposition(files[p], memory[w].scope, p)]
                    /\ held.todo = {p \in Paths : held.ledger[p] = "eligible"}
                    /\ held.seen = memory[w].seen /\ held.plan = memory[w].plan
    BY DiscoverMoves
  <1>2. /\ memory'[w] = held /\ pc'[w] = "read" /\ UNCHANGED <<files, acts, touched>>
        /\ held.scope = memory[w].scope
    BY <1>1 DEF Moves, ScopeInv, RunsOK
  <1>3. HoldsOK(w) /\ DOMAIN held.seen = {} /\ DOMAIN held.plan = {}
    BY <1>1 DEF SightInv, SightOf, HoldsOK
  <1>4. \A p \in Paths : held.ledger[p] = Disposition(files[p], held.scope, p)
    BY <1>1, <1>2
  <1>5. \A p \in Paths : held.ledger[p] = "glob_filtered" => p \notin held.scope
    BY <1>4 DEF Disposition
  <1>6. HoldsOK(w)'
    BY <1>1, <1>2, <1>3, <1>5 DEF HoldsOK, Filtered, Merged
  <1>7. \A p \in Paths : View(w, p)'
    BY <1>1, <1>2, <1>3, <1>4 DEF View, Merged
  <1> QED
    BY <1>1, <1>6, <1>7, MoveSight

\* What is read is as it stands, where discovery was right.
LEMMA ReadSight ==
    ASSUME ScopeInv, SightInv, NEW w \in Runs, Read(w)
    PROVE  SightInv'
  <1>1. PICK p \in memory[w].todo :
           \/ Stops(w, "refused")
           \/ \E form \in ReadAs(files[p].form) : \E held :
                     /\ files[p] # None /\ files[p].form # "sealed"
                     /\ Moves(w, "read", held)
                     /\ held.ledger = memory[w].ledger /\ held.plan = memory[w].plan
                     /\ held.todo = memory[w].todo \ {p}
                     /\ held.seen = [q \in DOMAIN memory[w].seen \cup {p} |->
                                       IF q = p THEN [body |-> files[p].body, form |-> form]
                                       ELSE memory[w].seen[q]]
    BY ReadMoves
  <1>2. CASE Stops(w, "refused")
    BY <1>2, StopSight
  <1>3. CASE ~Stops(w, "refused")
    <2>1. PICK form \in ReadAs(files[p].form) : \E held :
                     /\ files[p] # None /\ files[p].form # "sealed"
                     /\ Moves(w, "read", held)
                     /\ held.ledger = memory[w].ledger /\ held.plan = memory[w].plan
                     /\ held.todo = memory[w].todo \ {p}
                     /\ held.seen = [q \in DOMAIN memory[w].seen \cup {p} |->
                                       IF q = p THEN [body |-> files[p].body, form |-> form]
                                       ELSE memory[w].seen[q]]
      BY <1>1, <1>3
    <2>2. PICK held :
                     /\ files[p] # None /\ files[p].form # "sealed"
                     /\ Moves(w, "read", held)
                     /\ held.ledger = memory[w].ledger /\ held.plan = memory[w].plan
                     /\ held.todo = memory[w].todo \ {p}
                     /\ held.seen = [q \in DOMAIN memory[w].seen \cup {p} |->
                                       IF q = p THEN [body |-> files[p].body, form |-> form]
                                       ELSE memory[w].seen[q]]
      BY <2>1
    <2>3. /\ memory'[w] = held /\ pc'[w] = "read" /\ UNCHANGED <<files, acts, touched>>
          /\ held.scope = memory[w].scope /\ pc[w] = "read"
      BY <2>2, ReadMoves DEF Moves, ScopeInv, RunsOK
    <2>4. /\ DOMAIN held.seen = DOMAIN memory[w].seen \cup {p}
          /\ held.seen[p].body = files[p].body /\ held.seen[p].form = form
          /\ \A q \in DOMAIN memory[w].seen : q # p => held.seen[q] = memory[w].seen[q]
      BY <2>2
    <2>5. HoldsOK(w) /\ DOMAIN memory[w].plan = {}
      BY <2>3 DEF SightInv, SightOf, HoldsOK
    <2>6. p \in Paths /\ memory[w].ledger[p] = "eligible"
      BY <2>3, <2>5 DEF HoldsOK
    <2>7. files[p].body \in 0 .. acts
      BY <2>2, <2>6 DEF ScopeInv, FilesOK, FileStates
    <2>8. HoldsOK(w)'
      BY <2>2, <2>3, <2>4, <2>5, <2>6, <2>7 DEF HoldsOK, Filtered, Merged
    <2>9. ASSUME NEW q \in Paths, Stands(w, q)
          PROVE  View(w, q)'
      <3>1. View(w, q)
        BY <2>3, <2>9 DEF SightInv, SightOf
      <3>2. q = p => files[p].form # "binary"
        BY <2>3, <2>6, <3>1 DEF View, Disposition, Later
      <3>3. q = p => form = files[p].form
        BY <3>2 DEF ReadAs
      <3> QED
        BY <2>2, <2>3, <2>4, <2>5, <3>1, <3>3 DEF View, Merged
    <2> QED
      BY <2>2, <2>8, <2>9, MoveSight
  <1> QED
    BY <1>2, <1>3

\* All that is to be read has been, and what will be planned is a subject.
LEMMA EndReadSight ==
    ASSUME ScopeInv, SightInv, NEW w \in Runs, EndRead(w)
    PROVE  SightInv'
  <1>1. CASE Stops(w, "refused")
    BY <1>1, StopSight
  <1>2. CASE ~Stops(w, "refused")
    <2>1. PICK held :
                   /\ Moves(w, "plan", held)
                   /\ held.ledger = memory[w].ledger /\ held.plan = memory[w].plan
                   /\ held.seen = memory[w].seen
                   /\ held.todo = {p \in Subjects(w) :
                         /\ memory[w].seen[p].form = "prose"
                         /\ CarrierDecision(memory[w].rules[p], "prose") # "inventory_only"}
      BY <1>2, EndReadMoves
    <2>2. /\ memory'[w] = held /\ pc'[w] = "plan" /\ UNCHANGED <<files, acts, touched>>
          /\ held.scope = memory[w].scope /\ held.rules = memory[w].rules
          /\ pc[w] = "read" /\ memory[w].todo = {}
      BY <2>1, EndReadMoves DEF Moves, ScopeInv, RunsOK
    <2>3. HoldsOK(w) /\ DOMAIN memory[w].plan = {}
      BY <2>2 DEF SightInv, SightOf, HoldsOK
    <2>4. Subjects(w)' = Subjects(w) /\ \A p : IsInline(w, p)' <=> IsInline(w, p)
      BY <2>1, <2>2 DEF Subjects, IsInline
    <2>5. HoldsOK(w)'
      BY <2>1, <2>2, <2>3, <2>4 DEF HoldsOK, Filtered, Merged, Later
    <2>6. \A p \in DOMAIN held.seen : IsInline(w, p) => p \in held.todo
      BY <2>1 DEF IsInline, Subjects, CarrierDecision
    <2>7. ASSUME NEW q \in Paths, Stands(w, q)
          PROVE  View(w, q)'
      <3>1. View(w, q)
        BY <2>2, <2>7 DEF SightInv, SightOf
      <3> QED
        BY <2>1, <2>2, <2>3, <2>4, <2>6, <3>1 DEF View, Merged, Later
    <2> QED
      BY <2>1, <2>5, <2>7, MoveSight
  <1> QED
    BY <1>1, <1>2

\* What is planned is the file as it stands, with the header of what was read.
LEMMA PlanSight ==
    ASSUME ScopeInv, SightInv, NEW w \in Runs, Plan(w)
    PROVE  SightInv'
  <1>1. PICK p \in {q \in memory[w].todo : IsNext(w, q)} :
           \/ Stops(w, "refused")
           \/ \E held :
                     /\ files[p] # None /\ Moves(w, "weigh", held)
                     /\ held.ledger = memory[w].ledger /\ held.seen = memory[w].seen
                     /\ held.todo = memory[w].todo
                     /\ held.plan = [q \in DOMAIN memory[w].plan \cup {p} |->
                          IF q = p THEN [from |-> None,
                                         to |-> [files[p] EXCEPT !.head = memory[w].seen[p].body]]
                          ELSE memory[w].plan[q]]
    BY PlanMoves
  <1>2. CASE Stops(w, "refused")
    BY <1>2, StopSight
  <1>3. CASE ~Stops(w, "refused")
    <2>1. PICK held :
                     /\ files[p] # None /\ Moves(w, "weigh", held)
                     /\ held.ledger = memory[w].ledger /\ held.seen = memory[w].seen
                     /\ held.todo = memory[w].todo
                     /\ held.plan = [q \in DOMAIN memory[w].plan \cup {p} |->
                          IF q = p THEN [from |-> None,
                                         to |-> [files[p] EXCEPT !.head = memory[w].seen[p].body]]
                          ELSE memory[w].plan[q]]
      BY <1>1, <1>3
    <2>2. /\ memory'[w] = held /\ pc'[w] = "weigh" /\ UNCHANGED <<files, acts, touched>>
          /\ held.scope = memory[w].scope /\ held.rules = memory[w].rules
          /\ pc[w] = "plan"
      BY <2>1, PlanMoves DEF Moves, ScopeInv, RunsOK
    <2>3. /\ DOMAIN held.plan = DOMAIN memory[w].plan \cup {p}
          /\ held.plan[p].from = None
          /\ held.plan[p].to = [files[p] EXCEPT !.head = memory[w].seen[p].body]
          /\ \A q \in DOMAIN memory[w].plan : q # p => held.plan[q] = memory[w].plan[q]
      BY <2>1
    <2>4. HoldsOK(w) /\ p \in Subjects(w)
      BY <2>2 DEF SightInv, SightOf, HoldsOK
    <2>5. Subjects(w)' = Subjects(w) /\ \A q : IsInline(w, q)' <=> IsInline(w, q)
      BY <2>1, <2>2 DEF Subjects, IsInline
    <2>6. p \in DOMAIN memory[w].seen
      BY <2>4 DEF Subjects
    <2>11. \A q \in memory[w].todo : IsNext(w, q) => q = p
      <3>1. memory[w].todo \subseteq Paths
        BY <2>4, <2>2 DEF HoldsOK, Subjects
      <3> QED
        BY <3>1, RanksAreApart DEF IsNext
    <2>10. \A q : IsNext(w, q)' <=> IsNext(w, q)
      BY <2>1, <2>2 DEF IsNext
    <2>7. HoldsOK(w)'
      BY <2>10, <2>11, <2>1, <2>2, <2>3, <2>4, <2>5, <2>6 DEF HoldsOK, Filtered, Merged, Later
    <2>8. ASSUME NEW q \in Paths, Stands(w, q)
          PROVE  View(w, q)'
      <3>1. View(w, q)
        BY <2>2, <2>8 DEF SightInv, SightOf
      <3>2. CASE q = p
        <4>1. files[p] \in FileStates /\ memory[w].seen[p].body = files[p].body
          BY <2>1, <2>6, <3>1, <3>2 DEF View, ScopeInv, FilesOK
        <4>2. held.plan[p].to = File(files[p].body, files[p].form, files[p].body)
          BY <2>3, <4>1 DEF FileStates, File
        <4> QED
          BY <2>1, <2>2, <2>3, <2>5, <3>1, <3>2, <4>2 DEF View, Merged, Later
      <3>3. CASE q # p
        BY <2>1, <2>2, <2>3, <2>5, <3>1, <3>3 DEF View, Merged, Later
      <3> QED
        BY <3>2, <3>3
    <2> QED
      BY <2>1, <2>7, <2>8, MoveSight
  <1> QED
    BY <1>2, <1>3

\* What is weighed is the file as it stands.
LEMMA WeighSight ==
    ASSUME ScopeInv, SightInv, NEW w \in Runs, Weigh(w)
    PROVE  SightInv'
  <1>1. PICK p \in {q \in memory[w].todo : IsNext(w, q)} :
           \/ Stops(w, "refused")
           \/ \E held :
                     /\ Moves(w, "plan", held)
                     /\ held.ledger = memory[w].ledger /\ held.seen = memory[w].seen
                     /\ held.todo = memory[w].todo \ {p}
                     /\ held.plan = IF IsInline(w, p)
                                    THEN [memory[w].plan EXCEPT ![p].from = files[p]]
                                    ELSE [q \in DOMAIN memory[w].plan \ {p} |-> memory[w].plan[q]]
    BY WeighMoves
  <1>2. CASE Stops(w, "refused")
    BY <1>2, StopSight
  <1>3. CASE ~Stops(w, "refused")
    <2>1. PICK held :
                     /\ Moves(w, "plan", held)
                     /\ held.ledger = memory[w].ledger /\ held.seen = memory[w].seen
                     /\ held.todo = memory[w].todo \ {p}
                     /\ held.plan = IF IsInline(w, p)
                                    THEN [memory[w].plan EXCEPT ![p].from = files[p]]
                                    ELSE [q \in DOMAIN memory[w].plan \ {p} |-> memory[w].plan[q]]
      BY <1>1, <1>3
    <2>2. /\ memory'[w] = held /\ pc'[w] = "plan" /\ UNCHANGED <<files, acts, touched>>
          /\ held.scope = memory[w].scope /\ held.rules = memory[w].rules
          /\ pc[w] = "weigh"
      BY <2>1, WeighMoves DEF Moves, ScopeInv, RunsOK
    <2>3. /\ DOMAIN held.plan \subseteq DOMAIN memory[w].plan
          /\ p \in DOMAIN held.plan =>
                /\ IsInline(w, p) /\ p \in DOMAIN memory[w].plan
                /\ held.plan[p] = [memory[w].plan[p] EXCEPT !.from = files[p]]
          /\ IsInline(w, p) => DOMAIN held.plan = DOMAIN memory[w].plan
          /\ \A q \in DOMAIN held.plan : q # p => held.plan[q] = memory[w].plan[q]
          /\ \A q \in DOMAIN memory[w].plan : q # p => q \in DOMAIN held.plan
      BY <2>1
    <2>4. HoldsOK(w) /\ p \in Subjects(w)
      BY <2>2 DEF SightInv, SightOf, HoldsOK
    <2>9. p \in DOMAIN memory[w].plan
      BY <2>2, <2>4 DEF HoldsOK
    <2>5. Subjects(w)' = Subjects(w) /\ \A q : IsInline(w, q)' <=> IsInline(w, q)
      BY <2>1, <2>2 DEF Subjects, IsInline
    <2>6. p \in DOMAIN memory[w].seen
      BY <2>4 DEF Subjects
    <2>10. p \in DOMAIN held.plan =>
             /\ held.plan[p].from = files[p] /\ held.plan[p].to = memory[w].plan[p].to
             /\ DOMAIN held.plan[p] = {"from", "to"}
      BY <2>3, <2>4 DEF HoldsOK
    <2>7. HoldsOK(w)'
      BY <2>1, <2>2, <2>3, <2>4, <2>5, <2>6, <2>10 DEF HoldsOK, Filtered, Merged, Later
    <2>8. ASSUME NEW q \in Paths, Stands(w, q)
          PROVE  View(w, q)'
      <3>1. View(w, q)
        BY <2>2, <2>8 DEF SightInv, SightOf
      <3>2. CASE q = p
        BY <2>1, <2>2, <2>3, <2>5, <2>6, <2>9, <2>10, <3>1, <3>2 DEF View, Merged, Later
      <3>3. CASE q # p
        BY <2>1, <2>2, <2>3, <2>5, <3>1, <3>3 DEF View, Merged, Later
      <3> QED
        BY <3>2, <3>3
    <2> QED
      BY <2>1, <2>7, <2>8, MoveSight
  <1> QED
    BY <1>2, <1>3

\* What is compiled is made of what was read and of what the index says of the rest.
LEMMA CompileSight ==
    ASSUME ScopeInv, SightInv, NEW w \in Runs, Compile(w)
    PROVE  SightInv'
  <1>1. CASE Stops(w, "refused")
    BY <1>1, StopSight
  <1>2. CASE ~Stops(w, "refused")
    <2> DEFINE next == IF w = "check" THEN "compare" ELSE "intents"
               out  == Merge(Preserved(w), Compiled(w))
    <2>1. PICK held :
                   /\ Moves(w, next, held)
                   /\ held.ledger = memory[w].ledger /\ held.plan = memory[w].plan
                   /\ held.seen = memory[w].seen /\ held.todo = memory[w].todo
                   /\ held.base = (IF Filtered(w) = {} THEN None ELSE index)
                   /\ held.out = out /\ DistinctIds(held.out)
                   /\ w = "apply" => ~Blocking(w) /\ Conflicts(w) = {}
      BY <1>2, CompileMoves
    <2>2. pc[w] = "plan" /\ memory[w].todo = {}
      BY CompileMoves
    <2>3. HoldsOK(w)
      BY <2>2 DEF SightInv, SightOf
    <2>4. /\ DOMAIN out = (DOMAIN index.records \cap Filtered(w)) \cup Subjects(w)
          /\ \A p \in Subjects(w) : out[p] = Record(memory[w].rules[p], p, memory[w].seen[p])
          /\ \A p \in (DOMAIN index.records \cap Filtered(w)) \ Subjects(w) :
                out[p] = index.records[p]
      BY DEF Merge, Preserved, Compiled
    <2>5. IsFcn(out)
      BY DEF Merge, IsFcn
    <2> HIDE DEF out
    <2>6. /\ Subjects(w) \subseteq DOMAIN memory[w].seen /\ DOMAIN memory[w].seen \subseteq Paths
          /\ \A p \in DOMAIN memory[w].seen :
                p \notin Filtered(w) /\ memory[w].seen[p].body \in 0 .. acts
      BY <2>2, <2>3 DEF HoldsOK, Subjects, Filtered, Later
    <2>7. IsOld(out)
      <3> SUFFICES ASSUME NEW p \in DOMAIN out
                   PROVE  out[p].hash \in 0 .. acts
        BY DEF IsOld
      <3>1. CASE p \in Subjects(w)
        BY <2>4, <2>6, <3>1 DEF Record
      <3>2. CASE p \notin Subjects(w)
        BY <2>4, <3>2 DEF SightInv, IndexOK, IsOld
      <3> QED
        BY <3>1, <3>2
    <2> HIDE DEF next
    <2>8. /\ memory'[w] = held /\ pc'[w] = next /\ UNCHANGED <<files, acts, touched>>
          /\ held.scope = memory[w].scope /\ held.rules = memory[w].rules
      BY <2>1 DEF Moves, ScopeInv, RunsOK
    <2>9. next \in {"compare", "intents"} /\ (w = "apply" => next = "intents")
      BY DEF next
    <2>10. /\ Subjects(w)' = Subjects(w) /\ \A p : IsInline(w, p)' <=> IsInline(w, p)
           /\ Filtered(w)' = Filtered(w) /\ Blocking(w)' = Blocking(w)
           /\ Conflicts(w)' = Conflicts(w)
      BY <2>1, <2>8 DEF Subjects, IsInline, Filtered, Blocking, Conflicts
    <2>11. OutOK(w)'
      <3>1. /\ IsFcn(held.out) /\ DOMAIN held.out \subseteq Paths /\ IsOld(held.out)'
            /\ DistinctIds(held.out)
        BY <2>1, <2>4, <2>5, <2>6, <2>7, <2>8 DEF Filtered, IsOld
      <3>2. ASSUME NEW p \in Paths, p \notin Filtered(w)
            PROVE  /\ p \in DOMAIN held.out <=> p \in Subjects(w)
                   /\ p \in DOMAIN held.out =>
                        held.out[p] = Record(held.rules[p], p, held.seen[p])
        BY <2>1, <2>4, <2>8, <3>2
      <3>3. ASSUME NEW p \in Filtered(w)
            PROVE  /\ p \in DOMAIN held.out <=> p \in DOMAIN held.base.records
                   /\ p \in DOMAIN held.out => held.out[p] = held.base.records[p]
        BY <2>1, <2>4, <2>6
      <3> QED
        BY <2>1, <2>8, <2>10, <3>1, <3>2, <3>3 DEF OutOK
    <2>12. HoldsOK(w)'
      BY <2>1, <2>2, <2>3, <2>8, <2>9, <2>10, <2>11 DEF HoldsOK, Merged, Later
    <2>13. ASSUME NEW q \in Paths, Stands(w, q)
           PROVE  View(w, q)'
      <3>1. View(w, q)
        BY <2>2, <2>13 DEF SightInv, SightOf
      <3> QED
        BY <2>1, <2>2, <2>8, <2>9, <2>10, <3>1 DEF View, Merged, Later
    <2> QED
      BY <2>1, <2>12, <2>13, MoveSight
  <1> QED
    BY <1>1, <1>2

\* Comparing, and asking once more, add nothing to what is held.
LEMMA OnwardSight ==
    ASSUME ScopeInv, SightInv, NEW w \in Runs, NEW to \in {"end", "commit"}, NEW held,
           Moves(w, to, held), pc[w] \in {"compare", "intents"},
           held.ledger = memory[w].ledger, held.plan = memory[w].plan,
           held.seen = memory[w].seen, held.todo = memory[w].todo,
           held.out = memory[w].out, Filtered(w) # {} => held.base = memory[w].base
    PROVE  SightInv'
  <1>1. /\ memory'[w] = held /\ pc'[w] = to /\ UNCHANGED <<files, acts, touched>>
        /\ held.scope = memory[w].scope /\ held.rules = memory[w].rules
    BY DEF Moves, ScopeInv, RunsOK
  <1>2. /\ Subjects(w)' = Subjects(w) /\ \A p : IsInline(w, p)' <=> IsInline(w, p)
        /\ Filtered(w)' = Filtered(w) /\ Blocking(w)' = Blocking(w)
        /\ Conflicts(w)' = Conflicts(w)
    BY <1>1 DEF Subjects, IsInline, Filtered, Blocking, Conflicts
  <1>3. HoldsOK(w)
    BY DEF SightInv, SightOf
  <1>4. OutOK(w)'
    <2>1. OutOK(w)
      BY <1>3 DEF HoldsOK, Merged
    <2>2. \A p \in Filtered(w) : held.base = memory[w].base
      OBVIOUS
    <2> QED
      BY <1>1, <1>2, <2>1, <2>2 DEF OutOK, IsOld
  <1>5. HoldsOK(w)'
    BY <1>1, <1>2, <1>3, <1>4 DEF HoldsOK, Merged, Later
  <1>6. ASSUME NEW q \in Paths, Stands(w, q)
        PROVE  View(w, q)'
    <2>1. View(w, q)
      BY <1>6 DEF SightInv, SightOf
    <2> QED
      BY <1>1, <1>2, <2>1 DEF View, Merged, Later
  <1> QED
    BY <1>5, <1>6, MoveSight

LEMMA CompareSight ==
    ASSUME ScopeInv, SightInv, Compare
    PROVE  SightInv'
  <1>1. PICK held :
           LET c == memory["check"]
           IN  /\ Moves("check", "end", held)
               /\ held.ledger = c.ledger /\ held.plan = c.plan /\ held.seen = c.seen
               /\ held.todo = c.todo /\ held.base = c.base /\ held.out = c.out
    BY CompareMoves
  <1>2. pc["check"] = "compare" /\ "check" \in Runs
    BY CompareMoves DEF Runs
  <1> QED
    BY <1>1, <1>2, OnwardSight

LEMMA IntentsSight ==
    ASSUME ScopeInv, SightInv, Intents
    PROVE  SightInv'
  <1>1. "apply" \in Runs
    BY DEF Runs
  <1>2. CASE Stops("apply", "refused")
    BY <1>1, <1>2, StopSight
  <1>3. CASE ~Stops("apply", "refused")
    <2>1. PICK held :
             /\ Moves("apply", "commit", held)
             /\ held.ledger = A.ledger /\ held.plan = A.plan /\ held.seen = A.seen
             /\ held.todo = A.todo /\ held.out = A.out
             /\ held.base = IF Filtered("apply") = {} THEN index ELSE A.base
      BY <1>3, IntentsMoves
    <2>2. pc["apply"] = "intents"
      BY IntentsMoves
    <2> QED
      BY <1>1, <2>1, <2>2, OnwardSight DEF A
  <1> QED
    BY <1>2, <1>3

LEMMA EndCheckStops ==
    ASSUME EndCheck
    PROVE  /\ pc["check"] = "end"
           /\ \E how : /\ Stops("check", how)
                       /\ how = "passed" => /\ Before = <<files, rules, index>>
                                            /\ ~memory["check"].drift
                       /\ how # "passed" => \/ Before # <<files, rules, index>>
                                            \/ memory["check"].drift
  <1>1. pc["check"] = "end" /\ UNCHANGED <<files, rules, index, acts, touched, covered>>
    BY DEF EndCheck
  <1>2. CASE Before # <<files, rules, index>>
    <2>1. Finish("check", "refused")
      BY <1>2 DEF EndCheck, Before
    <2> QED
      BY <1>1, <1>2, <2>1 DEF Stops
  <1>3. CASE Before = <<files, rules, index>> /\ memory["check"].drift
    <2>1. Finish("check", "drift")
      BY <1>3 DEF EndCheck, Before
    <2> QED
      BY <1>1, <1>3, <2>1 DEF Stops
  <1>4. CASE Before = <<files, rules, index>> /\ ~memory["check"].drift
    <2>1. Finish("check", "passed")
      BY <1>4 DEF EndCheck, Before
    <2> QED
      BY <1>1, <1>4, <2>1 DEF Stops
  <1> QED
    BY <1>2, <1>3, <1>4

\* A run begins with the authority and, a check, the snapshot as they stand.
LEMMA BeginMoves ==
    ASSUME ScopeInv, NEW w \in Runs, Begin(w)
    PROVE  /\ pc[w] = "idle"
           /\ \/ Stops(w, "refused")
              \/ \E held :
                   /\ w = "check" => \A p \in Paths : files[p] # None => files[p].form # "sealed"
                   /\ pc' = [pc EXCEPT ![w] = "discover"]
                   /\ memory' = [memory EXCEPT ![w] = held]
                   /\ IsHeld(held) /\ held.rules = rules /\ held.scope \subseteq Paths
                   /\ held.seen = NoRecords /\ held.plan = NoRecords /\ held.todo = {}
                   /\ w = "check" => held.before = <<files, rules, index>>
                   /\ verdict' = [verdict EXCEPT ![w] = None]
                   /\ touched' = [touched EXCEPT ![w] = {}]
                   /\ UNCHANGED <<files, rules, index, acts, covered>>
  <1>1. UNCHANGED <<rules, acts>> /\ pc[w] = "idle"
    BY DEF Begin
  <1>2. PICK scope \in Scopes :
            IF w = "check" /\ \E p \in Paths : files[p] # None /\ files[p].form = "sealed"
            THEN Refuse(w)
            ELSE /\ pc' = [pc EXCEPT ![w] = "discover"]
                 /\ memory' = [memory EXCEPT ![w] =
                       [Blank EXCEPT
                           !.scope = scope, !.rules = rules,
                           !.before = IF w = "check" THEN <<files, rules, index>> ELSE None]]
                 /\ verdict' = [verdict EXCEPT ![w] = None]
                 /\ touched' = [touched EXCEPT ![w] = {}]
                 /\ UNCHANGED <<files, index, covered>>
    BY DEF Begin
  <1>3. CASE w = "check" /\ \E p \in Paths : files[p] # None /\ files[p].form = "sealed"
    BY <1>1, <1>2, <1>3 DEF Refuse, Stops
  <1>4. CASE ~(w = "check" /\ \E p \in Paths : files[p] # None /\ files[p].form = "sealed")
    <2> DEFINE before == IF w = "check" THEN <<files, rules, index>> ELSE None
               held == [Blank EXCEPT !.scope = scope, !.rules = rules, !.before = before]
    <2>1. memory' = [memory EXCEPT ![w] = held]
      BY <1>2, <1>4
    <2>2. w = "check" => before = <<files, rules, index>>
      OBVIOUS
    <2> HIDE DEF before
    <2>3. /\ IsHeld(held) /\ held.todo = {} /\ held.rules = rules /\ held.before = before
          /\ held.scope \subseteq Paths /\ held.seen = NoRecords /\ held.plan = NoRecords
      BY ScopesAreOfPaths DEF IsHeld, Fields, Blank
    <2> HIDE DEF held
    <2> QED
      BY <1>1, <1>2, <1>4, <2>1, <2>2, <2>3
  <1> QED
    BY <1>3, <1>4

LEMMA BeginSight ==
    ASSUME ScopeInv, SightInv, NEW w \in Runs, Begin(w)
    PROVE  SightInv'
  <1>1. CASE Stops(w, "refused")
    BY <1>1, StopSight
  <1>2. CASE ~Stops(w, "refused")
    <2>1. PICK held :
             /\ pc' = [pc EXCEPT ![w] = "discover"] /\ memory' = [memory EXCEPT ![w] = held]
             /\ IsHeld(held) /\ held.rules = rules /\ held.scope \subseteq Paths
             /\ held.seen = NoRecords /\ held.plan = NoRecords /\ held.todo = {}
             /\ w = "check" => held.before = <<files, rules, index>>
             /\ verdict' = [verdict EXCEPT ![w] = None]
             /\ touched' = [touched EXCEPT ![w] = {}]
             /\ UNCHANGED <<files, rules, index, acts, covered>>
      BY <1>2, BeginMoves
    <2>2. /\ memory'[w] = held /\ pc'[w] = "discover"
          /\ \A v \in Runs : v # w =>
                memory'[v] = memory[v] /\ pc'[v] = pc[v] /\ touched'[v] = touched[v]
          /\ DOMAIN touched' = Runs /\ DOMAIN verdict' = Runs
      BY <2>1 DEF ScopeInv, RunsOK, SightInv
    <2>3. DOMAIN NoRecords = {}
      BY DEF NoRecords
    <2>4. acts \in Nat
      BY DEF ScopeInv, FilesOK
    <2>5. ASSUME NEW v \in Runs
          PROVE  SightOf(v)'
      <3>1. CASE v = w
        <4>1. HoldsOK(w)' /\ \A p \in Paths : View(w, p)'
          BY <2>1, <2>2, <2>3 DEF HoldsOK, View, Merged, Later
        <4> QED
          BY <2>1, <2>2, <3>1, <4>1 DEF SightOf
      <3>2. CASE v # w
        <4>1. \A p \in Paths : Stands(v, p)' <=> Stands(v, p)
          BY <2>1, <2>2, <3>2 DEF Stands, Stood, Was, Before
        <4> QED
          BY <2>1, <2>2, <2>4, <3>2, <4>1, QuietSight DEF SightInv
      <3> QED
        BY <3>1, <3>2
    <2>6. IndexOK(index)'
      BY <2>1 DEF SightInv, IndexOK, IsOld
    <2>7. pc'["check"] # "idle" => SnapshotOK'
      <3>1. CASE w = "check"
        <4>1. Before' = <<files, rules, index>> /\ memory'["check"].rules = rules
          BY <2>1, <2>2, <3>1 DEF Before
        <4>2. Before'[1] = files /\ Before'[2] = rules /\ Before'[3] = index
          BY <4>1
        <4> QED
          BY <2>1, <2>6, <4>1, <4>2 DEF SnapshotOK, Was, ScopeInv, FilesOK, IndexOK, IsOld
      <3>2. CASE w # "check"
        <4>1. memory'["check"] = memory["check"] /\ pc'["check"] = pc["check"]
          BY <2>2, <3>2 DEF Runs
        <4> QED
          BY <2>1, <4>1 DEF SightInv, SnapshotOK, Was, Before, IndexOK, IsOld
      <3> QED
        BY <3>1, <3>2
    <2> QED
      BY <2>1, <2>2, <2>5, <2>6, <2>7 DEF SightInv
  <1> QED
    BY <1>1, <1>2

\* What a commit makes of the files, of which it changes the headers alone.
LEMMA CommitMoves ==
    ASSUME ScopeInv, SightInv, Commit
    PROVE  /\ pc["apply"] = "commit"
           /\ \/ Stops("apply", "refused")
              \/ /\ StillAsPlanned /\ Finish("apply", "passed")
                 /\ \A p \in Paths :
                      /\ p \in Changes("apply") => files'[p] = A.plan[p].to
                      /\ p \notin Changes("apply") => files'[p] = files[p]
                      /\ files'[p] = None <=> files[p] = None
                      /\ files[p] # None => /\ files'[p].body = files[p].body
                                            /\ files'[p].form = files[p].form
                 /\ index' = MetadataIndex("v1", A.out) /\ index = A.base
                 /\ covered' = covered \cup (A.scope \ touched["apply"])
                 /\ touched'["apply"] = touched["apply"] /\ DOMAIN touched' = Runs
                 /\ \/ touched'["check"] = touched["check"] /\ files' = files /\ index' = index
                    \/ touched'["check"] = touched["check"] \cup {"apply"}
                 /\ UNCHANGED <<rules, acts>>
  <1>1. UNCHANGED <<rules, acts>> /\ pc["apply"] = "commit"
    BY DEF Commit
  <1>2. CASE ~StillAsPlanned
    BY <1>1, <1>2 DEF Commit, Refuse, Stops
  <1>3. CASE StillAsPlanned
    <2>1. /\ Finish("apply", "passed")
          /\ files' = [p \in Paths |-> IF p \in Changes("apply") THEN A.plan[p].to ELSE files[p]]
          /\ index' = MetadataIndex("v1", A.out)
          /\ covered' = covered \cup (A.scope \ touched["apply"])
          /\ touched' = IF files' = files /\ index' = index THEN touched
                        ELSE [touched EXCEPT !["check"] = @ \cup {"apply"}]
      BY <1>3 DEF Commit, A
    <2>2. ASSUME NEW p \in Paths
          PROVE  /\ p \in Changes("apply") => files'[p] = A.plan[p].to
                 /\ p \notin Changes("apply") => files'[p] = files[p]
                 /\ files'[p] = None <=> files[p] = None
                 /\ files[p] # None => /\ files'[p].body = files[p].body
                                       /\ files'[p].form = files[p].form
      <3>1. CASE p \in Changes("apply")
        <4>1. /\ files[p] \in FileStates /\ A.plan[p].to \in FileStates
              /\ A.plan[p].to.body = files[p].body
              /\ A.plan[p].to = [files[p] EXCEPT !.head = A.plan[p].to.head]
          BY <1>1, <1>3, <3>1, CommitReplacesHeaders
        <4>2. A.plan[p].to.form = files[p].form
          BY <4>1 DEF FileStates
        <4> QED
          BY <2>1, <3>1, <4>1, <4>2, NoneIsNoFile
      <3>2. CASE p \notin Changes("apply")
        BY <2>1, <3>2
      <3> QED
        BY <3>1, <3>2
    <2>3. /\ touched'["apply"] = touched["apply"] /\ DOMAIN touched' = Runs
          /\ \/ touched'["check"] = touched["check"] /\ files' = files /\ index' = index
             \/ touched'["check"] = touched["check"] \cup {"apply"}
      BY <2>1 DEF SightInv, Runs
    <2>4. index = A.base
      BY <1>3 DEF StillAsPlanned, A
    <2> QED
      BY <1>1, <1>3, <2>1, <2>2, <2>3, <2>4
  <1> QED
    BY <1>2, <1>3

LEMMA CommitSight ==
    ASSUME ScopeInv, SightInv, Commit
    PROVE  SightInv'
  <1> USE DEF Runs
  <1>1. CASE Stops("apply", "refused")
    BY <1>1, StopSight
  <1>2. CASE ~Stops("apply", "refused")
    <2>1. /\ Finish("apply", "passed")
          /\ \A p \in Paths :
                /\ files'[p] = None <=> files[p] = None
                /\ files[p] # None => /\ files'[p].body = files[p].body
                                      /\ files'[p].form = files[p].form
          /\ index' = MetadataIndex("v1", A.out)
          /\ DOMAIN touched' = Runs
          /\ \/ touched'["check"] = touched["check"] /\ files' = files
             \/ touched'["check"] = touched["check"] \cup {"apply"}
          /\ UNCHANGED <<rules, acts>> /\ pc["apply"] = "commit"
      BY <1>2, CommitMoves
    <2>2. /\ pc'["apply"] = "idle" /\ DOMAIN verdict' = Runs
          /\ memory'["check"] = memory["check"] /\ pc'["check"] = pc["check"]
      BY <2>1 DEF Finish, ScopeInv, RunsOK, SightInv
    <2>3. acts \in Nat
      BY DEF ScopeInv, FilesOK
    <2>4. SightOf("check")'
      <3>1. ASSUME NEW p \in Paths, Stands("check", p)'
            PROVE  Stands("check", p)
        BY <2>1, <2>2, <3>1 DEF Stands, Stood, Was, Before
      <3> QED
        BY <2>1, <2>2, <2>3, <3>1, QuietSight DEF SightInv
    <2>5. SightOf("apply")'
      BY <2>2 DEF SightOf
    <2>6. IndexOK(index)'
      <3>1. OutOK("apply")
        BY <2>1 DEF SightInv, SightOf, HoldsOK, Merged
      <3>2. index'.kind = "v1" /\ index'.records = A.out
        BY <2>1 DEF MetadataIndex
      <3>3. IsFcn(A.out) /\ DOMAIN A.out \subseteq Paths /\ IsOld(A.out) /\ DistinctIds(A.out)
        BY <3>1 DEF OutOK, A
      <3>4. /\ IsFcn(index'.records) /\ DOMAIN index'.records \subseteq Paths
            /\ DistinctIds(index'.records)
            /\ \A p \in DOMAIN index'.records : index'.records[p].hash \in 0 .. acts'
        BY <2>1, <3>2, <3>3 DEF IsOld
      <3> QED
        BY <2>1, <3>2, <3>4 DEF IndexOK, IsFcn, IsOld, DistinctIds
    <2>7. pc'["check"] # "idle" => SnapshotOK'
      BY <2>1, <2>2 DEF SightInv, SnapshotOK, Was, Before, IndexOK, IsOld
    <2> QED
      BY <2>1, <2>2, <2>4, <2>5, <2>6, <2>7 DEF SightInv
  <1> QED
    BY <1>1, <1>2

\* What people do moves no run.
LEMMA Touched ==
    ASSUME SightInv, ScopeInv, NEW what, Touch(what)
    PROVE  /\ UNCHANGED <<pc, memory, verdict>> /\ acts \in Nat /\ acts' = acts + 1
           /\ DOMAIN touched' = Runs
           /\ \A w \in Runs : /\ pc[w] # "idle" => touched'[w] = touched[w] \cup {what}
                              /\ pc[w] = "idle" => touched'[w] = touched[w]
  BY DEF Touch, SightInv, ScopeInv, FilesOK

LEMMA EditMoves ==
    ASSUME ScopeInv, NEW p \in Paths, Edit(p)
    PROVE  /\ Touch(p) /\ UNCHANGED <<rules, index>> /\ covered' = covered \ {p}
           /\ files'[p] # None => files'[p].body = acts + 1
           /\ \A q \in Paths : q # p => files'[q] = files[q]
  <1>1. files \in [Paths -> FileStates \cup {None}]
    BY DEF ScopeInv, FilesOK
  <1>2. \/ \E form \in Forms, head \in {None, IF files[p] = None THEN None ELSE files[p].head} :
              files' = [files EXCEPT ![p] = File(acts + 1, form, head)]
        \/ files' = [files EXCEPT ![p] = None]
    BY DEF Edit
  <1>3. files'[p] # None => files'[p].body = acts + 1
    BY <1>1, <1>2 DEF File
  <1>4. \A q \in Paths : q # p => files'[q] = files[q]
    BY <1>1, <1>2
  <1> QED
    BY <1>3, <1>4 DEF Edit

LEMMA EditSight ==
    ASSUME ScopeInv, SightInv, NEW p \in Paths, Edit(p)
    PROVE  SightInv'
  <1>1. /\ Touch(p) /\ UNCHANGED <<rules, index>>
        /\ files'[p] # None => files'[p].body = acts + 1
        /\ \A q \in Paths : q # p => files'[q] = files[q]
    BY EditMoves
  <1>2. /\ UNCHANGED <<pc, memory, verdict>> /\ acts \in Nat /\ acts' = acts + 1
        /\ DOMAIN touched' = Runs
        /\ \A w \in Runs : pc[w] # "idle" => touched'[w] = touched[w] \cup {p}
    BY <1>1, Touched
  <1>3. pc["check"] # "idle" => SnapshotOK
    BY DEF SightInv
  <1>4. ASSUME NEW w \in Runs
        PROVE  SightOf(w)'
    <2>1. CASE pc[w] = "idle"
      BY <1>2, <2>1 DEF SightOf
    <2>2. CASE pc[w] # "idle"
      <3>1. ASSUME NEW q \in Paths, Stands(w, q)'
            PROVE  q # p /\ Stands(w, q)
        <4>1. CASE q \notin touched'[w]
          BY <1>2, <2>2, <4>1 DEF Stands
        <4>2. CASE w = "check" /\ Stood(q)'
          <5>1. Was(q)' = Was(q) /\ Was(q) # None /\ files'[q] # None
                /\ files'[q].body = Was(q).body
            BY <1>2, <4>2 DEF Stood, Was, Before
          <5>2. Was(q) \in FileStates /\ Was(q).body <= acts
            BY <1>3, <2>2, <4>2, <5>1 DEF SnapshotOK, Was
          <5>3. q # p
            BY <1>1, <1>2, <5>1, <5>2 DEF FileStates
          <5> QED
            BY <1>1, <4>2, <5>1, <5>3 DEF Stands, Stood
        <4> QED
          BY <3>1, <4>1, <4>2 DEF Stands
      <3>2. \A q \in Paths : q \notin touched'[w] => q \notin touched[w]
        BY <1>2, <2>2
      <3>3. "apply" \notin touched'[w] => "apply" \notin touched[w]
        BY <1>2, <2>2
      <3>4. acts' \in Nat /\ acts <= acts'
        BY <1>2
      <3> QED
        BY <1>1, <1>2, <3>1, <3>2, <3>3, <3>4, QuietSight DEF SightInv
    <2> QED
      BY <2>1, <2>2
  <1>5. IndexOK(index)'
    BY <1>1, <1>2 DEF SightInv, IndexOK, IsOld
  <1>6. pc'["check"] # "idle" => SnapshotOK'
    <2> SUFFICES ASSUME pc["check"] # "idle"
                 PROVE  SnapshotOK'
      BY <1>2
    <2>1. \A q \in Paths : Was(q) # None => Was(q).body <= acts'
      BY <1>2, <1>3 DEF SnapshotOK, Was, FileStates
    <2> QED
      BY <1>2, <1>3, <2>1 DEF SnapshotOK, Was, Before, IndexOK, IsOld
  <1> QED
    BY <1>1, <1>2, <1>4, <1>5, <1>6 DEF SightInv

\* Where no file is written, every view stands but for rules changed since.
LEMMA TouchSight ==
    ASSUME ScopeInv, SightInv, NEW what, Touch(what), UNCHANGED files, IndexOK(index)',
           DOMAIN rules' = Paths, \A q \in Paths : q # what => rules'[q] = rules[q]
    PROVE  SightInv'
  <1>1. /\ UNCHANGED <<pc, memory, verdict>> /\ acts \in Nat /\ acts' = acts + 1
        /\ DOMAIN touched' = Runs
        /\ \A w \in Runs : pc[w] # "idle" => touched'[w] = touched[w] \cup {what}
    BY Touched
  <1>2. ASSUME NEW w \in Runs
        PROVE  SightOf(w)'
    <2>1. CASE pc[w] = "idle"
      BY <1>1, <2>1 DEF SightOf
    <2>2. CASE pc[w] # "idle"
      <3>1. \A q \in Paths : Stands(w, q)' => Stands(w, q)
        BY <1>1, <2>2 DEF Stands, Stood, Was, Before
      <3>2. \A q : q \notin touched'[w] => q \notin touched[w] /\ q # what
        BY <1>1, <2>2
      <3>3. acts' \in Nat /\ acts <= acts'
        BY <1>1
      <3> QED
        BY <1>1, <3>1, <3>2, <3>3, QuietSight DEF SightInv
    <2> QED
      BY <2>1, <2>2
  <1>3. pc'["check"] # "idle" => SnapshotOK'
    <2> SUFFICES ASSUME pc["check"] # "idle"
                 PROVE  SnapshotOK'
      BY <1>1
    <2>1. SnapshotOK
      BY DEF SightInv
    <2>2. \A q \in Paths : Was(q) # None => Was(q).body <= acts'
      BY <1>1, <2>1 DEF SnapshotOK, Was, FileStates
    <2> QED
      BY <1>1, <2>1, <2>2 DEF SnapshotOK, Was, Before, IndexOK, IsOld
  <1> QED
    BY <1>1, <1>2, <1>3 DEF SightInv

LEMMA RuleSight ==
    ASSUME ScopeInv, SightInv, NEW p \in Paths, Rule(p)
    PROVE  SightInv'
  <1>1. Touch(p) /\ UNCHANGED <<files, index>>
    BY DEF Rule
  <1>2. PICK r : rules' = [rules EXCEPT ![p] = r]
    BY DEF Rule
  <1>3. DOMAIN rules' = Paths /\ \A q \in Paths : q # p => rules'[q] = rules[q]
    BY <1>2 DEF SightInv
  <1>4. acts' = acts + 1 /\ acts \in Nat
    BY <1>1, Touched
  <1>5. IndexOK(index)'
    BY <1>1, <1>4 DEF SightInv, IndexOK, IsOld
  <1> QED
    BY <1>1, <1>3, <1>5, TouchSight

\* People take records from the index, or the index away.
LEMMA ActOnIndexMoves ==
    ASSUME ScopeInv, SightInv, ActOnIndex
    PROVE  /\ Touch("index") /\ UNCHANGED <<files, rules>> /\ covered' = {}
           /\ Within(index'.records, index.records)
           /\ index'.kind = "v1" => index.kind = "v1"
           /\ IndexOK(index)'
  <1>1. Touch("index") /\ UNCHANGED <<files, rules>> /\ covered' = {}
    BY DEF ActOnIndex
  <1>2. acts' = acts + 1 /\ acts \in Nat
    BY <1>1, Touched
  <1>3. IndexOK(index)
    BY DEF SightInv
  <1>4. CASE \E p \in DOMAIN index.records :
                index' = [index EXCEPT !.records = [q \in DOMAIN @ \ {p} |-> @[q]]]
    <2>1. PICK p \in DOMAIN index.records :
                index' = [index EXCEPT !.records = [q \in DOMAIN @ \ {p} |-> @[q]]]
      BY <1>4
    <2> DEFINE left == [q \in DOMAIN index.records \ {p} |-> index.records[q]]
    <2>2. index' = [index EXCEPT !.records = left]
      BY <2>1
    <2>3. IsFcn(left) /\ DOMAIN left \subseteq DOMAIN index.records
          /\ \A q \in DOMAIN left : left[q] = index.records[q]
      BY DEF IsFcn
    <2> HIDE DEF left
    <2>4. index.kind = index.kind /\ index = [kind |-> index.kind, records |-> index.records]
      BY <1>3 DEF IndexOK, MetadataIndex
    <2>5. index'.kind = index.kind /\ index'.records = left
          /\ index' = MetadataIndex(index'.kind, index'.records)
      BY <2>2, <2>4 DEF MetadataIndex
    <2>6. /\ IsFcn(index'.records) /\ DOMAIN index'.records \subseteq Paths
          /\ DistinctIds(index'.records)
          /\ \A q \in DOMAIN index'.records : index'.records[q].hash \in 0 .. acts'
      BY <1>2, <1>3, <2>3, <2>5 DEF IndexOK, IsOld, DistinctIds
    <2>7. IndexOK(index)'
      BY <2>5, <2>6 DEF IndexOK, IsFcn, IsOld, DistinctIds
    <2>8. Within(index'.records, index.records)
      BY <2>3, <2>5 DEF Within
    <2> QED
      BY <1>1, <2>5, <2>7, <2>8
  <1>5. CASE \E act \in IndexActs : index' = MetadataIndex(act, NoRecords)
    <2>1. PICK act \in IndexActs : index' = MetadataIndex(act, NoRecords)
      BY <1>5
    <2>2. DOMAIN NoRecords = {} /\ IsFcn(NoRecords)
      BY DEF NoRecords, IsFcn
    <2>3. index'.kind = act /\ index'.records = NoRecords
      BY <2>1 DEF MetadataIndex
    <2>4. act # "v1"
      BY <2>1, PeopleWriteNoIndex
    <2>5. /\ IsFcn(index'.records) /\ DOMAIN index'.records \subseteq Paths
          /\ DistinctIds(index'.records)
          /\ \A q \in DOMAIN index'.records : index'.records[q].hash \in 0 .. acts'
      BY <2>2, <2>3 DEF DistinctIds
    <2>6. IndexOK(index)'
      BY <2>1, <2>3, <2>5 DEF IndexOK, IsFcn, IsOld, DistinctIds
    <2>7. Within(index'.records, index.records)
      BY <2>2, <2>3 DEF Within
    <2> QED
      BY <1>1, <2>3, <2>4, <2>6, <2>7
  <1>6. \/ \E p \in DOMAIN index.records :
                index' = [index EXCEPT !.records = [q \in DOMAIN @ \ {p} |-> @[q]]]
        \/ \E act \in IndexActs : index' = MetadataIndex(act, NoRecords)
    BY DEF ActOnIndex
  <1> QED
    BY <1>4, <1>5, <1>6

LEMMA ActOnIndexSight ==
    ASSUME ScopeInv, SightInv, ActOnIndex
    PROVE  SightInv'
  <1>1. Touch("index") /\ UNCHANGED <<files, rules>> /\ IndexOK(index)'
    BY ActOnIndexMoves
  <1>2. DOMAIN rules' = Paths
    BY <1>1 DEF SightInv
  <1> QED
    BY <1>1, <1>2, TouchSight

LEMMA StutterSight ==
    ASSUME ScopeInv, SightInv, UNCHANGED governedVars
    PROVE  SightInv'
  <1>1. UNCHANGED <<files, rules, index, pc, memory, verdict, acts, touched>>
    BY DEF governedVars
  <1>2. \A w \in Runs : SightOf(w)'
    <2>1. \A w \in Runs, p \in Paths : Stands(w, p)' <=> Stands(w, p)
      BY <1>1 DEF Stands, Stood, Was, Before
    <2>2. acts \in Nat
      BY DEF ScopeInv, FilesOK
    <2> QED
      BY <1>1, <2>1, <2>2, QuietSight DEF SightInv
  <1> QED
    BY <1>1, <1>2 DEF SightInv, SnapshotOK, Was, Before, IndexOK, IsOld

LEMMA NextSight == ScopeInv /\ SightInv /\ [GovernedNext]_governedVars => SightInv'
  <1> SUFFICES ASSUME ScopeInv, SightInv, [GovernedNext]_governedVars
               PROVE  SightInv'
    OBVIOUS
  <1>1. CASE \E w \in Runs : Begin(w) \/ Discover(w) \/ Read(w) \/ EndRead(w) \/ Plan(w)
                            \/ Weigh(w) \/ Compile(w)
    BY <1>1, BeginSight, DiscoverSight, ReadSight, EndReadSight, PlanSight, WeighSight,
       CompileSight
  <1>2. CASE Compare \/ Intents \/ Commit
    BY <1>2, CompareSight, IntentsSight, CommitSight
  <1>3. CASE EndCheck
    BY <1>3, EndCheckStops, StopSight DEF Runs
  <1>4. CASE \E p \in Paths : Edit(p) \/ Rule(p)
    BY <1>4, EditSight, RuleSight
  <1>5. CASE ActOnIndex
    BY <1>5, ActOnIndexSight
  <1>6. CASE UNCHANGED governedVars
    BY <1>6, StutterSight
  <1> QED
    BY <1>1, <1>2, <1>3, <1>4, <1>5, <1>6 DEF GovernedNext

-----------------------------------------------------------------------------
(* CheckInv: what happened since the first snapshot                        *)

\* What a run merged says of a path of its scope what the run's view does.
LEMMA RightlyIndexed ==
    ASSUME NEW w \in Runs, pc[w] \in Merged, HoldsOK(w), ~Blocking(w),
           NEW p \in Paths \ Filtered(w), View(w, p), memory[w].rules[p] = rules[p],
           NEW ix, ix.records = memory[w].out
    PROVE  Indexed(ix, p)
  <1> DEFINE held == memory[w]
  <1>1. /\ OutOK(w) /\ \A q \in DOMAIN held.seen : held.ledger[q] = "eligible"
        /\ held.ledger[p] = Disposition(files[p], held.scope, p)
        /\ held.ledger[p] = "eligible" => p \in DOMAIN held.seen
    BY DEF HoldsOK, View, Merged, Later
  <1>2. /\ p \in DOMAIN held.out <=> p \in Subjects(w)
        /\ p \in DOMAIN held.out => held.out[p] = Record(rules[p], p, held.seen[p])
    BY <1>1 DEF OutOK
  <1>3. held.ledger[p] # "sealed" /\ held.ledger[p] # "glob_filtered"
    BY DEF Blocking, Filtered
  <1>4. CASE files[p] = None
    <2>1. p \notin Subjects(w)
      BY <1>1, <1>4 DEF Subjects, Disposition
    <2> QED
      BY <1>2, <1>4, <2>1 DEF Indexed
  <1>5. CASE files[p] # None
    <2>1. files[p].form # "sealed"
      BY <1>1, <1>3, <1>5 DEF Disposition
    <2>2. CASE files[p].form = "binary"
      <3>1. p \notin Subjects(w) /\ CarrierDecision(rules[p], files[p].form) = "hard_skip"
        BY <1>1, <1>3, <1>5, <2>2 DEF Subjects, Disposition, CarrierDecision
      <3> QED
        BY <1>2, <3>1 DEF Indexed
    <2>3. CASE files[p].form # "binary"
      <3>1. p \in DOMAIN held.seen
        BY <1>1, <1>3, <1>5, <2>1, <2>3 DEF Disposition
      <3>2. held.seen[p].form = files[p].form /\ held.seen[p].body = files[p].body
        BY <3>1 DEF View
      <3>3. p \in Subjects(w) <=> CarrierDecision(rules[p], files[p].form) # "hard_skip"
        BY <3>1, <3>2 DEF Subjects
      <3>4. Record(rules[p], p, held.seen[p]) = Record(rules[p], p, files[p])
        BY <3>2 DEF Record
      <3> QED
        BY <1>2, <1>5, <2>1, <3>3, <3>4 DEF Indexed
    <2> QED
      BY <2>2, <2>3
  <1> QED
    BY <1>4, <1>5

\* What an apply does before its commit is nothing to a check.
LEMMA ApartCheck ==
    ASSUME CheckInv, UNCHANGED <<files, rules, index>>,
           memory'["check"] = memory["check"], pc'["check"] = pc["check"],
           touched'["check"] = touched["check"], IsFresh => IsFresh'
    PROVE  CheckInv'
  <1> SUFFICES ASSUME pc["check"] # "idle"
               PROVE  CheckInv'
    BY DEF CheckInv
  <1>1. Before' = Before /\ \A p : Was(p)' = Was(p)
    BY DEF Before, Was
  <1>2. \A p \in Paths : NewerOK(p)'
    BY <1>1 DEF CheckInv, NewerOK
  <1>3. NoApplyOK'
    BY <1>1 DEF CheckInv, NoApplyOK, Stood
  <1>4. DriftOK'
    BY DEF CheckInv, DriftOK, Drifts, Blocking, Conflicts, Subjects, Changes, Unmergeable, Filtered
  <1>5. AppliesOK'
    <2>1. \A p : (HeadOK(p) => HeadOK(p)') /\ \A ix : Indexed(ix, p)' <=> Indexed(ix, p)
      BY <1>1 DEF HeadOK, Headed, Indexed
    <2>2. AppliesOK
      BY DEF CheckInv
    <2>3. \A p \in Paths \ touched'["check"] : HeadOK(p)'
      BY <2>1, <2>2 DEF AppliesOK
    <2>4. "index" \notin touched'["check"] =>
             /\ index' = Before'[3] \/ IsFresh'
             /\ pc'["check"] = "end" /\ ~memory'["check"].drift =>
                  \A p \in (Paths \cap memory'["check"].scope) \ touched'["check"] :
                      Indexed(Before[3], p)' \/ (IsFresh' /\ Indexed(index, p)')
      BY <1>1, <2>2 DEF AppliesOK, Indexed
    <2> QED
      BY <2>3, <2>4 DEF AppliesOK
  <1> QED
    BY <1>2, <1>3, <1>4, <1>5 DEF CheckInv

LEMMA ApplyMoveCheck ==
    ASSUME ScopeInv, CheckInv, NEW to, NEW held, Moves("apply", to, held)
    PROVE  CheckInv'
  <1>1. /\ UNCHANGED <<files, rules, index, touched>> /\ pc["apply"] # "idle"
        /\ memory'["check"] = memory["check"] /\ pc'["check"] = pc["check"]
    BY DEF Moves, ScopeInv, RunsOK, Runs
  <1>2. IsFresh => IsFresh'
    BY <1>1 DEF IsFresh
  <1> QED
    BY <1>1, <1>2, ApartCheck

LEMMA StopCheck ==
    ASSUME ScopeInv, CheckInv, NEW w \in Runs, NEW how, Stops(w, how)
    PROVE  CheckInv'
  <1>1. /\ UNCHANGED <<files, rules, index, touched>> /\ pc'[w] = "idle"
        /\ \A v \in Runs : v # w => memory'[v] = memory[v] /\ pc'[v] = pc[v]
    BY DEF Stops, Finish, ScopeInv, RunsOK
  <1>2. CASE w = "check"
    BY <1>1, <1>2 DEF CheckInv
  <1>3. CASE w = "apply"
    <2>1. IsFresh'
      BY <1>1, <1>3 DEF IsFresh
    <2> QED
      BY <1>1, <1>3, <2>1, ApartCheck DEF Runs
  <1> QED
    BY <1>2, <1>3 DEF Runs

\* A check that reads and plans takes what it finds.
LEMMA CheckMove ==
    ASSUME ScopeInv, SightInv, SightInv', CheckInv, NEW to, NEW held,
           Moves("check", to, held), to # "end",
           \A p \in DOMAIN held.seen :
              \/ p \in DOMAIN memory["check"].seen /\ held.seen[p] = memory["check"].seen[p]
              \/ files[p] # None /\ held.seen[p].body = files[p].body,
           \A p \in DOMAIN held.plan :
              \/ p \in DOMAIN memory["check"].plan /\ held.plan[p] = memory["check"].plan[p]
              \/ held.plan[p].from = None
              \/ held.plan[p].from = files[p]
    PROVE  CheckInv'
  <1>1. /\ UNCHANGED <<files, rules, index, touched>> /\ pc["check"] # "idle" /\ to # "idle"
        /\ memory'["check"] = held /\ pc'["check"] = to /\ pc'["apply"] = pc["apply"]
        /\ held.before = memory["check"].before
    BY DEF Moves, ScopeInv, RunsOK, Runs, Later
  <1>2. Before' = Before /\ \A p : Was(p)' = Was(p)
    BY <1>1 DEF Before, Was
  <1>3. IsFresh' <=> IsFresh
    BY <1>1 DEF IsFresh
  <1>4. \A p \in Paths : NewerOK(p)'
    BY <1>1, <1>2 DEF CheckInv, NewerOK
  <1>5. NoApplyOK'
    BY <1>1, <1>2 DEF CheckInv, NoApplyOK, Stood
  <1>6. DriftOK'
    BY <1>1 DEF DriftOK
  <1>7. ASSUME NEW p \in Paths \ touched["check"]
        PROVE  HeadOK(p)'
    <2>1. HeadOK(p)
      BY <1>1 DEF CheckInv, AppliesOK
    <2>2. Headed(p)' <=> Headed(p)
      BY <1>1 DEF Headed
    <2>3. p \in DOMAIN held.plan =>
             /\ held.plan[p].to = File(files[p].body, files[p].form, files[p].body)
             /\ files[p] # None
      <3>1. View("check", p)' /\ HoldsOK("check")'
        BY <1>1 DEF SightInv, SightOf, Stands, Runs
      <3> QED
        BY <1>1, <3>1 DEF View, HoldsOK
    <2>4. p \in DOMAIN held.plan /\ held.plan[p].from # None /\ held.plan[p].from = held.plan[p].to
             => Headed(p) \/ Was(p).head = files[p].body
      <3>1. CASE p \in DOMAIN memory["check"].plan /\ held.plan[p] = memory["check"].plan[p]
        BY <2>1, <3>1 DEF HeadOK
      <3>2. CASE held.plan[p].from = files[p]
        BY <2>3, <3>2 DEF Headed, File
      <3> QED
        BY <3>1, <3>2
    <2> QED
      BY <1>1, <1>2, <1>3, <2>1, <2>2, <2>4 DEF HeadOK
  <1>8. AppliesOK'
    BY <1>1, <1>2, <1>3, <1>7 DEF CheckInv, AppliesOK
  <1> QED
    BY <1>4, <1>5, <1>6, <1>8 DEF CheckInv

LEMMA ReadingCheck ==
    ASSUME ScopeInv, SightInv, SightInv', CheckInv, NEW w \in Runs,
           Discover(w) \/ Read(w) \/ EndRead(w)
    PROVE  CheckInv'
  <1>1. CASE Discover(w)
    <2>1. PICK held : /\ Moves(w, "read", held)
                      /\ held.seen = memory[w].seen /\ held.plan = memory[w].plan
      BY <1>1, DiscoverMoves
    <2>2. CASE w = "apply"
      BY <2>1, <2>2, ApplyMoveCheck
    <2>3. CASE w = "check"
      BY <2>1, <2>3, CheckMove
    <2> QED
      BY <2>2, <2>3 DEF Runs
  <1>2. CASE Read(w)
    <2>1. CASE Stops(w, "refused")
      BY <2>1, StopCheck
    <2>2. CASE ~Stops(w, "refused")
      <3>1. PICK p \in memory[w].todo :
                \/ (files[p] = None \/ files[p].form = "sealed") /\ Stops(w, "refused")
                \/ \E form \in ReadAs(files[p].form) : \E held :
                     /\ files[p] # None /\ files[p].form # "sealed"
                     /\ Moves(w, "read", held)
                     /\ held.ledger = memory[w].ledger /\ held.plan = memory[w].plan
                     /\ held.todo = memory[w].todo \ {p}
                     /\ held.seen = [q \in DOMAIN memory[w].seen \cup {p} |->
                                       IF q = p THEN [body |-> files[p].body, form |-> form]
                                       ELSE memory[w].seen[q]]
        BY <1>2, ReadMoves
      <3>2. PICK form, held :
                     /\ files[p] # None
                     /\ Moves(w, "read", held) /\ held.plan = memory[w].plan
                     /\ held.seen = [q \in DOMAIN memory[w].seen \cup {p} |->
                                       IF q = p THEN [body |-> files[p].body, form |-> form]
                                       ELSE memory[w].seen[q]]
        BY <2>2, <3>1
      <3>3. \A q \in DOMAIN held.seen :
              \/ q \in DOMAIN memory[w].seen /\ held.seen[q] = memory[w].seen[q]
              \/ files[q] # None /\ held.seen[q].body = files[q].body
        BY <3>2
      <3>4. CASE w = "apply"
        BY <3>2, <3>4, ApplyMoveCheck
      <3>5. CASE w = "check"
        BY <3>2, <3>3, <3>5, CheckMove
      <3> QED
        BY <3>4, <3>5 DEF Runs
    <2> QED
      BY <2>1, <2>2
  <1>3. CASE EndRead(w)
    <2>1. CASE Stops(w, "refused")
      BY <2>1, StopCheck
    <2>2. CASE ~Stops(w, "refused")
      <3>1. PICK held : /\ Moves(w, "plan", held)
                        /\ held.seen = memory[w].seen /\ held.plan = memory[w].plan
        BY <1>3, <2>2, EndReadMoves
      <3>2. CASE w = "apply"
        BY <3>1, <3>2, ApplyMoveCheck
      <3>3. CASE w = "check"
        BY <3>1, <3>3, CheckMove
      <3> QED
        BY <3>2, <3>3 DEF Runs
    <2> QED
      BY <2>1, <2>2
  <1> QED
    BY <1>1, <1>2, <1>3

LEMMA PlanningCheck ==
    ASSUME ScopeInv, SightInv, SightInv', CheckInv, NEW w \in Runs,
           Plan(w) \/ Weigh(w) \/ Compile(w)
    PROVE  CheckInv'
  <1>1. CASE Stops(w, "refused")
    BY <1>1, StopCheck
  <1>2. CASE ~Stops(w, "refused") /\ Plan(w)
    <2>1. PICK p \in memory[w].todo : \E held :
                     /\ Moves(w, "weigh", held) /\ held.seen = memory[w].seen
                     /\ held.plan = [q \in DOMAIN memory[w].plan \cup {p} |->
                          IF q = p THEN [from |-> None,
                                         to |-> [files[p] EXCEPT !.head = memory[w].seen[p].body]]
                          ELSE memory[w].plan[q]]
      BY <1>2, PlanMoves
    <2>2. PICK held :
                     /\ Moves(w, "weigh", held) /\ held.seen = memory[w].seen
                     /\ held.plan = [q \in DOMAIN memory[w].plan \cup {p} |->
                          IF q = p THEN [from |-> None,
                                         to |-> [files[p] EXCEPT !.head = memory[w].seen[p].body]]
                          ELSE memory[w].plan[q]]
      BY <2>1
    <2>3. \A q \in DOMAIN held.plan :
              \/ q \in DOMAIN memory[w].plan /\ held.plan[q] = memory[w].plan[q]
              \/ held.plan[q].from = None
      BY <2>2
    <2>4. CASE w = "apply"
      BY <2>2, <2>4, ApplyMoveCheck
    <2>5. CASE w = "check"
      BY <2>2, <2>3, <2>5, CheckMove
    <2> QED
      BY <2>4, <2>5 DEF Runs
  <1>3. CASE ~Stops(w, "refused") /\ Weigh(w)
    <2>1. PICK p \in memory[w].todo : \E held :
                     /\ Moves(w, "plan", held) /\ held.seen = memory[w].seen
                     /\ held.plan = IF IsInline(w, p)
                                    THEN [memory[w].plan EXCEPT ![p].from = files[p]]
                                    ELSE [q \in DOMAIN memory[w].plan \ {p} |-> memory[w].plan[q]]
      BY <1>3, WeighMoves
    <2>2. PICK held :
                     /\ Moves(w, "plan", held) /\ held.seen = memory[w].seen
                     /\ held.plan = IF IsInline(w, p)
                                    THEN [memory[w].plan EXCEPT ![p].from = files[p]]
                                    ELSE [q \in DOMAIN memory[w].plan \ {p} |-> memory[w].plan[q]]
      BY <2>1
    <2>3. HoldsOK(w)
      BY <2>2 DEF Moves, SightInv, SightOf
    <2>4. ASSUME NEW q \in DOMAIN held.plan
          PROVE  \/ q \in DOMAIN memory[w].plan /\ held.plan[q] = memory[w].plan[q]
                 \/ held.plan[q].from = files[q]
      <3>1. CASE q # p
        BY <2>2, <2>4, <3>1
      <3>2. CASE q = p
        <4>1. q \in DOMAIN memory[w].plan /\ held.plan[p] = [memory[w].plan[p] EXCEPT !.from = files[p]]
          BY <2>2, <2>4, <3>2
        <4> QED
          BY <2>3, <3>2, <4>1 DEF HoldsOK
      <3> QED
        BY <3>1, <3>2
    <2>5. CASE w = "apply"
      BY <2>2, <2>5, ApplyMoveCheck
    <2>6. CASE w = "check"
      BY <2>2, <2>4, <2>6, CheckMove
    <2> QED
      BY <2>5, <2>6 DEF Runs
  <1>4. CASE ~Stops(w, "refused") /\ Compile(w)
    <2>1. PICK held : /\ Moves(w, IF w = "check" THEN "compare" ELSE "intents", held)
                      /\ held.seen = memory[w].seen /\ held.plan = memory[w].plan
      BY <1>4, CompileMoves
    <2>2. CASE w = "apply"
      BY <2>1, <2>2, ApplyMoveCheck
    <2>3. CASE w = "check"
      BY <2>1, <2>3, CheckMove
    <2> QED
      BY <2>2, <2>3 DEF Runs
  <1> QED
    BY <1>1, <1>2, <1>3, <1>4

\* A check that finds no drift compared the index that stands with what it read.
LEMMA CompareCheck ==
    ASSUME ScopeInv, SightInv, CheckInv, Compare
    PROVE  CheckInv'
  <1> DEFINE c == memory["check"]
  <1>1. PICK held :
           /\ Moves("check", "end", held)
           /\ held.ledger = c.ledger /\ held.plan = c.plan /\ held.seen = c.seen
           /\ held.todo = c.todo /\ held.base = c.base /\ held.out = c.out
           /\ held.drift <=> Drifts \/ index # MetadataIndex("v1", c.out)
    BY CompareMoves
  <1>2. /\ UNCHANGED <<files, rules, index, touched>> /\ pc["check"] = "compare"
        /\ memory'["check"] = held /\ pc'["check"] = "end" /\ pc'["apply"] = pc["apply"]
        /\ held.before = c.before /\ held.scope = c.scope /\ held.rules = c.rules
    BY <1>1, CompareMoves DEF Moves, ScopeInv, RunsOK, Runs, Later
  <1>3. Before' = Before /\ \A p : Was(p)' = Was(p)
    BY <1>2 DEF Before, Was
  <1>4. IsFresh' <=> IsFresh
    BY <1>2 DEF IsFresh
  <1>5. Drifts' <=> Drifts
    BY <1>1, <1>2 DEF Drifts, Blocking, Conflicts, Subjects, Changes, Unmergeable, Filtered
  <1>6. ~held.drift => ~Drifts /\ index.kind = "v1" /\ index.records = c.out
    BY <1>1 DEF MetadataIndex
  <1>7. \A p \in Paths : NewerOK(p)'
    BY <1>1, <1>2, <1>3 DEF CheckInv, NewerOK
  <1>8. NoApplyOK'
    BY <1>1, <1>2, <1>3, <1>6 DEF CheckInv, NoApplyOK, Stood, Within
  <1>9. DriftOK'
    BY <1>2, <1>5, <1>6 DEF DriftOK
  <1>10. \A p \in Paths \ touched["check"] : HeadOK(p)'
    <2>1. \A p \in Paths \ touched["check"] : HeadOK(p)
      BY <1>2 DEF CheckInv, AppliesOK
    <2> QED
      BY <1>1, <1>2, <1>3, <1>4, <2>1 DEF HeadOK, Headed
  <1>11. ASSUME ~held.drift, NEW p \in (Paths \cap c.scope) \ touched["check"]
         PROVE  Indexed(index, p)
    <2>1. HoldsOK("check") /\ View("check", p) /\ c.rules[p] = rules[p]
      BY <1>2, <1>11 DEF SightInv, SightOf, Stands, Runs
    <2>2. ~Blocking("check") /\ p \notin Filtered("check")
      BY <1>2, <1>6, <1>11, <2>1 DEF Drifts, HoldsOK, Later
    <2> QED
      BY <1>2, <1>6, <1>11, <2>1, <2>2, RightlyIndexed DEF Merged, Runs
  <1>12. "index" \notin touched["check"] => index = Before[3] \/ IsFresh
    BY <1>2 DEF CheckInv, AppliesOK
  <1>13. ASSUME "index" \notin touched["check"], ~held.drift,
                NEW p \in (Paths \cap c.scope) \ touched["check"]
         PROVE  Indexed(Before[3], p)' \/ (IsFresh' /\ Indexed(index, p)')
    <2>1. Indexed(index, p)
      BY <1>11, <1>13
    <2>2. CASE IsFresh
      BY <1>2, <1>4, <2>1, <2>2 DEF Indexed
    <2>3. CASE index = Before[3]
      <3>1. Before'[3].records = index.records
        BY <1>3, <2>3
      <3> QED
        BY <1>2, <2>1, <3>1 DEF Indexed
    <2> QED
      BY <1>12, <1>13, <2>2, <2>3
  <1>14. AppliesOK'
    BY <1>2, <1>3, <1>4, <1>10, <1>12, <1>13 DEF AppliesOK
  <1> QED
    BY <1>7, <1>8, <1>9, <1>14 DEF CheckInv

LEMMA BeginCheck ==
    ASSUME ScopeInv, SightInv, SightInv', CheckInv, NEW w \in Runs, Begin(w)
    PROVE  CheckInv'
  <1>1. CASE Stops(w, "refused")
    BY <1>1, StopCheck
  <1>2. CASE ~Stops(w, "refused")
    <2>1. PICK held :
             /\ pc' = [pc EXCEPT ![w] = "discover"] /\ memory' = [memory EXCEPT ![w] = held]
             /\ held.seen = NoRecords /\ held.plan = NoRecords
             /\ w = "check" => held.before = <<files, rules, index>>
             /\ touched' = [touched EXCEPT ![w] = {}]
             /\ UNCHANGED <<files, rules, index, acts, covered>>
      BY <1>2, BeginMoves
    <2>2. /\ memory'[w] = held /\ pc'[w] = "discover" /\ touched'[w] = {}
          /\ \A v \in Runs : v # w =>
                memory'[v] = memory[v] /\ pc'[v] = pc[v] /\ touched'[v] = touched[v]
      BY <2>1 DEF ScopeInv, RunsOK, SightInv
    <2>3. CASE w = "apply"
      <3>1. IsFresh'
        BY <2>2, <2>3 DEF IsFresh
      <3> QED
        BY <2>1, <2>2, <2>3, <3>1, ApartCheck DEF Runs
    <2>4. CASE w = "check"
      <3>1. DOMAIN NoRecords = {}
        BY DEF NoRecords
      <3>2. Before' = <<files, rules, index>>
        BY <2>1, <2>2, <2>4 DEF Before
      <3>3. Before'[3] = index /\ \A p : Was(p)' = files[p]
        BY <3>2 DEF Was
      <3>4. \A p \in Paths : NewerOK(p)'
        BY <2>1, <2>2, <2>4, <3>1, <3>3 DEF NewerOK
      <3>5. NoApplyOK'
        BY <2>1, <2>2, <2>4, <3>3 DEF NoApplyOK, Within
      <3>6. AppliesOK'
        BY <2>1, <2>2, <2>4, <3>1, <3>3 DEF AppliesOK, HeadOK, Headed
      <3>7. DriftOK'
        BY <2>2, <2>4 DEF DriftOK
      <3> QED
        BY <3>4, <3>5, <3>6, <3>7 DEF CheckInv
    <2> QED
      BY <2>3, <2>4 DEF Runs
  <1> QED
    BY <1>1, <1>2

\* A commit of an apply that began after the check writes what is so.
LEMMA CommitIndexes ==
    ASSUME ScopeInv, SightInv, Commit, ~Stops("apply", "refused"),
           NEW p \in Paths, p \notin touched["apply"]
    PROVE  /\ p \notin Filtered("apply") => Indexed(index, p)'
           /\ Indexed(index, p) => Indexed(index, p)'
           /\ Headed(p) => Headed(p)'
  <1>1. /\ \A q \in Paths :
              /\ q \in Changes("apply") => files'[q] = A.plan[q].to
              /\ q \notin Changes("apply") => files'[q] = files[q]
              /\ files'[q] = None <=> files[q] = None
              /\ files[q] # None => files'[q].body = files[q].body /\ files'[q].form = files[q].form
        /\ index' = MetadataIndex("v1", A.out) /\ index = A.base
        /\ UNCHANGED rules /\ pc["apply"] = "commit"
    BY CommitMoves
  <1>2. /\ HoldsOK("apply") /\ View("apply", p) /\ memory["apply"].rules[p] = rules[p]
        /\ ~Blocking("apply") /\ OutOK("apply") /\ pc["apply"] \in Merged /\ "apply" \in Runs
    BY <1>1 DEF SightInv, SightOf, Stands, HoldsOK, Merged, Runs
  <1>3. index'.records = A.out /\ A.out = memory["apply"].out
    BY <1>1 DEF MetadataIndex, A
  <1>4. ASSUME p \notin Filtered("apply")
        PROVE  Indexed(index, p)'
    <2>1. Indexed(index', p)
      BY <1>2, <1>3, <1>4, RightlyIndexed
    <2> QED
      BY <1>1, <2>1 DEF Indexed, Record
  <1>5. ASSUME p \in Filtered("apply"), Indexed(index, p)
        PROVE  Indexed(index, p)'
    <2>1. /\ p \in DOMAIN index'.records <=> p \in DOMAIN index.records
          /\ p \in DOMAIN index.records => index'.records[p] = index.records[p]
      BY <1>1, <1>2, <1>3, <1>5 DEF OutOK, A
    <2> QED
      BY <1>1, <1>5, <2>1 DEF Indexed, Record
  <1>6. ASSUME Headed(p)
        PROVE  Headed(p)'
    <2>1. p \in Changes("apply") =>
             A.plan[p].to = File(files[p].body, files[p].form, files[p].body)
      BY <1>2 DEF View, Changes, A
    <2>2. CASE p \in Changes("apply")
      BY <1>1, <1>6, <2>1, <2>2 DEF Headed, File
    <2>3. CASE p \notin Changes("apply")
      BY <1>1, <1>6, <2>3 DEF Headed
    <2> QED
      BY <2>2, <2>3
  <1> QED
    BY <1>4, <1>5, <1>6

LEMMA CommitCheck ==
    ASSUME ScopeInv, SightInv, CheckInv, Commit
    PROVE  CheckInv'
  <1>1. CASE Stops("apply", "refused")
    BY <1>1, StopCheck DEF Runs
  <1>2. CASE ~Stops("apply", "refused") /\ pc["check"] # "idle"
    <2>1. /\ Finish("apply", "passed") /\ pc["apply"] = "commit"
          /\ \A p \in Paths :
                /\ files'[p] = None <=> files[p] = None
                /\ files[p] # None => files'[p].body = files[p].body
                                      /\ files'[p].form = files[p].form
          /\ \/ touched'["check"] = touched["check"] /\ files' = files /\ index' = index
             \/ touched'["check"] = touched["check"] \cup {"apply"}
          /\ UNCHANGED rules
      BY <1>2, CommitMoves
    <2>2. /\ pc'["apply"] = "idle"
          /\ memory'["check"] = memory["check"] /\ pc'["check"] = pc["check"]
      BY <2>1 DEF Finish, ScopeInv, RunsOK, Runs
    <2>3. Before' = Before /\ (\A p : Was(p)' = Was(p)) /\ IsFresh'
      BY <2>2 DEF Before, Was, IsFresh
    <2>4. \A p \in Paths : NewerOK(p)'
      BY <1>2, <2>1, <2>2, <2>3 DEF CheckInv, NewerOK
    <2>5. NoApplyOK'
      <3> SUFFICES ASSUME "apply" \notin touched'["check"]
                   PROVE  NoApplyOK'
        BY DEF NoApplyOK
      <3>1. UNCHANGED <<files, index>> /\ touched'["check"] = touched["check"]
        BY <2>1
      <3> QED
        BY <1>2, <2>2, <2>3, <3>1 DEF CheckInv, NoApplyOK, Stood
    <2>6. DriftOK'
      BY <1>2, <2>2
      DEF CheckInv, DriftOK, Drifts, Blocking, Conflicts, Subjects, Changes, Unmergeable, Filtered
    <2>7. \A p : p \notin touched'["check"] => p \notin touched["check"]
      BY <2>1
    <2>8. ASSUME NEW p \in Paths \ touched'["check"]
          PROVE  HeadOK(p)'
      <3>1. HeadOK(p)
        BY <1>2, <2>7 DEF CheckInv, AppliesOK
      <3>2. Headed(p) => Headed(p)' \/ Was(p).head = files[p].body
        <4>1. CASE IsFresh
          <5>1. p \notin touched["apply"]
            BY <2>1, <2>7, <4>1 DEF IsFresh
          <5> QED
            BY <1>2, <5>1, CommitIndexes
        <4>2. CASE ~IsFresh
          BY <3>1, <4>2 DEF HeadOK
        <4> QED
          BY <4>1, <4>2
      <3>3. Headed(p) => files[p] # None
        BY DEF Headed
      <3>4. files[p] # None => files'[p].body = files[p].body
        BY <2>1
      <3>5. p \in DOMAIN memory["check"].plan => files[p] # None
        <4>1. View("check", p) /\ HoldsOK("check")
          BY <1>2, <2>7 DEF SightInv, SightOf, Stands, Runs
        <4> QED
          BY <4>1 DEF View, HoldsOK
      <3> QED
        BY <2>2, <2>3, <3>1, <3>2, <3>3, <3>4, <3>5 DEF HeadOK
    <2>9. ASSUME "index" \notin touched'["check"], pc'["check"] = "end", ~memory'["check"].drift,
                 NEW p \in (Paths \cap memory'["check"].scope) \ touched'["check"]
          PROVE  Indexed(Before[3], p)' \/ (IsFresh' /\ Indexed(index, p)')
      <3>1. Indexed(Before[3], p) \/ (IsFresh /\ Indexed(index, p))
        <4>1. "index" \notin touched["check"] /\ p \in (Paths \cap memory["check"].scope) \ touched["check"]
          BY <2>2, <2>7, <2>9
        <4> QED
          BY <1>2, <2>2, <2>9, <4>1 DEF CheckInv, AppliesOK
      <3>2. CASE Indexed(Before[3], p)
        BY <2>1, <2>3, <3>2 DEF Indexed, Record
      <3>3. CASE IsFresh /\ Indexed(index, p)
        <4>1. p \notin touched["apply"]
          BY <2>1, <2>7, <3>3 DEF IsFresh
        <4> QED
          BY <1>2, <2>3, <3>3, <4>1, CommitIndexes
      <3> QED
        BY <3>1, <3>2, <3>3
    <2>10. AppliesOK'
      BY <2>2, <2>3, <2>8, <2>9 DEF AppliesOK
    <2> QED
      BY <2>4, <2>5, <2>6, <2>10 DEF CheckInv
  <1>3. CASE ~Stops("apply", "refused") /\ pc["check"] = "idle"
    <2>1. Finish("apply", "passed")
      BY <1>3, CommitMoves
    <2>2. pc'["check"] = "idle"
      BY <1>3, <2>1 DEF Finish, ScopeInv, RunsOK, Runs
    <2> QED
      BY <2>2 DEF CheckInv
  <1> QED
    BY <1>1, <1>2, <1>3

\* People act: the first snapshot stands, and an apply that began later still did.
LEMMA TouchedCheck ==
    ASSUME ScopeInv, SightInv, NEW what, Touch(what), pc["check"] # "idle"
    PROVE  /\ UNCHANGED <<pc, memory>> /\ touched'["check"] = touched["check"] \cup {what}
           /\ Before' = Before /\ (\A p : Was(p)' = Was(p))
           /\ IsFresh => IsFresh'
  <1>1. /\ UNCHANGED <<pc, memory>>
        /\ \A w \in Runs : /\ pc[w] # "idle" => touched'[w] = touched[w] \cup {what}
                           /\ pc[w] = "idle" => touched'[w] = touched[w]
    BY Touched
  <1>2. touched'["check"] = touched["check"] \cup {what}
    BY <1>1 DEF Runs
  <1>3. IsFresh => IsFresh'
    BY <1>1, <1>2 DEF IsFresh, Runs
  <1> QED
    BY <1>1, <1>2, <1>3 DEF Before, Was

LEMMA EditCheck ==
    ASSUME ScopeInv, SightInv, CheckInv, NEW p \in Paths, Edit(p)
    PROVE  CheckInv'
  <1>1. /\ Touch(p) /\ UNCHANGED <<rules, index>>
        /\ files'[p] # None => files'[p].body = acts + 1
        /\ \A q \in Paths : q # p => files'[q] = files[q]
    BY EditMoves
  <1>2. CASE pc["check"] = "idle"
    BY <1>1, <1>2, Touched DEF CheckInv
  <1>3. CASE pc["check"] # "idle"
    <2>1. /\ UNCHANGED <<pc, memory>> /\ touched'["check"] = touched["check"] \cup {p}
          /\ Before' = Before /\ (\A q : Was(q)' = Was(q)) /\ (IsFresh => IsFresh')
      BY <1>1, <1>3, TouchedCheck
    <2>2. SnapshotOK /\ acts \in Nat
      BY <1>3 DEF SightInv, ScopeInv, FilesOK
    <2>3. ASSUME NEW q \in Paths
          PROVE  NewerOK(q)'
      <3>1. NewerOK(q)
        BY <1>3 DEF CheckInv
      <3>2. CASE q # p
        BY <1>1, <2>1, <3>1, <3>2 DEF NewerOK
      <3>3. CASE q = p
        <4>1. q \in DOMAIN Before[3].records => Before[3].records[q].hash \in 0 .. acts
          BY <2>2 DEF SnapshotOK, IndexOK, IsOld
        <4> QED
          BY <1>1, <2>1, <2>2, <3>1, <3>3, <4>1 DEF NewerOK
      <3> QED
        BY <3>2, <3>3
    <2>4. \A q \in Paths : Stood(q)' => q # p /\ Stood(q)
      <3> SUFFICES ASSUME NEW q \in Paths, Stood(q)'
                   PROVE  q # p /\ Stood(q)
        OBVIOUS
      <3>1. Was(q) # None /\ files'[q] # None /\ files'[q].body = Was(q).body
        BY <2>1 DEF Stood
      <3>2. Was(q) \in FileStates /\ Was(q).body <= acts
        BY <2>2, <3>1 DEF SnapshotOK, Was
      <3>3. q # p
        BY <1>1, <2>2, <3>1, <3>2 DEF FileStates
      <3> QED
        BY <1>1, <3>1, <3>3 DEF Stood
    <2>5. NoApplyOK'
      BY <1>1, <1>3, <2>1, <2>4 DEF CheckInv, NoApplyOK
    <2>6. DriftOK'
      BY <1>3, <2>1
      DEF CheckInv, DriftOK, Drifts, Blocking, Conflicts, Subjects, Changes, Unmergeable, Filtered
    <2>7. AppliesOK
      BY <1>3 DEF CheckInv
    <2>8. \A q \in Paths \ touched'["check"] : q # p /\ HeadOK(q)'
      BY <1>1, <2>1, <2>7 DEF AppliesOK, HeadOK, Headed
    <2>9. ASSUME "index" \notin touched'["check"]
          PROVE  /\ index' = Before'[3] \/ IsFresh'
                 /\ pc'["check"] = "end" /\ ~memory'["check"].drift =>
                      \A q \in (Paths \cap memory'["check"].scope) \ touched'["check"] :
                          Indexed(Before[3], q)' \/ (IsFresh' /\ Indexed(index, q)')
      BY <1>1, <2>1, <2>7, <2>9 DEF AppliesOK, Indexed
    <2> QED
      BY <2>3, <2>5, <2>6, <2>8, <2>9 DEF CheckInv, AppliesOK
  <1> QED
    BY <1>2, <1>3

LEMMA RuleCheck ==
    ASSUME ScopeInv, SightInv, CheckInv, NEW p \in Paths, Rule(p)
    PROVE  CheckInv'
  <1>1. Touch(p) /\ UNCHANGED <<files, index>>
    BY DEF Rule
  <1>2. \A q \in Paths : q # p => rules'[q] = rules[q]
    BY DEF Rule, SightInv
  <1>3. CASE pc["check"] = "idle"
    BY <1>1, <1>3, Touched DEF CheckInv
  <1>4. CASE pc["check"] # "idle"
    <2>1. /\ UNCHANGED <<pc, memory>> /\ touched'["check"] = touched["check"] \cup {p}
          /\ Before' = Before /\ (\A q : Was(q)' = Was(q)) /\ (IsFresh => IsFresh')
      BY <1>1, <1>4, TouchedCheck
    <2>2. \A q \in Paths : NewerOK(q)'
      BY <1>1, <1>4, <2>1 DEF CheckInv, NewerOK
    <2>3. NoApplyOK'
      BY <1>1, <1>4, <2>1 DEF CheckInv, NoApplyOK, Stood
    <2>4. DriftOK'
      BY <1>4, <2>1
      DEF CheckInv, DriftOK, Drifts, Blocking, Conflicts, Subjects, Changes, Unmergeable, Filtered
    <2>5. AppliesOK
      BY <1>4 DEF CheckInv
    <2>6. \A q \in Paths \ touched'["check"] : q # p /\ HeadOK(q)'
      BY <1>1, <2>1, <2>5 DEF AppliesOK, HeadOK, Headed
    <2>7. ASSUME "index" \notin touched'["check"]
          PROVE  /\ index' = Before'[3] \/ IsFresh'
                 /\ pc'["check"] = "end" /\ ~memory'["check"].drift =>
                      \A q \in (Paths \cap memory'["check"].scope) \ touched'["check"] :
                          Indexed(Before[3], q)' \/ (IsFresh' /\ Indexed(index, q)')
      BY <1>1, <1>2, <2>1, <2>5, <2>7 DEF AppliesOK, Indexed
    <2> QED
      BY <2>2, <2>3, <2>4, <2>6, <2>7 DEF CheckInv, AppliesOK
  <1> QED
    BY <1>3, <1>4

LEMMA ActOnIndexCheck ==
    ASSUME ScopeInv, SightInv, CheckInv, ActOnIndex
    PROVE  CheckInv'
  <1>1. /\ Touch("index") /\ UNCHANGED <<files, rules>>
        /\ Within(index'.records, index.records) /\ (index'.kind = "v1" => index.kind = "v1")
    BY ActOnIndexMoves
  <1>2. CASE pc["check"] = "idle"
    BY <1>1, <1>2, Touched DEF CheckInv
  <1>3. CASE pc["check"] # "idle"
    <2>1. /\ UNCHANGED <<pc, memory>> /\ touched'["check"] = touched["check"] \cup {"index"}
          /\ Before' = Before /\ (\A q : Was(q)' = Was(q)) /\ (IsFresh => IsFresh')
      BY <1>1, <1>3, TouchedCheck
    <2>2. \A q \in Paths : NewerOK(q)'
      BY <1>1, <1>3, <2>1 DEF CheckInv, NewerOK
    <2>3. NoApplyOK'
      BY <1>1, <1>3, <2>1 DEF CheckInv, NoApplyOK, Stood, Within
    <2>4. DriftOK'
      BY <1>3, <2>1
      DEF CheckInv, DriftOK, Drifts, Blocking, Conflicts, Subjects, Changes, Unmergeable, Filtered
    <2>5. \A q \in Paths \ touched'["check"] : HeadOK(q)'
      BY <1>1, <1>3, <2>1 DEF CheckInv, AppliesOK, HeadOK, Headed
    <2> QED
      BY <2>1, <2>2, <2>3, <2>4, <2>5 DEF CheckInv, AppliesOK
  <1> QED
    BY <1>2, <1>3

LEMMA NextCheck ==
    ScopeInv /\ SightInv /\ SightInv' /\ CheckInv /\ [GovernedNext]_governedVars => CheckInv'
  <1> SUFFICES ASSUME ScopeInv, SightInv, SightInv', CheckInv, [GovernedNext]_governedVars
               PROVE  CheckInv'
    OBVIOUS
  <1>1. CASE \E w \in Runs : Begin(w) \/ Discover(w) \/ Read(w) \/ EndRead(w) \/ Plan(w)
                            \/ Weigh(w) \/ Compile(w)
    BY <1>1, BeginCheck, ReadingCheck, PlanningCheck
  <1>2. CASE Compare \/ Commit
    BY <1>2, CompareCheck, CommitCheck
  <1>3. CASE Intents
    BY <1>3, IntentsMoves, StopCheck, ApplyMoveCheck DEF Runs
  <1>4. CASE EndCheck
    BY <1>4, EndCheckStops, StopCheck DEF Runs
  <1>5. CASE \E p \in Paths : Edit(p) \/ Rule(p)
    BY <1>5, EditCheck, RuleCheck
  <1>6. CASE ActOnIndex
    BY <1>6, ActOnIndexCheck
  <1>7. CASE UNCHANGED governedVars
    <2>1. UNCHANGED <<files, rules, index, pc, memory, touched>>
      BY <1>7 DEF governedVars
    <2> QED
      BY <2>1, ApartCheck DEF IsFresh
  <1> QED
    BY <1>1, <1>2, <1>3, <1>4, <1>5, <1>6, <1>7 DEF GovernedNext

LEMMA SightInvariant == GovernedSpec => [](ScopeInv /\ SightInv /\ CheckInv)
  <1>1. GovernedInit => ScopeInv /\ SightInv /\ CheckInv
    BY InitScoped, InitSight DEF CheckInv, GovernedInit, Runs
  <1>2. ScopeInv /\ SightInv /\ CheckInv /\ [GovernedNext]_governedVars
        => (ScopeInv /\ SightInv /\ CheckInv)'
    BY NextScoped, NextSight, NextCheck
  <1> QED
    BY <1>1, <1>2, PTL DEF GovernedSpec

-----------------------------------------------------------------------------
\* What can end a run.
LEMMA RunEnds ==
    ASSUME ScopeInv, SightInv, [GovernedNext]_governedVars, NEW w \in Runs,
           pc[w] # "idle", pc'[w] = "idle"
    PROVE  \/ Stops(w, "refused") /\ (Read(w) \/ EndRead(w) \/ Plan(w) \/ Weigh(w) \/ Compile(w))
           \/ w = "check" /\ EndCheck
           \/ w = "apply" /\ (Intents \/ Commit)
  <1>1. ASSUME NEW v \in Runs, NEW to, NEW held, Moves(v, to, held)
        PROVE  FALSE
    <2>1. pc'[v] = to /\ to # "idle" /\ \A u \in Runs : u # v => pc'[u] = pc[u]
      BY <1>1 DEF Moves, ScopeInv, RunsOK, Later
    <2> QED
      BY <2>1
  <1>2. ASSUME NEW v \in Runs, Stops(v, "refused")
        PROVE  v = w
    <2>1. \A u \in Runs : u # v => pc'[u] = pc[u]
      BY <1>2 DEF Stops, Finish, ScopeInv, RunsOK
    <2> QED
      BY <2>1
  <1>3. ASSUME NEW v \in Runs, Begin(v)
        PROVE  FALSE
    <2>1. /\ pc[v] = "idle"
          /\ Stops(v, "refused") \/ pc' = [pc EXCEPT ![v] = "discover"]
      BY <1>3, BeginMoves
    <2>2. \A u \in Runs : u # v => pc'[u] = pc[u]
      BY <2>1 DEF Stops, Finish, ScopeInv, RunsOK
    <2> QED
      BY <2>1, <2>2
  <1>4. \A v \in Runs : ~Discover(v)
    BY <1>1, DiscoverMoves
  <1>5. ASSUME NEW v \in Runs, Read(v) \/ EndRead(v) \/ Plan(v) \/ Weigh(v) \/ Compile(v)
        PROVE  Stops(v, "refused")
    BY <1>1, <1>5, ReadMoves, EndReadMoves, PlanMoves, WeighMoves, CompileMoves
  <1>6. ~Compare
    BY <1>1, CompareMoves DEF Runs
  <1>7. EndCheck => w = "check"
    <2> SUFFICES ASSUME EndCheck
                 PROVE  w = "check"
      OBVIOUS
    <2>1. pc'["apply"] = pc["apply"]
      BY EndCheckStops DEF Stops, Finish, ScopeInv, RunsOK, Runs
    <2> QED
      BY <2>1 DEF Runs
  <1>8. Intents \/ Commit => w = "apply"
    <2> SUFFICES ASSUME Intents \/ Commit
                 PROVE  w = "apply"
      OBVIOUS
    <2>1. pc'["check"] = pc["check"]
      <3>1. CASE Intents
        BY <3>1, IntentsMoves DEF Stops, Finish, Moves, ScopeInv, RunsOK, Runs
      <3>2. CASE Commit
        BY <3>2, CommitMoves DEF Stops, Finish, ScopeInv, RunsOK, Runs
      <3> QED
        BY <3>1, <3>2
    <2> QED
      BY <2>1 DEF Runs
  <1>9. (\A p \in Paths : ~Edit(p) /\ ~Rule(p)) /\ ~ActOnIndex /\ ~UNCHANGED governedVars
    BY DEF Edit, Rule, ActOnIndex, Touch, governedVars
  <1> QED
    BY <1>2, <1>3, <1>4, <1>5, <1>6, <1>7, <1>8, <1>9 DEF GovernedNext

\* A verdict other than the one asked for.
LEMMA RefusedIsRefused ==
    ASSUME SightInv, NEW w \in Runs, NEW how, Stops(w, how)
    PROVE  verdict'[w] = how
  BY DEF SightInv, Stops, Finish

LEMMA PassingCheck ==
    ASSUME ScopeInv, SightInv, [GovernedNext]_governedVars, Passes("check")
    PROVE  /\ pc["check"] = "end" /\ Before = <<files, rules, index>>
           /\ ~memory["check"].drift /\ UNCHANGED <<files, rules, index>>
  <1>1. EndCheck
    <2>1. ~Stops("check", "refused")
      BY RefusedIsRefused DEF Passes, Runs
    <2> QED
      BY <2>1, RunEnds DEF Passes, Runs
  <1>2. PICK how : /\ Stops("check", how)
                   /\ how = "passed" => Before = <<files, rules, index>> /\ ~memory["check"].drift
    BY <1>1, EndCheckStops
  <1>3. how = "passed"
    BY <1>2, RefusedIsRefused DEF Passes, Runs
  <1> QED
    BY <1>1, <1>2, <1>3, EndCheckStops DEF Stops

LEMMA PassingApply ==
    ASSUME ScopeInv, SightInv, [GovernedNext]_governedVars, Passes("apply")
    PROVE  Commit /\ ~Stops("apply", "refused")
  <1>1. ~Stops("apply", "refused")
    BY RefusedIsRefused DEF Passes, Runs
  <1>2. Intents \/ Commit
    BY <1>1, RunEnds DEF Passes, Runs
  <1>3. ~Intents
    <2> SUFFICES ASSUME Intents
                 PROVE  FALSE
      OBVIOUS
    <2>1. PICK held : Moves("apply", "commit", held)
      BY <1>1, IntentsMoves
    <2> QED
      BY <2>1 DEF Moves, ScopeInv, RunsOK, Runs, Passes
  <1> QED
    BY <1>1, <1>2, <1>3

\* Where the view is right, what ought to carry its metadata was planned to.
LEMMA PlannedInline ==
    ASSUME NEW w \in Runs, pc[w] \in Merged, HoldsOK(w), NEW p \in Paths, View(w, p),
           memory[w].rules[p] = rules[p], ~Blocking(w), p \notin Filtered(w),
           files[p] # None, CarrierDecision(rules[p], files[p].form) = "inline_managed"
    PROVE  /\ p \in DOMAIN memory[w].plan /\ memory[w].plan[p].from # None
           /\ memory[w].plan[p].to = File(files[p].body, files[p].form, files[p].body)
           /\ p \notin Changes(w) => memory[w].plan[p].from = memory[w].plan[p].to
  <1> DEFINE held == memory[w]
  <1>1. files[p].form \notin {"sealed", "binary"}
    <2>1. held.ledger[p] # "sealed" /\ held.ledger[p] = Disposition(files[p], held.scope, p)
          /\ held.ledger[p] # "glob_filtered"
      BY DEF Blocking, View, Merged, Later, Filtered
    <2> QED
      BY <2>1 DEF Disposition, CarrierDecision
  <1>2. held.ledger[p] = "eligible"
    BY <1>1 DEF View, Merged, Later, Filtered, Disposition
  <1>3. p \in DOMAIN held.seen /\ held.seen[p].form = files[p].form
    BY <1>2 DEF View, Merged, Later
  <1>4. IsInline(w, p)
    BY <1>3 DEF IsInline
  <1>5. p \notin held.todo
    BY DEF HoldsOK
  <1>6. p \in DOMAIN held.plan /\ held.plan[p].from # None
    BY <1>3, <1>4, <1>5 DEF View
  <1>7. p \notin Changes(w) => held.plan[p].from = held.plan[p].to
    BY <1>6 DEF Changes
  <1> QED
    BY <1>6, <1>7 DEF View

\* Indexed for what it is, and headed if it ought to be, a path is current.
LEMMA CurrentIs ==
    ASSUME NEW p, Indexed(index, p),
           files[p] # None /\ CarrierDecision(rules[p], files[p].form) = "inline_managed" => Headed(p)
    PROVE  Current(p)
  BY DEF Current, Indexed, Headed

\* Where no apply changed a thing.
LEMMA PassedApart ==
    ASSUME ScopeInv, SightInv, CheckInv, pc["check"] = "end", ~memory["check"].drift,
           Before = <<files, rules, index>>, NEW p \in memory["check"].scope,
           "apply" \notin touched["check"]
    PROVE  Current(p)
  <1> DEFINE c == memory["check"]
  <1>1. /\ HoldsOK("check") /\ SnapshotOK /\ NewerOK(p) /\ NoApplyOK /\ ~Drifts /\ p \in Paths
        /\ OutOK("check")
    BY DEF SightInv, SightOf, CheckInv, DriftOK, HoldsOK, Merged, Runs
  <1>2. /\ Was(p) = files[p] /\ Before[3] = index /\ c.rules = rules
        /\ ~Blocking("check") /\ Changes("check") = {} /\ p \notin Filtered("check")
    BY <1>1 DEF Was, SnapshotOK, Drifts, HoldsOK, Later
  <1>3. Within(index.records, c.out) /\ Within(c.out, index.records)
    BY <1>1, <1>2 DEF NoApplyOK
  <1>4. CASE files[p] # None
    <2>1. View("check", p)
      BY <1>1, <1>2, <1>4 DEF SightInv, SightOf, Stands, Stood, Runs
    <2>2. Indexed(MetadataIndex("v1", c.out), p)
      BY <1>1, <1>2, <2>1, RightlyIndexed DEF MetadataIndex, Merged, Runs
    <2>3. Indexed(index, p)
      BY <1>3, <2>2 DEF Indexed, Within, MetadataIndex
    <2>4. ASSUME CarrierDecision(rules[p], files[p].form) = "inline_managed"
          PROVE  Headed(p)
      <3>1. /\ p \in DOMAIN c.plan /\ c.plan[p].from # None /\ c.plan[p].from = c.plan[p].to
            /\ c.plan[p].to = File(files[p].body, files[p].form, files[p].body)
        BY <1>1, <1>2, <1>4, <2>1, <2>4, PlannedInline DEF Merged, Runs
      <3>2. c.plan[p].from = files[p]
        BY <2>1, <3>1 DEF View
      <3> QED
        BY <1>4, <3>1, <3>2 DEF Headed, File
    <2> QED
      BY <2>3, <2>4, CurrentIs
  <1>5. CASE files[p] = None
    <2> SUFFICES ASSUME p \in DOMAIN index.records
                 PROVE  FALSE
      BY <1>5 DEF Current
    <2>1. p \in DOMAIN c.out /\ c.out[p] = index.records[p]
      BY <1>3 DEF Within
    <2>2. p \in Subjects("check") /\ c.out[p].hash = c.seen[p].body
      <3>1. p \in Paths \ Filtered("check")
        BY <1>1, <1>2
      <3>2. p \in Subjects("check") /\ c.out[p] = Record(c.rules[p], p, c.seen[p])
        BY <1>1, <2>1, <3>1 DEF OutOK
      <3> HIDE DEF c
      <3>3. Record(c.rules[p], p, c.seen[p]).hash = c.seen[p].body
        BY DEF Record
      <3> QED
        BY <3>2, <3>3
    <2>3. c.seen[p].body > index.records[p].hash /\ c.seen[p].body \in 0 .. acts
      BY <1>1, <1>2, <1>5, <2>2 DEF NewerOK, HoldsOK, Subjects
    <2> QED
      BY <2>1, <2>2, <2>3
  <1> QED
    BY <1>4, <1>5

\* Where applies did, but nobody touched the path or the index.
LEMMA PassedAmidApplies ==
    ASSUME ScopeInv, SightInv, CheckInv, pc["check"] = "end", ~memory["check"].drift,
           Before = <<files, rules, index>>, NEW p \in memory["check"].scope,
           p \notin touched["check"], "index" \notin touched["check"]
    PROVE  Current(p)
  <1> DEFINE c == memory["check"]
  <1>1. /\ HoldsOK("check") /\ SnapshotOK /\ AppliesOK /\ ~Drifts /\ p \in Paths
        /\ View("check", p) /\ HeadOK(p)
    BY DEF SightInv, SightOf, CheckInv, DriftOK, HoldsOK, Stands, AppliesOK, Runs
  <1>2. /\ Was(p) = files[p] /\ Before[3] = index /\ c.rules = rules
        /\ ~Blocking("check") /\ Changes("check") = {} /\ p \notin Filtered("check")
    BY <1>1 DEF Was, SnapshotOK, Drifts, HoldsOK, Later
  <1>3. Indexed(index, p)
    BY <1>1, <1>2 DEF AppliesOK
  <1>4. ASSUME files[p] # None, CarrierDecision(rules[p], files[p].form) = "inline_managed"
        PROVE  Headed(p)
    <2>1. p \in DOMAIN c.plan /\ c.plan[p].from # None /\ c.plan[p].from = c.plan[p].to
      BY <1>1, <1>2, <1>4, PlannedInline DEF Merged, Runs
    <2> QED
      BY <1>1, <1>2, <1>4, <2>1 DEF HeadOK, Headed
  <1> QED
    BY <1>3, <1>4, CurrentIs

\* An apply that commits leaves current what it took and nobody touched since.
LEMMA CommitSettles ==
    ASSUME ScopeInv, SightInv, Commit, ~Stops("apply", "refused"),
           NEW p \in Paths, p \notin touched["apply"], p \notin Filtered("apply")
    PROVE  Current(p)'
  <1>1. /\ p \in Changes("apply") => files'[p] = A.plan[p].to
        /\ p \notin Changes("apply") => files'[p] = files[p]
        /\ files'[p] = None <=> files[p] = None
        /\ files[p] # None => files'[p].body = files[p].body /\ files'[p].form = files[p].form
        /\ UNCHANGED rules /\ pc["apply"] = "commit"
    BY CommitMoves
  <1>2. /\ HoldsOK("apply") /\ View("apply", p) /\ memory["apply"].rules[p] = rules[p]
        /\ ~Blocking("apply") /\ pc["apply"] \in Merged /\ "apply" \in Runs
    BY <1>1 DEF SightInv, SightOf, Stands, HoldsOK, Merged, Runs
  <1>3. Indexed(index, p)'
    BY CommitIndexes
  <1>4. ASSUME files'[p] # None, CarrierDecision(rules'[p], files'[p].form) = "inline_managed"
        PROVE  Headed(p)'
    <2>1. /\ p \in DOMAIN A.plan /\ A.plan[p].from # None
          /\ A.plan[p].to = File(files[p].body, files[p].form, files[p].body)
          /\ p \notin Changes("apply") => A.plan[p].from = A.plan[p].to
      BY <1>1, <1>2, <1>4, PlannedInline DEF A
    <2>2. A.plan[p].from = files[p]
      BY <1>2, <2>1 DEF View, A
    <2> QED
      BY <1>1, <1>4, <2>1, <2>2 DEF Headed, File
  <1> QED
    BY <1>3, <1>4 DEF Current, Indexed, Headed

-----------------------------------------------------------------------------
\* Whatever is edited, applied or re-ruled while a check reads, of any repository: a
\* check that passes is right of every path of its scope, in the tree that stands
\* when it ends (check.ts, INV-015); but for a path made anew, or an index changed,
\* under an apply and put back since, which two snapshots cannot tell.
THEOREM PassedChecksAreRight == GovernedSpec => PassedMeansClean
  <1>1. ScopeInv /\ SightInv /\ CheckInv /\ [GovernedNext]_governedVars
          => [Passes("check") => \A p \in memory["check"].scope :
                                   Current(p) \/ UndoneBehind(p)]_governedVars
    <2> SUFFICES ASSUME ScopeInv, SightInv, CheckInv, [GovernedNext]_governedVars,
                        Passes("check"), NEW p \in memory["check"].scope, ~UndoneBehind(p)
                 PROVE  Current(p)
      OBVIOUS
    <2>1. pc["check"] = "end" /\ Before = <<files, rules, index>> /\ ~memory["check"].drift
      BY PassingCheck
    <2>2. CASE "apply" \notin touched["check"]
      BY <2>1, <2>2, PassedApart
    <2>3. CASE "apply" \in touched["check"]
      BY <2>1, <2>3, PassedAmidApplies DEF UndoneBehind
    <2> QED
      BY <2>2, <2>3
  <1> QED
    BY <1>1, SightInvariant, PTL DEF GovernedSpec, PassedMeansClean

\* Of any repository and interleaving: a path of its scope that nobody touched while
\* an apply ran is indexed and headed for what it holds when the apply has passed
\* (apply.ts, carrier_operation.ts).
THEOREM AppliesMakeCurrent == GovernedSpec => AppliedIsCurrent
  <1>1. ScopeInv /\ SightInv /\ CheckInv /\ [GovernedNext]_governedVars
          => [Passes("apply") => \A p \in memory["apply"].scope \ touched["apply"] :
                                   Current(p)']_governedVars
    <2> SUFFICES ASSUME ScopeInv, SightInv, [GovernedNext]_governedVars, Passes("apply"),
                        NEW p \in memory["apply"].scope \ touched["apply"]
                 PROVE  Current(p)'
      OBVIOUS
    <2>1. Commit /\ ~Stops("apply", "refused")
      BY PassingApply
    <2>2. p \in Paths /\ p \notin Filtered("apply")
      <3>1. HoldsOK("apply") /\ pc["apply"] \in Later
        BY <2>1, CommitMoves DEF SightInv, SightOf, Later, Runs
      <3> QED
        BY <3>1 DEF HoldsOK
    <2> QED
      BY <2>1, <2>2, CommitSettles
  <1> QED
    BY <1>1, SightInvariant, PTL DEF GovernedSpec, AppliedIsCurrent

-----------------------------------------------------------------------------
(* What applies that passed leave, and nobody touched since                *)

LEMMA ElsewhereStill ==
    ASSUME StillOK, UNCHANGED <<files, rules, index>>,
           memory'["check"] = memory["check"], pc'["check"] = pc["check"],
           touched'["check"] = touched["check"]
    PROVE  StillOK'
  BY DEF StillOK, Before, Merged, Filtered, Drifts, Blocking, Conflicts, Subjects, Changes,
         Unmergeable

LEMMA StopCovered ==
    ASSUME ScopeInv, CoveredInv, NEW w \in Runs, NEW how, Stops(w, how)
    PROVE  CoveredInv'
  <1>1. /\ pc'[w] = "idle" /\ UNCHANGED <<files, rules, index, touched, covered>>
        /\ \A v \in Runs : v # w => pc'[v] = pc[v] /\ memory'[v] = memory[v]
    BY DEF Stops, Finish, ScopeInv, RunsOK
  <1>2. StillOK'
    <2>1. CASE w = "check"
      BY <1>1, <2>1 DEF StillOK
    <2>2. CASE w = "apply"
      BY <1>1, <2>2, ElsewhereStill DEF CoveredInv, Runs
    <2> QED
      BY <2>1, <2>2 DEF Runs
  <1>3. pc'["apply"] # "idle" => pc["apply"] # "idle"
    BY <1>1 DEF Runs
  <1> QED
    BY <1>1, <1>2, <1>3 DEF CoveredInv, Settled, Current

LEMMA MoveCovered ==
    ASSUME ScopeInv, CoveredInv, NEW w \in Runs, NEW to, NEW held, Moves(w, to, held),
           w = "check" => StillOK'
    PROVE  CoveredInv'
  <1>1. /\ UNCHANGED <<files, rules, index, touched, covered>> /\ pc[w] # "idle"
        /\ \A v \in Runs : v # w => pc'[v] = pc[v] /\ memory'[v] = memory[v]
    BY DEF Moves, ScopeInv, RunsOK
  <1>2. StillOK'
    <2>1. CASE w = "apply"
      BY <1>1, <2>1, ElsewhereStill DEF CoveredInv, Runs
    <2> QED
      BY <2>1 DEF Runs
  <1>3. pc'["apply"] # "idle" => pc["apply"] # "idle"
    BY <1>1 DEF Runs
  <1> QED
    BY <1>1, <1>2, <1>3 DEF CoveredInv, Settled, Current

\* A check that goes on to something else than its merge keeps to its snapshot.
LEMMA MoveStill ==
    ASSUME ScopeInv, StillOK, NEW to, NEW held, Moves("check", to, held), to \notin Merged
    PROVE  StillOK'
  <1>1. /\ UNCHANGED <<files, rules, index, touched>> /\ pc["check"] # "idle"
        /\ pc'["check"] = to /\ Before' = Before
    BY DEF Moves, ScopeInv, RunsOK, Runs, Before
  <1> QED
    BY <1>1 DEF StillOK, Merged

LEMMA CompileStill ==
    ASSUME ScopeInv, StillOK, NEW held, Moves("check", "compare", held),
           held.ledger = memory["check"].ledger,
           held.base = (IF Filtered("check") = {} THEN None ELSE index)
    PROVE  StillOK'
  <1>1. /\ UNCHANGED <<files, rules, index, touched>> /\ pc["check"] # "idle"
        /\ pc'["check"] = "compare" /\ memory'["check"] = held /\ Before' = Before
    BY DEF Moves, ScopeInv, RunsOK, Runs, Before
  <1>2. Filtered("check")' = Filtered("check")
    BY <1>1 DEF Filtered
  <1>3. Filtered("check")' # {} => memory'["check"].base = index'
    BY <1>1, <1>2
  <1> QED
    BY <1>1, <1>3 DEF StillOK

LEMMA CompareStill ==
    ASSUME ScopeInv, StillOK, Compare
    PROVE  StillOK'
  <1> DEFINE c == memory["check"]
  <1>1. pc["check"] = "compare"
    BY CompareMoves
  <1>2. PICK held : /\ Moves("check", "end", held)
                    /\ held.ledger = c.ledger /\ held.plan = c.plan /\ held.seen = c.seen
                    /\ held.base = c.base /\ held.out = c.out
                    /\ held.drift <=> Drifts \/ index # MetadataIndex("v1", c.out)
    BY CompareMoves
  <1>3. /\ UNCHANGED <<files, rules, index, touched>> /\ pc'["check"] = "end"
        /\ memory'["check"] = held /\ held.rules = c.rules /\ Before' = Before
    BY <1>2 DEF Moves, ScopeInv, RunsOK, Runs, Before
  <1>4. /\ Filtered("check")' = Filtered("check")
        /\ memory'["check"].base = c.base
    BY <1>2, <1>3 DEF Filtered
  <1>5. Drifts' <=> Drifts
    BY <1>2, <1>3 DEF Drifts, Blocking, Conflicts, Subjects, Changes, Unmergeable, Filtered
  <1>6. memory'["check"].drift => Drifts' \/ index' # MetadataIndex("v1", memory'["check"].out)
    BY <1>2, <1>3, <1>5
  <1>7. touched["check"] = {} =>
          /\ Before = <<files, rules, index>>
          /\ \A p \in Paths : files[p] # None => files[p].form # "sealed"
          /\ Filtered("check") # {} => c.base = index
    BY <1>1 DEF StillOK, Merged
  <1> QED
    BY <1>3, <1>4, <1>6, <1>7 DEF StillOK

LEMMA RunCovered ==
    ASSUME ScopeInv, CoveredInv, NEW w \in Runs,
           Discover(w) \/ Read(w) \/ EndRead(w) \/ Plan(w) \/ Weigh(w) \/ Compile(w)
    PROVE  CoveredInv'
  <1>1. ASSUME NEW to \in {"read", "plan", "weigh"}, NEW held, Moves(w, to, held)
        PROVE  CoveredInv'
    <2>1. w = "check" => StillOK'
      BY <1>1, MoveStill DEF Merged, CoveredInv
    <2> QED
      BY <1>1, <2>1, MoveCovered
  <1>2. CASE Discover(w)
    BY <1>1, <1>2, DiscoverMoves
  <1>3. CASE Read(w)
    BY <1>1, <1>3, ReadMoves, StopCovered
  <1>4. CASE EndRead(w)
    BY <1>1, <1>4, EndReadMoves, StopCovered
  <1>5. CASE Plan(w)
    BY <1>1, <1>5, PlanMoves, StopCovered
  <1>6. CASE Weigh(w)
    BY <1>1, <1>6, WeighMoves, StopCovered
  <1>7. CASE Compile(w)
    <2>1. CASE Stops(w, "refused")
      BY <2>1, StopCovered
    <2>2. CASE ~Stops(w, "refused")
      <3>1. PICK held :
              /\ Moves(w, IF w = "check" THEN "compare" ELSE "intents", held)
              /\ held.ledger = memory[w].ledger
              /\ held.base = (IF Filtered(w) = {} THEN None ELSE index)
        BY <1>7, <2>2, CompileMoves
      <3>2. w = "check" => StillOK'
        BY <3>1, CompileStill DEF CoveredInv
      <3> QED
        BY <3>1, <3>2, MoveCovered
    <2> QED
      BY <2>1, <2>2
  <1> QED
    BY <1>2, <1>3, <1>4, <1>5, <1>6, <1>7

LEMMA BeginCovered ==
    ASSUME ScopeInv, SightInv, CoveredInv, NEW w \in Runs, Begin(w)
    PROVE  CoveredInv'
  <1>1. CASE Stops(w, "refused")
    BY <1>1, StopCovered
  <1>2. CASE ~Stops(w, "refused")
    <2>1. PICK held :
            /\ w = "check" => \A p \in Paths : files[p] # None => files[p].form # "sealed"
            /\ pc' = [pc EXCEPT ![w] = "discover"]
            /\ memory' = [memory EXCEPT ![w] = held]
            /\ w = "check" => held.before = <<files, rules, index>>
            /\ touched' = [touched EXCEPT ![w] = {}]
            /\ UNCHANGED <<files, rules, index, covered>>
      BY <1>2, BeginMoves
    <2>2. /\ pc'[w] = "discover" /\ memory'[w] = held /\ touched'[w] = {}
          /\ \A v \in Runs : v # w =>
               pc'[v] = pc[v] /\ memory'[v] = memory[v] /\ touched'[v] = touched[v]
      BY <2>1 DEF ScopeInv, RunsOK, SightInv
    <2>3. StillOK'
      <3>1. CASE w = "check"
        BY <2>1, <2>2, <3>1 DEF StillOK, Before, Merged
      <3>2. CASE w = "apply"
        BY <2>1, <2>2, <3>2, ElsewhereStill DEF CoveredInv, Runs
      <3> QED
        BY <3>1, <3>2 DEF Runs
    <2>4. pc'["apply"] # "idle" => covered' \cap touched'["apply"] = {}
      BY <2>1, <2>2 DEF CoveredInv, Runs
    <2> QED
      BY <2>1, <2>3, <2>4 DEF CoveredInv, Settled, Current
  <1> QED
    BY <1>1, <1>2

\* What an apply that passes took is neither sealed nor in conflict.
LEMMA CommitOpens ==
    ASSUME ScopeInv, SightInv, Commit, ~Stops("apply", "refused"),
           NEW p \in Paths, p \notin touched["apply"], p \notin Filtered("apply"),
           files[p] # None
    PROVE  files[p].form # "sealed" /\ ~Unsatisfied(rules[p], files[p].form)
  <1>1. /\ HoldsOK("apply") /\ View("apply", p) /\ memory["apply"].rules[p] = rules[p]
        /\ ~Blocking("apply") /\ Conflicts("apply") = {} /\ pc["apply"] = "commit"
    BY CommitMoves DEF SightInv, SightOf, Stands, HoldsOK, Merged, Runs
  <1>2. A.ledger[p] = Disposition(files[p], A.scope, p) /\ A.ledger[p] # "glob_filtered"
        /\ A.ledger[p] # "sealed"
    BY <1>1 DEF View, Later, Filtered, Blocking, A
  <1>3. files[p].form # "sealed"
    BY <1>2 DEF Disposition
  <1>4. ASSUME Unsatisfied(rules[p], files[p].form)
        PROVE  FALSE
    <2>1. A.ledger[p] = "eligible"
      BY <1>2, <1>3, <1>4 DEF Disposition, Unsatisfied, CarrierDecision
    <2>2. p \in DOMAIN A.seen /\ A.seen[p].form = files[p].form
      BY <1>1, <2>1 DEF View, Later, A
    <2>3. p \in Subjects("apply")
      BY <1>1, <1>4, <2>2 DEF Subjects, Unsatisfied, A
    <2> QED
      BY <1>1, <1>4, <2>2, <2>3 DEF Conflicts, A
  <1> QED
    BY <1>3, <1>4

LEMMA CommitCovered ==
    ASSUME ScopeInv, SightInv, CoveredInv, Commit
    PROVE  CoveredInv'
  <1>1. CASE Stops("apply", "refused")
    BY <1>1, StopCovered DEF Runs
  <1>2. CASE ~Stops("apply", "refused")
    <2>1. /\ pc["apply"] = "commit" /\ Finish("apply", "passed") /\ UNCHANGED rules
          /\ index' = MetadataIndex("v1", A.out)
          /\ covered' = covered \cup (A.scope \ touched["apply"])
          /\ \/ touched'["check"] = touched["check"] /\ files' = files /\ index' = index
             \/ touched'["check"] = touched["check"] \cup {"apply"}
          /\ \A p \in Paths :
               /\ files'[p] = None <=> files[p] = None
               /\ files[p] # None => files'[p].form = files[p].form
      BY <1>2, CommitMoves
    <2>2. /\ pc'["apply"] = "idle" /\ pc'["check"] = pc["check"]
          /\ memory'["check"] = memory["check"]
      BY <2>1 DEF Finish, ScopeInv, RunsOK, Runs
    <2>3. StillOK'
      <3>1. CASE touched'["check"] = touched["check"] /\ files' = files /\ index' = index
        BY <2>1, <2>2, <3>1, ElsewhereStill DEF CoveredInv
      <3>2. CASE touched'["check"] = touched["check"] \cup {"apply"}
        BY <3>2 DEF StillOK
      <3> QED
        BY <2>1, <3>1, <3>2
    <2>4. ASSUME NEW p \in covered' \cap Paths
          PROVE  Settled(p)'
      <3>1. p \notin touched["apply"]
        BY <2>1 DEF CoveredInv
      <3>2. CASE p \in covered
        <4>1. Settled(p)
          BY <2>4, <3>2 DEF CoveredInv
        <4>2. /\ Indexed(index, p) => Indexed(index, p)'
              /\ Headed(p) => Headed(p)'
          BY <1>2, <3>1, CommitIndexes
        <4>3. Indexed(index, p)'
          BY <4>1, <4>2 DEF Settled, Current, Indexed
        <4>4. ASSUME files'[p] # None, CarrierDecision(rules'[p], files'[p].form) = "inline_managed"
              PROVE  Headed(p)'
          <5>1. files[p] # None /\ CarrierDecision(rules[p], files[p].form) = "inline_managed"
            BY <2>1, <4>4
          <5>2. Headed(p)
            BY <4>1, <5>1 DEF Settled, Current, Headed, CarrierDecision
          <5> QED
            BY <4>2, <5>2
        <4>5. Current(p)'
          BY <4>3, <4>4 DEF Current, Indexed, Headed
        <4> QED
          BY <2>1, <4>1, <4>5 DEF Settled
      <3>3. CASE p \in A.scope
        <4>1. p \notin Filtered("apply")
          <5>1. HoldsOK("apply") /\ pc["apply"] \in Later
            BY <2>1 DEF SightInv, SightOf, Later, Runs
          <5> QED
            BY <3>3, <5>1 DEF HoldsOK, A
        <4>2. Current(p)'
          BY <1>2, <3>1, <4>1, CommitSettles
        <4>3. files[p] # None => files[p].form # "sealed" /\ ~Unsatisfied(rules[p], files[p].form)
          BY <1>2, <3>1, <4>1, CommitOpens
        <4> QED
          BY <2>1, <4>2, <4>3 DEF Settled
      <3> QED
        BY <2>1, <2>4, <3>2, <3>3
    <2>5. index'.kind = "v1"
      BY <2>1 DEF MetadataIndex
    <2> QED
      BY <2>2, <2>3, <2>4, <2>5 DEF CoveredInv
  <1> QED
    BY <1>1, <1>2

LEMMA TouchStill ==
    ASSUME ScopeInv, SightInv, CoveredInv, NEW what, Touch(what)
    PROVE  /\ StillOK'
           /\ pc'["apply"] # "idle" => /\ pc["apply"] # "idle"
                                       /\ touched'["apply"] = touched["apply"] \cup {what}
  <1>1. /\ UNCHANGED pc
        /\ \A w \in Runs : pc[w] # "idle" => touched'[w] = touched[w] \cup {what}
    BY Touched
  <1> QED
    BY <1>1 DEF StillOK, Runs

LEMMA PersonCovered ==
    ASSUME ScopeInv, SightInv, CoveredInv, NEW p \in Paths, Touch(p), UNCHANGED index,
           covered' = covered \ {p},
           \A q \in Paths : q # p => files'[q] = files[q] /\ rules'[q] = rules[q]
    PROVE  CoveredInv'
  <1>1. /\ StillOK'
        /\ pc'["apply"] # "idle" => /\ pc["apply"] # "idle"
                                    /\ touched'["apply"] = touched["apply"] \cup {p}
    BY TouchStill
  <1> QED
    BY <1>1 DEF CoveredInv, Settled, Current

LEMMA NextCovered ==
    ScopeInv /\ SightInv /\ CoveredInv /\ [GovernedNext]_governedVars => CoveredInv'
  <1> SUFFICES ASSUME ScopeInv, SightInv, CoveredInv, [GovernedNext]_governedVars
               PROVE  CoveredInv'
    OBVIOUS
  <1>1. ASSUME NEW w \in Runs, Begin(w)
        PROVE  CoveredInv'
    BY <1>1, BeginCovered
  <1>2. ASSUME NEW w \in Runs,
               Discover(w) \/ Read(w) \/ EndRead(w) \/ Plan(w) \/ Weigh(w) \/ Compile(w)
        PROVE  CoveredInv'
    BY <1>2, RunCovered
  <1>3. CASE Compare
    <2>1. PICK held : Moves("check", "end", held)
      BY <1>3, CompareMoves
    <2>2. StillOK'
      BY <1>3, CompareStill DEF CoveredInv
    <2> QED
      BY <2>1, <2>2, MoveCovered DEF Runs
  <1>4. CASE EndCheck
    BY <1>4, EndCheckStops, StopCovered DEF Runs
  <1>5. CASE Intents
    <2>1. ASSUME NEW held, Moves("apply", "commit", held)
          PROVE  CoveredInv'
      BY <2>1, MoveCovered DEF Runs
    <2> QED
      BY <1>5, <2>1, IntentsMoves, StopCovered DEF Runs
  <1>6. CASE Commit
    BY <1>6, CommitCovered
  <1>7. ASSUME NEW p \in Paths, Edit(p)
        PROVE  CoveredInv'
    BY <1>7, EditMoves, PersonCovered
  <1>8. ASSUME NEW p \in Paths, Rule(p)
        PROVE  CoveredInv'
    <2>1. \A q \in Paths : q # p => rules'[q] = rules[q]
      BY <1>8 DEF Rule, SightInv
    <2> QED
      BY <1>8, <2>1, PersonCovered DEF Rule
  <1>9. CASE ActOnIndex
    <2>1. covered' = {} /\ Touch("index")
      BY <1>9, ActOnIndexMoves
    <2> QED
      BY <2>1, TouchStill DEF CoveredInv
  <1>10. CASE UNCHANGED governedVars
    <2>1. StillOK'
      BY <1>10, ElsewhereStill DEF governedVars, CoveredInv
    <2> QED
      BY <1>10, <2>1 DEF governedVars, CoveredInv, Settled, Current
  <1> QED
    BY <1>1, <1>2, <1>3, <1>4, <1>5, <1>6, <1>7, <1>8, <1>9, <1>10 DEF GovernedNext

LEMMA CoveredInvariant == GovernedSpec => []CoveredInv
  <1>1. GovernedInit => CoveredInv
    BY DEF GovernedInit, CoveredInv, StillOK, Runs
  <1> QED
    BY <1>1, NextCovered, SightInvariant, PTL DEF GovernedSpec

-----------------------------------------------------------------------------
\* What a check nothing happened under has seen is in the index as it is.
LEMMA SeenIsIndexed ==
    ASSUME SightInv, CoveredInv, covered = Paths, touched["check"] = {},
           pc["check"] \in Later, NEW p \in Subjects("check")
    PROVE  /\ p \in DOMAIN index.records
           /\ index.records[p] = Record(memory["check"].rules[p], p, memory["check"].seen[p])
  <1> DEFINE c == memory["check"]
  <1>1. HoldsOK("check") /\ p \in DOMAIN c.seen /\ p \in Paths /\ pc["check"] # "idle"
    BY DEF SightInv, SightOf, Subjects, HoldsOK, Runs, Later
  <1>2. View("check", p) /\ c.rules[p] = rules[p] /\ Current(p)
    BY <1>1 DEF SightInv, SightOf, Stands, CoveredInv, Settled, Runs
  <1>3. c.ledger[p] = "eligible" /\ c.ledger[p] = Disposition(files[p], c.scope, p)
    BY <1>1, <1>2 DEF HoldsOK, View
  <1>4. files[p] # None /\ files[p].form # "sealed"
        /\ c.seen[p].body = files[p].body /\ c.seen[p].form = files[p].form
    BY <1>1, <1>2, <1>3 DEF View, Disposition
  <1>5. CarrierDecision(rules[p], files[p].form) # "hard_skip"
    BY <1>2, <1>4 DEF Subjects
  <1>6. Record(c.rules[p], p, c.seen[p]) = Record(rules[p], p, files[p])
    BY <1>2, <1>4 DEF Record
  <1> QED
    BY <1>2, <1>4, <1>5, <1>6 DEF Current

LEMMA WithinDistinct ==
    ASSUME NEW small, NEW large, Within(small, large), DistinctIds(large)
    PROVE  DistinctIds(small)
  BY DEF Within, DistinctIds

\* Nothing but its end ends such a check.
LEMMA StillGoesOn ==
    ASSUME ScopeInv, SightInv, CoveredInv, covered = Paths, touched["check"] = {},
           Stops("check", "refused"),
           \/ Read("check") \/ EndRead("check") \/ Plan("check") \/ Weigh("check")
           \/ Compile("check")
    PROVE  FALSE
  <1> DEFINE c == memory["check"]
  <1>1. pc["check"] \in {"read", "plan", "weigh"}
    BY ReadMoves, EndReadMoves, PlanMoves, WeighMoves, CompileMoves DEF Runs
  <1>2. HoldsOK("check") /\ (\A p \in Paths : View("check", p)) /\ pc["check"] \in Later
    BY <1>1 DEF SightInv, SightOf, Stands, Runs, Later
  <1>3. ASSUME NEW to, NEW held, Moves("check", to, held)
        PROVE  FALSE
    <2>1. pc'["check"] = to /\ to # "idle"
      BY <1>3 DEF Moves, ScopeInv, RunsOK, Runs, Later
    <2>2. pc'["check"] = "idle"
      BY DEF Stops, Finish, ScopeInv, RunsOK, Runs
    <2> QED
      BY <2>1, <2>2
  <1>4. DistinctIds(index.records)
    BY DEF SightInv, IndexOK
  <1>5. Within(Compiled("check"), index.records)
    BY <1>2, SeenIsIndexed DEF Within, Compiled
  <1>6. CASE Read("check")
    <2>1. PICK p \in c.todo : files[p] = None \/ files[p].form = "sealed"
      BY <1>3, <1>6, ReadMoves DEF Runs
    <2>2. p \in Paths /\ c.ledger[p] = "eligible" /\ View("check", p)
      BY <1>2, <1>6, <2>1, ReadMoves DEF HoldsOK, Runs
    <2>3. c.ledger[p] = Disposition(files[p], c.scope, p)
      BY <1>2, <2>2 DEF View
    <2> QED
      BY <2>1, <2>2, <2>3 DEF Disposition
  <1>7. CASE EndRead("check")
    <2>1. ~DistinctIds(Compiled("check"))
      BY <1>3, <1>7, EndReadMoves DEF Runs
    <2> QED
      BY <1>4, <1>5, <2>1, WithinDistinct
  <1>8. ASSUME NEW p \in c.todo, pc["check"] \in {"plan", "weigh"}
        PROVE  files[p] # None /\ files[p].form = "prose"
    <2>1. p \in Subjects("check") /\ c.seen[p].form = "prose"
      BY <1>2, <1>8 DEF HoldsOK
    <2>2. p \in DOMAIN c.seen /\ p \in Paths
      BY <1>2, <2>1 DEF HoldsOK, Subjects
    <2>3. View("check", p)
      BY <1>2, <2>2
    <2> QED
      BY <2>1, <2>2, <2>3 DEF View
  <1>9. CASE Plan("check")
    <2>1. PICK p \in {q \in c.todo : IsNext("check", q)} :
            files[p] = None \/ files[p].form \in {"sealed", "binary"} \cup Blocked
      BY <1>3, <1>9, PlanMoves DEF Runs
    <2>2. files[p] # None /\ files[p].form = "prose"
      BY <1>8, <1>9, <2>1, PlanMoves DEF Runs
    <2> QED
      BY <2>1, <2>2 DEF Blocked
  <1>10. CASE Weigh("check")
    <2>1. PICK p \in {q \in c.todo : IsNext("check", q)} : files[p] # None /\ files[p].form = "sealed"
      BY <1>3, <1>10, WeighMoves DEF Runs
    <2>2. files[p] # None /\ files[p].form = "prose"
      BY <1>8, <1>10, <2>1, WeighMoves DEF Runs
    <2> QED
      BY <2>1, <2>2
  <1>11. CASE Compile("check")
    <2>1. ~DistinctIds(Merge(Preserved("check"), Compiled("check")))
      BY <1>3, <1>11, CompileMoves DEF Runs
    <2>2. Within(Merge(Preserved("check"), Compiled("check")), index.records)
      BY <1>5 DEF Merge, Preserved, Within
    <2> QED
      BY <1>4, <2>1, <2>2, WithinDistinct
  <1> QED
    BY <1>6, <1>7, <1>9, <1>10, <1>11

\* It has no drift to report of the files,
LEMMA StillNoDrifts ==
    ASSUME ScopeInv, SightInv, CoveredInv, covered = Paths, touched["check"] = {},
           pc["check"] = "end"
    PROVE  ~Drifts
  <1> DEFINE c == memory["check"]
  <1>1. /\ HoldsOK("check") /\ SnapshotOK /\ pc["check"] \in Merged /\ pc["check"] \in Later
        /\ pc["check"] # "idle"
    BY DEF SightInv, SightOf, Merged, Later, Runs
  <1>2. \A p \in Paths : View("check", p) /\ c.rules[p] = rules[p] /\ Settled(p)
    BY <1>1 DEF SightInv, SightOf, Stands, CoveredInv, Runs
  <1>3. ~Blocking("check")
    <2> SUFFICES ASSUME NEW p \in Paths, c.ledger[p] = "sealed"
                 PROVE  FALSE
      BY DEF Blocking
    <2>1. Disposition(files[p], c.scope, p) = "sealed"
      BY <1>1, <1>2 DEF View
    <2>2. files[p] # None /\ files[p].form = "sealed"
      BY <2>1 DEF Disposition
    <2> QED
      BY <1>2, <2>2 DEF Settled
  <1>4. Conflicts("check") = {}
    <2> SUFFICES ASSUME NEW p \in Subjects("check"), Unsatisfied(c.rules[p], c.seen[p].form)
                 PROVE  FALSE
      BY DEF Conflicts
    <2>1. p \in DOMAIN c.seen /\ p \in Paths
      BY <1>1 DEF HoldsOK, Subjects
    <2>2. files[p] # None /\ c.seen[p].form = files[p].form /\ c.rules[p] = rules[p]
      BY <1>2, <2>1 DEF View
    <2> QED
      BY <1>2, <2>1, <2>2 DEF Settled
  <1>5. Changes("check") = {}
    <2> SUFFICES ASSUME NEW p \in DOMAIN c.plan
                 PROVE  c.plan[p].from = c.plan[p].to
      BY DEF Changes
    <2>1. p \in Paths /\ p \in DOMAIN c.seen /\ IsInline("check", p) /\ c.todo = {}
      BY <1>1 DEF HoldsOK
    <2>2. View("check", p) /\ c.rules[p] = rules[p] /\ Settled(p)
      BY <1>2, <2>1
    <2>3. c.plan[p].from # None
      BY <1>1, <2>1, <2>2 DEF View
    <2>4. /\ files[p] # None /\ c.seen[p].form = files[p].form
          /\ c.plan[p].to = File(files[p].body, files[p].form, files[p].body)
      BY <2>1, <2>2 DEF View
    <2>5. c.plan[p].from = files[p]
      BY <2>2, <2>3 DEF View
    <2>6. CarrierDecision(rules[p], files[p].form) = "inline_managed"
      BY <2>1, <2>2, <2>4 DEF IsInline
    <2>7. files[p].head = files[p].body
      BY <2>2, <2>4, <2>6 DEF Settled, Current
    <2>8. files[p] \in FileStates
      BY <2>1, <2>4 DEF ScopeInv, FilesOK
    <2> QED
      BY <2>4, <2>5, <2>7, <2>8 DEF File, FileStates
  <1>6. ~Unmergeable("check", c.base)
    <2> SUFFICES ASSUME Filtered("check") # {}
                 PROVE  c.base.kind = "v1"
      BY DEF Unmergeable
    <2>1. c.base = index
      BY <1>1 DEF CoveredInv, StillOK
    <2> QED
      BY <2>1, PathsExist DEF CoveredInv
  <1> QED
    BY <1>3, <1>4, <1>5, <1>6 DEF Drifts

\* nor of the index.
LEMMA StillNoIndexDrift ==
    ASSUME ScopeInv, SightInv, CoveredInv, covered = Paths, touched["check"] = {},
           pc["check"] = "end"
    PROVE  index = MetadataIndex("v1", memory["check"].out)
  <1> DEFINE out == memory["check"].out
  <1>1. /\ HoldsOK("check") /\ pc["check"] \in Merged /\ pc["check"] # "idle"
        /\ IndexOK(index) /\ OutOK("check")
    BY DEF SightInv, SightOf, HoldsOK, Merged, Runs
  <1>2. ~Blocking("check")
    BY StillNoDrifts DEF Drifts
  <1>3. index.kind = "v1" /\ index = MetadataIndex(index.kind, index.records)
    BY <1>1, PathsExist DEF CoveredInv, IndexOK
  <1>4. /\ IsFcn(index.records) /\ IsFcn(out)
        /\ DOMAIN index.records \subseteq Paths /\ DOMAIN out \subseteq Paths
    BY <1>1 DEF IndexOK, OutOK
  <1>5. ASSUME NEW p \in Paths
        PROVE  /\ p \in DOMAIN index.records <=> p \in DOMAIN out
               /\ p \in DOMAIN out => index.records[p] = out[p]
    <2>1. CASE p \in Filtered("check")
      <3>1. memory["check"].base = index
        BY <1>1, <2>1 DEF CoveredInv, StillOK
      <3> QED
        BY <1>1, <2>1, <3>1 DEF OutOK
    <2>2. CASE p \notin Filtered("check")
      <3>1. View("check", p) /\ memory["check"].rules[p] = rules[p] /\ Current(p)
        BY <1>1 DEF SightInv, SightOf, Stands, CoveredInv, Settled, Runs
      <3>2. MetadataIndex("v1", out).records = out
        BY DEF MetadataIndex
      <3>3. Indexed(MetadataIndex("v1", out), p)
        BY <1>1, <1>2, <2>2, <3>1, <3>2, RightlyIndexed DEF Runs
      <3>4. Indexed(index, p)
        BY <3>1 DEF Current, Indexed
      <3> QED
        BY <3>2, <3>3, <3>4 DEF Indexed
    <2> QED
      BY <2>1, <2>2
  <1> HIDE DEF out
  <1>6. index.records = out
    <2>1. DOMAIN index.records = DOMAIN out
      BY <1>4, <1>5
    <2>2. [p \in DOMAIN index.records |-> index.records[p]] = [p \in DOMAIN out |-> out[p]]
      BY <1>4, <1>5, <2>1
    <2> QED
      BY <1>4, <2>2 DEF IsFcn
  <1> QED
    BY <1>3, <1>6 DEF out

\* Of any repository: once applies have covered every path, in whatever scopes,
\* order and interleaving, and nobody touched one since, a check of any scope that
\* nothing happens under passes (ADR-058).
THEOREM AppliedRepositoriesPass == GovernedSpec => AppliedStaysClean
  <1>1. ScopeInv /\ SightInv /\ CoveredInv /\ [GovernedNext]_governedVars
          => [pc["check"] # "idle" /\ pc'["check"] = "idle" /\ covered = Paths
                /\ touched["check"] = {} => verdict'["check"] = "passed"]_governedVars
    <2> SUFFICES ASSUME ScopeInv, SightInv, CoveredInv, [GovernedNext]_governedVars,
                        pc["check"] # "idle", pc'["check"] = "idle", covered = Paths,
                        touched["check"] = {}
                 PROVE  verdict'["check"] = "passed"
      OBVIOUS
    <2>1. EndCheck
      BY RunEnds, StillGoesOn DEF Runs
    <2>2. PICK how : /\ Stops("check", how) /\ pc["check"] = "end"
                     /\ how # "passed" => \/ Before # <<files, rules, index>>
                                          \/ memory["check"].drift
      BY <2>1, EndCheckStops
    <2>3. Before = <<files, rules, index>>
      BY <2>2 DEF CoveredInv, StillOK
    <2>4. ~memory["check"].drift
      BY <2>2, StillNoDrifts, StillNoIndexDrift DEF CoveredInv, StillOK
    <2> QED
      BY <2>2, <2>3, <2>4, RefusedIsRefused DEF Runs
  <1> QED
    BY <1>1, SightInvariant, CoveredInvariant, PTL DEF GovernedSpec, AppliedStaysClean
=============================================================================
