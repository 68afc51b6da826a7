-------------------------- MODULE Archives_proofs --------------------------
(***************************************************************************)
(* Proofs about ArchivePreflight and ArchiveExpansion, for any archives,   *)
(* names and policy, any number of runs, of changes a user makes, and of   *)
(* crashes and calls that fail:                                            *)
(*   - a run stays within its session's budget;                            *)
(*   - the preflight accepts what its rules, stated without it, accept;    *)
(*   - what a user made is never replaced, moved or removed;               *)
(*   - an extraction once made is never lost;                              *)
(*   - what is left behind is accounted for;                               *)
(*   - what bears the marker holds every member of the one snapshot it     *)
(*     names;                                                              *)
(*   - what a dry run says would be extracted, a real run extracts.        *)
(*                                                                         *)
(* The inductive invariant says where the run is and what it has accepted  *)
(* (RunInv), that whatever bears its own mark is at its candidate or its   *)
(* backup (FreshInv), and what the candidate holds (CandInv); each of the  *)
(* properties adds a part of its own.  The lemmas on paths and trees say   *)
(* step by step what the operators of the model do.                        *)
(***************************************************************************)
EXTENDS ArchiveExpansion, FiniteSetTheorems, WellFoundedInduction, TLAPS

-----------------------------------------------------------------------------
(* The budget of an expansion *)

Writing == {"write", "check", "out", "in", "drop", "record"}

\* What the run has kept is what it has accounted for, and what it is writing.
BudgetInv ==
    /\ pc \in Places
    /\ spent \in Nat /\ opened \in Nat /\ kept \in Nat /\ bytes \in Nat
    /\ opened <= Policy.archives /\ kept <= Policy.session
    /\ pc # "idle" =>
         /\ spent <= Policy.session
         /\ kept <= spent + (IF pc \in Writing THEN bytes ELSE 0)
    /\ pc \in {"stage", "admit", "prepare"} => bytes = 0
    /\ pc \in Writing => bytes <= kept
    /\ pc \in Writing \cup {"verify"} =>
         opened < Policy.archives /\ spent + bytes <= Policy.session

LEMMA PolicyTypes ==
    /\ Policy.session \in Nat /\ Policy.archives \in Nat /\ Policy.member \in Nat
    /\ Policy.archive \in Nat
  BY PolicyAssumption

\* streamVerifiedMember: a member that streams fits into what the session has left.
LEMMA StreamFits == ASSUME spent \in Nat, NEW done \in Nat, NEW e, Streams(e, done)
                    PROVE  e.yields \in Nat /\ spent + done + e.yields <= Policy.session
<1> DEFINE rest(limit, used) == IF limit > used THEN limit - used ELSE 0
           left == rest(Policy.session, spent + done)
<1>1. left \in Nat
  BY PolicyTypes
<1>2. Ceiling(done) <= left /\ Ceiling(done) \in Nat
  <2> DEFINE allowances == {Policy.member, rest(Policy.archive, done), left}
  <2>1. allowances \subseteq Nat /\ left \in allowances
    BY PolicyTypes
  <2>2. \E n \in allowances : \A m \in allowances : n <= m
    <3>1. \A a, b, c \in Nat : \E n \in {a, b, c} : \A m \in {a, b, c} : n <= m
      OBVIOUS
    <3>2. rest(Policy.archive, done) \in Nat
      BY PolicyTypes
    <3> QED BY <1>1, <3>1, <3>2, PolicyTypes
  <2> HIDE DEF allowances, left
  <2>3. LET n == CHOOSE n \in allowances : \A m \in allowances : n <= m
        IN  n \in Nat /\ n <= left
    BY <2>1, <2>2
  <2> QED BY <2>3 DEF Ceiling, allowances, left
<1>3. Ceiling(done) > 0 /\ e.yields \in 0 .. Ceiling(done)
  BY DEF Streams
<1> QED BY <1>1, <1>2, <1>3, PolicyTypes

LEMMA BudgetSteps == BudgetInv /\ [ExpansionNext]_expansionVars => BudgetInv'
<1> SUFFICES ASSUME BudgetInv, [ExpansionNext]_expansionVars PROVE BudgetInv'
  OBVIOUS
<1> USE PolicyTypes DEF BudgetInv, Goto, Writing, Places, budget, visit, source, oracle, bounds
<1>1. CASE \E observe \in BOOLEAN : Start(observe)
  BY <1>1 DEF Start
<1>2. CASE Finish
  BY <1>2 DEF Finish
<1>3. CASE Take
  BY <1>3 DEF Take
<1>4. CASE Stage
  BY <1>4 DEF Stage, Hold
<1>5. CASE Admit
  BY <1>5 DEF Admit, Hold, SessionAdmits
<1>6. CASE Verify
  <2>1. CASE written = Len(Members)
    BY <1>6, <2>1 DEF Verify, Foretell, Record
  <2>2. CASE written # Len(Members) /\ Streams(Members[written + 1], bytes)
    <3> DEFINE e == Members[written + 1]
    <3>1. bytes' = bytes + e.yields /\ UNCHANGED <<pc, budget>>
      BY <1>6, <2>2 DEF Verify
    <3>2. pc = "verify" /\ Streams(e, bytes)
      BY <1>6, <2>2 DEF Verify
    <3> HIDE DEF e
    <3>3. e.yields \in Nat /\ spent + bytes + e.yields <= Policy.session
      BY <3>2, StreamFits
    <3> QED BY <3>1, <3>2, <3>3
  <2>3. CASE written # Len(Members) /\ ~Streams(Members[written + 1], bytes)
    BY <1>6, <2>3 DEF Verify, Hold
  <2> QED BY <2>1, <2>2, <2>3
<1>7. CASE Prepare
  BY <1>7 DEF Prepare, Throw, HoldCandidate, Cleaned, SessionAdmits
<1>8. CASE Write
  <2>1. CASE Streams(Members[written + 1], bytes)
    <3> DEFINE e == Members[written + 1]
    <3>1. /\ bytes' = bytes + e.yields
          /\ kept' = kept + e.yields
          /\ UNCHANGED <<pc, spent, opened>>
      BY <1>8, <2>1 DEF Write
    <3>2. pc = "write" /\ Streams(e, bytes)
      BY <1>8, <2>1 DEF Write
    <3> HIDE DEF e
    <3>3. e.yields \in Nat /\ spent + bytes + e.yields <= Policy.session
      BY <3>2, StreamFits
    <3> QED BY <3>1, <3>2, <3>3
  <2>2. CASE ~Streams(Members[written + 1], bytes)
    BY <1>8, <2>2 DEF Write, HoldCandidate, Cleaned
  <2> QED BY <2>1, <2>2
<1>9. CASE Mark
  BY <1>9 DEF Mark
<1>10. CASE Check
  BY <1>10 DEF Check, Throw, Cleaned
<1>11. CASE MoveOut \/ MoveIn \/ DropBackup
  BY <1>11 DEF MoveOut, MoveIn, DropBackup
<1>12. CASE Extracted
  BY <1>12 DEF Extracted, Record
<1>13. CASE Vanished
  BY <1>13 DEF Vanished, Throw, Cleaned
<1>14. CASE CallFails
  BY <1>14 DEF CallFails, Throw, Cleaned
<1>15. CASE Restore
  BY <1>15 DEF Restore
<1>16. CASE Crash \/ TimeRunsOut
  BY <1>16 DEF Crash, TimeRunsOut
<1>17. CASE User
  <2>1. UserActs
    BY <1>17 DEF User, PutsArchive, RemovesArchive, MakesDirectory, RemovesExtraction
  <2> QED BY <2>1 DEF UserActs
<1>18. CASE UNCHANGED expansionVars
  BY <1>18 DEF expansionVars
<1> QED BY <1>1, <1>2, <1>3, <1>4, <1>5, <1>6, <1>7, <1>8, <1>9, <1>10, <1>11, <1>12, <1>13, <1>14,
           <1>15, <1>16, <1>17, <1>18 DEF ExpansionNext, Step

\* ArchiveSessionBudget: what one run keeps of all the archives it expands, nested
\* ones and liars included, and however it fails, is within its session's limits.
THEOREM BudgetIsKept == ExpansionSpec => []BudgetHolds
<1>1. ExpansionInit => BudgetInv
  BY PolicyTypes DEF ExpansionInit, BudgetInv, Places, Writing
<1>2. BudgetInv => BudgetHolds
  BY DEF BudgetInv, BudgetHolds
<1> QED BY <1>1, <1>2, BudgetSteps, PTL DEF ExpansionSpec

-----------------------------------------------------------------------------
(* Folds *)

\* One step of each fold, so that what is true of any fold is said once.
FoldStep(fold, acc, e) ==
    CASE fold = "inspect"  -> InspectEntry(acc, e)
      [] fold = "declared" -> acc + IF e.kind = "file" THEN e.declares ELSE 0
      [] fold = "steps"    -> IF e \in {Gap, "."} THEN acc ELSE Append(acc, e)
      [] fold = "depth"    -> CASE e = Gap -> acc
                                [] e = ".." -> IF acc <= 1 THEN 0 ELSE acc - 1
                                [] e \notin {Gap, ".."} -> IF acc = 0 THEN 0 ELSE acc + 1

IsFold(f, fold, base, seq, S) ==
    f = [s \in SUBSET S |->
            IF s = {} THEN base
            ELSE LET i == Max(s) IN FoldStep(fold, f[s \ {i}], seq[i])]

\* The values a fold passes through.
IsWalk(w, fold, base, seq) ==
    /\ w[0] = base
    /\ \A n \in 1 .. Len(seq) : w[n] = FoldStep(fold, w[n - 1], seq[n])

LEMMA LeastNatural == ASSUME NEW N, N \in SUBSET Nat, N # {}
                      PROVE  \E m \in N : \A n \in N : m <= n
<1>1. \E m \in N : \A n \in Nat : <<n, m>> \in OpToRel(<, Nat) => n \notin N
  BY NatLessThanWellFounded, WFMin
<1>2. PICK m \in N : \A n \in Nat : <<n, m>> \in OpToRel(<, Nat) => n \notin N
  BY <1>1
<1>3. \A n \in N : ~(n < m)
  BY <1>2 DEF OpToRel
<1> QED BY <1>3

LEMMA MaxOfSome == ASSUME NEW n \in Nat, NEW s \in SUBSET (1 .. n), n \in s PROVE Max(s) = n
<1>1. \A y \in s : n >= y
  OBVIOUS
<1>2. \A x \in s : (\A y \in s : x >= y) => x = n
  OBVIOUS
<1> QED BY <1>1, <1>2 DEF Max

LEMMA FoldExists == ASSUME NEW fold, NEW base, NEW seq, NEW n \in Nat
                    PROVE  \E f : IsFold(f, fold, base, seq, 1 .. n)
<1> DEFINE N == {k \in Nat : ~\E f : IsFold(f, fold, base, seq, 1 .. k)}
<1>1. SUFFICES ASSUME N # {} PROVE FALSE
  OBVIOUS
<1>2. PICK k \in N : \A j \in N : k <= j
  <2>1. N \in SUBSET Nat
    OBVIOUS
  <2> HIDE DEF N
  <2> QED BY <1>1, <2>1, LeastNatural
<1>3. k # 0
  <2>1. SUFFICES ASSUME k = 0 PROVE \E f : IsFold(f, fold, base, seq, 1 .. 0)
    BY <1>2
  <2> DEFINE f == [s \in SUBSET (1 .. 0) |-> base]
  <2>2. \A s \in SUBSET (1 .. 0) : s = {}
    OBVIOUS
  <2>3. IsFold(f, fold, base, seq, 1 .. 0)
    BY <2>2 DEF IsFold
  <2> QED BY <2>3
<1>4. k \in Nat /\ k - 1 \in Nat /\ k - 1 \notin N
  BY <1>2, <1>3
<1>5. PICK g : IsFold(g, fold, base, seq, 1 .. k - 1)
  BY <1>4
<1> DEFINE f == [s \in SUBSET (1 .. k) |->
                    IF k \in s THEN FoldStep(fold, g[s \ {k}], seq[k]) ELSE g[s]]
<1>6. ASSUME NEW s \in SUBSET (1 .. k)
      PROVE  f[s] = IF s = {} THEN base
                    ELSE LET i == Max(s) IN FoldStep(fold, f[s \ {i}], seq[i])
  <2>1. CASE k \in s
    <3>1. Max(s) = k
      BY <1>4, <2>1, MaxOfSome
    <3>2. s \ {k} \in SUBSET (1 .. k) /\ k \notin s \ {k}
      OBVIOUS
    <3>3. f[s \ {k}] = g[s \ {k}]
      BY <3>2
    <3>4. f[s] = FoldStep(fold, g[s \ {k}], seq[k])
      BY <2>1
    <3> QED BY <2>1, <3>1, <3>3, <3>4
  <2>2. CASE k \notin s
    <3>1. s \in SUBSET (1 .. k - 1)
      BY <1>4, <2>2
    <3>2. f[s] = g[s]
      BY <2>2
    <3>3. g[s] = IF s = {} THEN base
                 ELSE LET i == Max(s) IN FoldStep(fold, g[s \ {i}], seq[i])
      BY <1>5, <3>1, Zenon DEF IsFold
    <3>4. \A i : f[s \ {i}] = g[s \ {i}]
      BY <2>2
    <3> HIDE DEF f
    <3> QED BY <3>2, <3>3, <3>4
  <2> QED BY <2>1, <2>2
<1>7. IsFold(f, fold, base, seq, 1 .. k)
  BY <1>6 DEF IsFold
<1> QED BY <1>2, <1>7

LEMMA FoldWalks == ASSUME NEW fold, NEW base, NEW seq, Len(seq) \in Nat, NEW f,
                          IsFold(f, fold, base, seq, 1 .. Len(seq))
                   PROVE  IsWalk([n \in 0 .. Len(seq) |-> f[1 .. n]], fold, base, seq)
<1>1. \A s \in SUBSET (1 .. Len(seq)) :
          f[s] = IF s = {} THEN base
                 ELSE LET i == Max(s) IN FoldStep(fold, f[s \ {i}], seq[i])
  BY DEF IsFold
<1>2. f[1 .. 0] = base
  <2>1. 1 .. 0 = {}
    OBVIOUS
  <2> QED BY <1>1, <2>1
<1>3. ASSUME NEW n \in 1 .. Len(seq) PROVE f[1 .. n] = FoldStep(fold, f[1 .. n - 1], seq[n])
  <2>1. 1 .. n \in SUBSET (1 .. Len(seq)) /\ n \in Nat /\ n \in 1 .. n /\ (1 .. n) # {}
    OBVIOUS
  <2>2. Max(1 .. n) = n
    BY <2>1, MaxOfSome
  <2>3. (1 .. n) \ {n} = 1 .. n - 1
    OBVIOUS
  <2> QED BY <1>1, <2>1, <2>2, <2>3
<1> QED BY <1>2, <1>3 DEF IsWalk

\* canonicalMemberPath passes through the values of a walk.
LEMMA StepsWalk ==
    ASSUME NEW name, Len(name) \in Nat
    PROVE  \E w : /\ IsWalk(w, "steps", <<>>, name)
                  /\ CanonicalMemberPath(name) = IF Rooted(name) THEN <<Gap>> \o w[Len(name)]
                                                 ELSE w[Len(name)]
<1> DEFINE Is(f) ==
             f = [n \in 0 .. Len(name) |->
                    IF n = 0 THEN <<>>
                    ELSE IF name[n] \in {Gap, "."} THEN f[n - 1] ELSE Append(f[n - 1], name[n])]
           steps == CHOOSE f : Is(f)
<1>1. PICK f : IsFold(f, "steps", <<>>, name, 1 .. Len(name))
  BY FoldExists
<1> DEFINE w == [n \in 0 .. Len(name) |-> f[1 .. n]]
<1>2. IsWalk(w, "steps", <<>>, name)
  BY <1>1, FoldWalks
<1>3. Is(w)
  <2>1. ASSUME NEW n \in 1 .. Len(name)
        PROVE  w[n] = IF name[n] \in {Gap, "."} THEN w[n - 1] ELSE Append(w[n - 1], name[n])
    <3> HIDE DEF w
    <3> QED BY <1>2 DEF IsWalk, FoldStep
  <2>2. w[0] = <<>> /\ w = [n \in 0 .. Len(name) |-> w[n]]
    BY <1>2 DEF IsWalk
  <2> HIDE DEF w
  <2>3. \A n \in 0 .. Len(name) : n = 0 \/ n \in 1 .. Len(name)
    OBVIOUS
  <2> QED BY <2>1, <2>2, <2>3
<1>4. Is(steps)
  <2> HIDE DEF Is
  <2> QED BY <1>3
<1>5. steps[0] = <<>> /\ \A n \in 1 .. Len(name) :
          steps[n] = IF name[n] \in {Gap, "."} THEN steps[n - 1] ELSE Append(steps[n - 1], name[n])
  <2>1. \A n \in 0 .. Len(name) :
          steps[n] = IF n = 0 THEN <<>>
                     ELSE IF name[n] \in {Gap, "."} THEN steps[n - 1]
                          ELSE Append(steps[n - 1], name[n])
    <3> HIDE DEF steps
    <3> QED BY <1>4, Zenon
  <2>2. 0 \in 0 .. Len(name) /\ \A n \in 1 .. Len(name) : n \in 0 .. Len(name) /\ n # 0
    OBVIOUS
  <2> HIDE DEF steps
  <2> QED BY <2>1, <2>2
<1>6. IsWalk(steps, "steps", <<>>, name)
  <2> HIDE DEF steps
  <2> QED BY <1>5 DEF IsWalk, FoldStep
<1>7. CanonicalMemberPath(name) = IF Rooted(name) THEN <<Gap>> \o steps[Len(name)]
                                  ELSE steps[Len(name)]
  BY DEF CanonicalMemberPath
<1> QED BY <1>6, <1>7

\* FoldLeft ends where a walk does.
LEMMA InspectWalk ==
    ASSUME NEW entries, Len(entries) \in Nat, DOMAIN entries = 1 .. Len(entries)
    PROVE  \E w : /\ IsWalk(w, "inspect", Nothing, entries)
                  /\ FoldLeft(InspectEntry, Nothing, entries) = w[Len(entries)]
<1> DEFINE Is(f) ==
             f = [s \in SUBSET (DOMAIN entries) |->
                    IF s = {} THEN Nothing
                    ELSE LET i == Max(s)
                         IN  InspectEntry(f[s \ {i}], entries[i])]
           iter == CHOOSE f : Is(f)
<1>1. \A f : IsFold(f, "inspect", Nothing, entries, 1 .. Len(entries)) <=> Is(f)
  BY DEF IsFold, FoldStep
<1>2. \E f : Is(f)
  <2> HIDE DEF Is
  <2> QED BY <1>1, FoldExists
<1>3. Is(iter)
  <2> HIDE DEF Is
  <2> QED BY <1>2
<1>4. FoldLeft(InspectEntry, Nothing, entries) = iter[DOMAIN entries]
  BY DEF FoldLeft, MapThenFoldSet
<1> HIDE DEF iter, Is
<1> DEFINE w == [n \in 0 .. Len(entries) |-> iter[1 .. n]]
<1>5. IsWalk(w, "inspect", Nothing, entries)
  BY <1>1, <1>3, FoldWalks
<1>6. w[Len(entries)] = iter[DOMAIN entries]
  OBVIOUS
<1> QED BY <1>4, <1>5, <1>6

LEMMA DeclaredWalk ==
    ASSUME NEW entries, Len(entries) \in Nat, DOMAIN entries = 1 .. Len(entries)
    PROVE  \E w : /\ IsWalk(w, "declared", 0, entries)
                  /\ FoldLeft(LAMBDA sum, e : sum + IF e.kind = "file" THEN e.declares ELSE 0, 0, entries) = w[Len(entries)]
<1> DEFINE Is(f) ==
             f = [s \in SUBSET (DOMAIN entries) |->
                    IF s = {} THEN 0
                    ELSE LET i == Max(s)
                         IN  f[s \ {i}] + IF entries[i].kind = "file" THEN entries[i].declares ELSE 0]
           iter == CHOOSE f : Is(f)
<1>1. \A f : IsFold(f, "declared", 0, entries, 1 .. Len(entries)) <=> Is(f)
  BY DEF IsFold, FoldStep
<1>2. \E f : Is(f)
  <2> HIDE DEF Is
  <2> QED BY <1>1, FoldExists
<1>3. Is(iter)
  <2> HIDE DEF Is
  <2> QED BY <1>2
<1>4. FoldLeft(LAMBDA sum, e : sum + IF e.kind = "file" THEN e.declares ELSE 0, 0, entries) = iter[DOMAIN entries]
  BY DEF FoldLeft, MapThenFoldSet
<1> HIDE DEF iter, Is
<1> DEFINE w == [n \in 0 .. Len(entries) |-> iter[1 .. n]]
<1>5. IsWalk(w, "declared", 0, entries)
  BY <1>1, <1>3, FoldWalks
<1>6. w[Len(entries)] = iter[DOMAIN entries]
  OBVIOUS
<1> QED BY <1>4, <1>5, <1>6

LEMMA DepthWalk ==
    ASSUME NEW path, Len(path) \in Nat, DOMAIN path = 1 .. Len(path)
    PROVE  \E w : /\ IsWalk(w, "depth", 1, path)
                  /\ FoldLeft(LAMBDA depth, s :
                        CASE s = Gap -> depth
                          [] s = ".." -> IF depth <= 1 THEN 0 ELSE depth - 1
                          [] s \notin {Gap, ".."} -> IF depth = 0 THEN 0 ELSE depth + 1, 1, path) = w[Len(path)]
<1> DEFINE Is(f) ==
             f = [s \in SUBSET (DOMAIN path) |->
                    IF s = {} THEN 1
                    ELSE LET i == Max(s)
                         IN  CASE path[i] = Gap -> f[s \ {i}]
                               [] path[i] = ".." -> IF f[s \ {i}] <= 1 THEN 0 ELSE f[s \ {i}] - 1
                               [] path[i] \notin {Gap, ".."} ->
                                    IF f[s \ {i}] = 0 THEN 0 ELSE f[s \ {i}] + 1]
           iter == CHOOSE f : Is(f)
<1>1. \A f : IsFold(f, "depth", 1, path, 1 .. Len(path)) <=> Is(f)
  BY DEF IsFold, FoldStep
<1>2. \E f : Is(f)
  <2> HIDE DEF Is
  <2> QED BY <1>1, FoldExists
<1>3. Is(iter)
  <2> HIDE DEF Is
  <2> QED BY <1>2
<1>4. FoldLeft(LAMBDA depth, s :
                        CASE s = Gap -> depth
                          [] s = ".." -> IF depth <= 1 THEN 0 ELSE depth - 1
                          [] s \notin {Gap, ".."} -> IF depth = 0 THEN 0 ELSE depth + 1, 1, path) = iter[DOMAIN path]
  BY DEF FoldLeft, MapThenFoldSet
<1> HIDE DEF iter, Is
<1> DEFINE w == [n \in 0 .. Len(path) |-> iter[1 .. n]]
<1>5. IsWalk(w, "depth", 1, path)
  BY <1>1, <1>3, FoldWalks
<1>6. w[Len(path)] = iter[DOMAIN path]
  OBVIOUS
<1> QED BY <1>4, <1>5, <1>6

\* What holds at the start and is kept by each step holds of all of a walk.
LEMMA Induction == ASSUME NEW m \in Nat, NEW N, 0 \in N,
                          \A n \in 1 .. m : n - 1 \in N => n \in N
                   PROVE  \A n \in 0 .. m : n \in N
<1> DEFINE Bad == {n \in 0 .. m : n \notin N}
<1>1. SUFFICES ASSUME Bad # {} PROVE FALSE
  OBVIOUS
<1>2. PICK k \in Bad : \A j \in Bad : k <= j
  <2>1. Bad \in SUBSET Nat
    OBVIOUS
  <2> HIDE DEF Bad
  <2> QED BY <1>1, <2>1, LeastNatural
<1>3. k \in 1 .. m /\ k - 1 \in 0 .. m /\ k - 1 \notin Bad
  BY <1>2
<1> QED BY <1>2, <1>3

-----------------------------------------------------------------------------
(* Member paths *)

Segments(name) == {name[i] : i \in DOMAIN name}

LEMMA NameTypes == ASSUME NEW S, NEW name \in Seq(S)
                   PROVE  /\ Len(name) \in Nat /\ DOMAIN name = 1 .. Len(name)
                          /\ \A i \in DOMAIN name : name[i] \in S
OBVIOUS

LEMMA NoSegments == ASSUME NEW S
                    PROVE  /\ <<>> \in Seq(S) /\ Segments(<<>>) = {}
                           /\ \A path \in Seq(S) : path # <<>> => Segments(path) # {}
<1>1. <<>> \in Seq(S) /\ DOMAIN <<>> = {}
  OBVIOUS
<1>2. ASSUME NEW path \in Seq(S), path # <<>> PROVE path[1] \in Segments(path)
  <2>1. 1 \in DOMAIN path
    BY <1>2
  <2> QED BY <2>1 DEF Segments
<1> QED BY <1>1, <1>2 DEF Segments

LEMMA OneMoreSegment ==
    ASSUME NEW S, NEW path \in Seq(S), NEW s \in S
    PROVE  Append(path, s) \in Seq(S) /\ Segments(Append(path, s)) = Segments(path) \cup {s}
<1> DEFINE longer == Append(path, s)
<1>1. longer \in Seq(S) /\ DOMAIN longer = 1 .. Len(path) + 1 /\ DOMAIN path = 1 .. Len(path)
  OBVIOUS
<1>2. longer[Len(path) + 1] = s /\ \A i \in 1 .. Len(path) : longer[i] = path[i]
  OBVIOUS
<1>3. Len(path) \in Nat
  OBVIOUS
<1> HIDE DEF longer
<1>4. ASSUME NEW x PROVE x \in Segments(longer) <=> x \in Segments(path) \cup {s}
  <2>1. x \in Segments(longer) => x \in Segments(path) \cup {s}
    BY <1>1, <1>2, <1>3 DEF Segments
  <2>2. x = s => x \in Segments(longer)
    BY <1>1, <1>2, <1>3 DEF Segments
  <2>3. x \in Segments(path) => x \in Segments(longer)
    <3>1. SUFFICES ASSUME NEW i \in 1 .. Len(path), x = path[i] PROVE x \in Segments(longer)
      BY <1>1 DEF Segments
    <3>2. i \in DOMAIN longer /\ longer[i] = x
      BY <1>1, <1>2, <1>3, <3>1
    <3> QED BY <3>2 DEF Segments
  <2> QED BY <2>1, <2>2, <2>3
<1> QED BY <1>1, <1>4 DEF longer

\* canonicalMemberPath keeps the segments that step somewhere, and no others.
LEMMA CanonicalSteps ==
    ASSUME NEW S, NEW name \in Seq(S)
    PROVE  LET path == CanonicalMemberPath(name)
           IN  /\ path \in Seq(S \cup {Gap})
               /\ ~Rooted(name) => Segments(path) = Segments(name) \ {Gap, "."}
               /\ Rooted(name) => path # <<>> /\ Rooted(path)
<1>1. PICK w : /\ IsWalk(w, "steps", <<>>, name)
               /\ CanonicalMemberPath(name) = IF Rooted(name) THEN <<Gap>> \o w[Len(name)]
                                              ELSE w[Len(name)]
  BY NameTypes, StepsWalk
<1> DEFINE steps == w[Len(name)]
<1> DEFINE Some(n) == {name[i] : i \in 1 .. n}
           N == {n \in 0 .. Len(name) : /\ w[n] \in Seq(S)
                                        /\ Segments(w[n]) = Some(n) \ {Gap, "."}}
<1>2. 0 \in N
  <2>1. w[0] = <<>> /\ 0 \in 0 .. Len(name)
    BY <1>1, NameTypes DEF IsWalk
  <2>2. Some(0) = {}
    OBVIOUS
  <2> HIDE DEF Some
  <2> QED BY <2>1, <2>2, NoSegments
<1>3. ASSUME NEW n \in 1 .. Len(name), n - 1 \in N PROVE n \in N
  <2>1. w[n] = IF name[n] \in {Gap, "."} THEN w[n - 1] ELSE Append(w[n - 1], name[n])
    BY <1>1 DEF IsWalk, FoldStep
  <2>2. /\ name[n] \in S /\ w[n - 1] \in Seq(S)
        /\ Segments(w[n - 1]) = Some(n - 1) \ {Gap, "."}
        /\ n \in 0 .. Len(name)
    BY <1>3, NameTypes
  <2>3. Some(n) = Some(n - 1) \cup {name[n]}
    OBVIOUS
  <2> HIDE DEF Some
  <2>4. w[n] \in Seq(S) /\ Segments(w[n]) = Some(n) \ {Gap, "."}
    <3>1. CASE name[n] \in {Gap, "."}
      BY <2>1, <2>2, <2>3, <3>1
    <3>2. CASE name[n] \notin {Gap, "."}
      <4>1. w[n] = Append(w[n - 1], name[n])
        BY <2>1, <3>2
      <4> QED BY <2>2, <2>3, <3>2, <4>1, OneMoreSegment
    <3> QED BY <3>1, <3>2
  <2> QED BY <2>2, <2>4
<1>4. \A n \in 0 .. Len(name) : n \in N
  <2> HIDE DEF N
  <2> QED BY <1>2, <1>3, NameTypes, Induction
<1>5. steps \in Seq(S) /\ Segments(steps) = Segments(name) \ {Gap, "."}
  <2>0. Len(name) \in 0 .. Len(name) /\ DOMAIN name = 1 .. Len(name)
    BY NameTypes
  <2>1. Len(name) \in N
    BY <1>4, <2>0
  <2>2. Some(Len(name)) = Segments(name)
    BY <2>0 DEF Segments
  <2> HIDE DEF Some
  <2> QED BY <1>1, <2>1, <2>2
<1>6. CanonicalMemberPath(name) = IF Rooted(name) THEN <<Gap>> \o steps ELSE steps
  BY <1>1
<1>7. /\ <<Gap>> \o steps \in Seq(S \cup {Gap}) /\ <<Gap>> \o steps # <<>>
      /\ (<<Gap>> \o steps)[1] = Gap
  <2>1. <<Gap>> \in Seq(S \cup {Gap}) /\ Len(<<Gap>>) = 1 /\ <<Gap>>[1] = Gap
    OBVIOUS
  <2>2. steps \in Seq(S \cup {Gap})
    BY <1>5
  <2> QED BY <2>1, <2>2
<1>8. steps \in Seq(S \cup {Gap})
  BY <1>5
<1> QED BY <1>5, <1>6, <1>7, <1>8 DEF Rooted

\* resolvesInsideRoot: without `..` a path is as deep as it is long.
LEMMA DescendsInside ==
    ASSUME NEW S, NEW path \in Seq(S), Segments(path) \cap {Gap, ".."} = {}
    PROVE  ResolvesInsideRoot(path) <=> path # <<>>
<1> DEFINE depth == FoldLeft(LAMBDA depth, s :
                        CASE s = Gap -> depth
                          [] s = ".." -> IF depth <= 1 THEN 0 ELSE depth - 1
                          [] s \notin {Gap, ".."} -> IF depth = 0 THEN 0 ELSE depth + 1, 1, path)
<1>1. PICK w : IsWalk(w, "depth", 1, path) /\ depth = w[Len(path)]
  BY NameTypes, DepthWalk
<1>2. ResolvesInsideRoot(path) <=> depth > 1
  BY DEF ResolvesInsideRoot
<1> HIDE DEF depth
<1> DEFINE N == {n \in 0 .. Len(path) : w[n] = n + 1}
<1>3. 0 \in N
  <2>1. w[0] = 1 /\ 0 \in 0 .. Len(path)
    BY <1>1, NameTypes DEF IsWalk
  <2> QED BY <2>1
<1>4. ASSUME NEW n \in 1 .. Len(path), n - 1 \in N PROVE n \in N
  <2>1. path[n] \notin {Gap, ".."}
    BY NameTypes DEF Segments
  <2>2. w[n] = IF w[n - 1] = 0 THEN 0 ELSE w[n - 1] + 1
    BY <1>1, <2>1 DEF IsWalk, FoldStep
  <2>3. w[n - 1] = n /\ n \in 0 .. Len(path)
    BY <1>4, NameTypes
  <2> QED BY <2>2, <2>3
<1>5. \A n \in 0 .. Len(path) : n \in N
  <2> HIDE DEF N
  <2> QED BY <1>3, <1>4, NameTypes, Induction
<1>6. depth = Len(path) + 1
  <2>1. Len(path) \in N
    BY <1>5, NameTypes
  <2> QED BY <1>1, <2>1
<1>7. path # <<>> <=> Len(path) > 0
  OBVIOUS
<1> HIDE DEF N
<1> QED BY <1>2, <1>6, <1>7, NameTypes

\* pathHolds: nothing is held against exactly the names that land inside.
LEMMA PathsThatLand ==
    ASSUME NEW S, NEW name \in Seq(S)
    PROVE  /\ PathHolds(name) = {} <=> Lands(name)
           /\ Lands(name) => CanonicalMemberPath(name) # <<>> /\ ~Rooted(CanonicalMemberPath(name))
<1> DEFINE path == CanonicalMemberPath(name)
<1>1. /\ path \in Seq(S \cup {Gap})
      /\ ~Rooted(name) => Segments(path) = Segments(name) \ {Gap, "."}
      /\ Rooted(name) => path # <<>>
  BY CanonicalSteps
<1>2. path # <<>> <=> Segments(path) # {}
  <2> HIDE DEF path
  <2> QED BY <1>1, NoSegments
<1>3. ~Rooted(name) /\ ".." \notin Segments(name) => Segments(path) \cap {Gap, ".."} = {}
  BY <1>1
<1>4. ~Rooted(name) /\ ".." \notin Segments(name) =>
        (path # <<>> /\ ~ResolvesInsideRoot(path) <=> FALSE)
  BY <1>1, <1>3, DescendsInside
<1>5. ASSUME Lands(name) PROVE path # <<>> /\ ~Rooted(path) /\ ~Rooted(name) /\ ".." \notin Segments(name)
  <2>1. ~Rooted(name) /\ ".." \notin Segments(name) /\ Segments(name) \ {Gap, "."} # {}
    BY <1>5 DEF Lands, Segments
  <2> QED BY <1>1, <1>2, <1>3, <2>1 DEF Rooted, Segments
<1> DEFINE unc == Rooted(name) /\ Len(name) > 1 /\ name[2] = Gap
<1>6. PathHolds(name) = {} <=>
        /\ ~unc /\ ~(Rooted(name) /\ ~unc)
        /\ ~(Len(name) > 1 /\ name[1] \in Drives)
        /\ ~(\E i \in DOMAIN name : name[i] = "..")
        /\ path # <<>>
        /\ ~(Len(name) > Policy.path \/ \E i \in DOMAIN name : name[i] \in Unstorable)
        /\ ~(path # <<>> /\ ~ResolvesInsideRoot(path))
  BY DEF PathHolds
<1>7. PathHolds(name) = {} <=> Lands(name)
  <2>1. Len(name) > Policy.path <=> ~(Len(name) <= Policy.path)
    BY NameTypes, PolicyAssumption
  <2>2. Segments(name) \ {Gap, "."} # {} <=> \E i \in DOMAIN name : name[i] \notin {Gap, "."}
    BY DEF Segments
  <2>3. ".." \in Segments(name) <=> \E i \in DOMAIN name : name[i] = ".."
    BY DEF Segments
  <2> HIDE DEF path
  <2> QED BY <1>1, <1>2, <1>4, <1>6, <2>1, <2>2, <2>3 DEF Lands
<1> QED BY <1>5, <1>7

-----------------------------------------------------------------------------
(* The walk over the central directory *)

Tallied(acc) ==
    DOMAIN acc = {"holds", "members", "declared", "exact", "collision", "files", "directories",
                  "duplicates"}

Canonical(e) == CanonicalMemberPath(e.name)
KeyOf(e) == MemberCollisionKey(Canonical(e))
Usable(e) == Canonical(e) # <<>> /\ ~Rooted(Canonical(e))
Above(e) == {SubSeq(KeyOf(e), 1, n) : n \in 1 .. Len(KeyOf(e)) - 1}
If(held, elem) == IF held THEN {elem} ELSE {}

LEMMA UsageFields ==
    ASSUME NEW acc, NEW e, Tallied(acc)
    PROVE  LET r == NotePathUsage(acc, e)
           IN  /\ Tallied(r)
               /\ r.holds = acc.holds /\ r.members = acc.members /\ r.declared = acc.declared
               /\ r.exact = acc.exact /\ r.collision = acc.collision
               /\ r.duplicates = acc.duplicates
               /\ Usable(e) =>
                    /\ r.files = acc.files \cup If(e.kind = "file", KeyOf(e))
                    /\ r.directories = acc.directories \cup Above(e)
                                       \cup If(e.kind = "directory", KeyOf(e))
<1>1. NotePathUsage(acc, e) =
        IF Usable(e)
        THEN [acc EXCEPT !.files = @ \cup If(e.kind = "file", KeyOf(e)),
                         !.directories = @ \cup Above(e) \cup If(e.kind = "directory", KeyOf(e))]
        ELSE acc
  BY DEF NotePathUsage, Usable, KeyOf, Above, If, Canonical
<1> QED BY <1>1 DEF Tallied

LEMMA CollisionFields ==
    ASSUME NEW acc, NEW e, Tallied(acc)
    PROVE  LET r == NoteCollision(acc, e)
           IN  /\ Tallied(r)
               /\ r.holds = acc.holds /\ r.members = acc.members /\ r.declared = acc.declared
               /\ r.files = acc.files /\ r.directories = acc.directories
               /\ r.exact = acc.exact \cup If(Canonical(e) # <<>>, Canonical(e))
               /\ DOMAIN r.collision = DOMAIN acc.collision \cup If(Canonical(e) # <<>>, KeyOf(e))
               /\ r.duplicates = acc.duplicates
                    \cup If(Canonical(e) # <<>> /\ KeyOf(e) \in DOMAIN acc.collision, KeyOf(e))
<1> DEFINE fresh == KeyOf(e) \notin DOMAIN acc.collision
           x == acc.exact \cup {Canonical(e)}
           u == acc.duplicates \cup (IF fresh THEN {} ELSE {KeyOf(e)})
           c == IF fresh THEN [k \in DOMAIN acc.collision \cup {KeyOf(e)} |->
                                 IF k = KeyOf(e) THEN Canonical(e) ELSE acc.collision[k]]
                ELSE acc.collision
           n == [acc EXCEPT !.exact = x, !.duplicates = u, !.collision = c]
<1>1. NoteCollision(acc, e) = IF Canonical(e) = <<>> THEN acc ELSE n
  BY DEF NoteCollision, KeyOf, Canonical
<1>2. DOMAIN c = DOMAIN acc.collision \cup {KeyOf(e)}
  OBVIOUS
<1> HIDE DEF x, u, c
<1>3. /\ Tallied(n)
      /\ n.holds = acc.holds /\ n.members = acc.members /\ n.declared = acc.declared
      /\ n.files = acc.files /\ n.directories = acc.directories
      /\ n.exact = x /\ n.duplicates = u /\ n.collision = c
  BY DEF Tallied
<1> HIDE DEF n
<1> QED BY <1>1, <1>2, <1>3 DEF Tallied, x, u, If

LEMMA InspectFields ==
    ASSUME NEW acc, NEW e, Tallied(acc)
    PROVE  LET r == InspectEntry(acc, e)
               file == e.kind = "file"
           IN  /\ Tallied(r)
               /\ r.holds = acc.holds \cup PathHolds(e.name) \cup If(e.encrypted, "member_encrypted")
                            \cup EntryKindHolds(e) \cup CollisionHolds(acc, e)
                            \cup (IF file THEN FileMemberHolds(e) ELSE {})
               /\ r.members = (IF file THEN Append(acc.members, e) ELSE acc.members)
               /\ r.declared = acc.declared + (IF file THEN e.declares ELSE 0)
               /\ r.exact = acc.exact \cup If(Canonical(e) # <<>>, Canonical(e))
               /\ DOMAIN r.collision = DOMAIN acc.collision \cup If(Canonical(e) # <<>>, KeyOf(e))
               /\ r.duplicates = acc.duplicates
                    \cup If(Canonical(e) # <<>> /\ KeyOf(e) \in DOMAIN acc.collision, KeyOf(e))
               /\ Usable(e) =>
                    /\ r.files = acc.files \cup If(file, KeyOf(e))
                    /\ r.directories = acc.directories \cup Above(e)
                                       \cup If(e.kind = "directory", KeyOf(e))
<1> DEFINE used == NotePathUsage(acc, e)
           noted == NoteCollision(used, e)
           h == noted.holds \cup PathHolds(e.name) \cup If(e.encrypted, "member_encrypted")
                            \cup EntryKindHolds(e) \cup CollisionHolds(acc, e)
                            \cup (IF e.kind = "file" THEN FileMemberHolds(e) ELSE {})
           d == noted.declared + (IF e.kind = "file" THEN e.declares ELSE 0)
           m == IF e.kind = "file" THEN Append(noted.members, e) ELSE noted.members
           r == [noted EXCEPT !.holds = h, !.declared = d, !.members = m]
<1>1. InspectEntry(acc, e) = r
  BY DEF InspectEntry, If
<1>2. Tallied(used) /\ Tallied(noted)
  BY UsageFields, CollisionFields
<1>3. /\ Tallied(r) /\ r.holds = h /\ r.declared = d /\ r.members = m
      /\ r.files = noted.files /\ r.directories = noted.directories
      /\ r.exact = noted.exact /\ r.duplicates = noted.duplicates /\ r.collision = noted.collision
  <2> HIDE DEF h, d, m, noted
  <2> QED BY <1>2 DEF Tallied
<1>4. /\ noted.holds = acc.holds /\ noted.members = acc.members /\ noted.declared = acc.declared
      /\ noted.exact = acc.exact \cup If(Canonical(e) # <<>>, Canonical(e))
      /\ DOMAIN noted.collision = DOMAIN acc.collision \cup If(Canonical(e) # <<>>, KeyOf(e))
      /\ noted.duplicates = acc.duplicates
           \cup If(Canonical(e) # <<>> /\ KeyOf(e) \in DOMAIN acc.collision, KeyOf(e))
      /\ noted.files = used.files /\ noted.directories = used.directories
  <2> HIDE DEF used
  <2>1. used.exact = acc.exact /\ used.collision = acc.collision /\ used.holds = acc.holds
        /\ used.members = acc.members /\ used.declared = acc.declared
        /\ used.duplicates = acc.duplicates
    BY UsageFields DEF used
  <2> QED BY <1>2, <2>1, CollisionFields
<1> HIDE DEF r, noted
<1>5. Usable(e) =>
        /\ used.files = acc.files \cup If(e.kind = "file", KeyOf(e))
        /\ used.directories = acc.directories \cup Above(e) \cup If(e.kind = "directory", KeyOf(e))
  BY UsageFields
<1> HIDE DEF used
<1> QED BY <1>1, <1>3, <1>4, <1>5

\* What a central directory holds, as far as the walk reads it.
IsEntry(e, S) ==
    /\ e.name \in Seq(S)
    /\ e.kind \in {"file", "directory", "symlink", "special", "unknown"}
    /\ e.declares \in Nat

LEMMA EntryThatHolds ==
    ASSUME NEW S, NEW e, IsEntry(e, S), NEW acc,
           \A x \in acc.exact : MemberCollisionKey(x) \in DOMAIN acc.collision
    PROVE  /\ PathHolds(e.name) = {} /\ If(e.encrypted, "member_encrypted") = {}
           /\ EntryKindHolds(e) = {} /\ CollisionHolds(acc, e) = {}
           /\ (IF e.kind = "file" THEN FileMemberHolds(e) ELSE {}) = {}
           <=> Lands(e.name) /\ Readable(e) /\ KeyOf(e) \notin DOMAIN acc.collision
<1>1. PathHolds(e.name) = {} <=> Lands(e.name)
  BY PathsThatLand DEF IsEntry
<1>2. Lands(e.name) => Canonical(e) # <<>>
  BY PathsThatLand DEF IsEntry, Canonical
<1>3. If(e.encrypted, "member_encrypted") = {} <=> ~e.encrypted
  BY DEF If
<1>4. EntryKindHolds(e) = {} <=> e.kind \in {"file", "directory"}
  BY DEF EntryKindHolds, IsEntry
<1>5. FileMemberHolds(e) = {} <=> e.supported /\ e.declares <= Policy.member
  <2>1. Policy.member \in Nat
    BY PolicyAssumption
  <2>2. e.declares > Policy.member <=> ~(e.declares <= Policy.member)
    BY <2>1 DEF IsEntry
  <2> QED BY <2>2 DEF FileMemberHolds
<1>6. Canonical(e) # <<>> => (CollisionHolds(acc, e) = {} <=> KeyOf(e) \notin DOMAIN acc.collision)
  <2>1. SUFFICES ASSUME Canonical(e) # <<>>
                 PROVE  CollisionHolds(acc, e) = {} <=> KeyOf(e) \notin DOMAIN acc.collision
    OBVIOUS
  <2>2. CASE Canonical(e) \in acc.exact
    <3>1. CollisionHolds(acc, e) = {"duplicate_member"}
      BY <2>1, <2>2 DEF CollisionHolds, Canonical
    <3> QED BY <2>2, <3>1 DEF KeyOf
  <2>3. CASE Canonical(e) \notin acc.exact /\ KeyOf(e) \in DOMAIN acc.collision
    BY <2>1, <2>3 DEF CollisionHolds, Canonical, KeyOf
  <2>4. CASE Canonical(e) \notin acc.exact /\ KeyOf(e) \notin DOMAIN acc.collision
    BY <2>1, <2>4 DEF CollisionHolds, Canonical, KeyOf
  <2> QED BY <2>2, <2>3, <2>4
<1> QED BY <1>1, <1>2, <1>3, <1>4, <1>5, <1>6 DEF Readable

\* The entries up to the n-th are all fine.
Fine(entries, n) ==
    /\ \A i \in 1 .. n : Lands(entries[i].name) /\ Readable(entries[i])
    /\ \A i, j \in 1 .. n : i # j => KeyOf(entries[i]) # KeyOf(entries[j])

KeysOf(entries, n) == {KeyOf(entries[i]) : i \in {j \in 1 .. n : Canonical(entries[j]) # <<>>}}
FileKeys(entries, n) == {KeyOf(entries[i]) : i \in {j \in 1 .. n : entries[j].kind = "file"}}
DirectoryKeys(entries, n) ==
    (UNION {Above(entries[i]) : i \in 1 .. n})
    \cup {KeyOf(entries[i]) : i \in {j \in 1 .. n : entries[j].kind = "directory"}}

\* What the walk knows once it has seen n entries.
Noted(acc, entries, n) ==
    /\ Tallied(acc)
    /\ \A x \in acc.exact : MemberCollisionKey(x) \in DOMAIN acc.collision
    /\ DOMAIN acc.collision = KeysOf(entries, n)
    /\ acc.holds = {} <=> Fine(entries, n)
    /\ Fine(entries, n) =>
         /\ acc.duplicates = {}
         /\ acc.files = FileKeys(entries, n) /\ acc.directories = DirectoryKeys(entries, n)

LEMMA NotedAtFirst == ASSUME NEW entries PROVE Noted(Nothing, entries, 0)
<1>1. \A i : i \notin 1 .. 0
  OBVIOUS
<1>2. KeysOf(entries, 0) = {} /\ FileKeys(entries, 0) = {} /\ DirectoryKeys(entries, 0) = {}
  BY <1>1 DEF KeysOf, FileKeys, DirectoryKeys
<1>3. Fine(entries, 0)
  BY <1>1 DEF Fine
<1>4. DOMAIN <<>> = {}
  OBVIOUS
<1> QED BY <1>2, <1>3, <1>4 DEF Noted, Nothing, Tallied

LEMMA FineOnes ==
    ASSUME NEW S, NEW entries, NEW n \in Nat, n # 0,
           \A i \in 1 .. n : IsEntry(entries[i], S)
    PROVE  Fine(entries, n) <=> /\ Fine(entries, n - 1)
                                /\ Lands(entries[n].name) /\ Readable(entries[n])
                                /\ KeyOf(entries[n]) \notin KeysOf(entries, n - 1)
<1>1. 1 .. n = (1 .. n - 1) \cup {n} /\ n \notin 1 .. n - 1
  OBVIOUS
<1>2. \A i \in 1 .. n : Lands(entries[i].name) => Canonical(entries[i]) # <<>>
  BY PathsThatLand DEF IsEntry, Canonical
<1>3. (\A i \in 1 .. n - 1 : Lands(entries[i].name)) =>
        KeysOf(entries, n - 1) = {KeyOf(entries[i]) : i \in 1 .. n - 1}
  BY <1>1, <1>2 DEF KeysOf
<1>4. (\A i, j \in 1 .. n : i # j => KeyOf(entries[i]) # KeyOf(entries[j]))
        <=> /\ \A i, j \in 1 .. n - 1 : i # j => KeyOf(entries[i]) # KeyOf(entries[j])
            /\ KeyOf(entries[n]) \notin {KeyOf(entries[i]) : i \in 1 .. n - 1}
  BY <1>1, Zenon
<1> QED BY <1>1, <1>3, <1>4 DEF Fine

LEMMA UnionOneMore == \A A, B : UNION (A \cup {B}) = (UNION A) \cup B
BY Zenon

LEMMA NotedOneMore ==
    ASSUME NEW S, NEW entries, NEW n \in Nat, n # 0,
           \A i \in 1 .. n : IsEntry(entries[i], S),
           NEW acc, Noted(acc, entries, n - 1)
    PROVE  Noted(InspectEntry(acc, entries[n]), entries, n)
<1> DEFINE e == entries[n]
           r == InspectEntry(acc, e)
<1>1. 1 .. n = (1 .. n - 1) \cup {n} /\ n \notin 1 .. n - 1
  OBVIOUS
<1>2. Tallied(acc) /\ DOMAIN acc.collision = KeysOf(entries, n - 1)
  BY DEF Noted
<1>3. /\ Tallied(r)
      /\ r.holds = acc.holds \cup PathHolds(e.name) \cup If(e.encrypted, "member_encrypted")
                   \cup EntryKindHolds(e) \cup CollisionHolds(acc, e)
                   \cup (IF e.kind = "file" THEN FileMemberHolds(e) ELSE {})
      /\ r.exact = acc.exact \cup If(Canonical(e) # <<>>, Canonical(e))
      /\ DOMAIN r.collision = DOMAIN acc.collision \cup If(Canonical(e) # <<>>, KeyOf(e))
      /\ r.duplicates = acc.duplicates
           \cup If(Canonical(e) # <<>> /\ KeyOf(e) \in DOMAIN acc.collision, KeyOf(e))
      /\ Usable(e) =>
           /\ r.files = acc.files \cup If(e.kind = "file", KeyOf(e))
           /\ r.directories = acc.directories \cup Above(e)
                              \cup If(e.kind = "directory", KeyOf(e))
  BY <1>2, InspectFields
<1> HIDE DEF r
<1>4. KeysOf(entries, n) = KeysOf(entries, n - 1) \cup If(Canonical(e) # <<>>, KeyOf(e))
  BY <1>1 DEF KeysOf, If
<1>5. \A x \in r.exact : MemberCollisionKey(x) \in DOMAIN r.collision
  BY <1>3 DEF Noted, If, KeyOf
<1>6. r.holds = {} <=> Fine(entries, n)
  <2>1. IsEntry(e, S)
    BY <1>1
  <2>2. acc.holds = {} <=> Fine(entries, n - 1)
    BY DEF Noted
  <2>3. \A x \in acc.exact : MemberCollisionKey(x) \in DOMAIN acc.collision
    BY DEF Noted
  <2>4. r.holds = {} <=>
          /\ acc.holds = {}
          /\ PathHolds(e.name) = {} /\ If(e.encrypted, "member_encrypted") = {}
          /\ EntryKindHolds(e) = {} /\ CollisionHolds(acc, e) = {}
          /\ (IF e.kind = "file" THEN FileMemberHolds(e) ELSE {}) = {}
    BY <1>3
  <2> HIDE DEF e
  <2>5. r.holds = {} <=> /\ acc.holds = {} /\ Lands(e.name) /\ Readable(e)
                         /\ KeyOf(e) \notin DOMAIN acc.collision
    BY <2>1, <2>3, <2>4, EntryThatHolds
  <2> QED BY <1>2, <2>2, <2>5, FineOnes DEF e
<1>7. ASSUME Fine(entries, n)
      PROVE  /\ r.duplicates = {}
             /\ r.files = FileKeys(entries, n) /\ r.directories = DirectoryKeys(entries, n)
  <2>1. /\ Fine(entries, n - 1) /\ Lands(e.name) /\ KeyOf(e) \notin KeysOf(entries, n - 1)
    BY <1>7, FineOnes
  <2>2. Usable(e)
    BY <1>1, <2>1, PathsThatLand DEF IsEntry, Usable, Canonical
  <2>3. acc.duplicates = {} /\ acc.files = FileKeys(entries, n - 1)
        /\ acc.directories = DirectoryKeys(entries, n - 1)
    BY <2>1 DEF Noted
  <2>4. FileKeys(entries, n) = FileKeys(entries, n - 1) \cup If(e.kind = "file", KeyOf(e))
    BY <1>1 DEF FileKeys, If
  <2>5. DirectoryKeys(entries, n) = DirectoryKeys(entries, n - 1) \cup Above(e)
                                    \cup If(e.kind = "directory", KeyOf(e))
    <3> DEFINE above(k) == {Above(entries[i]) : i \in 1 .. k}
               own(k) == {KeyOf(entries[i]) : i \in {j \in 1 .. k : entries[j].kind = "directory"}}
    <3>1. above(n) = above(n - 1) \cup {Above(e)}
      BY <1>1
    <3>2. own(n) = own(n - 1) \cup If(e.kind = "directory", KeyOf(e))
      BY <1>1 DEF If
    <3>3. DirectoryKeys(entries, n) = (UNION above(n)) \cup own(n)
          /\ DirectoryKeys(entries, n - 1) = (UNION above(n - 1)) \cup own(n - 1)
      BY DEF DirectoryKeys
    <3> HIDE DEF above, own, e
    <3>4. UNION above(n) = (UNION above(n - 1)) \cup Above(e)
      BY <3>1, UnionOneMore, Zenon
    <3> QED BY <3>2, <3>3, <3>4 DEF If
  <2>6. r.duplicates = {}
    BY <1>2, <1>3, <2>1, <2>3 DEF If
  <2> HIDE DEF e
  <2>7. /\ r.files = acc.files \cup If(e.kind = "file", KeyOf(e))
        /\ r.directories = acc.directories \cup Above(e) \cup If(e.kind = "directory", KeyOf(e))
    BY <1>3, <2>2
  <2> QED
    <3> HIDE DEF r
    <3> QED BY <2>3, <2>4, <2>5, <2>6, <2>7 DEF If
<1>8. Tallied(r) /\ DOMAIN r.collision = KeysOf(entries, n)
  BY <1>2, <1>3, <1>4 DEF If
<1>9. Noted(r, entries, n)
  BY <1>5, <1>6, <1>7, <1>8 DEF Noted
<1> QED BY <1>9 DEF r

\* Keys of entries that land are paths of at least one step.
LEMMA KeysAreSteps ==
    ASSUME NEW S, NEW e, IsEntry(e, S), Lands(e.name)
    PROVE  KeyOf(e) # <<>> /\ \E T : KeyOf(e) \in Seq(T)
<1> DEFINE path == Canonical(e)
           T == {FoldOf(path[i]) : i \in DOMAIN path}
<1>1. path \in Seq(S \cup {Gap}) /\ path # <<>>
  BY CanonicalSteps, PathsThatLand DEF IsEntry, Canonical
<1>2. KeyOf(e) = [i \in DOMAIN path |-> FoldOf(path[i])]
  BY DEF KeyOf, MemberCollisionKey
<1> HIDE DEF path
<1>3. DOMAIN path = 1 .. Len(path) /\ Len(path) \in Nat /\ Len(path) # 0
  BY <1>1
<1>4. KeyOf(e) \in Seq(T)
  <2>1. \A i \in 1 .. Len(path) : FoldOf(path[i]) \in T
    BY <1>3
  <2> HIDE DEF T
  <2>2. [i \in 1 .. Len(path) |-> FoldOf(path[i])] \in Seq(T)
    BY <1>3, <2>1
  <2> QED BY <1>2, <1>3, <2>2
<1>5. DOMAIN KeyOf(e) # {}
  BY <1>2, <1>3
<1> QED BY <1>4, <1>5

\* A key is the front of another exactly if it is one of the folders above it.
LEMMA PrefixIsAbove ==
    ASSUME NEW T, NEW a, a # <<>>, a \in Seq(T), NEW U, NEW b \in Seq(U), a # b
    PROVE  IsPrefix(a, b) <=> a \in {SubSeq(b, 1, n) : n \in 1 .. Len(b) - 1}
<1>1. Len(a) \in Nat /\ Len(b) \in Nat /\ Len(a) # 0 /\ SubSeq(a, 1, Len(a)) = a
  OBVIOUS
<1>2. SubSeq(b, 1, Len(b)) = b
  OBVIOUS
<1>3. IsPrefix(a, b) <=> Len(a) <= Len(b) /\ a = SubSeq(b, 1, Len(a))
  BY <1>1 DEF IsPrefix
<1>4. \A n \in 1 .. Len(b) - 1 : Len(SubSeq(b, 1, n)) = n
  OBVIOUS
<1>5. IsPrefix(a, b) => Len(a) \in 1 .. Len(b) - 1
  BY <1>1, <1>2, <1>3
<1>6. IsPrefix(a, b) => \E n \in 1 .. Len(b) - 1 : a = SubSeq(b, 1, n)
  BY <1>3, <1>5
<1>7. ASSUME NEW n \in 1 .. Len(b) - 1, a = SubSeq(b, 1, n) PROVE IsPrefix(a, b)
  <2>1. Len(a) = n /\ n <= Len(b)
    BY <1>1, <1>4, <1>7
  <2> QED BY <1>3, <1>7, <2>1
<1> QED BY <1>6, <1>7

LEMMA WalkIsNoted ==
    ASSUME NEW S, NEW entries, Len(entries) \in Nat,
           \A i \in 1 .. Len(entries) : IsEntry(entries[i], S),
           NEW w, IsWalk(w, "inspect", Nothing, entries)
    PROVE  \A n \in 0 .. Len(entries) : Noted(w[n], entries, n)
<1> DEFINE N == {n \in 0 .. Len(entries) : Noted(w[n], entries, n)}
<1>1. 0 \in N
  <2>1. w[0] = Nothing /\ 0 \in 0 .. Len(entries)
    BY DEF IsWalk
  <2> QED BY <2>1, NotedAtFirst
<1>2. ASSUME NEW n \in 1 .. Len(entries), n - 1 \in N PROVE n \in N
  <2>1. w[n] = InspectEntry(w[n - 1], entries[n])
    BY DEF IsWalk, FoldStep
  <2>2. Noted(w[n - 1], entries, n - 1)
    BY <1>2
  <2>3. n \in Nat /\ n # 0 /\ n \in 0 .. Len(entries)
        /\ \A i \in 1 .. n : IsEntry(entries[i], S)
    OBVIOUS
  <2>4. Noted(w[n], entries, n)
    BY <2>1, <2>2, <2>3, NotedOneMore
  <2> QED BY <2>3, <2>4
<1>3. \A n \in 0 .. Len(entries) : n \in N
  <2> HIDE DEF N
  <2> QED BY <1>1, <1>2, Induction
<1> QED BY <1>3

LEMMA DeclaredAgrees ==
    ASSUME NEW S, NEW entries, Len(entries) \in Nat,
           \A i \in 1 .. Len(entries) : IsEntry(entries[i], S),
           NEW w, IsWalk(w, "inspect", Nothing, entries),
           NEW v, IsWalk(v, "declared", 0, entries)
    PROVE  v[Len(entries)] \in Nat /\ w[Len(entries)].declared = v[Len(entries)]
<1> DEFINE N == {n \in 0 .. Len(entries) : v[n] \in Nat /\ w[n].declared = v[n]}
<1>1. 0 \in N
  <2>1. w[0] = Nothing /\ v[0] = 0 /\ 0 \in 0 .. Len(entries)
    BY DEF IsWalk
  <2> QED BY <2>1 DEF Nothing
<1>2. ASSUME NEW n \in 1 .. Len(entries), n - 1 \in N PROVE n \in N
  <2>1. w[n] = InspectEntry(w[n - 1], entries[n])
    BY DEF IsWalk, FoldStep
  <2>2. v[n] = v[n - 1] + IF entries[n].kind = "file" THEN entries[n].declares ELSE 0
    BY DEF IsWalk, FoldStep
  <2>3. Tallied(w[n - 1])
    <3>1. n - 1 \in 0 .. Len(entries)
      OBVIOUS
    <3> QED BY <3>1, WalkIsNoted DEF Noted
  <2>4. w[n].declared = w[n - 1].declared + (IF entries[n].kind = "file" THEN entries[n].declares ELSE 0)
    BY <2>1, <2>3, InspectFields
  <2>5. entries[n].declares \in Nat /\ n \in 0 .. Len(entries)
    BY DEF IsEntry
  <2>6. v[n - 1] \in Nat /\ w[n - 1].declared = v[n - 1]
    BY <1>2
  <2>7. v[n] \in Nat
    BY <2>2, <2>5, <2>6
  <2> QED BY <2>2, <2>4, <2>5, <2>6, <2>7
<1>3. \A n \in 0 .. Len(entries) : n \in N
  <2> HIDE DEF N
  <2> QED BY <1>1, <1>2, Induction
<1>4. Len(entries) \in N
  BY <1>3
<1> QED BY <1>4

LEMMA ConflictsAreFronts ==
    ASSUME NEW S, NEW entries, NEW n \in Nat, \A i \in 1 .. n : IsEntry(entries[i], S),
           Fine(entries, n)
    PROVE  FileKeys(entries, n) \cap DirectoryKeys(entries, n) = {}
           <=> \A i, j \in 1 .. n : i # j => Apart(entries[i], entries[j])
<1> DEFINE K(i) == KeyOf(entries[i])
<1>1. ASSUME NEW i \in 1 .. n, NEW j \in 1 .. n, i # j
      PROVE  IsPrefix(K(i), K(j)) <=> K(i) \in Above(entries[j])
  <2>1. K(i) # K(j) /\ Lands(entries[i].name) /\ Lands(entries[j].name)
    BY <1>1 DEF Fine
  <2>2. IsEntry(entries[i], S) /\ IsEntry(entries[j], S)
    OBVIOUS
  <2>3. K(i) # <<>> /\ \E T : K(i) \in Seq(T)
    BY <2>1, <2>2, KeysAreSteps
  <2>4. \E T : K(j) \in Seq(T)
    BY <2>1, <2>2, KeysAreSteps
  <2> HIDE DEF K
  <2>5. IsPrefix(K(i), K(j)) <=> K(i) \in {SubSeq(K(j), 1, m) : m \in 1 .. Len(K(j)) - 1}
    BY <2>1, <2>3, <2>4, PrefixIsAbove
  <2> QED BY <2>5 DEF Above, K
<1>2. ASSUME NEW i \in 1 .. n PROVE K(i) \notin Above(entries[i])
  <2>1. \E T : K(i) \in Seq(T)
    BY KeysAreSteps DEF Fine
  <2> HIDE DEF K
  <2>2. \A m \in 1 .. Len(K(i)) - 1 : Len(SubSeq(K(i), 1, m)) # Len(K(i))
    BY <2>1
  <2> QED BY <2>2 DEF Above, K
<1>3. \A i, j \in 1 .. n : i # j => K(i) # K(j)
  BY DEF Fine
<1>4. \A i, j \in 1 .. n : i # j =>
        (Apart(entries[i], entries[j]) <=>
           (entries[i].kind = "file" => K(i) \notin Above(entries[j])))
  BY <1>1, <1>3 DEF Apart, KeyOf, Canonical
<1>5. FileKeys(entries, n) \cap DirectoryKeys(entries, n) = {} <=>
        \A i, j \in 1 .. n : entries[i].kind = "file" =>
            /\ K(i) \notin Above(entries[j])
            /\ entries[j].kind = "directory" => K(i) # K(j)
  BY DEF FileKeys, DirectoryKeys
<1>6. \A i, j \in 1 .. n : entries[i].kind = "file" /\ entries[j].kind = "directory" => K(i) # K(j)
  BY <1>3
<1> HIDE DEF K
<1> QED BY <1>2, <1>4, <1>5, <1>6

LEMMA PreflightIsRight ==
    ASSUME NEW entries, Len(entries) \in Nat, DOMAIN entries = 1 .. Len(entries), NEW T,
           \A i \in DOMAIN entries : IsEntry(entries[i], T),
           NEW depth \in Nat, NEW size \in Nat
    PROVE  AcceptsWhatIsSafe(entries, depth, size)
<1> DEFINE len == Len(entries)
           acc == FoldLeft(InspectEntry, Nothing, entries)
           declared == FoldLeft(LAMBDA sum, e : sum + IF e.kind = "file" THEN e.declares ELSE 0,
                                0, entries)
<1>1. len \in Nat /\ DOMAIN entries = 1 .. len /\ \A i \in 1 .. len : IsEntry(entries[i], T)
  OBVIOUS
<1>2. PICK w : IsWalk(w, "inspect", Nothing, entries) /\ acc = w[len]
  BY <1>1, InspectWalk
<1>3. PICK v : IsWalk(v, "declared", 0, entries) /\ declared = v[len]
  BY <1>1, DeclaredWalk
<1>4. PreflightArchive(entries, depth, size).accepted <=>
        /\ ArchiveScopeHolds(entries, depth) = {} /\ acc.holds = {}
        /\ PathConflictHolds(acc) = {} /\ ExpansionHolds(acc, size) = {}
  BY DEF PreflightArchive
<1>5. AcceptsWhatIsSafe(entries, depth, size) <=>
        (PreflightArchive(entries, depth, size).accepted <=>
           /\ \A i \in DOMAIN entries : Lands(entries[i].name) /\ Readable(entries[i])
           /\ \A i, j \in DOMAIN entries : i # j => Apart(entries[i], entries[j])
           /\ Len(entries) <= Policy.count /\ depth <= Policy.depth
           /\ declared <= Policy.archive
           /\ declared <= Policy.ratio * (IF size = 0 THEN 1 ELSE size))
  BY DEF AcceptsWhatIsSafe
<1> HIDE DEF acc, declared
<1>6. Noted(acc, entries, len) /\ acc.declared = declared /\ declared \in Nat
  <2>1. len \in 0 .. len
    BY <1>1
  <2> QED BY <1>1, <1>2, <1>3, <2>1, WalkIsNoted, DeclaredAgrees
<1>7. acc.holds = {} <=> Fine(entries, len)
  BY <1>6 DEF Noted
<1>8. Fine(entries, len) =>
        (PathConflictHolds(acc) = {} <=>
           \A i, j \in 1 .. len : i # j => Apart(entries[i], entries[j]))
  <2>1. SUFFICES ASSUME Fine(entries, len)
                 PROVE  PathConflictHolds(acc) = {} <=>
                          \A i, j \in 1 .. len : i # j => Apart(entries[i], entries[j])
    OBVIOUS
  <2>2. /\ acc.duplicates = {}
        /\ acc.files = FileKeys(entries, len) /\ acc.directories = DirectoryKeys(entries, len)
    BY <1>6, <2>1 DEF Noted
  <2>3. PathConflictHolds(acc) = {} <=> FileKeys(entries, len) \cap DirectoryKeys(entries, len) = {}
    BY <2>2 DEF PathConflictHolds
  <2> HIDE DEF len
  <2> QED BY <1>1, <2>1, <2>3, ConflictsAreFronts
<1>9. (\A i, j \in 1 .. len : i # j => Apart(entries[i], entries[j]))
        /\ (\A i \in 1 .. len : Lands(entries[i].name) /\ Readable(entries[i]))
      => Fine(entries, len)
  BY DEF Fine, Apart, KeyOf, Canonical
<1>10. Fine(entries, len) => \A i \in 1 .. len : Lands(entries[i].name) /\ Readable(entries[i])
  BY DEF Fine
<1>11. ArchiveScopeHolds(entries, depth) = {} <=> len <= Policy.count /\ depth <= Policy.depth
  <2>1. Policy.count \in Nat /\ Policy.depth \in Nat
    BY PolicyAssumption
  <2> QED BY <1>1, <2>1 DEF ArchiveScopeHolds
<1>12. ExpansionHolds(acc, size) = {} <=>
         /\ declared <= Policy.archive
         /\ declared <= Policy.ratio * (IF size = 0 THEN 1 ELSE size)
  <2> DEFINE most == Policy.ratio * (IF size = 0 THEN 1 ELSE size)
  <2>1. Policy.archive \in Nat /\ most \in Nat
    BY PolicyAssumption
  <2>2. ExpansionHolds(acc, size) = {} <=> ~(declared > Policy.archive) /\ ~(declared > most)
    BY <1>6 DEF ExpansionHolds
  <2> HIDE DEF most
  <2>3. (~(declared > Policy.archive) <=> declared <= Policy.archive)
        /\ (~(declared > most) <=> declared <= most)
    BY <1>6, <2>1
  <2> QED BY <2>2, <2>3 DEF most
<1> HIDE DEF len
<1> QED BY <1>1, <1>4, <1>5, <1>7, <1>8, <1>9, <1>10, <1>11, <1>12 DEF len

\* preflightArchive walks the central directory once, in its order.  It accepts exactly
\* the archives whose members all land inside the tree, can be read, and stand apart on
\* every file system, within the limits, whatever the order of the directory.
THEOREM PreflightIsExact ==
    ASSUME NEW S, NEW entries \in Seq(S), NEW T,
           \A i \in DOMAIN entries : IsEntry(entries[i], T),
           NEW depth \in Nat, NEW size \in Nat
    PROVE  AcceptsWhatIsSafe(entries, depth, size)
<1>1. Len(entries) \in Nat /\ DOMAIN entries = 1 .. Len(entries)
  OBVIOUS
<1> QED BY <1>1, PreflightIsRight

-----------------------------------------------------------------------------
(* Paths *)

IsPath(p) == p \in Seq(Segments(p)) /\ p # <<>>

\* What p \in Seq says of a path, step by step.
LEMMA PathSteps ==
    ASSUME NEW p, IsPath(p)
    PROVE  Len(p) \in Nat /\ Len(p) >= 1 /\ DOMAIN p = 1 .. Len(p)
BY DEF IsPath

LEMMA WiderSequences == ASSUME NEW S, NEW T, S \subseteq T, NEW s \in Seq(S) PROVE s \in Seq(T)
OBVIOUS

LEMMA FrontSteps ==
    ASSUME NEW S, NEW s \in Seq(S), s # <<>>
    PROVE  /\ Front(s) \in Seq(S) /\ Len(Front(s)) = Len(s) - 1
           /\ \A i \in 1 .. Len(s) - 1 : Front(s)[i] = s[i]
<1>1. \A n \in Nat : n <= Len(s) =>
          /\ SubSeq(s, 1, n) \in Seq(S) /\ Len(SubSeq(s, 1, n)) = n
          /\ \A i \in 1 .. n : SubSeq(s, 1, n)[i] = s[i]
  OBVIOUS
<1>2. Len(s) - 1 \in Nat /\ Len(s) - 1 <= Len(s)
  OBVIOUS
<1> QED BY <1>1, <1>2 DEF Front

LEMMA SequencesArePaths == ASSUME NEW S, NEW p \in Seq(S), p # <<>> PROVE IsPath(p)
<1>1. \A i \in 1 .. Len(p) : p[i] \in Segments(p)
  BY DEF Segments
<1>2. p \in Seq(Segments(p))
  <2> DEFINE T == Segments(p)
  <2>1. \A i \in 1 .. Len(p) : p[i] \in T
    BY <1>1
  <2> HIDE DEF T
  <2>2. Len(p) \in Nat /\ p = [i \in 1 .. Len(p) |-> p[i]]
    OBVIOUS
  <2>3. [i \in 1 .. Len(p) |-> p[i]] \in Seq(T)
    BY <2>1, <2>2
  <2>4. p \in Seq(T)
    BY <2>2, <2>3
  <2> QED BY <2>4 DEF T
<1> QED BY <1>2 DEF IsPath

LEMMA SamePath ==
    ASSUME NEW p, NEW q, IsPath(p), IsPath(q), Len(p) = Len(q), \A i \in 1 .. Len(p) : p[i] = q[i]
    PROVE  p = q
BY DEF IsPath

LEMMA PrefixSteps ==
    ASSUME NEW a, NEW b, IsPath(a), IsPath(b)
    PROVE  IsPrefix(a, b) <=> Len(a) <= Len(b) /\ \A i \in 1 .. Len(a) : a[i] = b[i]
<1>1. Len(a) \in Nat /\ Len(b) \in Nat /\ SubSeq(a, 1, Len(a)) = a
  BY DEF IsPath
<1>2. ASSUME Len(a) <= Len(b)
      PROVE  SubSeq(b, 1, Len(a)) = a <=> \A i \in 1 .. Len(a) : a[i] = b[i]
  <2> DEFINE c == SubSeq(b, 1, Len(a))
  <2>1. c \in Seq(Segments(b)) /\ Len(c) = Len(a) /\ \A i \in 1 .. Len(a) : c[i] = b[i]
    BY <1>1, <1>2 DEF IsPath
  <2>2. a \in Seq(Segments(a))
    BY DEF IsPath
  <2> HIDE DEF c
  <2> QED BY <2>1, <2>2, <1>1
<1> QED BY <1>1, <1>2 DEF IsPrefix

LEMMA BesideSteps ==
    ASSUME NEW d, IsPath(d), NEW mark
    PROVE  LET b == Beside(d, mark)
           IN  /\ IsPath(b) /\ Len(b) = Len(d)
               /\ \A i \in 1 .. Len(d) - 1 : b[i] = d[i]
               /\ b[Len(d)] = [name |-> d[Len(d)].name, mark |-> mark, run |-> runs]
<1> DEFINE step == [name |-> Last(d).name, mark |-> mark, run |-> runs]
           S == Segments(d) \cup {step}
           front == Front(d)
<1> HIDE DEF step
<1>1. Len(d) \in Nat /\ Len(d) >= 1 /\ d \in Seq(Segments(d))
  BY DEF IsPath
<1>2. front \in Seq(Segments(d)) /\ Len(front) = Len(d) - 1
      /\ \A i \in 1 .. Len(d) - 1 : front[i] = d[i]
  BY <1>1, FrontSteps DEF IsPath
<1> HIDE DEF front
<1>3. front \in Seq(S) /\ step \in S
  BY <1>2, WiderSequences
<1> HIDE DEF S
<1>4. Append(front, step) \in Seq(S) /\ Append(front, step) # <<>>
  BY <1>2, <1>3
<1>5. Len(Append(front, step)) = Len(d) /\ Append(front, step)[Len(d)] = step
      /\ \A i \in 1 .. Len(d) - 1 : Append(front, step)[i] = d[i]
  BY <1>2, <1>3, <1>1
<1>6. Beside(d, mark) = Append(front, step) /\ Last(d) = d[Len(d)]
  BY DEF Beside, front, step, Last
<1> QED BY <1>4, <1>5, <1>6, SequencesArePaths DEF step

LEMMA ExtractDirSteps ==
    ASSUME NEW p, IsPath(p)
    PROVE  LET d == ExtractDirFor(p)
           IN  /\ IsPath(d) /\ Len(d) = Len(p)
               /\ \A i \in 1 .. Len(p) - 1 : d[i] = p[i]
               /\ d[Len(p)] = Plain(ExtractDir[p[Len(p)].name])
<1> DEFINE step == Plain(ExtractDir[Last(p).name])
           S == Segments(p) \cup {step}
           front == Front(p)
<1> HIDE DEF step
<1>1. Len(p) \in Nat /\ Len(p) >= 1 /\ p \in Seq(Segments(p))
  BY DEF IsPath
<1>2. front \in Seq(Segments(p)) /\ Len(front) = Len(p) - 1
      /\ \A i \in 1 .. Len(p) - 1 : front[i] = p[i]
  BY <1>1, FrontSteps DEF IsPath
<1> HIDE DEF front
<1>3. front \in Seq(S) /\ step \in S
  BY <1>2, WiderSequences
<1> HIDE DEF S
<1>4. Append(front, step) \in Seq(S) /\ Append(front, step) # <<>>
  BY <1>2, <1>3
<1>5. Len(Append(front, step)) = Len(p) /\ Append(front, step)[Len(p)] = step
      /\ \A i \in 1 .. Len(p) - 1 : Append(front, step)[i] = p[i]
  BY <1>2, <1>3, <1>1
<1>6. ExtractDirFor(p) = Append(front, step) /\ Last(p) = p[Len(p)]
  BY DEF ExtractDirFor, front, step, Last
<1> QED BY <1>4, <1>5, <1>6, SequencesArePaths DEF step

LEMMA RebasedSteps ==
    ASSUME NEW p, NEW from, NEW to, IsPath(p), IsPath(from), IsPath(to),
           Len(from) = Len(to), Len(from) <= Len(p)
    PROVE  LET q == Rebased(p, from, to)
           IN  /\ IsPath(q) /\ Len(q) = Len(p)
               /\ \A i \in 1 .. Len(to) : q[i] = to[i]
               /\ \A i \in Len(to) + 1 .. Len(p) : q[i] = p[i]
<1> DEFINE S == Segments(p) \cup Segments(to)
           tail == SubSeq(p, Len(from) + 1, Len(p))
<1>1. Len(p) \in Nat /\ Len(to) \in Nat /\ Len(to) >= 1
      /\ p \in Seq(Segments(p)) /\ to \in Seq(Segments(to))
  BY DEF IsPath
<1>2. tail \in Seq(Segments(p)) /\ Len(tail) = Len(p) - Len(to)
      /\ \A i \in 1 .. Len(p) - Len(to) : tail[i] = p[i + Len(to)]
  BY <1>1
<1> HIDE DEF tail
<1>3. tail \in Seq(S) /\ to \in Seq(S)
  BY <1>1, <1>2
<1> HIDE DEF S
<1>4. to \o tail \in Seq(S) /\ Len(to \o tail) = Len(p)
  BY <1>1, <1>2, <1>3
<1>5. \A i \in 1 .. Len(to) : (to \o tail)[i] = to[i]
  BY <1>1, <1>2, <1>3
<1>6. ASSUME NEW i \in Len(to) + 1 .. Len(p) PROVE (to \o tail)[i] = p[i]
  <2>1. (to \o tail)[i] = tail[i - Len(to)]
    BY <1>1, <1>2, <1>3
  <2>2. i - Len(to) \in 1 .. Len(p) - Len(to)
    BY <1>1
  <2>3. tail[i - Len(to)] = p[i - Len(to) + Len(to)]
    BY <2>2, <1>2
  <2> QED BY <2>1, <2>3, <1>1
<1>7. Rebased(p, from, to) = to \o tail
  BY DEF Rebased, tail
<1>8. to \o tail # <<>>
  BY <1>1, <1>4
<1> QED BY <1>4, <1>5, <1>6, <1>7, <1>8, SequencesArePaths

LEMMA InDirectorySteps ==
    ASSUME NEW d, IsPath(d), NEW S, NEW canonical \in Seq(S)
    PROVE  LET q == InDirectory(d, canonical)
           IN  /\ IsPath(q) /\ Len(q) = Len(d) + Len(canonical)
               /\ \A i \in 1 .. Len(d) : q[i] = d[i]
               /\ \A i \in Len(d) + 1 .. Len(q) : q[i] = Plain(canonical[i - Len(d)])
<1> DEFINE tail == [i \in DOMAIN canonical |-> Plain(canonical[i])]
           T == {Plain(s) : s \in S}
           U == Segments(d) \cup T
<1>1. Len(canonical) \in Nat /\ DOMAIN canonical = 1 .. Len(canonical)
      /\ Len(d) \in Nat /\ Len(d) >= 1 /\ d \in Seq(Segments(d))
  BY DEF IsPath
<1>2. \A i \in 1 .. Len(canonical) : Plain(canonical[i]) \in T
  OBVIOUS
<1>3. tail \in Seq(T) /\ Len(tail) = Len(canonical)
      /\ \A i \in 1 .. Len(canonical) : tail[i] = Plain(canonical[i])
  <2> HIDE DEF T
  <2>1. tail = [i \in 1 .. Len(canonical) |-> Plain(canonical[i])]
    BY <1>1
  <2> QED BY <2>1, <1>1, <1>2
<1> HIDE DEF tail, T
<1>4. tail \in Seq(U) /\ d \in Seq(U)
  BY <1>1, <1>3
<1> HIDE DEF U
<1>5. d \o tail \in Seq(U) /\ Len(d \o tail) = Len(d) + Len(canonical)
  BY <1>1, <1>3, <1>4
<1>6. \A i \in 1 .. Len(d) : (d \o tail)[i] = d[i]
  BY <1>1, <1>3, <1>4
<1>7. ASSUME NEW i \in Len(d) + 1 .. Len(d) + Len(canonical)
      PROVE  (d \o tail)[i] = Plain(canonical[i - Len(d)])
  <2>1. (d \o tail)[i] = tail[i - Len(d)]
    BY <1>1, <1>3, <1>4
  <2>2. i - Len(d) \in 1 .. Len(canonical)
    BY <1>1
  <2> QED BY <2>1, <2>2, <1>3
<1>8. InDirectory(d, canonical) = d \o tail /\ d \o tail # <<>>
  BY <1>1, <1>5 DEF InDirectory, tail
<1> QED BY <1>5, <1>6, <1>7, <1>8, SequencesArePaths
LEMMA OwnPrefix == ASSUME NEW p, IsPath(p) PROVE IsPrefix(p, p)
BY PathSteps, PrefixSteps

LEMMA PrefixOfPrefix ==
    ASSUME NEW a, NEW b, NEW c, IsPath(a), IsPath(b), IsPath(c), IsPrefix(a, b), IsPrefix(b, c)
    PROVE  IsPrefix(a, c)
<1>1. Len(a) \in Nat /\ Len(b) \in Nat /\ Len(c) \in Nat
  BY PathSteps
<1> QED BY <1>1, PrefixSteps

LEMMA PrefixBetween ==
    ASSUME NEW a, NEW b, NEW c, IsPath(a), IsPath(b), IsPath(c), IsPrefix(a, c), IsPrefix(b, c), Len(a) <= Len(b)
    PROVE  IsPrefix(a, b)
<1>1. Len(a) \in Nat /\ Len(b) \in Nat /\ Len(c) \in Nat
  BY PathSteps
<1> QED BY <1>1, PrefixSteps

LEMMA WholePrefix ==
    ASSUME NEW a, NEW b, IsPath(a), IsPath(b), IsPrefix(a, b), Len(a) = Len(b)
    PROVE  a = b
BY PrefixSteps, SamePath

LEMMA RebasedAround ==
    ASSUME NEW p, NEW from, NEW to, IsPath(p), IsPath(from), IsPath(to),
           Len(from) = Len(to), IsPrefix(from, p)
    PROVE  /\ IsPath(Rebased(p, from, to)) /\ IsPrefix(to, Rebased(p, from, to))
           /\ Len(Rebased(p, from, to)) = Len(p)
           /\ Rebased(Rebased(p, from, to), to, from) = p
<1> DEFINE q == Rebased(p, from, to)
           r == Rebased(q, to, from)
<1>1. Len(from) <= Len(p) /\ \A i \in 1 .. Len(from) : from[i] = p[i]
  BY PrefixSteps
<1>2. /\ IsPath(q) /\ Len(q) = Len(p)
      /\ \A i \in 1 .. Len(to) : q[i] = to[i]
      /\ \A i \in Len(to) + 1 .. Len(p) : q[i] = p[i]
  BY <1>1, RebasedSteps
<1> HIDE DEF q
<1>3. IsPrefix(to, q)
  BY <1>1, <1>2, PrefixSteps
<1>4. /\ IsPath(r) /\ Len(r) = Len(q)
      /\ \A i \in 1 .. Len(from) : r[i] = from[i]
      /\ \A i \in Len(from) + 1 .. Len(q) : r[i] = q[i]
  BY <1>1, <1>2, RebasedSteps
<1> HIDE DEF r
<1>5. \A i \in 1 .. Len(r) : r[i] = p[i]
  <2>1. Len(from) \in Nat /\ Len(p) \in Nat
    BY PathSteps
  <2> QED BY <1>1, <1>2, <1>4, <2>1
<1>6. r = p
  BY <1>2, <1>4, <1>5, SamePath
<1> QED BY <1>2, <1>3, <1>6 DEF q, r

-----------------------------------------------------------------------------
(* Trees *)

HasPaths(t) == IsFiniteSet(DOMAIN t) /\ \A p \in DOMAIN t : IsPath(p)

LEMMA ImageIsFinite ==
    ASSUME NEW f, IsFiniteSet(DOMAIN f)
    PROVE  LET R == {f[x] : x \in DOMAIN f}
           IN  IsFiniteSet(R) /\ Cardinality(R) <= Cardinality(DOMAIN f)
<1> DEFINE R == {f[x] : x \in DOMAIN f}
           g == [x \in DOMAIN f |-> f[x]]
<1>1. g \in Surjection(DOMAIN f, R)
  BY DEF Surjection
<1> HIDE DEF R, g
<1> QED BY <1>1, FS_Surjection DEF R

\* A directory is renamed: what is not in it stays, and what is in it arrives.
LEMMA MovedFrom ==
    ASSUME NEW t, HasPaths(t), NEW from, NEW to, IsPath(from), IsPath(to), Len(from) = Len(to)
    PROVE  LET m == Moved(t, from, to)
           IN  /\ HasPaths(m)
               /\ \A p \in Inside(t, from) :
                    Rebased(p, from, to) \in DOMAIN m /\ m[Rebased(p, from, to)] = t[p]
               /\ \A p \in DOMAIN t : ~IsPrefix(from, p) /\ ~IsPrefix(to, p) =>
                    p \in DOMAIN m /\ m[p] = t[p]
               /\ \A q \in DOMAIN m :
                    \/ q \in DOMAIN t /\ ~IsPrefix(from, q) /\ m[q] = t[q]
                    \/ IsPrefix(to, q)
                       /\ \E p \in Inside(t, from) : q = Rebased(p, from, to) /\ m[q] = t[p]
<1> DEFINE m == Moved(t, from, to)
           arrived == {Rebased(p, from, to) : p \in Inside(t, from)}
<1>1. \A p \in Inside(t, from) :
        /\ IsPath(Rebased(p, from, to)) /\ IsPrefix(to, Rebased(p, from, to))
        /\ Rebased(Rebased(p, from, to), to, from) = p
  BY RebasedAround DEF Inside, HasPaths
<1>2. /\ DOMAIN m = (DOMAIN t \ Inside(t, from)) \cup arrived
      /\ \A q \in DOMAIN m : m[q] = IF q \in arrived THEN t[Rebased(q, to, from)] ELSE t[q]
  BY DEF Moved
<1> HIDE DEF m
<1>4. \A q \in arrived : IsPath(q) /\ IsPrefix(to, q)
  BY <1>1
<1>5. \A p \in Inside(t, from) : Rebased(p, from, to) \in DOMAIN m /\ m[Rebased(p, from, to)] = t[p]
  BY <1>1, <1>2
<1>6. \A p \in DOMAIN t : ~IsPrefix(from, p) /\ ~IsPrefix(to, p) => p \in DOMAIN m /\ m[p] = t[p]
  BY <1>2, <1>4 DEF Inside
<1>7. \A q \in DOMAIN m : q \in arrived \/ (q \in DOMAIN t /\ ~IsPrefix(from, q) /\ q \notin arrived)
  BY <1>2 DEF Inside
<1>8. IsFiniteSet(DOMAIN m)
  <2> DEFINE f == [p \in Inside(t, from) |-> Rebased(p, from, to)]
  <2>1. IsFiniteSet(Inside(t, from)) /\ IsFiniteSet(DOMAIN t \ Inside(t, from))
    BY FS_Subset, FS_Difference DEF HasPaths, Inside
  <2>2. DOMAIN f = Inside(t, from) /\ arrived = {f[x] : x \in DOMAIN f}
    OBVIOUS
  <2> HIDE DEF f, arrived
  <2>3. IsFiniteSet(arrived)
    BY <2>1, <2>2, ImageIsFinite
  <2> QED BY <2>1, <2>3, <1>2, FS_Union
<1>9. HasPaths(m)
  BY <1>4, <1>7, <1>8 DEF HasPaths
<1> QED BY <1>2, <1>4, <1>5, <1>6, <1>7, <1>9 DEF m

LEMMA WithNode ==
    ASSUME NEW t, HasPaths(t), NEW p, IsPath(p), NEW node
    PROVE  /\ HasPaths(With(t, p, node)) /\ DOMAIN With(t, p, node) = DOMAIN t \cup {p}
           /\ With(t, p, node)[p] = node
           /\ \A q \in DOMAIN t : q # p => With(t, p, node)[q] = t[q]
BY FS_AddElement DEF With, HasPaths

LEMMA WithoutNodes ==
    ASSUME NEW t, HasPaths(t), NEW d
    PROVE  /\ HasPaths(Without(t, d))
           /\ DOMAIN Without(t, d) = {p \in DOMAIN t : ~IsPrefix(d, p)}
           /\ \A q \in DOMAIN t : ~IsPrefix(d, q) => Without(t, d)[q] = t[q]
<1>1. DOMAIN Without(t, d) = {p \in DOMAIN t : ~IsPrefix(d, p)}
  BY DEF Without, Restrict, Inside
<1>2. IsFiniteSet({p \in DOMAIN t : ~IsPrefix(d, p)})
  BY FS_Subset DEF HasPaths
<1> QED BY <1>1, <1>2 DEF Without, Restrict, HasPaths, Inside

LEMMA OneNodeLess ==
    ASSUME NEW t, HasPaths(t), NEW p
    PROVE  LET r == Restrict(t, DOMAIN t \ {p})
           IN  HasPaths(r) /\ DOMAIN r = DOMAIN t \ {p} /\ \A q \in DOMAIN r : r[q] = t[q]
BY FS_Difference DEF Restrict, HasPaths

LEMMA SequenceOfSet ==
    ASSUME NEW S, IsFiniteSet(S)
    PROVE  SetToSeq(S) \in Seq(S)
<1>1. PICK f : f \in Bijection(1 .. Cardinality(S), S)
  BY FS_CardinalityType DEF ExistsBijection
<1>2. f \in [1 .. Cardinality(S) -> S] /\ IsInjective(f)
  BY <1>1 DEF Bijection, Injection
<1>3. SetToSeq(S) \in [1 .. Cardinality(S) -> S]
  BY <1>2 DEF SetToSeq
<1> QED BY <1>3, FS_CardinalityType

-----------------------------------------------------------------------------
(* Members *)

\* The members listed after n entries are the files among them, each at a place of its own.
Listed(members, entries, n) ==
    /\ Len(members) \in Nat /\ members \in Seq({entries[i] : i \in 1 .. n})
    /\ \E place \in [1 .. Len(members) -> 1 .. n] :
         /\ \A j \in 1 .. Len(members) :
              members[j] = entries[place[j]] /\ entries[place[j]].kind = "file"
         /\ \A j, k \in 1 .. Len(members) : place[j] = place[k] => j = k
         /\ \A i \in 1 .. n : entries[i].kind = "file" => \E j \in 1 .. Len(members) : place[j] = i

LEMMA ListedOneMore ==
    ASSUME NEW entries, NEW n \in Nat, n # 0, NEW members, Listed(members, entries, n - 1)
    PROVE  Listed(IF entries[n].kind = "file" THEN Append(members, entries[n]) ELSE members,
                  entries, n)
<1> DEFINE S == {entries[i] : i \in 1 .. n - 1}
           T == {entries[i] : i \in 1 .. n}
           len == Len(members)
<1>1. S \subseteq T /\ entries[n] \in T
  OBVIOUS
<1>2. len \in Nat /\ members \in Seq(S)
  BY DEF Listed
<1>3. members \in Seq(T)
  <2> HIDE DEF S, T
  <2> QED BY <1>1, <1>2, WiderSequences
<1>4. PICK place \in [1 .. len -> 1 .. n - 1] :
        /\ \A j \in 1 .. len : members[j] = entries[place[j]] /\ entries[place[j]].kind = "file"
        /\ \A j, k \in 1 .. len : place[j] = place[k] => j = k
        /\ \A i \in 1 .. n - 1 : entries[i].kind = "file" => \E j \in 1 .. len : place[j] = i
  BY DEF Listed
<1>5. CASE entries[n].kind # "file"
  <2>1. place \in [1 .. len -> 1 .. n]
    BY <1>4
  <2>2. \A i \in 1 .. n : entries[i].kind = "file" => i \in 1 .. n - 1
    BY <1>5
  <2>3. \A i \in 1 .. n : entries[i].kind = "file" => \E j \in 1 .. len : place[j] = i
    BY <1>4, <2>2
  <2>4. Listed(members, entries, n)
    <3> HIDE DEF S
    <3> QED BY <1>2, <1>3, <1>4, <2>1, <2>3 DEF Listed
  <2> QED BY <1>5, <2>4
<1>6. CASE entries[n].kind = "file"
  <2> DEFINE more == Append(members, entries[n])
             after == [j \in 1 .. len + 1 |-> IF j = len + 1 THEN n ELSE place[j]]
  <2> HIDE DEF S, T
  <2>1. more \in Seq(T) /\ Len(more) = len + 1 /\ more[len + 1] = entries[n]
        /\ \A j \in 1 .. len : more[j] = members[j]
    BY <1>1, <1>2, <1>3
  <2>2. after \in [1 .. len + 1 -> 1 .. n]
    BY <1>2, <1>4
  <2>3. \A j \in 1 .. len : after[j] = place[j] /\ after[j] \in 1 .. n - 1
    BY <1>2, <1>4
  <2>4. after[len + 1] = n
    BY <1>2
  <2> HIDE DEF more, after
  <2>5. \A j \in 1 .. len + 1 : j = len + 1 \/ j \in 1 .. len
    BY <1>2
  <2>6. \A j \in 1 .. len + 1 : more[j] = entries[after[j]] /\ entries[after[j]].kind = "file"
    BY <1>4, <1>6, <2>1, <2>3, <2>4, <2>5
  <2>7. \A j, k \in 1 .. len + 1 : after[j] = after[k] => j = k
    <3>1. \A j \in 1 .. len : after[j] # n
      BY <2>3
    <3> QED BY <1>4, <2>3, <2>4, <2>5, <3>1
  <2>8. \A i \in 1 .. n : entries[i].kind = "file" => \E j \in 1 .. len + 1 : after[j] = i
    <3>1. \A i \in 1 .. n : i = n \/ i \in 1 .. n - 1
      OBVIOUS
    <3>2. len + 1 \in 1 .. len + 1 /\ 1 .. len \subseteq 1 .. len + 1
      BY <1>2
    <3> QED BY <1>4, <2>3, <2>4, <3>1, <3>2
  <2>9. Listed(more, entries, n)
    <3>1. Len(more) \in Nat /\ more \in Seq({entries[i] : i \in 1 .. n})
      BY <1>2, <2>1 DEF T
    <3>2. Len(more) = len + 1
      BY <2>1
    <3>3. \E at2 \in [1 .. Len(more) -> 1 .. n] :
            /\ \A j \in 1 .. Len(more) :
                 more[j] = entries[at2[j]] /\ entries[at2[j]].kind = "file"
            /\ \A j, k \in 1 .. Len(more) : at2[j] = at2[k] => j = k
            /\ \A i \in 1 .. n : entries[i].kind = "file" => \E j \in 1 .. Len(more) : at2[j] = i
      <4> HIDE DEF len
      <4> after \in [1 .. Len(more) -> 1 .. n]
        BY <2>2, <3>2
      <4> WITNESS after \in [1 .. Len(more) -> 1 .. n]
      <4> QED BY <2>6, <2>7, <2>8, <3>2
    <3> QED BY <3>1, <3>3 DEF Listed
  <2> QED BY <1>6, <2>9 DEF more
<1> QED BY <1>5, <1>6

LEMMA WalkIsListed ==
    ASSUME NEW T, NEW entries, Len(entries) \in Nat,
           \A i \in 1 .. Len(entries) : IsEntry(entries[i], T),
           NEW w, IsWalk(w, "inspect", Nothing, entries)
    PROVE  Listed(w[Len(entries)].members, entries, Len(entries))
<1> DEFINE len == Len(entries)
           N == {n \in 0 .. len : Listed(w[n].members, entries, n)}
<1>1. \A n \in 0 .. len : Noted(w[n], entries, n)
  BY WalkIsNoted
<1>2. 0 \in N
  <2>1. w[0].members = <<>>
    BY DEF IsWalk, Nothing
  <2>2. \A i : i \notin 1 .. 0
    OBVIOUS
  <2>3. <<>> \in [1 .. 0 -> 1 .. 0] /\ Len(<<>>) = 0 /\ <<>> \in Seq({entries[i] : i \in 1 .. 0})
    OBVIOUS
  <2>4. \A i : i \notin 1 .. Len(<<>>)
    BY <2>2, <2>3
  <2>5. \E place \in [1 .. Len(<<>>) -> 1 .. 0] :
          /\ \A j \in 1 .. Len(<<>>) :
               <<>>[j] = entries[place[j]] /\ entries[place[j]].kind = "file"
          /\ \A j, k \in 1 .. Len(<<>>) : place[j] = place[k] => j = k
          /\ \A i \in 1 .. 0 : entries[i].kind = "file" => \E j \in 1 .. Len(<<>>) : place[j] = i
    BY <2>2, <2>3, <2>4
  <2>6. Listed(<<>>, entries, 0)
    BY <2>3, <2>5 DEF Listed
  <2>7. 0 \in 0 .. len
    OBVIOUS
  <2> QED BY <2>1, <2>6, <2>7
<1>3. ASSUME NEW n \in 1 .. len, n - 1 \in N PROVE n \in N
  <2>1. w[n] = InspectEntry(w[n - 1], entries[n])
    BY <1>3 DEF IsWalk, FoldStep
  <2>2. n - 1 \in 0 .. len /\ n \in Nat /\ n # 0
    BY <1>3
  <2>3. Tallied(w[n - 1])
    BY <1>1, <2>2 DEF Noted
  <2>4. w[n].members = IF entries[n].kind = "file" THEN Append(w[n - 1].members, entries[n])
                       ELSE w[n - 1].members
    BY <2>1, <2>3, InspectFields
  <2>5. Listed(w[n - 1].members, entries, n - 1)
    BY <1>3
  <2>6. Listed(w[n].members, entries, n)
    BY <2>2, <2>4, <2>5, ListedOneMore
  <2> QED BY <1>3, <2>6
<1> HIDE DEF N
<1>4. \A n \in 0 .. len : n \in N
  BY <1>2, <1>3, Induction
<1> QED BY <1>4 DEF N

\* What is known of an entry that is expanded.
IsMember(e) ==
    /\ Canonical(e) # <<>> /\ \E S : Canonical(e) \in Seq(S)
    /\ FileNameOf(e) \in Archives => e.holds \in Contents

LEMMA KeysOfFronts ==
    ASSUME NEW S, NEW d, NEW e, IsEntry(d, S), IsEntry(e, S), Lands(d.name), Lands(e.name),
           IsPrefix(Canonical(d), Canonical(e))
    PROVE  IsPrefix(KeyOf(d), KeyOf(e))
<1> DEFINE a == Canonical(d)
           b == Canonical(e)
<1>1. IsPath(a) /\ IsPath(b)
  <2>1. /\ a \in Seq(S \cup {Gap}) /\ a # <<>>
        /\ b \in Seq(S \cup {Gap}) /\ b # <<>>
    BY CanonicalSteps, PathsThatLand DEF IsEntry, Canonical
  <2> QED BY <2>1, SequencesArePaths
<1>2. KeyOf(d) = [i \in DOMAIN a |-> FoldOf(a[i])] /\ KeyOf(e) = [i \in DOMAIN b |-> FoldOf(b[i])]
  BY DEF KeyOf, MemberCollisionKey
<1>3. IsPath(KeyOf(d)) /\ IsPath(KeyOf(e))
  BY KeysAreSteps, SequencesArePaths
<1> HIDE DEF a, b
<1>4. Len(a) <= Len(b) /\ \A i \in 1 .. Len(a) : a[i] = b[i]
  BY <1>1, PrefixSteps DEF a, b
<1>5. /\ Len(a) \in Nat /\ Len(b) \in Nat /\ DOMAIN a = 1 .. Len(a) /\ DOMAIN b = 1 .. Len(b)
      /\ Len(KeyOf(d)) \in Nat /\ DOMAIN KeyOf(d) = 1 .. Len(KeyOf(d))
      /\ Len(KeyOf(e)) \in Nat /\ DOMAIN KeyOf(e) = 1 .. Len(KeyOf(e))
  BY <1>1, <1>3, PathSteps
<1>6. Len(KeyOf(d)) = Len(a) /\ Len(KeyOf(e)) = Len(b)
  <2>1. DOMAIN KeyOf(d) = DOMAIN a /\ DOMAIN KeyOf(e) = DOMAIN b
    BY <1>2
  <2>2. 1 .. Len(KeyOf(d)) = 1 .. Len(a) /\ 1 .. Len(KeyOf(e)) = 1 .. Len(b)
    BY <1>5, <2>1
  <2>3. \A m, n \in Nat : 1 .. m = 1 .. n => m = n
    OBVIOUS
  <2> QED BY <1>5, <2>2, <2>3
<1>7. \A i \in 1 .. Len(a) : i \in DOMAIN a /\ i \in DOMAIN b
  BY <1>4, <1>5
<1>8. \A i \in 1 .. Len(a) : KeyOf(d)[i] = KeyOf(e)[i]
  BY <1>2, <1>4, <1>7
<1> QED BY <1>3, <1>4, <1>6, <1>8, PrefixSteps

LEMMA AcceptedMembers ==
    ASSUME NEW c \in Contents, NEW depth \in 0 .. Policy.depth, Verdicts[c][depth].accepted
    PROVE  LET ms == Verdicts[c][depth].members
           IN  /\ Len(ms) \in Nat
               /\ \A j \in 1 .. Len(ms) :
                    /\ IsMember(ms[j])
                    /\ \E i \in DOMAIN Directory[c] : ms[j] = Directory[c][i]
               /\ \A i \in DOMAIN Directory[c] : Directory[c][i].kind = "file" =>
                    \E j \in 1 .. Len(ms) : ms[j] = Directory[c][i]
               /\ \A j, k \in 1 .. Len(ms) : j # k => ~IsPrefix(Canonical(ms[j]), Canonical(ms[k]))
<1> DEFINE D == Directory[c]
           acc == FoldLeft(InspectEntry, Nothing, D)
           size == Size[c]
<1>1. Len(D) \in Nat /\ DOMAIN D = 1 .. Len(D)
  BY DirectoryAssumption
<1>2. \E T : \A i \in DOMAIN D : IsEntry(D[i], T)
  BY DirectoryAssumption DEF IsEntry
<1>3. PICK T : \A i \in DOMAIN D : IsEntry(D[i], T)
  BY <1>2
<1>4. size \in Nat /\ depth \in Nat
  <2>1. Policy.depth \in Nat
    BY PolicyAssumption
  <2> QED BY <2>1, ContentsAssumption
<1>5. Verdicts[c][depth] = PreflightArchive(D, depth, size)
  BY DEF Verdicts
<1>6. PreflightArchive(D, depth, size).members = acc.members
  BY DEF PreflightArchive
<1>7. /\ \A i \in DOMAIN D : Lands(D[i].name)
      /\ \A i, j \in DOMAIN D : i # j => Apart(D[i], D[j])
  <2>1. AcceptsWhatIsSafe(D, depth, size)
    <3> HIDE DEF D, size
    <3> QED BY <1>1, <1>3, <1>4, PreflightIsRight
  <2>2. PreflightArchive(D, depth, size).accepted
    BY <1>5
  <2> HIDE DEF D, size
  <2> QED BY <2>1, <2>2 DEF AcceptsWhatIsSafe
<1> HIDE DEF D, acc, size
<1>8. PICK w : IsWalk(w, "inspect", Nothing, D) /\ acc = w[Len(D)]
  BY <1>1, InspectWalk DEF acc
<1>9. Listed(acc.members, D, Len(D))
  BY <1>1, <1>3, <1>8, WalkIsListed
<1> DEFINE ms == Verdicts[c][depth].members
<1>10. ms = acc.members
  BY <1>5, <1>6
<1> HIDE DEF ms
<1>11. PICK place \in [1 .. Len(ms) -> 1 .. Len(D)] :
         /\ \A j \in 1 .. Len(ms) : ms[j] = D[place[j]] /\ D[place[j]].kind = "file"
         /\ \A j, k \in 1 .. Len(ms) : place[j] = place[k] => j = k
         /\ \A i \in 1 .. Len(D) : D[i].kind = "file" => \E j \in 1 .. Len(ms) : place[j] = i
  <2>1. Listed(ms, D, Len(D))
    BY <1>9, <1>10
  <2> QED BY <2>1 DEF Listed
<1>12. Len(ms) \in Nat
  BY <1>9, <1>10 DEF Listed
<1>13. \A j \in 1 .. Len(ms) : place[j] \in DOMAIN D
  BY <1>1, <1>11
<1>17. \A j \in 1 .. Len(ms) : IsEntry(ms[j], T) /\ Lands(ms[j].name)
  <2>1. ASSUME NEW j \in 1 .. Len(ms) PROVE IsEntry(ms[j], T) /\ Lands(ms[j].name)
    <3>1. ms[j] = D[place[j]]
      BY <1>11
    <3>2. place[j] \in DOMAIN D
      BY <1>13
    <3>3. IsEntry(D[place[j]], T) /\ Lands(D[place[j]].name)
      BY <1>3, <1>7, <3>2
    <3> QED BY <3>1, <3>3, Zenon
  <2> QED BY <2>1
<1>18. \A j \in 1 .. Len(ms) : \E i \in DOMAIN D : ms[j] = D[i]
  BY <1>11, <1>13
<1>14. ASSUME NEW j \in 1 .. Len(ms) PROVE IsMember(ms[j])
  <2>1. IsEntry(ms[j], T) /\ Lands(ms[j].name)
    BY <1>17
  <2>2. Canonical(ms[j]) # <<>> /\ Canonical(ms[j]) \in Seq(T \cup {Gap})
    BY <2>1, CanonicalSteps, PathsThatLand DEF IsEntry, Canonical
  <2>3. FileNameOf(ms[j]) \in Archives => ms[j].holds \in Contents
    BY <1>11, <1>13, DirectoryAssumption DEF D
  <2> QED BY <2>2, <2>3 DEF IsMember
<1>15. ASSUME NEW i \in DOMAIN D, D[i].kind = "file" PROVE \E j \in 1 .. Len(ms) : ms[j] = D[i]
  BY <1>1, <1>11, <1>15
<1>16. ASSUME NEW j \in 1 .. Len(ms), NEW k \in 1 .. Len(ms), j # k
       PROVE  ~IsPrefix(Canonical(ms[j]), Canonical(ms[k]))
  <2>1. place[j] # place[k]
    BY <1>11, <1>16
  <2>2. Apart(ms[j], ms[k]) /\ ms[j].kind = "file"
    <3>1. ms[j] = D[place[j]] /\ ms[k] = D[place[k]] /\ D[place[j]].kind = "file"
      BY <1>11
    <3>2. place[j] \in DOMAIN D /\ place[k] \in DOMAIN D
      BY <1>13
    <3>3. Apart(D[place[j]], D[place[k]])
      BY <1>7, <2>1, <3>2, Zenon
    <3> QED BY <3>1, <3>3, Zenon
  <2>3. ~IsPrefix(KeyOf(ms[j]), KeyOf(ms[k]))
    BY <2>2 DEF Apart, KeyOf, Canonical
  <2>4. IsEntry(ms[j], T) /\ IsEntry(ms[k], T) /\ Lands(ms[j].name) /\ Lands(ms[k].name)
    BY <1>17
  <2> QED BY <2>3, <2>4, KeysOfFronts
<1> QED BY <1>12, <1>14, <1>15, <1>16, <1>18 DEF D, ms

-----------------------------------------------------------------------------
(* The tree and the queue *)

LastName(p) == p[Len(p)].name

IsNode(n) == n = Node(n.kind, n.of, n.whose)

TypedTree(t) ==
    /\ HasPaths(t)
    /\ \A p \in DOMAIN t :
         /\ IsNode(t[p])
         /\ t[p].kind = "zip" => LastName(p) \in Archives /\ t[p].of \in Contents

IsVisit(v) == IsPath(v.path) /\ LastName(v.path) \in Archives /\ v.depth \in 0 .. Policy.depth

Busy      == pc \notin {"idle", "take"}
Placed    == pc \in {"write", "check", "out", "in"}
Admitted  == pc \in {"verify", "prepare", "write", "check", "out", "in", "drop", "record"}

RunInv ==
    /\ pc \in Places /\ runs \in Nat /\ strays \in Nat
    /\ TypedTree(tree)
    /\ pc # "idle" => \E S : queue \in Seq(S) /\ \A v \in S : IsVisit(v)
    /\ Busy => IsVisit(at)
    /\ Admitted \/ pc = "admit" => staged \in Contents
    /\ Admitted => Preflight.accepted
    /\ pc \in {"stage", "admit", "prepare"} => written = 0
    /\ Placed => written \in Nat /\ written <= Len(Members)

LEMMA PolicyDepth == Policy.depth \in Nat
  BY PolicyAssumption

\* Where an extraction, what is written of it, and what it replaces stand.
LEMMA AtPlace ==
    ASSUME IsPath(at.path)
    PROVE  /\ IsPath(Target) /\ IsPath(Candidate) /\ IsPath(Previous)
           /\ Len(at.path) \in Nat /\ Len(at.path) >= 1
           /\ Len(Target) = Len(at.path) /\ Len(Candidate) = Len(at.path)
           /\ Len(Previous) = Len(at.path)
           /\ \A i \in 1 .. Len(at.path) - 1 :
                Target[i] = at.path[i] /\ Candidate[i] = at.path[i] /\ Previous[i] = at.path[i]
           /\ Target[Len(at.path)] = Plain(ExtractDir[LastName(at.path)])
           /\ Candidate[Len(at.path)] = [name |-> LastName(Target), mark |-> "candidate", run |-> runs]
           /\ Previous[Len(at.path)] = [name |-> LastName(Target), mark |-> "previous", run |-> runs]
           /\ Target[Len(at.path)].mark = "plain"
<1>1. Len(at.path) \in Nat /\ Len(at.path) >= 1
  BY PathSteps
<1>2. /\ IsPath(Target) /\ Len(Target) = Len(at.path)
      /\ \A i \in 1 .. Len(at.path) - 1 : Target[i] = at.path[i]
      /\ Target[Len(at.path)] = Plain(ExtractDir[LastName(at.path)])
  BY ExtractDirSteps DEF Target, LastName
<1>3. \A mark :
        /\ IsPath(Beside(Target, mark)) /\ Len(Beside(Target, mark)) = Len(at.path)
        /\ \A i \in 1 .. Len(at.path) - 1 : Beside(Target, mark)[i] = Target[i]
        /\ Beside(Target, mark)[Len(at.path)] = [name |-> LastName(Target), mark |-> mark, run |-> runs]
  BY <1>2, BesideSteps DEF LastName
<1>4. Plain(ExtractDir[LastName(at.path)]).mark = "plain"
  BY DEF Plain
<1> QED BY <1>1, <1>2, <1>3, <1>4 DEF Candidate, Previous

LEMMA MembersKnown ==
    ASSUME staged \in Contents, IsVisit(at), Preflight.accepted
    PROVE  /\ Len(Members) \in Nat
           /\ \A j \in 1 .. Len(Members) :
                /\ IsMember(Members[j])
                /\ \E i \in DOMAIN Directory[staged] : Members[j] = Directory[staged][i]
           /\ \A i \in DOMAIN Directory[staged] : Directory[staged][i].kind = "file" =>
                \E j \in 1 .. Len(Members) : Members[j] = Directory[staged][i]
           /\ \A j, k \in 1 .. Len(Members) : j # k =>
                ~IsPrefix(Canonical(Members[j]), Canonical(Members[k]))
BY AcceptedMembers DEF IsVisit, Preflight, Members

LEMMA MemberPath ==
    ASSUME NEW d, IsPath(d), NEW e, IsMember(e)
    PROVE  /\ IsPath(PathIn(d, e)) /\ IsPrefix(d, PathIn(d, e))
           /\ Len(PathIn(d, e)) = Len(d) + Len(Canonical(e)) /\ Len(Canonical(e)) \in Nat
           /\ Len(PathIn(d, e)) > Len(d) /\ LastName(PathIn(d, e)) = FileNameOf(e)
           /\ \A i \in Len(d) + 1 .. Len(PathIn(d, e)) : PathIn(d, e)[i] = Plain(Canonical(e)[i - Len(d)])
<1>1. PICK S : Canonical(e) \in Seq(S) /\ Canonical(e) # <<>>
  BY DEF IsMember
<1> DEFINE c == Canonical(e)
           q == PathIn(d, e)
<1>2. q = InDirectory(d, c)
  BY DEF PathIn, Canonical
<1>3. Len(c) \in Nat /\ Len(c) >= 1
  <2> HIDE DEF c
  <2> QED BY <1>1 DEF c
<1>4. /\ IsPath(q) /\ Len(q) = Len(d) + Len(c)
      /\ \A i \in 1 .. Len(d) : q[i] = d[i]
      /\ \A i \in Len(d) + 1 .. Len(q) : q[i] = Plain(c[i - Len(d)])
  BY <1>1, <1>2, InDirectorySteps
<1>5. Len(d) \in Nat
  BY PathSteps
<1> HIDE DEF q, c
<1>6. Len(d) <= Len(q) /\ Len(q) > Len(d) /\ Len(q) \in Len(d) + 1 .. Len(q) /\ Len(q) - Len(d) = Len(c)
  BY <1>3, <1>4, <1>5
<1>7. IsPrefix(d, q)
  BY <1>4, <1>6, PrefixSteps
<1>8. LastName(q) = c[Len(c)]
  <2>1. q[Len(q)] = Plain(c[Len(q) - Len(d)])
    BY <1>4, <1>6
  <2>2. Plain(c[Len(c)]).name = c[Len(c)]
    BY DEF Plain
  <2> QED BY <1>6, <2>1, <2>2 DEF LastName
<1>9. FileNameOf(e) = c[Len(c)]
  BY DEF FileNameOf, Last, c, Canonical
<1> QED BY <1>3, <1>4, <1>6, <1>7, <1>8, <1>9 DEF q, c

LEMMA TypedWith ==
    ASSUME NEW t, TypedTree(t), NEW p, IsPath(p), NEW node,
           IsNode(node),
           node.kind = "zip" => LastName(p) \in Archives /\ node.of \in Contents
    PROVE  TypedTree(With(t, p, node))
<1> DEFINE w == With(t, p, node)
<1>1. /\ HasPaths(w) /\ DOMAIN w = DOMAIN t \cup {p} /\ w[p] = node
      /\ \A q \in DOMAIN t : q # p => w[q] = t[q]
  <2>1. HasPaths(t)
    BY DEF TypedTree
  <2>2. HasPaths(w)
    BY <2>1, WithNode
  <2>3. DOMAIN w = DOMAIN t \cup {p}
    BY <2>1, WithNode
  <2>4. w[p] = node
    BY DEF With
  <2>5. \A q \in DOMAIN t : q # p => w[q] = t[q]
    BY DEF With
  <2> QED BY <2>2, <2>3, <2>4, <2>5
<1> HIDE DEF w
<1> QED BY <1>1 DEF TypedTree, w

LEMMA TypedWithout == ASSUME NEW t, TypedTree(t), NEW d PROVE TypedTree(Without(t, d))
<1> DEFINE w == Without(t, d)
<1>1. /\ HasPaths(w) /\ DOMAIN w = {p \in DOMAIN t : ~IsPrefix(d, p)}
      /\ \A q \in DOMAIN t : ~IsPrefix(d, q) => w[q] = t[q]
  BY WithoutNodes DEF TypedTree
<1> HIDE DEF w
<1> QED BY <1>1 DEF TypedTree, w

LEMMA TypedMoved ==
    ASSUME NEW t, TypedTree(t), NEW from, NEW to, IsPath(from), IsPath(to), Len(from) = Len(to),
           LastName(from) = LastName(to)
    PROVE  TypedTree(Moved(t, from, to))
<1> DEFINE m == Moved(t, from, to)
<1>1. /\ HasPaths(m)
      /\ \A q \in DOMAIN m :
           \/ q \in DOMAIN t /\ m[q] = t[q]
           \/ \E p \in Inside(t, from) : q = Rebased(p, from, to) /\ m[q] = t[p]
  BY MovedFrom DEF TypedTree
<1>2. ASSUME NEW p \in Inside(t, from) PROVE LastName(Rebased(p, from, to)) = LastName(p)
  <2>1. p \in DOMAIN t /\ IsPath(p) /\ IsPrefix(from, p)
    BY DEF Inside, TypedTree, HasPaths
  <2>2. Len(from) <= Len(p) /\ \A i \in 1 .. Len(from) : from[i] = p[i]
    BY <2>1, PrefixSteps
  <2>3. /\ Len(Rebased(p, from, to)) = Len(p)
        /\ \A i \in 1 .. Len(to) : Rebased(p, from, to)[i] = to[i]
        /\ \A i \in Len(to) + 1 .. Len(p) : Rebased(p, from, to)[i] = p[i]
    BY <2>1, <2>2, RebasedSteps
  <2>4. Len(p) \in Nat /\ Len(from) \in Nat /\ Len(from) >= 1
    BY <2>1, PathSteps
  <2>5. CASE Len(p) = Len(from)
    BY <2>2, <2>3, <2>4, <2>5 DEF LastName
  <2>6. CASE Len(p) > Len(from)
    BY <2>3, <2>4, <2>6 DEF LastName
  <2> QED BY <2>2, <2>4, <2>5, <2>6
<1> HIDE DEF m
<1>3. ASSUME NEW q \in DOMAIN m
      PROVE  /\ IsNode(m[q])
             /\ m[q].kind = "zip" => LastName(q) \in Archives /\ m[q].of \in Contents
  BY <1>1, <1>2, <1>3 DEF TypedTree, Inside
<1> QED BY <1>1, <1>3 DEF TypedTree, m

\* The queue holds visits, and so does what a walk or an expansion adds.
LEMMA QueuedVisits ==
    ASSUME TypedTree(tree), NEW paths \in SUBSET DOMAIN tree, \A p \in paths : IsZip(tree, p),
           NEW depth \in 0 .. Policy.depth
    PROVE  \E S : Queued(paths, depth) \in Seq(S) /\ \A v \in S : IsVisit(v) /\ v.path \in paths
<1> DEFINE S == {[path |-> p, depth |-> depth] : p \in paths}
           f == [p \in paths |-> [path |-> p, depth |-> depth]]
<1>1. IsFiniteSet(paths)
  BY FS_Subset DEF TypedTree, HasPaths
<1>2. IsFiniteSet(S)
  <2>1. DOMAIN f = paths /\ S = {f[x] : x \in DOMAIN f}
    OBVIOUS
  <2> HIDE DEF f, S
  <2> QED BY <1>1, <2>1, ImageIsFinite
<1>3. \A v \in S : IsVisit(v) /\ v.path \in paths
  BY DEF IsVisit, TypedTree, HasPaths, IsZip
<1>4. Queued(paths, depth) \in Seq(S)
  BY <1>2, SequenceOfSet DEF Queued
<1> HIDE DEF S
<1> QED BY <1>3, <1>4

LEMMA RunSteps == RunInv /\ [ExpansionNext]_expansionVars => RunInv'
<1> SUFFICES ASSUME RunInv, [ExpansionNext]_expansionVars PROVE RunInv'
  OBVIOUS
<1> USE DEF RunInv, Goto, Places, Placed, Busy, Admitted, budget, visit, source, oracle, bounds
<1> DEFINE Same == UNCHANGED <<tree, runs, strays>>
           Stay == UNCHANGED <<queue, at, staged, written>>
<1>a. Busy => IsPath(at.path)
  BY DEF IsVisit
<1>b. ASSUME Busy
      PROVE  /\ TypedTree(Without(tree, Candidate))
             /\ TypedTree(With(tree, Candidate, Node("dir", staged, None)))
  <2>1. IsPath(Candidate)
    BY <1>a, <1>b, AtPlace
  <2> DEFINE node == Node("dir", staged, None)
  <2>2. node.kind # "zip" /\ IsNode(node)
    BY DEF Node, IsNode
  <2> HIDE DEF node
  <2>3. TypedTree(With(tree, Candidate, node))
    BY <2>1, <2>2, TypedWith
  <2> QED BY <2>3, TypedWithout DEF node
<1>c. UNCHANGED <<at, staged>> => Preflight' = Preflight /\ Members' = Members
  BY DEF Preflight, Members
<1>1. CASE \E observe \in BOOLEAN : Start(observe)
  <2>1. PICK observe \in BOOLEAN : Start(observe)
    BY <1>1
  <2>2. \E S : queue' \in Seq(S) /\ \A v \in S : IsVisit(v) /\ v.path \in FindArchives(tree)
    <3>1. FindArchives(tree) \subseteq DOMAIN tree /\ \A p \in FindArchives(tree) : IsZip(tree, p)
      BY DEF FindArchives
    <3>2. 0 \in 0 .. Policy.depth
      BY PolicyDepth
    <3> QED BY <2>1, <3>1, <3>2, QueuedVisits DEF Start
  <2> QED BY <2>1, <2>2 DEF Start, Unless
<1>2. CASE Finish
  BY <1>2 DEF Finish
<1>3. CASE Take
  <2>1. PICK S : queue \in Seq(S) /\ \A v \in S : IsVisit(v)
    BY <1>3 DEF Take
  <2>2. Tail(queue) \in Seq(S) /\ Head(queue) \in S
    BY <1>3, <2>1 DEF Take
  <2>3. \E T : queue' \in Seq(T) /\ \A v \in T : IsVisit(v)
    BY <1>3, <2>1, <2>2 DEF Take
  <2>4. CASE Head(queue).path \in seen
    BY <1>3, <2>3, <2>4 DEF Take
  <2>5. CASE Head(queue).path \notin seen
    BY <1>3, <2>1, <2>2, <2>3, <2>5 DEF Take
  <2> QED BY <2>4, <2>5
<1>4. CASE Stage
  <2>1. tree[at.path].of \in Contents
    BY <1>4 DEF Stage, IsZip, TypedTree
  <2> QED BY <1>4, <2>1 DEF Stage, Hold
<1>5. CASE Admit
  BY <1>5, <1>c DEF Admit, Hold
<1>6. CASE Verify
  <2>1. pc = "verify" /\ UNCHANGED <<tree, runs, strays, queue, at, staged>>
        /\ pc' \in {"verify", "take"}
    BY <1>6 DEF Verify, Foretell, Hold
  <2> QED BY <2>1, <1>c
<1>7. CASE Prepare
  <2>1. pc = "prepare" /\ UNCHANGED <<runs, strays, queue, at, staged, written>>
    BY <1>7 DEF Prepare, Throw, HoldCandidate
  <2>2. \/ pc' \in {"idle", "take"} /\ tree' = Without(tree, Candidate)
        \/ pc' = "write" /\ tree' = With(tree, Candidate, Node("dir", staged, None))
    BY <1>7 DEF Prepare, Throw, HoldCandidate, Cleaned
  <2>3. Len(Members) \in Nat
    BY <2>1, MembersKnown
  <2> QED BY <2>1, <2>2, <2>3, <1>b, <1>c
<1>8. CASE Write
  <2> DEFINE e == Members[written + 1]
             piece == Piece(Snapshot, e)
  <2>1. pc = "write" /\ UNCHANGED <<runs, strays, queue, at, staged>>
    BY <1>8 DEF Write, HoldCandidate
  <2>2. \/ pc' = "take" /\ tree' = Without(tree, Candidate)
        \/ /\ pc' = "write" /\ written' = written + 1
           /\ tree' = With(tree, PathIn(Candidate, e), piece)
    BY <1>8 DEF Write, HoldCandidate, Cleaned
  <2>3. Len(Members) \in Nat /\ written < Len(Members) /\ IsMember(e)
    BY <1>8, <2>1, MembersKnown DEF Write
  <2>4. IsPath(PathIn(Candidate, e)) /\ LastName(PathIn(Candidate, e)) = FileNameOf(e)
    BY <1>a, <2>1, <2>3, AtPlace, MemberPath
  <2>5. /\ IsNode(piece)
        /\ piece.kind = "zip" => FileNameOf(e) \in Archives /\ piece.of \in Contents
    BY <2>3 DEF Piece, Node, IsNode, IsMember
  <2> HIDE DEF e, piece
  <2>6. TypedTree(With(tree, PathIn(Candidate, e), piece))
    BY <2>4, <2>5, TypedWith
  <2> QED BY <2>1, <2>2, <2>3, <2>6, <1>b, <1>c
<1>9. CASE Mark
  <2>1. pc = "write" /\ pc' = "check" /\ UNCHANGED <<runs, strays, queue, at, staged, written>>
        /\ tree' = [tree EXCEPT ![Candidate].whose = Last(at.path).name]
    BY <1>9 DEF Mark
  <2>2. TypedTree(tree')
    <3>1. DOMAIN tree' = DOMAIN tree /\ \A p \in DOMAIN tree : p # Candidate => tree'[p] = tree[p]
      BY <2>1
    <3>2. ASSUME Candidate \in DOMAIN tree
          PROVE  tree'[Candidate] = Node(tree[Candidate].kind, tree[Candidate].of, Last(at.path).name)
      BY <2>1, <3>2 DEF TypedTree, IsNode, Node
    <3>3. ASSUME NEW p \in DOMAIN tree
          PROVE  /\ IsNode(tree'[p])
                 /\ tree'[p].kind = tree[p].kind /\ tree'[p].of = tree[p].of
      BY <3>1, <3>2 DEF TypedTree, IsNode, Node
    <3> QED BY <3>1, <3>3 DEF TypedTree, HasPaths
  <2> QED BY <2>1, <2>2, <1>c
<1>10. CASE Check
  <2>1. pc = "check" /\ UNCHANGED <<runs, strays, queue, at, staged, written>>
    BY <1>10 DEF Check, Throw
  <2>2. \/ pc' = "idle" /\ tree' = Without(tree, Candidate)
        \/ pc' \in {"out", "in"} /\ tree' = tree
    BY <1>10 DEF Check, Throw, Cleaned
  <2> QED BY <2>1, <2>2, <1>b, <1>c
<1>d. ASSUME Busy
      PROVE  /\ TypedTree(Moved(tree, Target, Previous)) /\ TypedTree(Moved(tree, Candidate, Target))
             /\ TypedTree(Moved(tree, Previous, Target))
  <2>1. /\ IsPath(Target) /\ IsPath(Candidate) /\ IsPath(Previous)
        /\ Len(Target) = Len(Candidate) /\ Len(Previous) = Len(Target)
        /\ LastName(Target) = LastName(Candidate) /\ LastName(Previous) = LastName(Target)
    BY <1>a, <1>d, AtPlace DEF LastName
  <2> QED BY <2>1, TypedMoved
<1>11. CASE MoveOut
  BY <1>11, <1>c, <1>d DEF MoveOut
<1>12. CASE MoveIn
  BY <1>12, <1>c, <1>d DEF MoveIn
<1>13. CASE DropBackup
  BY <1>13, <1>c, TypedWithout DEF DropBackup
<1>14. CASE Extracted
  <2>1. pc = "record" /\ pc' = "take" /\ UNCHANGED <<tree, runs, strays, at, staged>>
        /\ queue' = queue \o EnqueueNestedZips(Target, at.depth)
    BY <1>14 DEF Extracted
  <2>2. PICK S : queue \in Seq(S) /\ \A v \in S : IsVisit(v)
    BY <2>1
  <2>3. \E T : EnqueueNestedZips(Target, at.depth) \in Seq(T) /\ \A v \in T : IsVisit(v)
    <3>1. CASE at.depth >= Policy.depth
      <4>1. EnqueueNestedZips(Target, at.depth) = <<>>
        BY <3>1 DEF EnqueueNestedZips
      <4>2. <<>> \in Seq({}) /\ \A v \in {} : IsVisit(v)
        OBVIOUS
      <4>3. EnqueueNestedZips(Target, at.depth) \in Seq({})
        BY <4>1, <4>2
      <4> QED BY <4>2, <4>3
    <3>2. CASE ~(at.depth >= Policy.depth)
      <4> DEFINE paths == {p \in Inside(tree, Target) : IsZip(tree, p)}
      <4>1. at.depth + 1 \in 0 .. Policy.depth
        BY <2>1, <3>2, PolicyDepth DEF IsVisit
      <4>2. paths \in SUBSET DOMAIN tree /\ \A p \in paths : IsZip(tree, p)
        BY DEF Inside
      <4> HIDE DEF paths
      <4>3. \E T : Queued(paths, at.depth + 1) \in Seq(T) /\ \A v \in T : IsVisit(v)
        BY <4>1, <4>2, QueuedVisits
      <4> QED BY <3>2, <4>3 DEF EnqueueNestedZips, paths
    <3> QED BY <3>1, <3>2
  <2>4. PICK T : EnqueueNestedZips(Target, at.depth) \in Seq(T) /\ \A v \in T : IsVisit(v)
    BY <2>3
  <2>5. queue' \in Seq(S \cup T)
    <3>1. queue \in Seq(S \cup T) /\ EnqueueNestedZips(Target, at.depth) \in Seq(S \cup T)
      BY <2>2, <2>4, WiderSequences
    <3> QED BY <2>1, <3>1
  <2>6. \A v \in S \cup T : IsVisit(v)
    BY <2>2, <2>4
  <2> QED BY <2>1, <2>5, <2>6
<1>15. CASE Vanished
  BY <1>15, <1>b DEF Vanished, Throw, Cleaned
<1>16. CASE CallFails
  <2>1. Busy /\ pc' = "idle" /\ tree' = Without(tree, Candidate) /\ UNCHANGED runs
        /\ strays' \in Nat
    BY <1>16 DEF CallFails, Throw, Cleaned
  <2> QED BY <2>1, <1>b
<1>17. CASE Restore
  <2>1. Busy /\ pc' = "idle" /\ UNCHANGED runs /\ strays' \in Nat
        /\ \/ tree' = Without(tree, Candidate)
           \/ tree' = Without(Moved(tree, Previous, Target), Candidate)
    BY <1>17 DEF Restore
  <2> QED BY <2>1, <1>d, TypedWithout
<1>18. CASE Crash \/ TimeRunsOut
  BY <1>18, <1>c DEF Crash, TimeRunsOut
<1>19. CASE User
  <2>1. UNCHANGED <<pc, runs, strays, queue, at, staged, written>>
    BY <1>19 DEF User, UserActs, PutsArchive, RemovesArchive, MakesDirectory, RemovesExtraction
  <2>2. \A step : IsPath(<<step>>) /\ LastName(<<step>>) = step.name
    <3>1. \A step : <<step>> \in Seq({step}) /\ <<step>> # <<>> /\ Len(<<step>>) = 1 /\ <<step>>[1] = step
      OBVIOUS
    <3> QED BY <3>1, SequencesArePaths DEF LastName
  <2>3. TypedTree(tree')
    <3>1. ASSUME NEW name \in Names, NEW c \in Contents, PutsArchive(name, c) PROVE TypedTree(tree')
      <4> DEFINE node == Node("zip", c, None)
      <4>1. IsNode(node) /\ node.of = c
        BY DEF Node, IsNode
      <4>2. Plain(name).name \in Archives
        BY ExtractDirAssumption DEF Plain
      <4>3. tree' = With(tree, <<Plain(name)>>, node)
        BY <3>1 DEF PutsArchive
      <4> HIDE DEF node
      <4> QED BY <2>2, <4>1, <4>2, <4>3, TypedWith
    <3>2. ASSUME NEW name \in Names, RemovesArchive(name) PROVE TypedTree(tree')
      <4> DEFINE p == <<Plain(name)>>
      <4>1. tree' = Restrict(tree, DOMAIN tree \ {p})
        BY <3>2 DEF RemovesArchive
      <4> HIDE DEF p
      <4>2. HasPaths(tree') /\ DOMAIN tree' = DOMAIN tree \ {p} /\ \A q \in DOMAIN tree' : tree'[q] = tree[q]
        BY <4>1, OneNodeLess DEF TypedTree
      <4> QED BY <4>2 DEF TypedTree
    <3>3. ASSUME NEW name \in Names, MakesDirectory(name) PROVE TypedTree(tree')
      <4> DEFINE node == Node("user", edits', None)
      <4>1. IsNode(node) /\ node.kind # "zip"
        BY DEF Node, IsNode
      <4>3. tree' = With(tree, <<Plain(ExtractDir[name])>>, node)
        BY <3>3 DEF MakesDirectory
      <4> HIDE DEF node
      <4> QED BY <2>2, <4>1, <4>3, TypedWith
    <3>4. ASSUME NEW name \in Names, RemovesExtraction(name) PROVE TypedTree(tree')
      BY <3>4, TypedWithout DEF RemovesExtraction
    <3> QED BY <1>19, <3>1, <3>2, <3>3, <3>4 DEF User
  <2> QED BY <2>1, <2>3, <1>c
<1>20. CASE UNCHANGED expansionVars
  BY <1>20, <1>c DEF expansionVars
<1> QED BY <1>1, <1>2, <1>3, <1>4, <1>5, <1>6, <1>7, <1>8, <1>9, <1>10, <1>11, <1>12, <1>13, <1>14,
           <1>15, <1>16, <1>17, <1>18, <1>19, <1>20 DEF ExpansionNext, Step

-----------------------------------------------------------------------------
(* What users made *)

AtTop(d) == IsPath(d) /\ Len(d) = 1 /\ d[1].mark = "plain"

UserInv ==
    /\ UserDataSurvives
    /\ \A made \in work : AtTop(made[1])
    /\ pc = "out" => \A made \in work : made[1] # Target

LEMMA OneStep ==
    ASSUME NEW step
    PROVE  IsPath(<<step>>) /\ Len(<<step>>) = 1 /\ <<step>>[1] = step /\ LastName(<<step>>) = step.name
<1>1. <<step>> \in Seq({step}) /\ <<step>> # <<>> /\ Len(<<step>>) = 1 /\ <<step>>[1] = step
  OBVIOUS
<1> QED BY <1>1, SequencesArePaths DEF LastName

\* Below one step there is one step.
LEMMA OneStepDeep ==
    ASSUME NEW p, IsPath(p), Len(p) = 1, NEW x, IsPath(x), IsPrefix(x, p)
    PROVE  x = p
<1>1. Len(x) <= 1
  BY PrefixSteps
<1>2. Len(x) = 1
  <2>1. Len(x) \in Nat /\ Len(x) >= 1
    BY PathSteps
  <2>2. \A n \in Nat : n >= 1 /\ n <= 1 => n = 1
    OBVIOUS
  <2> QED BY <1>1, <2>1, <2>2
<1> QED BY <1>2, WholePrefix

\* What stands at the top under a plain name is below no marked directory ...
LEMMA OutsideTheMarked ==
    ASSUME NEW d, AtTop(d), NEW x, IsPath(x), x[Len(x)].mark # "plain"
    PROVE  ~IsPrefix(x, d)
<1>1. SUFFICES ASSUME IsPrefix(x, d) PROVE FALSE
  OBVIOUS
<1>2. Len(x) <= 1 /\ \A i \in 1 .. Len(x) : x[i] = d[i]
  BY <1>1, PrefixSteps DEF AtTop
<1>3. Len(x) = 1
  <2>1. Len(x) \in Nat /\ Len(x) >= 1
    BY PathSteps
  <2>2. \A n \in Nat : n >= 1 /\ n <= 1 => n = 1
    OBVIOUS
  <2> QED BY <1>2, <2>1, <2>2
<1> QED BY <1>2, <1>3 DEF AtTop

\* ... and below nothing else but itself.
LEMMA OnlyItself ==
    ASSUME NEW d, AtTop(d), NEW x, IsPath(x), IsPrefix(x, d)
    PROVE  x = d
BY OneStepDeep DEF AtTop

LEMMA UserSteps == RunInv /\ UserInv /\ [ExpansionNext]_expansionVars => UserInv'
<1> SUFFICES ASSUME RunInv, UserInv, [ExpansionNext]_expansionVars PROVE UserInv'
  OBVIOUS
<1> USE DEF Goto, Busy, visit, source, oracle, bounds, budget
<1> DEFINE Kept == \A made \in work : made[1] \in DOMAIN tree' /\ tree'[made[1]] = tree[made[1]]
<1>a. ASSUME Kept, UNCHANGED <<work, at>>, pc' = "out" => pc = "out" PROVE UserInv'
  <2>1. Target' = Target
    BY <1>a DEF Target
  <2> QED BY <1>a, <2>1 DEF UserInv, UserDataSurvives
<1>b. Busy => IsPath(at.path)
  BY DEF RunInv, IsVisit
<1>c. ASSUME Busy
      PROVE  /\ IsPath(Target) /\ IsPath(Candidate) /\ IsPath(Previous)
             /\ Len(Target) = Len(Candidate) /\ Len(Target) = Len(Previous)
             /\ \A made \in work : ~IsPrefix(Candidate, made[1]) /\ ~IsPrefix(Previous, made[1])
  <2>1. /\ IsPath(Candidate) /\ Candidate[Len(Candidate)].mark # "plain"
        /\ IsPath(Previous) /\ Previous[Len(Previous)].mark # "plain"
    BY <1>b, <1>c, AtPlace
  <2>2. IsPath(Target) /\ Len(Target) = Len(Candidate) /\ Len(Target) = Len(Previous)
    BY <1>b, <1>c, AtPlace
  <2> QED BY <2>1, <2>2, OutsideTheMarked DEF UserInv
<1>d. \A made \in work : made[1] \in DOMAIN tree /\ tree[made[1]].kind = "user"
  <2>1. \A made \in work : made[1] \in DOMAIN tree /\ tree[made[1]] = Node("user", made[2], None)
    BY DEF UserInv, UserDataSurvives
  <2>2. \A id : Node("user", id, None).kind = "user"
    BY DEF Node
  <2> QED BY <2>1, <2>2
<1>e. HasPaths(tree)
  BY DEF RunInv, TypedTree
<1>f. ASSUME Busy, tree' = Without(tree, Candidate) PROVE Kept
  <2>1. \A q \in DOMAIN tree : ~IsPrefix(Candidate, q) => q \in DOMAIN tree' /\ tree'[q] = tree[q]
    BY <1>e, <1>f, WithoutNodes
  <2> QED BY <1>c, <1>d, <1>f, <2>1
<1>1. CASE tree' = tree /\ UNCHANGED <<work, at>> /\ (pc' = "out" => pc = "out")
  BY <1>1, <1>a, <1>d
<1>2. CASE \/ \E observe \in BOOLEAN : Start(observe)
           \/ Finish \/ Stage \/ Admit \/ Verify \/ Extracted \/ Crash \/ TimeRunsOut
  BY <1>2, <1>1 DEF Start, Finish, Stage, Admit, Hold, Verify, Foretell, Extracted, Crash, TimeRunsOut
<1>3. CASE Take
  BY <1>3, <1>d DEF Take, UserInv, UserDataSurvives
<1>4. CASE Prepare
  <2>1. Busy /\ UNCHANGED <<work, at>> /\ pc' # "out"
    BY <1>4 DEF Prepare, Throw, HoldCandidate
  <2>2. \/ tree' = Without(tree, Candidate)
        \/ tree' = With(tree, Candidate, Node("dir", staged, None))
    BY <1>4 DEF Prepare, Throw, HoldCandidate, Cleaned
  <2>3. CASE tree' = With(tree, Candidate, Node("dir", staged, None))
    <3>1. \A made \in work : made[1] # Candidate
      BY <1>c, <2>1, OwnPrefix
    <3>2. Kept
      BY <1>d, <2>3, <3>1 DEF With
    <3> QED BY <1>a, <2>1, <3>2
  <2> QED BY <1>a, <1>f, <2>1, <2>2, <2>3
<1>5. CASE Write
  <2> DEFINE e == Members[written + 1]
             piece == Piece(Snapshot, e)
  <2>1. pc = "write" /\ UNCHANGED <<work, at>> /\ pc' # "out" /\ written < Len(Members)
    BY <1>5 DEF Write, HoldCandidate
  <2>2. tree' = Without(tree, Candidate) \/ tree' = With(tree, PathIn(Candidate, e), piece)
    BY <1>5 DEF Write, HoldCandidate, Cleaned
  <2>3. CASE tree' = With(tree, PathIn(Candidate, e), piece)
    <3>1. IsMember(e)
      BY <2>1, MembersKnown DEF RunInv, Placed, Admitted
    <3> HIDE DEF e, piece
    <3>2. IsPrefix(Candidate, PathIn(Candidate, e))
      BY <1>c, <2>1, <3>1, MemberPath
    <3>3. \A made \in work : made[1] # PathIn(Candidate, e)
      BY <1>c, <2>1, <3>2
    <3>4. Kept
      BY <1>d, <2>3, <3>3 DEF With
    <3> QED BY <1>a, <2>1, <3>4
  <2> QED BY <1>a, <1>f, <2>1, <2>2, <2>3
<1>6. CASE Mark
  <2>1. Busy /\ UNCHANGED <<work, at>> /\ pc' # "out"
        /\ tree' = [tree EXCEPT ![Candidate].whose = Last(at.path).name]
    BY <1>6 DEF Mark
  <2>2. \A made \in work : made[1] # Candidate
    BY <1>c, <2>1, OwnPrefix
  <2>3. Kept
    BY <1>d, <2>1, <2>2
  <2> QED BY <1>a, <2>1, <2>3
<1>7. CASE Check
  <2>1. CASE MayReplace(Target, Last(at.path).name)
    <3>1. Busy /\ UNCHANGED <<tree, work, at>>
      BY <1>7, <2>1 DEF Check
    <3>2. ASSUME pc' = "out", NEW made \in work, made[1] = Target PROVE FALSE
      <4>1. Stands(tree, Target)
        BY <1>7, <2>1, <3>2 DEF Check
      <4>2. tree[Target].kind = "dir"
        BY <2>1, <4>1 DEF MayReplace, Owned
      <4> QED BY <1>d, <3>2, <4>2
    <3>3. Target' = Target
      BY <3>1 DEF Target
    <3> QED BY <1>d, <3>1, <3>2, <3>3 DEF UserInv, UserDataSurvives
  <2>2. CASE ~MayReplace(Target, Last(at.path).name)
    <3>1. Busy /\ UNCHANGED <<work, at>> /\ pc' # "out" /\ tree' = Without(tree, Candidate)
      BY <1>7, <2>2 DEF Check, Throw, Cleaned
    <3> QED BY <1>a, <1>f, <3>1
  <2> QED BY <2>1, <2>2
<1>8. CASE MoveOut
  <2>1. pc = "out" /\ pc' = "in" /\ UNCHANGED <<work, at>> /\ tree' = Moved(tree, Target, Previous)
    BY <1>8 DEF MoveOut
  <2>2. \A made \in work : ~IsPrefix(Target, made[1])
    BY <1>c, <2>1, OnlyItself DEF UserInv
  <2>3. Kept
    BY <1>c, <1>d, <1>e, <2>1, <2>2, MovedFrom
  <2> QED BY <1>a, <2>1, <2>3
<1>9. CASE MoveIn
  <2>1. /\ pc = "in" /\ pc' # "out" /\ UNCHANGED <<work, at>> /\ ~Stands(tree, Target)
        /\ tree' = Moved(tree, Candidate, Target)
    BY <1>9 DEF MoveIn
  <2>2. \A made \in work : ~IsPrefix(Target, made[1])
    BY <1>d, <2>1 DEF Stands, Inside
  <2>3. Kept
    BY <1>c, <1>d, <1>e, <2>1, <2>2, MovedFrom
  <2> QED BY <1>a, <2>1, <2>3
<1>10. CASE DropBackup
  <2>1. Busy /\ pc' # "out" /\ UNCHANGED <<work, at>> /\ tree' = Without(tree, Previous)
    BY <1>10 DEF DropBackup
  <2>2. \A q \in DOMAIN tree : ~IsPrefix(Previous, q) => q \in DOMAIN tree' /\ tree'[q] = tree[q]
    BY <1>e, <2>1, WithoutNodes
  <2>3. Kept
    BY <1>c, <1>d, <2>1, <2>2
  <2> QED BY <1>a, <2>1, <2>3
<1>11. CASE Vanished \/ CallFails
  <2>1. Busy /\ pc' # "out" /\ UNCHANGED <<work, at>> /\ tree' = Without(tree, Candidate)
    BY <1>11 DEF Vanished, CallFails, Throw, Cleaned
  <2> QED BY <1>a, <1>f, <2>1
<1>12. CASE Restore
  <2>1. Busy /\ pc' # "out" /\ UNCHANGED <<work, at>>
    BY <1>12 DEF Restore
  <2>2. \/ tree' = Without(tree, Candidate)
        \/ ~Stands(tree, Target) /\ tree' = Without(Moved(tree, Previous, Target), Candidate)
    BY <1>12 DEF Restore
  <2>3. CASE ~Stands(tree, Target) /\ tree' = Without(Moved(tree, Previous, Target), Candidate)
    <3> DEFINE m == Moved(tree, Previous, Target)
    <3>1. \A made \in work : ~IsPrefix(Target, made[1])
      BY <1>d, <2>3 DEF Stands, Inside
    <3>2. HasPaths(m) /\ \A made \in work : made[1] \in DOMAIN m /\ m[made[1]] = tree[made[1]]
      BY <1>c, <1>d, <1>e, <2>1, <3>1, MovedFrom
    <3> HIDE DEF m
    <3>3. Kept
      BY <1>c, <2>1, <2>3, <3>2, WithoutNodes DEF m
    <3> QED BY <1>a, <2>1, <3>3
  <2> QED BY <1>a, <1>f, <2>1, <2>2, <2>3
<1>13. CASE User
  <2>1. UNCHANGED <<pc, at>>
    BY <1>13 DEF User, UserActs, PutsArchive, RemovesArchive, MakesDirectory, RemovesExtraction
  <2>2. Target' = Target
    BY <2>1 DEF Target
  <2>3. ASSUME NEW name \in Names, NEW c \in Contents, PutsArchive(name, c) PROVE UserInv'
    <3> DEFINE p == <<Plain(name)>>
               node == Node("zip", c, None)
    <3>1. /\ tree' = With(tree, p, node) /\ UNCHANGED work
          /\ Stands(tree, p) => p \in DOMAIN tree /\ tree[p].kind = "zip"
      BY <2>3 DEF PutsArchive, IsZip
    <3>2. IsPath(p)
      BY OneStep
    <3> HIDE DEF p, node
    <3>3. \A made \in work : made[1] # p
      BY <1>d, <3>1, <3>2, OwnPrefix DEF Stands, Inside
    <3>4. Kept
      BY <1>d, <3>1, <3>3 DEF With
    <3> QED BY <1>a, <2>1, <3>1, <3>4
  <2>4. ASSUME NEW name \in Names, RemovesArchive(name) PROVE UserInv'
    <3> DEFINE p == <<Plain(name)>>
    <3>1. tree' = Restrict(tree, DOMAIN tree \ {p}) /\ UNCHANGED work /\ tree[p].kind = "zip"
      BY <2>4 DEF RemovesArchive, IsZip
    <3> HIDE DEF p
    <3>2. Kept
      BY <1>d, <3>1 DEF Restrict
    <3> QED BY <1>a, <2>1, <3>1, <3>2
  <2>5. ASSUME NEW name \in Names, MakesDirectory(name) PROVE UserInv'
    <3> DEFINE d == <<Plain(ExtractDir[name])>>
               node == Node("user", edits', None)
    <3>1. /\ tree' = With(tree, d, node) /\ ~Stands(tree, d)
          /\ work' = IF pc = "out" /\ d = Target THEN work ELSE work \cup {<<d, edits'>>}
      BY <2>5 DEF MakesDirectory
    <3>2. AtTop(d)
      BY OneStep DEF AtTop, Plain
    <3>3. node = Node("user", edits', None)
      OBVIOUS
    <3> HIDE DEF d, node
    <3>4. \A made \in work : made[1] # d
      BY <1>d, <3>1, <3>2, OwnPrefix DEF Stands, Inside, AtTop
    <3>5. Kept
      BY <1>d, <3>1, <3>4 DEF With
    <3>6. d \in DOMAIN tree' /\ tree'[d] = node
      BY <3>1 DEF With
    <3>7. \A made \in work' : made \in work \/ (made = <<d, edits'>> /\ ~(pc = "out" /\ d = Target))
      BY <3>1
    <3>8. \A made \in work' :
            /\ made[1] \in DOMAIN tree' /\ tree'[made[1]] = Node("user", made[2], None)
            /\ AtTop(made[1]) /\ (pc = "out" => made[1] # Target)
      <4>1. \A made \in work :
              /\ made[1] \in DOMAIN tree /\ tree[made[1]] = Node("user", made[2], None)
              /\ AtTop(made[1]) /\ (pc = "out" => made[1] # Target)
        BY DEF UserInv, UserDataSurvives
      <4> QED BY <3>2, <3>3, <3>5, <3>6, <3>7, <4>1
    <3> QED BY <2>1, <2>2, <3>8 DEF UserInv, UserDataSurvives
  <2>6. ASSUME NEW name \in Names, RemovesExtraction(name) PROVE UserInv'
    <3> DEFINE d == <<Plain(ExtractDir[name])>>
    <3>1. tree' = Without(tree, d) /\ UNCHANGED work /\ Owned(tree, d)
      BY <2>6 DEF RemovesExtraction
    <3>2. IsPath(d)
      BY OneStep
    <3> HIDE DEF d
    <3>3. \A made \in work : ~IsPrefix(d, made[1])
      BY <1>d, <3>1, <3>2, OnlyItself DEF UserInv, Owned
    <3>4. Kept
      BY <1>d, <1>e, <3>1, <3>3, WithoutNodes
    <3> QED BY <1>a, <2>1, <3>1, <3>4
  <2> QED BY <1>13, <2>3, <2>4, <2>5, <2>6 DEF User
<1>14. CASE UNCHANGED expansionVars
  BY <1>1, <1>14 DEF expansionVars
<1> QED BY <1>2, <1>3, <1>4, <1>5, <1>6, <1>7, <1>8, <1>9, <1>10, <1>11, <1>12, <1>13, <1>14
           DEF ExpansionNext, Step

LEMMA ExpansionStarts == ExpansionInit => RunInv /\ UserInv
<1> SUFFICES ASSUME ExpansionInit PROVE RunInv /\ UserInv
  OBVIOUS
<1>1. DOMAIN <<>> = {}
  OBVIOUS
<1>2. TypedTree(<<>>)
  BY <1>1, FS_EmptySet DEF TypedTree, HasPaths
<1> QED BY <1>2 DEF ExpansionInit, RunInv, UserInv, UserDataSurvives, Places, Busy, Admitted, Placed

\* extractionRefusalReason: whatever archives there are, and however a run and its users
\* interleave, fails or dies, no directory a user made is replaced, moved or removed.
THEOREM UserDataIsSafe == ExpansionSpec => []UserDataSurvives
<1>1. UserInv => UserDataSurvives
  BY DEF UserInv
<1> QED BY <1>1, ExpansionStarts, RunSteps, UserSteps, PTL DEF ExpansionSpec

-----------------------------------------------------------------------------
(* What earlier runs left, and what this one holds *)

OldStep(s, now) == s.mark # "plain" => s.run \in Nat /\ s.run < now
OldPath(p, now) == \A i \in 1 .. Len(p) : OldStep(p[i], now)

\* The run that works holds at most its candidate, and what it moved aside.
OldBut(p, x, now) ==
    IsPrefix(x, p) /\ \A i \in 1 .. Len(p) : i # Len(x) => OldStep(p[i], now)

FreshTree(t, now, held) ==
    \A p \in DOMAIN t : OldPath(p, now) \/ \E x \in held : OldBut(p, x, now)

Aside == (pc = "in" /\ backup) \/ pc = "drop"
Held  == (IF Placed THEN {Candidate} ELSE {}) \cup (IF Aside THEN {Previous} ELSE {})
Now   == IF pc = "idle" THEN runs + 1 ELSE runs

FreshInv ==
    /\ FreshTree(tree, Now, Held)
    /\ pc # "idle" => \E S : queue \in Seq(S) /\ \A v \in S : OldPath(v.path, runs)
    /\ Busy => OldPath(at.path, runs)
    /\ pc = "out" => backup

LEMMA FreshWithout ==
    ASSUME NEW t, NEW now, NEW held, FreshTree(t, now, held), NEW d
    PROVE  FreshTree(Without(t, d), now, held \ {d})
BY DEF FreshTree, Without, Restrict, Inside, OldBut

LEMMA FreshWith ==
    ASSUME NEW t, NEW now, NEW held, FreshTree(t, now, held), NEW p, NEW node,
           OldPath(p, now) \/ \E x \in held : OldBut(p, x, now)
    PROVE  FreshTree(With(t, p, node), now, held)
BY DEF FreshTree, With

LEMMA FreshMoved ==
    ASSUME NEW t, HasPaths(t), NEW now, NEW held, FreshTree(t, now, held),
           NEW from, NEW to, IsPath(from), IsPath(to), Len(from) = Len(to),
           \A x \in held : IsPath(x) /\ Len(x) = Len(from),
           \A i \in 1 .. Len(to) : i # Len(to) => OldStep(to[i], now)
    PROVE  FreshTree(Moved(t, from, to), now,
                     (held \ {from}) \cup (IF OldStep(to[Len(to)], now) THEN {} ELSE {to}))
<1> DEFINE m == Moved(t, from, to)
           after == (held \ {from}) \cup (IF OldStep(to[Len(to)], now) THEN {} ELSE {to})
<1>1. \A q \in DOMAIN m :
        \/ q \in DOMAIN t /\ ~IsPrefix(from, q)
        \/ IsPrefix(to, q) /\ \E p \in Inside(t, from) : q = Rebased(p, from, to)
  BY MovedFrom
<1> HIDE DEF m
<1>2. ASSUME NEW q \in DOMAIN t, ~IsPrefix(from, q)
      PROVE  OldPath(q, now) \/ \E x \in after : OldBut(q, x, now)
  BY <1>2 DEF FreshTree, OldBut
<1>3. ASSUME NEW p \in Inside(t, from), IsPrefix(to, Rebased(p, from, to))
      PROVE  LET q == Rebased(p, from, to)
             IN  OldPath(q, now) \/ \E x \in after : OldBut(q, x, now)
  <2> DEFINE q == Rebased(p, from, to)
  <2>1. p \in DOMAIN t /\ IsPath(p) /\ IsPrefix(from, p)
    BY DEF Inside, HasPaths
  <2>2. Len(from) <= Len(p)
    BY <2>1, PrefixSteps
  <2>3. /\ Len(q) = Len(p)
        /\ \A i \in 1 .. Len(to) : q[i] = to[i]
        /\ \A i \in Len(to) + 1 .. Len(p) : q[i] = p[i]
    BY <2>1, <2>2, RebasedSteps
  <2>4. Len(p) \in Nat /\ Len(to) \in Nat /\ Len(to) >= 1
    BY <2>1, PathSteps
  <2>5. \A i \in 1 .. Len(p) : i # Len(from) => OldStep(p[i], now)
    BY <2>1 DEF FreshTree, OldPath, OldBut
  <2> HIDE DEF q
  <2>6. \A i \in 1 .. Len(q) : i # Len(to) => OldStep(q[i], now)
    <3>1. ASSUME NEW i \in 1 .. Len(q), i # Len(to) PROVE OldStep(q[i], now)
      <4>1. CASE i \in 1 .. Len(to)
        BY <2>3, <3>1, <4>1
      <4>2. CASE i \in Len(to) + 1 .. Len(p)
        BY <2>3, <2>4, <2>5, <3>1, <4>2
      <4> QED BY <2>3, <2>4, <4>1, <4>2
    <3> QED BY <3>1
  <2>7. CASE OldStep(to[Len(to)], now)
    <3>1. q[Len(to)] = to[Len(to)]
      BY <2>3, <2>4
    <3> QED BY <2>6, <2>7, <3>1 DEF OldPath, q
  <2>8. CASE ~OldStep(to[Len(to)], now)
    BY <1>3, <2>6, <2>8 DEF OldBut, q
  <2> QED BY <2>7, <2>8
<1> HIDE DEF after
<1> QED BY <1>1, <1>2, <1>3 DEF FreshTree, m, after

LEMMA FreshIsPast ==
    ASSUME NEW t, NEW now \in Nat, NEW held, FreshTree(t, now, held), HasPaths(t),
           \A x \in held : IsPath(x) /\ x[Len(x)].run = now
    PROVE  FreshTree(t, now + 1, {})
<1> SUFFICES ASSUME NEW p \in DOMAIN t, NEW i \in 1 .. Len(p) PROVE OldStep(p[i], now + 1)
  BY DEF FreshTree, OldPath
<1>1. \A s : OldStep(s, now) \/ s.run = now => OldStep(s, now + 1)
  BY DEF OldStep
<1>2. CASE OldPath(p, now)
  BY <1>1, <1>2 DEF OldPath
<1>3. ASSUME NEW x \in held, OldBut(p, x, now) PROVE OldStep(p[i], now + 1)
  <2>1. CASE i # Len(x)
    BY <1>1, <1>3, <2>1 DEF OldBut
  <2>2. CASE i = Len(x)
    <3>1. IsPath(x) /\ IsPath(p) /\ IsPrefix(x, p)
      BY <1>3 DEF OldBut, HasPaths
    <3>2. Len(x) \in 1 .. Len(x)
      BY <3>1, PathSteps
    <3>3. p[i] = x[Len(x)]
      BY <2>2, <3>1, <3>2, PrefixSteps
    <3> QED BY <1>1, <3>3
  <2> QED BY <2>1, <2>2
<1> QED BY <1>2, <1>3 DEF FreshTree

LEMMA WhereTheRunWorks ==
    ASSUME RunInv, FreshInv, Busy
    PROVE  /\ IsPath(Target) /\ IsPath(Candidate) /\ IsPath(Previous)
           /\ Len(Candidate) = Len(Target) /\ Len(Previous) = Len(Target)
           /\ OldPath(Target, runs)
           /\ OldBut(Candidate, Candidate, runs) /\ OldBut(Previous, Previous, runs)
           /\ Candidate[Len(Candidate)].run = runs /\ Previous[Len(Previous)].run = runs
           /\ ~OldStep(Candidate[Len(Candidate)], runs) /\ ~OldStep(Previous[Len(Previous)], runs)
           /\ Candidate[Len(Candidate)].mark = "candidate" /\ Previous[Len(Previous)].mark = "previous"
<1>1. IsPath(at.path) /\ OldPath(at.path, runs) /\ runs \in Nat
  BY DEF RunInv, FreshInv, IsVisit
<1> DEFINE n == Len(at.path)
<1>2. /\ IsPath(Target) /\ IsPath(Candidate) /\ IsPath(Previous) /\ n \in Nat /\ n >= 1
      /\ Len(Target) = n /\ Len(Candidate) = n /\ Len(Previous) = n
      /\ \A i \in 1 .. n - 1 :
           Target[i] = at.path[i] /\ Candidate[i] = at.path[i] /\ Previous[i] = at.path[i]
      /\ Candidate[n] = [name |-> LastName(Target), mark |-> "candidate", run |-> runs]
      /\ Previous[n] = [name |-> LastName(Target), mark |-> "previous", run |-> runs]
      /\ Target[n].mark = "plain"
  BY <1>1, AtPlace
<1> HIDE DEF n
<1>3. \A i \in 1 .. n - 1 : OldStep(at.path[i], runs)
  BY <1>1, <1>2 DEF OldPath, n
<1>4. \A i \in 1 .. n : i = n \/ i \in 1 .. n - 1
  BY <1>2
<1>5. OldPath(Target, runs)
  <2>1. OldStep(Target[n], runs)
    BY <1>2 DEF OldStep
  <2> QED BY <1>2, <1>3, <1>4, <2>1 DEF OldPath
<1>6. OldBut(Candidate, Candidate, runs) /\ OldBut(Previous, Previous, runs)
  BY <1>2, <1>3, <1>4, OwnPrefix DEF OldBut
<1>7. /\ Candidate[n].run = runs /\ Candidate[n].mark = "candidate"
      /\ Previous[n].run = runs /\ Previous[n].mark = "previous"
  BY <1>2
<1>8. ~OldStep(Candidate[n], runs) /\ ~OldStep(Previous[n], runs)
  BY <1>1, <1>7 DEF OldStep
<1> QED BY <1>2, <1>5, <1>6, <1>7, <1>8

\* Where the run has put nothing yet, nothing stands.
LEMMA NothingHeld ==
    ASSUME RunInv, FreshInv, Busy
    PROVE  /\ ~Placed => Inside(tree, Candidate) = {}
           /\ ~Aside => Inside(tree, Previous) = {}
<1>1. /\ IsPath(Candidate) /\ IsPath(Previous) /\ Len(Candidate) = Len(Previous)
      /\ ~OldStep(Candidate[Len(Candidate)], runs) /\ ~OldStep(Previous[Len(Previous)], runs)
      /\ Candidate[Len(Candidate)] # Previous[Len(Previous)]
  BY WhereTheRunWorks
<1>2. /\ FreshTree(tree, runs, Held) /\ HasPaths(tree)
      /\ Held \subseteq {Candidate, Previous}
      /\ ~Placed => Candidate \notin Held
      /\ ~Aside => Previous \notin Held
  <2>1. Candidate # Previous
    BY <1>1
  <2> QED BY <2>1 DEF FreshInv, RunInv, TypedTree, Now, Held, Busy
<1>3. ASSUME NEW x \in {Candidate, Previous}, x \notin Held, NEW p \in Inside(tree, x) PROVE FALSE
  <2>1. p \in DOMAIN tree /\ IsPath(p) /\ IsPrefix(x, p) /\ IsPath(x)
    BY <1>1, <1>2, <1>3 DEF Inside, HasPaths
  <2>2. Len(x) \in 1 .. Len(p) /\ p[Len(x)] = x[Len(x)]
    <3>1. Len(x) <= Len(p) /\ \A i \in 1 .. Len(x) : x[i] = p[i]
      BY <2>1, PrefixSteps
    <3>2. Len(x) \in Nat /\ Len(x) >= 1 /\ Len(p) \in Nat
      BY <2>1, PathSteps
    <3> QED BY <3>1, <3>2
  <2>3. ~OldPath(p, runs)
    BY <1>1, <1>3, <2>2 DEF OldPath
  <2>4. PICK y \in Held : OldBut(p, y, runs)
    BY <1>2, <2>1, <2>3 DEF FreshTree
  <2>5. y \in {Candidate, Previous} /\ y # x /\ IsPath(y) /\ IsPrefix(y, p)
    BY <1>1, <1>2, <1>3, <2>4 DEF OldBut
  <2>6. Len(y) \in 1 .. Len(y) /\ y[Len(y)] = p[Len(y)]
    <3>1. \A i \in 1 .. Len(y) : y[i] = p[i]
      BY <2>1, <2>5, PrefixSteps
    <3>2. Len(y) \in 1 .. Len(y)
      BY <2>5, PathSteps
    <3> QED BY <3>1, <3>2
  <2> QED BY <1>1, <1>3, <2>2, <2>5, <2>6
<1>4. ~Placed => Inside(tree, Candidate) = {}
  BY <1>2, <1>3
<1>5. ~Aside => Inside(tree, Previous) = {}
  BY <1>2, <1>3
<1> QED BY <1>4, <1>5

LEMMA FreshSteps == RunInv /\ FreshInv /\ [ExpansionNext]_expansionVars => FreshInv'
<1> SUFFICES ASSUME RunInv, FreshInv, [ExpansionNext]_expansionVars PROVE FreshInv'
  OBVIOUS
<1> USE DEF Goto, visit, source, oracle, bounds, budget
<1>a. /\ HasPaths(tree) /\ runs \in Nat /\ pc \in Places
      /\ FreshTree(tree, Now, Held)
      /\ pc # "idle" => Now = runs
      /\ ~Busy => Held = {}
      /\ Busy => \A x \in Held : IsPath(x) /\ Len(x) = Len(Target) /\ x[Len(x)].run = runs
  <2>1. ~Busy => Held = {}
    BY DEF Busy, Placed, Aside, Held
  <2>2. Busy => \A x \in Held : x \in {Candidate, Previous}
    BY DEF Held
  <2>3. Busy => \A x \in Held : IsPath(x) /\ Len(x) = Len(Target) /\ x[Len(x)].run = runs
    BY <2>2, WhereTheRunWorks
  <2> QED BY <2>1, <2>3 DEF RunInv, FreshInv, TypedTree, Now
\* A run that ends leaves behind what the next one finds to be old.
<1>b. ASSUME pc # "idle", NEW t, HasPaths(t), NEW held, FreshTree(t, runs, held),
             held \subseteq Held
      PROVE  FreshTree(t, runs + 1, {})
  <2>1. \A x \in held : IsPath(x) /\ x[Len(x)].run = runs
    BY <1>a, <1>b
  <2> QED BY <1>a, <1>b, <2>1, FreshIsPast
<1>c. ASSUME pc' = "idle", runs' = runs, FreshTree(tree', runs + 1, {}) PROVE FreshInv'
  <2>1. Held' = {} /\ Now' = runs + 1
    BY <1>c DEF Held, Now, Placed, Aside
  <2> QED BY <1>c, <2>1 DEF FreshInv, Busy
\* A step within the run.
<1>d. ASSUME pc # "idle", pc' # "idle", UNCHANGED <<at, runs, queue>>, Busy' => Busy,
             pc' = "out" => backup', FreshTree(tree', runs, Held')
      PROVE  FreshInv'
  <2>1. Now' = runs
    BY <1>d DEF Now
  <2> QED BY <1>d, <2>1 DEF FreshInv
<1>e. ASSUME UNCHANGED <<at, runs>> PROVE Target' = Target /\ Candidate' = Candidate /\ Previous' = Previous
  BY <1>e DEF Target, Candidate, Previous, Beside
\* An error, or a refusal: the candidate goes.
<1>f. ASSUME Busy, ~Aside, runs' = runs, tree' = Without(tree, Candidate)
      PROVE  FreshTree(tree', runs, {})
  <2>1. FreshTree(tree', runs, Held \ {Candidate})
    BY <1>a, <1>f, FreshWithout DEF Busy
  <2>2. Held \ {Candidate} = {}
    BY <1>f DEF Held
  <2> QED BY <2>1, <2>2
<1>g. ASSUME Busy, tree' = Without(tree, Candidate) PROVE FreshTree(tree', runs + 1, {})
  <2>1. FreshTree(tree', runs, Held \ {Candidate})
    BY <1>a, <1>g, FreshWithout DEF Busy
  <2>2. HasPaths(tree')
    BY <1>a, <1>g, WithoutNodes
  <2> QED BY <1>b, <1>g, <2>1, <2>2 DEF Busy
<1>1. CASE \E observe \in BOOLEAN : Start(observe)
  <2>1. PICK observe \in BOOLEAN : Start(observe)
    BY <1>1
  <2>2. FreshTree(tree, runs + 1, {})
    BY <1>a, <2>1 DEF Start, Busy, Now
  <2>3. pc' = "take" /\ runs' = runs + 1 /\ tree' = tree
    BY <2>1 DEF Start, Unless
  <2>4. \E S : queue' \in Seq(S) /\ \A v \in S : IsVisit(v) /\ v.path \in FindArchives(tree)
    <3>1. FindArchives(tree) \subseteq DOMAIN tree /\ \A p \in FindArchives(tree) : IsZip(tree, p)
      BY DEF FindArchives
    <3>2. 0 \in 0 .. Policy.depth
      BY PolicyDepth
    <3> QED BY <2>1, <3>1, <3>2, QueuedVisits DEF Start, RunInv
  <2>5. \A p \in FindArchives(tree) : OldPath(p, runs + 1)
    BY <2>2 DEF FindArchives, FreshTree
  <2>6. Held' = {} /\ Now' = runs + 1 /\ ~Busy'
    BY <2>3 DEF Held, Now, Placed, Aside, Busy
  <2> QED BY <2>2, <2>3, <2>4, <2>5, <2>6 DEF FreshInv
<1>2. CASE Finish
  BY <1>2, <1>a, <1>b, <1>c DEF Finish, Busy
<1>3. CASE Take
  <2>1. pc = "take" /\ pc' \in {"take", "stage"} /\ UNCHANGED <<tree, runs>>
    BY <1>3 DEF Take
  <2>2. PICK S : queue \in Seq(S) /\ \A v \in S : OldPath(v.path, runs)
    BY <2>1 DEF FreshInv
  <2>3. Tail(queue) \in Seq(S) /\ Head(queue) \in S
    BY <1>3, <2>2 DEF Take
  <2>4. queue' \in Seq(S) /\ (pc' = "stage" => at' \in S)
    BY <1>3, <2>3 DEF Take
  <2>5. Held' = {} /\ Held = {} /\ Now' = runs /\ Now = runs
    BY <2>1 DEF Held, Now, Placed, Aside
  <2>6. Busy' => pc' = "stage"
    BY <2>1 DEF Busy
  <2> QED BY <1>a, <2>1, <2>2, <2>4, <2>5, <2>6 DEF FreshInv
<1>4. CASE Stage \/ Admit \/ Verify
  <2>1. /\ Busy /\ ~Placed /\ ~Aside /\ UNCHANGED <<tree, at, runs, queue>>
        /\ pc' \in {"take", "admit", "verify", "prepare"}
    BY <1>4 DEF Stage, Admit, Verify, Hold, Foretell, Busy, Placed, Aside
  <2>2. Held' = {} /\ Held = {}
    BY <2>1 DEF Held, Placed, Aside
  <2> QED BY <1>a, <1>d, <2>1, <2>2 DEF Busy
<1>5. CASE Prepare
  <2>1. pc = "prepare" /\ Busy /\ ~Placed /\ ~Aside /\ UNCHANGED <<at, runs, queue>>
    BY <1>5 DEF Prepare, Throw, HoldCandidate, Busy, Placed, Aside
  <2>2. \/ pc' \in {"idle", "take"} /\ tree' = Without(tree, Candidate)
        \/ pc' = "write" /\ tree' = With(tree, Candidate, Node("dir", staged, None))
    BY <1>5 DEF Prepare, Throw, HoldCandidate, Cleaned
  <2>3. CASE pc' = "idle" /\ tree' = Without(tree, Candidate)
    BY <1>c, <1>g, <2>1, <2>3
  <2>4. CASE pc' = "take" /\ tree' = Without(tree, Candidate)
    <3>1. Held' = {} /\ ~Busy'
      BY <2>4 DEF Held, Placed, Aside, Busy
    <3> QED BY <1>d, <1>f, <2>1, <2>4, <3>1 DEF Busy
  <2>5. CASE pc' = "write" /\ tree' = With(tree, Candidate, Node("dir", staged, None))
    <3>1. Held' = {Candidate} /\ Held = {}
      BY <1>e, <2>1, <2>5 DEF Held, Placed, Aside
    <3>2. FreshTree(tree, runs, {Candidate})
      BY <1>a, <2>1, <3>1 DEF FreshTree, Busy
    <3>3. OldBut(Candidate, Candidate, runs)
      BY <2>1, WhereTheRunWorks
    <3>4. FreshTree(tree', runs, {Candidate})
      BY <2>5, <3>2, <3>3, FreshWith
    <3> QED BY <1>d, <2>1, <2>5, <3>1, <3>4
  <2> QED BY <2>2, <2>3, <2>4, <2>5
<1>6. CASE Write
  <2> DEFINE e == Members[written + 1]
             piece == Piece(Snapshot, e)
  <2>1. pc = "write" /\ Busy /\ Placed /\ ~Aside /\ UNCHANGED <<at, runs, queue>> /\ written < Len(Members)
    BY <1>6 DEF Write, HoldCandidate, Busy, Placed, Aside
  <2>2. \/ pc' = "take" /\ tree' = Without(tree, Candidate)
        \/ pc' = "write" /\ tree' = With(tree, PathIn(Candidate, e), piece)
    BY <1>6 DEF Write, HoldCandidate, Cleaned
  <2>3. CASE pc' = "take" /\ tree' = Without(tree, Candidate)
    <3>1. Held' = {} /\ ~Busy'
      BY <2>3 DEF Held, Placed, Aside, Busy
    <3> QED BY <1>d, <1>f, <2>1, <2>3, <3>1 DEF Busy
  <2>4. CASE pc' = "write" /\ tree' = With(tree, PathIn(Candidate, e), piece)
    <3>1. IsMember(e)
      BY <2>1, MembersKnown DEF RunInv, Placed, Admitted
    <3> HIDE DEF e, piece
    <3>2. Held' = {Candidate} /\ Held = {Candidate}
      BY <1>e, <2>1, <2>4 DEF Held, Placed, Aside
    <3>3. OldBut(PathIn(Candidate, e), Candidate, runs)
      <4> DEFINE q == PathIn(Candidate, e)
      <4>1. IsPath(Candidate) /\ OldBut(Candidate, Candidate, runs)
        BY <2>1, WhereTheRunWorks
      <4>2. /\ IsPath(q) /\ IsPrefix(Candidate, q)
            /\ \A i \in Len(Candidate) + 1 .. Len(q) : q[i] = Plain(Canonical(e)[i - Len(Candidate)])
        BY <3>1, <4>1, MemberPath
      <4> HIDE DEF q
      <4>3. Len(Candidate) <= Len(q) /\ \A i \in 1 .. Len(Candidate) : q[i] = Candidate[i]
        BY <4>1, <4>2, PrefixSteps
      <4>4. \A s : OldStep(Plain(s), runs)
        BY DEF OldStep, Plain
      <4>5. Len(Candidate) \in Nat /\ Len(q) \in Nat
        BY <4>1, <4>2, PathSteps
      <4>6. ASSUME NEW i \in 1 .. Len(q), i # Len(Candidate) PROVE OldStep(q[i], runs)
        <5>1. CASE i \in 1 .. Len(Candidate)
          BY <4>1, <4>3, <4>6, <5>1 DEF OldBut
        <5>2. CASE i \in Len(Candidate) + 1 .. Len(q)
          BY <4>2, <4>4, <5>2
        <5> QED BY <4>3, <4>5, <5>1, <5>2
      <4> QED BY <4>2, <4>6 DEF OldBut, q
    <3>4. FreshTree(tree', runs, {Candidate})
      BY <1>a, <2>1, <2>4, <3>2, <3>3, FreshWith DEF Busy
    <3> QED BY <1>d, <2>1, <2>4, <3>2, <3>4 DEF Busy
  <2> QED BY <2>2, <2>3, <2>4
<1>7. CASE Mark
  <2>1. pc = "write" /\ pc' = "check" /\ UNCHANGED <<at, runs, queue>>
        /\ tree' = [tree EXCEPT ![Candidate].whose = Last(at.path).name]
    BY <1>7 DEF Mark
  <2>2. DOMAIN tree' = DOMAIN tree
    BY <2>1
  <2>3. Held' = Held
    BY <1>e, <2>1 DEF Held, Placed, Aside
  <2> QED BY <1>a, <1>d, <2>1, <2>2, <2>3 DEF FreshTree, Busy
<1>8. CASE Check
  <2>1. pc = "check" /\ Busy /\ Placed /\ ~Aside /\ UNCHANGED <<at, runs, queue>>
    BY <1>8 DEF Check, Throw, Busy, Placed, Aside
  <2>2. CASE MayReplace(Target, Last(at.path).name)
    <3>1. /\ tree' = tree /\ backup' = Stands(tree, Target)
          /\ pc' = (IF Stands(tree, Target) THEN "out" ELSE "in")
      BY <1>8, <2>2 DEF Check
    <3>2. Held' = {Candidate} /\ Held = {Candidate}
      BY <1>e, <2>1, <3>1 DEF Held, Placed, Aside
    <3> QED BY <1>a, <1>d, <2>1, <3>1, <3>2 DEF Busy
  <2>3. CASE ~MayReplace(Target, Last(at.path).name)
    BY <1>8, <1>c, <1>g, <2>1, <2>3 DEF Check, Throw, Cleaned
  <2> QED BY <2>2, <2>3
<1>h. ASSUME Busy
      PROVE  /\ IsPath(Target) /\ IsPath(Candidate) /\ IsPath(Previous)
             /\ Len(Candidate) = Len(Target) /\ Len(Previous) = Len(Target)
             /\ OldStep(Target[Len(Target)], runs) /\ ~OldStep(Previous[Len(Previous)], runs)
             /\ \A i \in 1 .. Len(Target) : i # Len(Target) => OldStep(Target[i], runs)
             /\ \A i \in 1 .. Len(Previous) : i # Len(Previous) => OldStep(Previous[i], runs)
             /\ Target # Candidate /\ Target # Previous /\ Candidate # Previous
  <2>1. /\ IsPath(Target) /\ IsPath(Candidate) /\ IsPath(Previous)
        /\ Len(Candidate) = Len(Target) /\ Len(Previous) = Len(Target)
        /\ OldPath(Target, runs) /\ OldBut(Previous, Previous, runs)
        /\ ~OldStep(Candidate[Len(Candidate)], runs) /\ ~OldStep(Previous[Len(Previous)], runs)
        /\ Candidate[Len(Candidate)].mark = "candidate" /\ Previous[Len(Previous)].mark = "previous"
    BY <1>h, WhereTheRunWorks
  <2>2. Len(Target) \in 1 .. Len(Target)
    BY <2>1, PathSteps
  <2>3. OldStep(Target[Len(Target)], runs)
    BY <2>1, <2>2 DEF OldPath
  <2>4. Target # Candidate /\ Target # Previous
    BY <2>1, <2>3
  <2> QED BY <2>1, <2>3, <2>4 DEF OldPath, OldBut
<1>9. CASE MoveOut
  <2>1. pc = "out" /\ pc' = "in" /\ UNCHANGED <<at, runs, queue, backup>> /\ backup
        /\ tree' = Moved(tree, Target, Previous)
    BY <1>9 DEF MoveOut, FreshInv
  <2>2. Held = {Candidate} /\ Held' = {Candidate, Previous}
    BY <1>e, <2>1 DEF Held, Placed, Aside
  <2>3. FreshTree(tree', runs, (Held \ {Target}) \cup {Previous})
    BY <1>a, <1>h, <2>1, FreshMoved DEF Busy
  <2>4. (Held \ {Target}) \cup {Previous} = Held'
    BY <1>h, <2>1, <2>2 DEF Busy
  <2> QED BY <1>d, <2>1, <2>3, <2>4 DEF Busy
<1>10. CASE MoveIn
  <2>1. pc = "in" /\ pc' = (IF backup THEN "drop" ELSE "record") /\ UNCHANGED <<at, runs, queue, backup>>
        /\ tree' = Moved(tree, Candidate, Target)
    BY <1>10 DEF MoveIn
  <2>2. Held = {Candidate} \cup (IF backup THEN {Previous} ELSE {})
        /\ Held' = IF backup THEN {Previous} ELSE {}
    BY <1>e, <2>1 DEF Held, Placed, Aside
  <2>3. FreshTree(tree', runs, (Held \ {Candidate}) \cup {})
    BY <1>a, <1>h, <2>1, FreshMoved DEF Busy
  <2>4. (Held \ {Candidate}) \cup {} = Held'
    BY <1>h, <2>1, <2>2 DEF Busy
  <2> QED BY <1>d, <2>1, <2>3, <2>4 DEF Busy
<1>11. CASE DropBackup
  <2>1. pc = "drop" /\ pc' = "record" /\ UNCHANGED <<at, runs, queue>> /\ tree' = Without(tree, Previous)
    BY <1>11 DEF DropBackup
  <2>2. Held = {Previous} /\ Held' = {}
    BY <2>1 DEF Held, Placed, Aside
  <2>3. FreshTree(tree', runs, Held \ {Previous})
    BY <1>a, <2>1, FreshWithout
  <2>4. Held \ {Previous} = Held'
    BY <2>2
  <2> QED BY <1>d, <2>1, <2>3, <2>4 DEF Busy
<1>12. CASE Extracted
  <2>1. pc = "record" /\ pc' = "take" /\ UNCHANGED <<tree, runs, at>>
        /\ queue' = queue \o EnqueueNestedZips(Target, at.depth)
    BY <1>12 DEF Extracted
  <2>2. PICK S : queue \in Seq(S) /\ \A v \in S : OldPath(v.path, runs)
    BY <2>1 DEF FreshInv
  <2>3. Held = {} /\ Held' = {} /\ Now' = runs /\ Now = runs /\ ~Busy'
    BY <2>1 DEF Held, Placed, Aside, Now, Busy
  <2>4. \A p \in DOMAIN tree : OldPath(p, runs)
    BY <1>a, <2>3 DEF FreshTree
  <2>5. \E T : EnqueueNestedZips(Target, at.depth) \in Seq(T) /\ \A v \in T : OldPath(v.path, runs)
    <3>1. CASE at.depth >= Policy.depth
      <4>1. EnqueueNestedZips(Target, at.depth) = <<>>
        BY <3>1 DEF EnqueueNestedZips
      <4>2. <<>> \in Seq({}) /\ \A v \in {} : OldPath(v.path, runs)
        OBVIOUS
      <4>3. EnqueueNestedZips(Target, at.depth) \in Seq({})
        BY <4>1, <4>2
      <4> QED BY <4>2, <4>3
    <3>2. CASE ~(at.depth >= Policy.depth)
      <4> DEFINE paths == {p \in Inside(tree, Target) : IsZip(tree, p)}
      <4>1. at.depth + 1 \in 0 .. Policy.depth
        BY <2>1, <3>2, PolicyDepth DEF IsVisit, RunInv, Busy
      <4>2. paths \in SUBSET DOMAIN tree /\ \A p \in paths : IsZip(tree, p)
        BY DEF Inside
      <4> HIDE DEF paths
      <4>3. \E T : Queued(paths, at.depth + 1) \in Seq(T) /\ \A v \in T : IsVisit(v) /\ v.path \in paths
        BY <4>1, <4>2, QueuedVisits DEF RunInv
      <4> QED BY <2>4, <3>2, <4>2, <4>3 DEF EnqueueNestedZips, paths
    <3> QED BY <3>1, <3>2
  <2>6. PICK T : EnqueueNestedZips(Target, at.depth) \in Seq(T) /\ \A v \in T : OldPath(v.path, runs)
    BY <2>5
  <2>7. queue' \in Seq(S \cup T)
    <3>1. queue \in Seq(S \cup T) /\ EnqueueNestedZips(Target, at.depth) \in Seq(S \cup T)
      BY <2>2, <2>6, WiderSequences
    <3> QED BY <2>1, <3>1
  <2>8. \A v \in S \cup T : OldPath(v.path, runs)
    BY <2>2, <2>6
  <2> QED BY <1>a, <2>1, <2>3, <2>7, <2>8 DEF FreshInv
<1>13. CASE Vanished \/ CallFails
  <2>1. Busy /\ pc' = "idle" /\ runs' = runs /\ tree' = Without(tree, Candidate)
    BY <1>13 DEF Vanished, CallFails, Throw, Cleaned, Busy
  <2> QED BY <1>c, <1>g, <2>1
<1>14. CASE Restore
  <2>1. pc = "in" /\ Busy /\ pc' = "idle" /\ runs' = runs
    BY <1>14 DEF Restore, Busy
  <2>2. \/ tree' = Without(tree, Candidate)
        \/ tree' = Without(Moved(tree, Previous, Target), Candidate)
    BY <1>14 DEF Restore
  <2>3. CASE tree' = Without(Moved(tree, Previous, Target), Candidate)
    <3> DEFINE m == Moved(tree, Previous, Target)
    <3>1. FreshTree(m, runs, (Held \ {Previous}) \cup {})
      BY <1>a, <1>h, <2>1, FreshMoved
    <3>2. HasPaths(m)
      BY <1>a, <1>h, <2>1, MovedFrom
    <3> HIDE DEF m
    <3>3. FreshTree(tree', runs, ((Held \ {Previous}) \cup {}) \ {Candidate})
      BY <2>3, <3>1, FreshWithout DEF m
    <3>4. HasPaths(tree')
      BY <2>3, <3>2, WithoutNodes DEF m
    <3>5. FreshTree(tree', runs + 1, {})
      BY <1>b, <2>1, <3>3, <3>4
    <3> QED BY <1>c, <2>1, <3>5
  <2> QED BY <1>c, <1>g, <2>1, <2>2, <2>3
<1>15. CASE Crash
  BY <1>15, <1>a, <1>b, <1>c DEF Crash
<1>16. CASE TimeRunsOut
  <2>1. UNCHANGED <<pc, tree, at, runs, queue, backup>>
    BY <1>16 DEF TimeRunsOut
  <2>2. Held' = Held /\ Now' = Now
    BY <1>e, <2>1 DEF Held, Placed, Aside, Now
  <2> QED BY <2>1, <2>2 DEF FreshInv, Busy
<1>17. CASE User
  <2>1. UNCHANGED <<pc, at, runs, queue, backup>>
    BY <1>17 DEF User, UserActs, PutsArchive, RemovesArchive, MakesDirectory, RemovesExtraction
  <2>2. Held' = Held /\ Now' = Now
    BY <1>e, <2>1 DEF Held, Placed, Aside, Now
  <2>3. \A name : OldPath(<<Plain(name)>>, Now)
    BY OneStep DEF OldPath, OldStep, Plain
  <2>4. FreshTree(tree', Now, Held)
    <3>1. ASSUME NEW name \in Names, NEW c \in Contents, PutsArchive(name, c)
          PROVE  FreshTree(tree', Now, Held)
      BY <1>a, <2>3, <3>1, FreshWith DEF PutsArchive
    <3>2. ASSUME NEW name \in Names, RemovesArchive(name) PROVE FreshTree(tree', Now, Held)
      BY <1>a, <3>2 DEF RemovesArchive, Restrict, FreshTree
    <3>3. ASSUME NEW name \in Names, MakesDirectory(name) PROVE FreshTree(tree', Now, Held)
      BY <1>a, <2>3, <3>3, FreshWith DEF MakesDirectory
    <3>4. ASSUME NEW name \in Names, RemovesExtraction(name) PROVE FreshTree(tree', Now, Held)
      BY <1>a, <3>4 DEF RemovesExtraction, Without, Restrict, FreshTree
    <3> QED BY <1>17, <3>1, <3>2, <3>3, <3>4 DEF User
  <2> QED BY <2>1, <2>2, <2>4 DEF FreshInv, Busy
<1>18. CASE UNCHANGED expansionVars
  <2>1. UNCHANGED <<pc, tree, at, runs, queue, backup>>
    BY <1>18 DEF expansionVars
  <2>2. Held' = Held /\ Now' = Now
    BY <1>e, <2>1 DEF Held, Placed, Aside, Now
  <2> QED BY <2>1, <2>2 DEF FreshInv, Busy
<1> QED BY <1>1, <1>2, <1>3, <1>4, <1>5, <1>6, <1>7, <1>8, <1>9, <1>10, <1>11, <1>12, <1>13, <1>14,
           <1>15, <1>16, <1>17, <1>18 DEF ExpansionNext, Step

LEMMA FreshStarts == ExpansionInit => FreshInv
<1>1. DOMAIN <<>> = {}
  OBVIOUS
<1> QED BY <1>1 DEF ExpansionInit, FreshInv, FreshTree, Now, Held, Placed, Aside, Busy

-----------------------------------------------------------------------------
(* What a step leaves alone *)

Disjoint(x, y) == \A q : IsPath(q) => ~(IsPrefix(x, q) /\ IsPrefix(y, q))

SameUnder(d, t, u) ==
    \A q : IsPrefix(d, q) =>
        (q \in DOMAIN t <=> q \in DOMAIN u) /\ (q \in DOMAIN t => u[q] = t[q])

LEMMA SiblingsApart ==
    ASSUME NEW x, NEW y, IsPath(x), IsPath(y), Len(x) = Len(y), x # y
    PROVE  Disjoint(x, y)
<1>1. SUFFICES ASSUME NEW q, IsPath(q), IsPrefix(x, q), IsPrefix(y, q) PROVE FALSE
  BY DEF Disjoint
<1>2. IsPrefix(x, y)
  BY <1>1, PrefixBetween, PathSteps
<1> QED BY <1>2, WholePrefix

LEMMA UntouchedWith ==
    ASSUME NEW t, NEW p, NEW node, NEW d, ~IsPrefix(d, p)
    PROVE  SameUnder(d, t, With(t, p, node))
BY DEF SameUnder, With

LEMMA UntouchedWithout ==
    ASSUME NEW t, HasPaths(t), NEW x, NEW d, Disjoint(d, x)
    PROVE  SameUnder(d, t, Without(t, x))
<1> DEFINE w == Without(t, x)
<1>1. /\ DOMAIN w = {p \in DOMAIN t : ~IsPrefix(x, p)}
      /\ \A q \in DOMAIN t : ~IsPrefix(x, q) => w[q] = t[q]
  BY WithoutNodes
<1> HIDE DEF w
<1>2. \A q \in DOMAIN t : IsPrefix(d, q) => ~IsPrefix(x, q)
  BY DEF Disjoint, HasPaths
<1> QED BY <1>1, <1>2 DEF SameUnder, w

LEMMA UntouchedMoved ==
    ASSUME NEW t, HasPaths(t), NEW from, NEW to, IsPath(from), IsPath(to), Len(from) = Len(to),
           NEW d, Disjoint(d, from), Disjoint(d, to)
    PROVE  SameUnder(d, t, Moved(t, from, to))
<1> DEFINE m == Moved(t, from, to)
<1>1. HasPaths(m)
  BY MovedFrom
<1>2. \A p \in DOMAIN t : ~IsPrefix(from, p) /\ ~IsPrefix(to, p) => p \in DOMAIN m /\ m[p] = t[p]
  BY MovedFrom
<1>3. \A q \in DOMAIN m : q \in DOMAIN t \/ IsPrefix(to, q)
  BY MovedFrom
<1> HIDE DEF m
<1>4. ASSUME NEW q, IsPrefix(d, q)
      PROVE  (q \in DOMAIN t <=> q \in DOMAIN m) /\ (q \in DOMAIN t => m[q] = t[q])
  <2>1. q \in DOMAIN t => ~IsPrefix(from, q) /\ ~IsPrefix(to, q)
    BY <1>4 DEF Disjoint, HasPaths
  <2>2. q \in DOMAIN m => ~IsPrefix(to, q)
    BY <1>1, <1>4 DEF Disjoint, HasPaths
  <2> QED BY <1>2, <1>3, <2>1, <2>2
<1> QED BY <1>4 DEF SameUnder, m

\* Users work beside what the run has marked.
LEMMA UsersElsewhere ==
    ASSUME RunInv, User, NEW x, IsPath(x), x[Len(x)].mark # "plain",
           Len(x) = 1 \/ (Busy /\ Len(x) = Len(at.path))
    PROVE  SameUnder(x, tree, tree')
<1>e. HasPaths(tree)
  BY DEF RunInv, TypedTree
<1>1. ASSUME NEW name \in Names, NEW c \in Contents, PutsArchive(name, c)
      PROVE  SameUnder(x, tree, tree')
  <2> DEFINE p == <<Plain(name)>>
             node == Node("zip", c, None)
  <2>1. tree' = With(tree, p, node)
    BY <1>1 DEF PutsArchive
  <2>2. AtTop(p)
    BY OneStep DEF AtTop, Plain
  <2> HIDE DEF p, node
  <2> QED BY <2>1, <2>2, OutsideTheMarked, UntouchedWith
<1>2. ASSUME NEW name \in Names, RemovesArchive(name) PROVE SameUnder(x, tree, tree')
  <2> DEFINE p == <<Plain(name)>>
  <2>1. tree' = Restrict(tree, DOMAIN tree \ {p})
    BY <1>2 DEF RemovesArchive
  <2>2. AtTop(p)
    BY OneStep DEF AtTop, Plain
  <2> HIDE DEF p
  <2>3. ~IsPrefix(x, p)
    BY <2>2, OutsideTheMarked
  <2> QED BY <2>1, <2>3 DEF SameUnder, Restrict
<1>3. ASSUME NEW name \in Names, MakesDirectory(name) PROVE SameUnder(x, tree, tree')
  <2> DEFINE d == <<Plain(ExtractDir[name])>>
             node == Node("user", edits', None)
  <2>1. tree' = With(tree, d, node)
    BY <1>3 DEF MakesDirectory
  <2>2. AtTop(d)
    BY OneStep DEF AtTop, Plain
  <2> HIDE DEF d, node
  <2> QED BY <2>1, <2>2, OutsideTheMarked, UntouchedWith
<1>4. ASSUME NEW name \in Names, RemovesExtraction(name) PROVE SameUnder(x, tree, tree')
  <2> DEFINE d == <<Plain(ExtractDir[name])>>
  <2>1. tree' = Without(tree, d) /\ (~Busy \/ Len(at.path) = 1)
    BY <1>4 DEF RemovesExtraction, Busy
  <2>2. AtTop(d)
    BY OneStep DEF AtTop, Plain
  <2> HIDE DEF d
  <2>3. Len(x) = 1
    BY <2>1
  <2>4. x # d
    BY <2>2, <2>3 DEF AtTop
  <2>5. Disjoint(x, d)
    BY <2>2, <2>3, <2>4, SiblingsApart DEF AtTop
  <2> QED BY <1>e, <2>1, <2>5, UntouchedWithout
<1> QED BY <1>1, <1>2, <1>3, <1>4 DEF User

-----------------------------------------------------------------------------
(* The candidate *)

CandInv ==
    Placed =>
        /\ Candidate \in DOMAIN tree
        /\ tree[Candidate] = Node("dir", staged, IF pc = "write" THEN None ELSE LastName(at.path))
        /\ pc # "write" => written = Len(Members)
        /\ \A j \in 1 .. written :
             /\ PathIn(Candidate, Members[j]) \in DOMAIN tree
             /\ tree[PathIn(Candidate, Members[j])] = Piece(staged, Members[j])
        /\ \A p \in Inside(tree, Candidate) :
             p = Candidate \/ \E j \in 1 .. written : p = PathIn(Candidate, Members[j])

LEMMA MembersApart ==
    ASSUME NEW d, IsPath(d), NEW e, NEW f, IsMember(e), IsMember(f),
           IsPrefix(PathIn(d, e), PathIn(d, f))
    PROVE  IsPrefix(Canonical(e), Canonical(f))
<1> DEFINE a == Canonical(e)
           b == Canonical(f)
           p == PathIn(d, e)
           q == PathIn(d, f)
<1>1. IsPath(a) /\ IsPath(b)
  BY SequencesArePaths DEF IsMember
<1>2. /\ IsPath(p) /\ Len(p) = Len(d) + Len(a)
      /\ \A i \in Len(d) + 1 .. Len(p) : p[i] = Plain(a[i - Len(d)])
  BY MemberPath
<1>3. /\ IsPath(q) /\ Len(q) = Len(d) + Len(b)
      /\ \A i \in Len(d) + 1 .. Len(q) : q[i] = Plain(b[i - Len(d)])
  BY MemberPath
<1>4. IsPrefix(p, q)
  OBVIOUS
<1> HIDE DEF a, b, p, q
<1>5. Len(p) <= Len(q) /\ \A i \in 1 .. Len(p) : p[i] = q[i]
  BY <1>2, <1>3, <1>4, PrefixSteps
<1>6. Len(a) \in Nat /\ Len(b) \in Nat /\ Len(d) \in Nat
  BY <1>1, PathSteps
<1>7. Len(a) <= Len(b)
  BY <1>2, <1>3, <1>5, <1>6
<1>8. ASSUME NEW i \in 1 .. Len(a) PROVE a[i] = b[i]
  <2>1. /\ i + Len(d) \in Len(d) + 1 .. Len(p) /\ i + Len(d) \in 1 .. Len(p)
        /\ i + Len(d) \in Len(d) + 1 .. Len(q) /\ (i + Len(d)) - Len(d) = i
    BY <1>2, <1>3, <1>6, <1>7
  <2>2. Plain(a[i]) = Plain(b[i])
    BY <1>2, <1>3, <1>5, <2>1
  <2>3. Plain(a[i]).name = a[i] /\ Plain(b[i]).name = b[i]
    BY DEF Plain
  <2> QED BY <2>2, <2>3
<1> QED BY <1>1, <1>7, <1>8, PrefixSteps DEF a, b

\* Nothing under the candidate has changed.
LEMMA CandidateKept ==
    ASSUME CandInv, Placed, Placed', UNCHANGED <<at, runs, staged, written>>,
           (pc = "write") = (pc' = "write"), SameUnder(Candidate, tree, tree'), IsPath(Candidate),
           RunInv
    PROVE  CandInv'
<1>1. Candidate' = Candidate /\ Members' = Members
  BY DEF Candidate, Beside, Target, Members, Preflight
<1>2. IsPrefix(Candidate, Candidate)
  BY OwnPrefix
<1>3. \A j \in 1 .. written : IsPrefix(Candidate, PathIn(Candidate, Members[j]))
  <2>1. \A j \in 1 .. written : j \in 1 .. Len(Members) /\ IsMember(Members[j])
    BY MembersKnown DEF RunInv, Placed, Admitted, Busy
  <2> QED BY <2>1, MemberPath
<1> QED BY <1>1, <1>2, <1>3 DEF CandInv, SameUnder, Inside, RunInv

LEMMA CandidateSteps ==
    RunInv /\ FreshInv /\ CandInv /\ [ExpansionNext]_expansionVars => CandInv'
<1> SUFFICES ASSUME RunInv, FreshInv, CandInv, [ExpansionNext]_expansionVars, Placed' PROVE CandInv'
  BY DEF CandInv
<1> USE DEF Goto, visit, source, oracle, bounds, budget
<1>e. HasPaths(tree)
  BY DEF RunInv, TypedTree
<1>p. Placed => Busy
  BY DEF Placed, Busy
<1>1. CASE Prepare
  <2>1. /\ pc = "prepare" /\ pc' = "write" /\ UNCHANGED <<at, runs, staged, written>>
        /\ tree' = With(tree, Candidate, Node("dir", staged, None))
    BY <1>1 DEF Prepare, Throw, HoldCandidate, Placed
  <2>2. Busy /\ ~Placed
    BY <2>1 DEF Busy, Placed
  <2>3. Inside(tree, Candidate) = {}
    BY <2>2, NothingHeld
  <2>4. Candidate' = Candidate
    BY <2>1 DEF Candidate, Beside, Target
  <2>5. written' = 0
    BY <2>1 DEF RunInv
  <2>6. /\ Candidate \in DOMAIN tree' /\ tree'[Candidate] = Node("dir", staged, None)
        /\ DOMAIN tree' = DOMAIN tree \cup {Candidate}
    BY <2>1 DEF With
  <2> QED BY <2>1, <2>3, <2>4, <2>5, <2>6 DEF CandInv, Inside
<1>2. CASE Write
  <2> DEFINE e == Members[written + 1]
             q == PathIn(Candidate, e)
             piece == Piece(staged, e)
  <2>1. /\ pc = "write" /\ pc' = "write" /\ UNCHANGED <<at, runs, staged>> /\ written' = written + 1
        /\ tree' = With(tree, q, piece) /\ written < Len(Members)
    BY <1>2 DEF Write, HoldCandidate, Placed, Snapshot
  <2>2. Busy /\ Placed
    BY <2>1 DEF Busy, Placed
  <2>3. IsPath(Candidate)
    BY <2>2, WhereTheRunWorks
  <2>4. /\ Len(Members) \in Nat
        /\ \A j \in 1 .. Len(Members) : IsMember(Members[j])
        /\ \A j, k \in 1 .. Len(Members) : j # k =>
             ~IsPrefix(Canonical(Members[j]), Canonical(Members[k]))
    BY <2>1, <2>2, MembersKnown DEF RunInv, Admitted
  <2>5. written \in Nat
    BY <2>2 DEF RunInv
  <2>6. written + 1 \in 1 .. Len(Members) /\ \A j \in 1 .. written : j \in 1 .. Len(Members) /\ j # written + 1
    BY <2>1, <2>4, <2>5
  <2>7. /\ IsPath(q) /\ IsPrefix(Candidate, q) /\ Len(q) > Len(Candidate)
    BY <2>3, <2>4, <2>6, MemberPath
  <2>8. q # Candidate
    <3>1. Len(Candidate) \in Nat
      BY <2>3, PathSteps
    <3> HIDE DEF q
    <3> QED BY <2>7, <3>1
  <2>9. \A j \in 1 .. written : PathIn(Candidate, Members[j]) # q
    <3> SUFFICES ASSUME NEW j \in 1 .. written, PathIn(Candidate, Members[j]) = q PROVE FALSE
      OBVIOUS
    <3>1. j \in 1 .. Len(Members) /\ j # written + 1 /\ IsMember(Members[j]) /\ IsMember(e)
      BY <2>4, <2>6
    <3>2. IsPrefix(PathIn(Candidate, Members[j]), q)
      BY <2>7, OwnPrefix
    <3>3. IsPrefix(Canonical(Members[j]), Canonical(e))
      BY <2>3, <3>1, <3>2, MembersApart
    <3> QED BY <2>4, <2>6, <3>1, <3>3
  <2>10. Candidate' = Candidate /\ Members' = Members
    BY <2>1 DEF Candidate, Beside, Target, Members, Preflight
  <2>11. q = PathIn(Candidate, Members[written + 1]) /\ piece = Piece(staged, Members[written + 1])
    OBVIOUS
  <2> HIDE DEF e, q, piece
  <2>12. /\ DOMAIN tree' = DOMAIN tree \cup {q} /\ tree'[q] = piece
         /\ \A p \in DOMAIN tree : p # q => tree'[p] = tree[p]
    BY <2>1 DEF With
  <2>13. \A j \in 1 .. written + 1 : j = written + 1 \/ j \in 1 .. written
    BY <2>5
  <2>14. \A j \in 1 .. written : j \in 1 .. written + 1
    BY <2>5
  <2>15. written + 1 \in 1 .. written + 1
    BY <2>5
  <2>16. /\ Candidate \in DOMAIN tree' /\ tree'[Candidate] = Node("dir", staged, None)
    BY <2>1, <2>2, <2>8, <2>12 DEF CandInv
  <2>17. \A j \in 1 .. written + 1 :
           /\ PathIn(Candidate, Members[j]) \in DOMAIN tree'
           /\ tree'[PathIn(Candidate, Members[j])] = Piece(staged, Members[j])
    BY <2>2, <2>9, <2>11, <2>12, <2>13 DEF CandInv
  <2>18. \A p \in Inside(tree', Candidate) :
           p = Candidate \/ \E j \in 1 .. written + 1 : p = PathIn(Candidate, Members[j])
    <3> SUFFICES ASSUME NEW p \in Inside(tree', Candidate), p # Candidate
                 PROVE  \E j \in 1 .. written + 1 : p = PathIn(Candidate, Members[j])
      OBVIOUS
    <3>1. CASE p = q
      BY <2>11, <2>15, <3>1
    <3>2. CASE p # q
      <4>1. p \in Inside(tree, Candidate)
        BY <2>12, <3>2 DEF Inside
      <4>2. \E j \in 1 .. written : p = PathIn(Candidate, Members[j])
        BY <2>2, <4>1 DEF CandInv
      <4> QED BY <2>14, <4>2
    <3> QED BY <3>1, <3>2
  <2> QED BY <2>1, <2>10, <2>16, <2>17, <2>18 DEF CandInv
<1>3. CASE Mark
  <2>1. /\ pc = "write" /\ pc' = "check" /\ UNCHANGED <<at, runs, staged, written>>
        /\ written = Len(Members)
        /\ tree' = [tree EXCEPT ![Candidate].whose = Last(at.path).name]
    BY <1>3 DEF Mark
  <2>2. Placed /\ Busy
    BY <2>1 DEF Placed, Busy
  <2>3. Candidate' = Candidate /\ Members' = Members
    BY <2>1 DEF Candidate, Beside, Target, Members, Preflight
  <2>4. Candidate \in DOMAIN tree /\ tree[Candidate] = Node("dir", staged, None)
    BY <2>1, <2>2 DEF CandInv
  <2>5. /\ DOMAIN tree' = DOMAIN tree
        /\ tree'[Candidate] = Node("dir", staged, LastName(at.path))
        /\ \A p \in DOMAIN tree : p # Candidate => tree'[p] = tree[p]
    BY <2>1, <2>4 DEF Node, Last, LastName
  <2>6. \A j \in 1 .. written : PathIn(Candidate, Members[j]) # Candidate
    <3>1. IsPath(Candidate)
      BY <2>2, WhereTheRunWorks
    <3>2. \A j \in 1 .. written : IsMember(Members[j])
      BY <2>1, <2>2, MembersKnown DEF RunInv, Admitted
    <3>3. ASSUME NEW j \in 1 .. written PROVE PathIn(Candidate, Members[j]) # Candidate
      <4> DEFINE q == PathIn(Candidate, Members[j])
      <4>1. Len(q) > Len(Candidate) /\ Len(Candidate) \in Nat
        BY <3>1, <3>2, MemberPath, PathSteps
      <4> HIDE DEF q
      <4>2. q # Candidate
        BY <4>1
      <4> QED BY <4>2 DEF q
    <3> QED BY <3>3
  <2>7. Inside(tree', Candidate) = Inside(tree, Candidate)
    BY <2>5 DEF Inside
  <2> QED BY <2>1, <2>2, <2>3, <2>4, <2>5, <2>6, <2>7 DEF CandInv
<1>k. ASSUME Placed, UNCHANGED <<at, runs, staged, written>>, (pc = "write") = (pc' = "write"),
             SameUnder(Candidate, tree, tree')
      PROVE  CandInv'
  BY <1>k, <1>p, CandidateKept, WhereTheRunWorks
<1>s. ASSUME Placed, UNCHANGED <<at, runs, staged, written, tree>>, (pc = "write") = (pc' = "write")
      PROVE  CandInv'
  <2>1. SameUnder(Candidate, tree, tree')
    BY <1>s DEF SameUnder
  <2> QED BY <1>k, <1>s, <2>1
<1>4. CASE Check
  <2>1. pc = "check" /\ pc' # "write" /\ UNCHANGED <<at, runs, staged, written, tree>>
    BY <1>4 DEF Check, Throw, Placed
  <2> QED BY <1>s, <2>1 DEF Placed
<1>5. CASE MoveOut
  <2>1. /\ pc = "out" /\ pc' = "in" /\ UNCHANGED <<at, runs, staged, written>>
        /\ tree' = Moved(tree, Target, Previous)
    BY <1>5 DEF MoveOut
  <2>2. /\ IsPath(Target) /\ IsPath(Candidate) /\ IsPath(Previous)
        /\ Len(Candidate) = Len(Target) /\ Len(Previous) = Len(Target)
        /\ Candidate # Previous /\ Candidate # Target
    <3>1. Busy
      BY <2>1 DEF Busy
    <3>2. /\ Candidate[Len(Candidate)].mark # Previous[Len(Previous)].mark
          /\ ~OldStep(Candidate[Len(Candidate)], runs) /\ OldPath(Target, runs)
          /\ IsPath(Target) /\ IsPath(Candidate) /\ IsPath(Previous)
          /\ Len(Candidate) = Len(Target) /\ Len(Previous) = Len(Target)
      BY <3>1, WhereTheRunWorks
    <3>3. Len(Target) \in 1 .. Len(Target)
      BY <3>2, PathSteps
    <3> QED BY <3>2, <3>3 DEF OldPath
  <2>3. Disjoint(Candidate, Target) /\ Disjoint(Candidate, Previous)
    BY <2>2, SiblingsApart
  <2>4. SameUnder(Candidate, tree, tree')
    BY <1>e, <2>1, <2>2, <2>3, UntouchedMoved
  <2> QED BY <1>k, <2>1, <2>4 DEF Placed
<1>6. CASE TimeRunsOut
  BY <1>6, <1>s DEF TimeRunsOut, Placed
<1>7. CASE User
  <2>1. UNCHANGED <<pc, at, runs, staged, written>>
    BY <1>7 DEF User, UserActs, PutsArchive, RemovesArchive, MakesDirectory, RemovesExtraction
  <2>2. Placed /\ Busy
    BY <2>1 DEF Placed, Busy
  <2>3. /\ IsPath(Candidate) /\ Candidate[Len(Candidate)].mark # "plain" /\ Len(Candidate) = Len(at.path)
    <3>1. IsPath(at.path)
      BY <2>2 DEF RunInv, IsVisit
    <3> QED BY <3>1, AtPlace
  <2>4. SameUnder(Candidate, tree, tree')
    BY <1>7, <2>2, <2>3, UsersElsewhere
  <2> QED BY <1>k, <2>1, <2>2, <2>4
<1>8. CASE UNCHANGED expansionVars
  BY <1>8, <1>s DEF expansionVars, Placed
<1>9. CASE \/ \E observe \in BOOLEAN : Start(observe)
           \/ Finish \/ Take \/ Stage \/ Admit \/ Verify \/ MoveIn \/ DropBackup \/ Extracted
           \/ Vanished \/ Restore \/ CallFails \/ Crash
  BY <1>9 DEF Start, Finish, Take, Stage, Admit, Verify, Hold, Foretell, MoveIn, DropBackup,
              Extracted, Vanished, Restore, CallFails, Crash, Throw, Placed
<1> QED BY <1>1, <1>2, <1>3, <1>4, <1>5, <1>6, <1>7, <1>8, <1>9 DEF ExpansionNext, Step

-----------------------------------------------------------------------------
(* What was extracted *)

LEMMA TreeChanges ==
    ASSUME RunInv, [ExpansionNext]_expansionVars
    PROVE  \/ tree' = tree
           \/ Busy /\ tree' = Without(tree, Candidate)
           \/ pc = "prepare" /\ tree' = With(tree, Candidate, Node("dir", staged, None))
           \/ pc = "write" /\ \E e : IsMember(e) /\ tree' = With(tree, PathIn(Candidate, e), Piece(staged, e))
           \/ Mark \/ MoveOut \/ MoveIn \/ DropBackup
           \/ /\ pc = "in" /\ backup /\ ~Stands(tree, Target)
              /\ tree' = Without(Moved(tree, Previous, Target), Candidate)
           \/ User
<1> USE DEF Goto, visit, source, oracle, bounds, budget
<1>1. CASE \/ \E observe \in BOOLEAN : Start(observe)
           \/ Finish \/ Take \/ Stage \/ Admit \/ Verify \/ Extracted \/ Crash \/ TimeRunsOut
  BY <1>1 DEF Start, Finish, Take, Stage, Admit, Verify, Hold, Foretell, Extracted, Crash, TimeRunsOut
<1>2. CASE Prepare
  BY <1>2 DEF Prepare, Throw, HoldCandidate, Cleaned, Busy
<1>3. CASE Write
  <2> DEFINE e == Members[written + 1]
  <2>1. pc = "write" /\ written < Len(Members)
    BY <1>3 DEF Write
  <2>2. IsMember(e)
    BY <2>1, MembersKnown DEF RunInv, Placed, Admitted, Busy
  <2>3. tree' = Without(tree, Candidate) \/ tree' = With(tree, PathIn(Candidate, e), Piece(staged, e))
    BY <1>3 DEF Write, HoldCandidate, Cleaned, Snapshot
  <2> HIDE DEF e
  <2> QED BY <2>1, <2>2, <2>3 DEF Busy
<1>4. CASE Check \/ Vanished \/ CallFails
  BY <1>4 DEF Check, Vanished, CallFails, Throw, Cleaned, Busy
<1>5. CASE Restore
  BY <1>5 DEF Restore, Busy
<1>6. CASE UNCHANGED expansionVars
  BY <1>6 DEF expansionVars
<1> QED BY <1>1, <1>2, <1>3, <1>4, <1>5, <1>6 DEF ExpansionNext, Step

Stays(p) == p \in DOMAIN tree' /\ tree'[p] = tree[p]

\* What the run does at the top, it does at its candidate, its backup and its target.
LEMMA RunStaysOff ==
    ASSUME RunInv, FreshInv, [ExpansionNext]_expansionVars,
           NEW p \in DOMAIN tree, IsPath(p), Len(p) = 1,
           Busy => p # Candidate /\ p # Previous,
           MoveOut => p # Target
    PROVE  Stays(p) \/ User
<1>e. HasPaths(tree)
  BY DEF RunInv, TypedTree
<1>a. Busy => /\ IsPath(Target) /\ IsPath(Candidate) /\ IsPath(Previous)
              /\ Len(Candidate) = Len(Target) /\ Len(Previous) = Len(Target)
  BY WhereTheRunWorks
<1>b. Busy => ~IsPrefix(Candidate, p) /\ ~IsPrefix(Previous, p)
  BY <1>a, OneStepDeep
<1>c. MoveOut => ~IsPrefix(Target, p)
  <2>1. MoveOut => Busy
    BY DEF MoveOut, Busy
  <2> QED BY <1>a, <2>1, OneStepDeep
<1>d. Busy /\ ~Stands(tree, Target) => ~IsPrefix(Target, p)
  BY DEF Stands, Inside
<1>1. CASE tree' = tree
  BY <1>1 DEF Stays
<1>2. CASE Busy /\ tree' = Without(tree, Candidate)
  BY <1>2, <1>b, <1>e, WithoutNodes DEF Stays
<1>3. CASE pc = "prepare" /\ tree' = With(tree, Candidate, Node("dir", staged, None))
  BY <1>3 DEF Stays, With, Busy
<1>4. CASE pc = "write" /\ \E e : IsMember(e) /\ tree' = With(tree, PathIn(Candidate, e), Piece(staged, e))
  <2>1. PICK e : IsMember(e) /\ tree' = With(tree, PathIn(Candidate, e), Piece(staged, e))
    BY <1>4
  <2>2. Busy
    BY <1>4 DEF Busy
  <2>3. IsPrefix(Candidate, PathIn(Candidate, e))
    BY <1>a, <2>1, <2>2, MemberPath
  <2>4. p # PathIn(Candidate, e)
    BY <1>b, <2>2, <2>3
  <2> QED BY <2>1, <2>4 DEF Stays, With
<1>5. CASE Mark
  BY <1>5 DEF Mark, Goto, Busy, Stays
<1>6. CASE MoveOut
  <2>1. Busy /\ tree' = Moved(tree, Target, Previous)
    BY <1>6 DEF MoveOut, Busy
  <2> QED BY <1>6, <2>1, <1>a, <1>b, <1>c, <1>e, MovedFrom DEF Stays
<1>7. CASE MoveIn
  <2>1. Busy /\ tree' = Moved(tree, Candidate, Target) /\ ~Stands(tree, Target)
    BY <1>7 DEF MoveIn, Busy
  <2> QED BY <2>1, <1>a, <1>b, <1>d, <1>e, MovedFrom DEF Stays
<1>8. CASE DropBackup
  <2>1. Busy /\ tree' = Without(tree, Previous)
    BY <1>8 DEF DropBackup, Busy
  <2> QED BY <2>1, <1>b, <1>e, WithoutNodes DEF Stays
<1>9. CASE /\ pc = "in" /\ backup /\ ~Stands(tree, Target)
           /\ tree' = Without(Moved(tree, Previous, Target), Candidate)
  <2> DEFINE m == Moved(tree, Previous, Target)
  <2>1. Busy
    BY <1>9 DEF Busy
  <2>2. p \in DOMAIN m /\ m[p] = tree[p] /\ HasPaths(m)
    BY <1>9, <2>1, <1>a, <1>b, <1>d, <1>e, MovedFrom
  <2> HIDE DEF m
  <2>3. tree' = Without(m, Candidate)
    BY <1>9 DEF m
  <2> QED BY <1>b, <2>1, <2>2, <2>3, WithoutNodes DEF Stays
<1> QED BY <1>1, <1>2, <1>3, <1>4, <1>5, <1>6, <1>7, <1>8, <1>9, TreeChanges

\* What an earlier run left beside an extraction stays there.
LEMMA OldMarksStay ==
    ASSUME RunInv, FreshInv, [ExpansionNext]_expansionVars,
           NEW p \in DOMAIN tree, Len(p) = 1, p[1].mark # "plain", p[1].run # runs \/ pc = "idle"
    PROVE  Stays(p)
<1>1. IsPath(p)
  BY DEF RunInv, TypedTree, HasPaths
<1>2. Busy => p # Candidate /\ p # Previous /\ p # Target
  <2>1. Busy => /\ IsPath(at.path) /\ Candidate[Len(Candidate)].run = runs
                /\ Previous[Len(Previous)].run = runs /\ Target[Len(Target)].mark = "plain"
                /\ pc # "idle"
    <3>1. Busy => IsPath(at.path) /\ pc # "idle"
      BY DEF RunInv, IsVisit, Busy
    <3>2. IsPath(at.path) => Target[Len(Target)].mark = "plain"
      BY AtPlace
    <3> QED BY <3>1, <3>2, WhereTheRunWorks
  <2> QED BY <2>1
<1>3. MoveOut => Busy
  BY DEF MoveOut, Busy
<1>4. User => Stays(p)
  <2>1. User => SameUnder(p, tree, tree')
    BY <1>1, UsersElsewhere
  <2>2. IsPrefix(p, p)
    BY <1>1, OwnPrefix
  <2> QED BY <2>1, <2>2 DEF SameUnder, Stays
<1> QED BY <1>1, <1>2, <1>3, <1>4, RunStaysOff

\* An extraction leaves its place when it is moved aside, or when a user removes it.
LEMMA ExtractionsStay ==
    ASSUME RunInv, FreshInv, [ExpansionNext]_expansionVars, NEW d, AtTop(d), Owned(tree, d)
    PROVE  \/ Stays(d)
           \/ MoveOut /\ d = Target
           \/ d \notin safe'
<1>1. d \in DOMAIN tree /\ IsPath(d) /\ Len(d) = 1 /\ tree[d].kind = "dir" /\ d[1].mark = "plain"
  BY DEF AtTop, Owned
<1>2. Busy => d # Candidate /\ d # Previous
  <2>1. Busy => Candidate[Len(Candidate)].mark # "plain" /\ Previous[Len(Previous)].mark # "plain"
    BY WhereTheRunWorks
  <2> QED BY <1>1, <2>1
<1>3. User => Stays(d) \/ d \notin safe'
  <2>1. ASSUME NEW name \in Names, NEW c \in Contents, PutsArchive(name, c) PROVE Stays(d)
    <3> DEFINE p == <<Plain(name)>>
               node == Node("zip", c, None)
    <3>1. tree' = With(tree, p, node) /\ (Stands(tree, p) => tree[p].kind = "zip")
      BY <2>1 DEF PutsArchive, IsZip
    <3>2. IsPath(p)
      BY OneStep
    <3> HIDE DEF p, node
    <3>3. d # p
      BY <1>1, <3>1, <3>2, OwnPrefix DEF Stands, Inside
    <3> QED BY <1>1, <3>1, <3>3 DEF With, Stays
  <2>2. ASSUME NEW name \in Names, RemovesArchive(name) PROVE Stays(d)
    <3> DEFINE p == <<Plain(name)>>
    <3>1. tree' = Restrict(tree, DOMAIN tree \ {p}) /\ tree[p].kind = "zip"
      BY <2>2 DEF RemovesArchive, IsZip
    <3> HIDE DEF p
    <3> QED BY <1>1, <3>1 DEF Restrict, Stays
  <2>3. ASSUME NEW name \in Names, MakesDirectory(name) PROVE Stays(d)
    <3> DEFINE p == <<Plain(ExtractDir[name])>>
               node == Node("user", edits', None)
    <3>1. tree' = With(tree, p, node) /\ ~Stands(tree, p)
      BY <2>3 DEF MakesDirectory
    <3>2. IsPath(p)
      BY OneStep
    <3> HIDE DEF p, node
    <3>3. d # p
      BY <1>1, <3>1, <3>2, OwnPrefix DEF Stands, Inside
    <3> QED BY <1>1, <3>1, <3>3 DEF With, Stays
  <2>4. ASSUME NEW name \in Names, RemovesExtraction(name) PROVE Stays(d) \/ d \notin safe'
    <3> DEFINE p == <<Plain(ExtractDir[name])>>
    <3>1. tree' = Without(tree, p) /\ safe' = safe \ {p}
      BY <2>4 DEF RemovesExtraction
    <3>2. IsPath(p)
      BY OneStep
    <3> HIDE DEF p
    <3>3. d # p => ~IsPrefix(p, d)
      BY <1>1, <3>2, OneStepDeep
    <3>4. HasPaths(tree)
      BY DEF RunInv, TypedTree
    <3>5. CASE d = p
      <4>1. d \notin safe'
        BY <3>1, <3>5
      <4> QED BY <4>1
    <3>6. CASE d # p
      <4>1. Stays(d)
        <5>1. /\ DOMAIN Without(tree, p) = {q \in DOMAIN tree : ~IsPrefix(p, q)}
              /\ \A q \in DOMAIN tree : ~IsPrefix(p, q) => Without(tree, p)[q] = tree[q]
          BY <3>4, WithoutNodes
        <5>2. d \in DOMAIN tree /\ ~IsPrefix(p, d)
          BY <1>1, <3>3, <3>6
        <5> QED BY <3>1, <5>1, <5>2 DEF Stays
      <4> QED BY <4>1
    <3> QED BY <3>5, <3>6
  <2> QED BY <2>1, <2>2, <2>3, <2>4 DEF User
<1> QED BY <1>1, <1>2, <1>3, RunStaysOff

SetAside(d) == pc = "in" /\ backup /\ Target = d /\ Owned(tree, Previous)

Astray(d) ==
    /\ strays > 0
    /\ \E p \in DOMAIN tree :
         /\ Len(p) = 1 /\ p[1].name = d[1].name /\ Owned(tree, p)
         /\ p[1].mark # "plain" /\ p[1].run \in Nat /\ p[1].run < Now

\* It is in its place, moved aside for a moment, or where a crash or a failure left it.
SafeInv == \A d \in safe : AtTop(d) /\ (Owned(tree, d) \/ SetAside(d) \/ Astray(d))

LEMMA AstrayStays ==
    ASSUME RunInv, RunInv', FreshInv, [ExpansionNext]_expansionVars, NEW d, Astray(d)
    PROVE  Astray(d)'
<1>1. strays > 0 /\ strays \in Nat /\ runs \in Nat
  BY DEF Astray, RunInv
<1>2. PICK p \in DOMAIN tree :
         /\ Len(p) = 1 /\ p[1].name = d[1].name /\ Owned(tree, p)
         /\ p[1].mark # "plain" /\ p[1].run \in Nat /\ p[1].run < Now
  BY DEF Astray
<1>3. Stays(p)
  <2>1. p[1].run # runs \/ pc = "idle"
    BY <1>1, <1>2 DEF Now
  <2> QED BY <1>2, <2>1, OldMarksStay
<1> USE DEF Goto, visit, source, oracle, bounds, budget
<1>4. strays' >= strays /\ Now' >= Now
  <2>1. CASE \E observe \in BOOLEAN : Start(observe)
    BY <1>1, <2>1 DEF Start, Unless, Now
  <2>2. CASE Prepare
    BY <1>1, <2>2 DEF Prepare, Throw, HoldCandidate, Now
  <2>3. CASE Check
    BY <1>1, <2>3 DEF Check, Throw, Now
  <2>4. CASE Vanished \/ CallFails
    BY <1>1, <2>4 DEF Vanished, CallFails, Throw, Now
  <2>5. CASE Restore
    BY <1>1, <2>5 DEF Restore, Now
  <2>6. CASE Crash
    BY <1>1, <2>6 DEF Crash, Now
  <2>7. CASE User
    BY <1>1, <2>7 DEF User, UserActs, PutsArchive, RemovesArchive, MakesDirectory, RemovesExtraction, Now
  <2>8. CASE \/ Finish \/ Take \/ Stage \/ Admit \/ Verify \/ Write \/ Mark \/ MoveOut \/ MoveIn
             \/ DropBackup \/ Extracted \/ TimeRunsOut
    BY <1>1, <2>8 DEF Finish, Take, Stage, Admit, Verify, Hold, Foretell, Write, HoldCandidate, Mark,
                      MoveOut, MoveIn, DropBackup, Extracted, TimeRunsOut, Now
  <2>9. CASE UNCHANGED expansionVars
    BY <1>1, <2>9 DEF expansionVars, Now
  <2> QED BY <2>1, <2>2, <2>3, <2>4, <2>5, <2>6, <2>7, <2>8, <2>9 DEF ExpansionNext, Step
<1>5. Now \in Nat /\ Now' \in Nat /\ strays' \in Nat
  <2>1. runs' \in Nat /\ strays' \in Nat
    BY DEF RunInv
  <2>2. Now = runs \/ Now = runs + 1
    BY DEF Now
  <2>3. Now' = runs' \/ Now' = runs' + 1
    BY DEF Now
  <2> QED BY <1>1, <2>1, <2>2, <2>3
<1>6. strays' > 0 /\ p[1].run < Now'
  BY <1>1, <1>2, <1>4, <1>5
<1> QED BY <1>2, <1>3, <1>6 DEF Astray, Stays, Owned

\* The directory that is renamed is what arrives.
LEMMA RenamedItself ==
    ASSUME NEW t, HasPaths(t), NEW from \in DOMAIN t, NEW to, IsPath(from), IsPath(to),
           Len(from) = Len(to)
    PROVE  to \in DOMAIN Moved(t, from, to) /\ Moved(t, from, to)[to] = t[from]
<1>1. from \in Inside(t, from)
  BY OwnPrefix DEF Inside
<1>2. Rebased(from, from, to) = to
  <2> DEFINE q == Rebased(from, from, to)
  <2>1. Len(from) <= Len(from) /\ Len(from) \in Nat
    BY PathSteps
  <2>2. IsPath(q) /\ Len(q) = Len(to) /\ \A i \in 1 .. Len(to) : q[i] = to[i]
    BY <2>1, RebasedSteps
  <2> HIDE DEF q
  <2>3. q = to
    BY <2>2, SamePath
  <2> QED BY <2>3 DEF q
<1>3. \A p \in Inside(t, from) :
        Rebased(p, from, to) \in DOMAIN Moved(t, from, to)
        /\ Moved(t, from, to)[Rebased(p, from, to)] = t[p]
  BY MovedFrom
<1> QED BY <1>1, <1>2, <1>3

LEMMA SafeSteps ==
    RunInv /\ RunInv' /\ FreshInv /\ CandInv /\ SafeInv /\ [ExpansionNext]_expansionVars => SafeInv'
<1> SUFFICES ASSUME RunInv, RunInv', FreshInv, CandInv, SafeInv, [ExpansionNext]_expansionVars,
                    NEW d \in safe'
             PROVE  AtTop(d) /\ (Owned(tree', d) \/ SetAside(d)' \/ Astray(d)')
  BY DEF SafeInv
<1> USE DEF Goto, visit, source, oracle, bounds, budget
<1>e. HasPaths(tree) /\ runs \in Nat /\ strays \in Nat
  BY DEF RunInv, TypedTree
<1>a. ASSUME Busy
      PROVE  /\ IsPath(Target) /\ IsPath(Candidate) /\ IsPath(Previous)
             /\ Len(Candidate) = Len(Target) /\ Len(Previous) = Len(Target) /\ Len(Target) = Len(at.path)
             /\ Target[Len(Target)].mark = "plain" /\ Previous[Len(Target)].mark = "previous"
             /\ Previous[Len(Target)].name = Target[Len(Target)].name /\ Previous[Len(Target)].run = runs
  <2>1. IsPath(at.path)
    BY <1>a DEF RunInv, IsVisit, Busy
  <2> QED BY <2>1, AtPlace DEF LastName
<1>1. ASSUME d \notin safe PROVE MoveIn /\ d = Target /\ Len(Target) = 1
  <2>1. \/ safe' = safe \/ (MoveIn /\ safe' = safe \cup (IF Len(Target) = 1 THEN {Target} ELSE {}))
        \/ \E x : safe' = safe \ {x}
    <3>1. CASE \/ \E observe \in BOOLEAN : Start(observe)
               \/ Finish \/ Take \/ Stage \/ Admit \/ Verify \/ Extracted \/ Crash \/ TimeRunsOut
               \/ UNCHANGED expansionVars
      BY <3>1 DEF Start, Finish, Take, Stage, Admit, Verify, Hold, Foretell, Extracted, Crash,
                  TimeRunsOut, expansionVars
    <3>2. CASE Prepare \/ Write \/ Mark \/ Check \/ MoveOut \/ DropBackup
      BY <3>2 DEF Prepare, Write, Mark, Check, MoveOut, DropBackup, Throw, HoldCandidate
    <3>3. CASE Vanished \/ CallFails \/ Restore
      BY <3>3 DEF Vanished, CallFails, Restore, Throw
    <3>4. CASE MoveIn
      BY <3>4 DEF MoveIn
    <3>5. CASE User
      BY <3>5 DEF User, PutsArchive, RemovesArchive, MakesDirectory, RemovesExtraction
    <3> QED BY <3>1, <3>2, <3>3, <3>4, <3>5 DEF ExpansionNext, Step
  <2> QED BY <1>1, <2>1
<1>2. CASE MoveIn /\ d = Target /\ Len(Target) = 1
  <2>1. pc = "in" /\ tree' = Moved(tree, Candidate, Target)
    BY <1>2 DEF MoveIn
  <2>2. Busy /\ Placed
    BY <2>1 DEF Busy, Placed
  <2>3. Candidate \in DOMAIN tree /\ tree[Candidate] = Node("dir", staged, LastName(at.path))
    BY <2>1, <2>2 DEF CandInv
  <2>4. Target \in DOMAIN tree' /\ tree'[Target] = tree[Candidate]
    BY <1>a, <1>e, <2>1, <2>2, <2>3, RenamedItself
  <2>5. LastName(at.path) # None
    BY <2>2, ContentsAssumption DEF RunInv, IsVisit
  <2>6. Owned(tree', Target)
    BY <2>3, <2>4, <2>5 DEF Owned, Node
  <2>7. AtTop(Target)
    BY <1>2, <1>a, <2>2 DEF AtTop
  <2> QED BY <1>2, <2>6, <2>7
<1>3. CASE d \in safe /\ Astray(d)
  BY <1>3, AstrayStays DEF SafeInv
<1>4. CASE d \in safe /\ Owned(tree, d)
  <2>1. AtTop(d)
    BY <1>4 DEF SafeInv
  <2>2. CASE Stays(d)
    BY <1>4, <2>1, <2>2 DEF Stays, Owned
  <2>3. CASE MoveOut /\ d = Target
    <3>1. pc = "out" /\ pc' = "in" /\ UNCHANGED <<at, runs, backup>> /\ tree' = Moved(tree, Target, Previous)
      BY <2>3 DEF MoveOut
    <3>2. Busy /\ backup /\ Target \in DOMAIN tree
      BY <1>4, <2>3, <3>1 DEF Busy, FreshInv, Owned
    <3>3. Previous \in DOMAIN tree' /\ tree'[Previous] = tree[Target]
      BY <1>a, <1>e, <3>1, <3>2, RenamedItself
    <3>4. Target' = Target /\ Previous' = Previous
      BY <3>1 DEF Target, Previous, Beside
    <3> QED BY <1>4, <2>1, <2>3, <3>1, <3>2, <3>3, <3>4 DEF SetAside, Owned
  <2> QED BY <1>4, <2>1, <2>2, <2>3, ExtractionsStay
<1>5. CASE d \in safe /\ SetAside(d)
  <2>1. AtTop(d) /\ pc = "in" /\ backup /\ Target = d /\ Owned(tree, Previous) /\ Busy
    BY <1>5 DEF SafeInv, SetAside, Busy
  <2>2. Len(Target) = 1
    BY <2>1 DEF AtTop
  \* What was set aside is a stray from the moment the run ends.
  <2>a. ASSUME strays' > 0, pc' = "idle", UNCHANGED <<at, runs>>, Stays(Previous) PROVE Astray(d)'
    <3>1. /\ Previous \in DOMAIN tree' /\ Len(Previous) = 1 /\ Previous[1].name = d[1].name
          /\ Owned(tree', Previous) /\ Previous[1].mark # "plain" /\ Previous[1].run = runs
      BY <1>a, <2>1, <2>2, <2>a DEF Stays, Owned
    <3>2. Now' = runs + 1
      BY <2>a DEF Now
    <3>3. runs \in Nat /\ runs < runs + 1
      BY <1>e
    <3> HIDE DEF Goto
    <3> QED BY <2>a, <3>1, <3>2, <3>3 DEF Astray
  <2>3. CASE MoveIn
    BY <1>2, <2>1, <2>2, <2>3
  <2>4. CASE Restore
    <3>1. CASE Stands(tree, Target)
      <4>1. /\ pc' = "idle" /\ UNCHANGED <<at, runs>> /\ strays' = strays + 1
            /\ tree' = Without(tree, Candidate)
        BY <2>1, <2>4, <3>1 DEF Restore
      <4>2. Previous \in DOMAIN tree /\ ~IsPrefix(Candidate, Previous)
        <5>1. Candidate # Previous
          <6>1. Candidate[Len(Candidate)].mark # Previous[Len(Previous)].mark
            BY <2>1, WhereTheRunWorks
          <6> QED BY <6>1, <2>1, <1>a
        <5>2. ~IsPrefix(Candidate, Previous)
          BY <1>a, <2>1, <5>1, WholePrefix
        <5> QED BY <2>1, <5>2 DEF Owned
      <4>3. Stays(Previous)
        BY <1>e, <4>1, <4>2, WithoutNodes DEF Stays
      <4>4. strays' > 0
        BY <1>e, <4>1
      <4> QED BY <2>1, <2>a, <4>1, <4>3, <4>4
    <3>2. CASE ~Stands(tree, Target)
      <4> DEFINE m == Moved(tree, Previous, Target)
      <4>1. tree' = Without(m, Candidate)
        BY <2>1, <2>4, <3>2 DEF Restore
      <4>2. HasPaths(m) /\ Target \in DOMAIN m /\ m[Target] = tree[Previous]
        BY <1>a, <1>e, <2>1, MovedFrom, RenamedItself DEF Owned
      <4> HIDE DEF m
      <4>3. ~IsPrefix(Candidate, Target)
        <5>1. IsPath(Candidate) /\ Candidate[Len(Candidate)].mark # "plain"
          BY <2>1, WhereTheRunWorks
        <5> QED BY <2>1, <5>1, OutsideTheMarked
      <4>4. Target \in DOMAIN tree' /\ tree'[Target] = tree[Previous]
        BY <4>1, <4>2, <4>3, WithoutNodes
      <4> QED BY <2>1, <4>4 DEF Owned
    <3> QED BY <3>1, <3>2
  <2>5. CASE Crash
    <3>1. pc' = "idle" /\ UNCHANGED <<at, runs, tree>> /\ strays' = strays + 2
      BY <2>5 DEF Crash
    <3>2. Stays(Previous)
      BY <2>1, <3>1 DEF Stays, Owned
    <3>3. strays' > 0
      BY <1>e, <3>1
    <3> QED BY <2>1, <2>a, <3>1, <3>2, <3>3
  <2>6. CASE TimeRunsOut \/ UNCHANGED expansionVars
    <3>1. UNCHANGED <<pc, at, runs, tree, backup>>
      BY <2>6 DEF TimeRunsOut, expansionVars
    <3>2. Target' = Target /\ Previous' = Previous
      BY <3>1 DEF Target, Previous, Beside
    <3> QED BY <2>1, <3>1, <3>2 DEF SetAside
  <2>7. CASE User
    <3>1. UNCHANGED <<pc, at, runs, backup>>
      BY <2>7 DEF User, UserActs, PutsArchive, RemovesArchive, MakesDirectory, RemovesExtraction
    <3>2. Target' = Target /\ Previous' = Previous
      BY <3>1 DEF Target, Previous, Beside
    <3>3. SameUnder(Previous, tree, tree')
      <4>1. Previous[Len(Previous)].mark # "plain" /\ IsPath(Previous) /\ Len(Previous) = 1
        BY <1>a, <2>1, <2>2
      <4> QED BY <2>7, <4>1, UsersElsewhere
    <3>4. IsPrefix(Previous, Previous)
      BY <1>a, <2>1, OwnPrefix
    <3>5. Owned(tree', Previous)
      BY <2>1, <3>3, <3>4 DEF SameUnder, Owned
    <3> QED BY <2>1, <3>1, <3>2, <3>5 DEF SetAside
  <2>8. CASE \/ \E observe \in BOOLEAN : Start(observe)
             \/ Finish \/ Take \/ Stage \/ Admit \/ Verify \/ Prepare \/ Write \/ Mark \/ Check
             \/ MoveOut \/ DropBackup \/ Extracted \/ Vanished \/ CallFails
    <3>1. pc # "in"
      BY <2>8 DEF Start, Finish, Take, Stage, Admit, Verify, Prepare, Write, Mark, Check, MoveOut,
                  DropBackup, Extracted, Vanished, CallFails
    <3> QED BY <2>1, <3>1
  <2> QED BY <2>3, <2>4, <2>5, <2>6, <2>7, <2>8 DEF ExpansionNext, Step
<1> QED BY <1>1, <1>2, <1>3, <1>4, <1>5 DEF SafeInv

LEMMA SafeStarts == ExpansionInit => FreshInv /\ CandInv /\ SafeInv
BY FreshStarts DEF ExpansionInit, CandInv, SafeInv, Placed

\* swapCandidateIntoPlace: an extraction once made is never lost to a crash or to a call that
\* fails, at any moment of any run; and nothing else takes it from its place.
THEOREM ExtractionsSurvive == ExpansionSpec => []ExtractionSurvives
<1>1. RunInv /\ SafeInv => ExtractionSurvives
  <2> SUFFICES ASSUME RunInv, SafeInv, NEW d \in safe
               PROVE  /\ \E p \in DOMAIN tree : Len(p) = 1 /\ Last(p).name = Last(d).name /\ Owned(tree, p)
                      /\ pc \in {"idle", "take"} /\ strays = 0 => Owned(tree, d)
    BY DEF ExtractionSurvives
  <2>1. Len(d) = 1 /\ AtTop(d) /\ (Owned(tree, d) \/ SetAside(d) \/ Astray(d))
    BY DEF SafeInv, AtTop
  <2>2. pc \in {"idle", "take"} /\ strays = 0 => Owned(tree, d)
    BY <2>1 DEF SetAside, Astray
  <2>3. CASE Owned(tree, d)
    BY <2>1, <2>2, <2>3 DEF Owned
  <2>4. CASE SetAside(d)
    <3>1. IsPath(at.path)
      BY <2>4 DEF SetAside, RunInv, IsVisit, Busy
    <3>2. Len(Previous) = Len(Target) /\ Previous[Len(Target)].name = Target[Len(Target)].name
      BY <3>1, AtPlace DEF LastName
    <3> QED BY <2>1, <2>2, <2>4, <3>2 DEF SetAside, Owned, Last
  <2>5. CASE Astray(d)
    BY <2>1, <2>2, <2>5 DEF Astray, Owned, Last
  <2> QED BY <2>1, <2>3, <2>4, <2>5
<1> QED BY <1>1, ExpansionStarts, SafeStarts, RunSteps, FreshSteps, CandidateSteps, SafeSteps, PTL
        DEF ExpansionSpec

-----------------------------------------------------------------------------
(* What is left behind *)

Lost(t, now) ==
    {d \in DOMAIN t : d[Len(d)].mark # "plain" /\ t[d].kind = "dir" /\ d[Len(d)].run < now}

StrayInv == Cardinality(Lost(tree, Now)) <= strays

LEMMA LostIsFinite ==
    ASSUME NEW t, HasPaths(t), NEW now
    PROVE  IsFiniteSet(Lost(t, now)) /\ Cardinality(Lost(t, now)) \in Nat
<1>1. Lost(t, now) \in SUBSET DOMAIN t
  BY DEF Lost
<1>2. IsFiniteSet(Lost(t, now))
  BY <1>1, FS_Subset DEF HasPaths
<1> QED BY <1>2, FS_CardinalityType

LEMMA NoMoreLost ==
    ASSUME NEW t, HasPaths(t), NEW u, NEW now, Lost(u, now) \subseteq Lost(t, now)
    PROVE  Cardinality(Lost(u, now)) <= Cardinality(Lost(t, now))
BY LostIsFinite, FS_Subset

LEMMA LostMoved ==
    ASSUME NEW t, HasPaths(t), NEW now, NEW from, NEW to, IsPath(from), IsPath(to),
           Len(from) = Len(to), to[Len(to)].mark = "plain" \/ ~(to[Len(to)].run < now)
    PROVE  Cardinality(Lost(Moved(t, from, to), now)) <= Cardinality(Lost(t, now))
<1> DEFINE m == Moved(t, from, to)
           g == [p \in Lost(t, now) |-> IF IsPrefix(from, p) THEN Rebased(p, from, to) ELSE p]
           R == {g[p] : p \in DOMAIN g}
<1>1. /\ HasPaths(m)
      /\ \A q \in DOMAIN m :
           \/ q \in DOMAIN t /\ ~IsPrefix(from, q) /\ m[q] = t[q]
           \/ IsPrefix(to, q)
              /\ \E p \in Inside(t, from) : q = Rebased(p, from, to) /\ m[q] = t[p]
  BY MovedFrom
<1>2. IsFiniteSet(R) /\ Cardinality(R) <= Cardinality(Lost(t, now))
  <2>1. IsFiniteSet(DOMAIN g) /\ DOMAIN g = Lost(t, now)
    BY LostIsFinite
  <2> HIDE DEF g
  <2> QED BY <2>1, ImageIsFinite
<1>3. Lost(m, now) \subseteq R
  <2> SUFFICES ASSUME NEW q \in Lost(m, now) PROVE q \in R
    OBVIOUS
  <2> HIDE DEF m
  <2>1. q \in DOMAIN m /\ q[Len(q)].mark # "plain" /\ m[q].kind = "dir" /\ q[Len(q)].run < now
    BY DEF Lost
  <2>2. CASE q \in DOMAIN t /\ ~IsPrefix(from, q) /\ m[q] = t[q]
    <3>1. q \in Lost(t, now)
      BY <2>1, <2>2 DEF Lost
    <3> QED BY <2>2, <3>1
  <2>3. ASSUME NEW p \in Inside(t, from), q = Rebased(p, from, to), m[q] = t[p] PROVE q \in R
    <3>1. p \in DOMAIN t /\ IsPath(p) /\ IsPrefix(from, p)
      BY DEF Inside, HasPaths
    <3>2. Len(from) <= Len(p)
      BY <3>1, PrefixSteps
    <3>3. /\ Len(q) = Len(p)
          /\ \A i \in 1 .. Len(to) : q[i] = to[i]
          /\ \A i \in Len(to) + 1 .. Len(p) : q[i] = p[i]
      BY <2>3, <3>1, <3>2, RebasedSteps
    <3>4. Len(p) \in Nat /\ Len(to) \in Nat /\ Len(to) >= 1
      BY <3>1, PathSteps
    <3>5. Len(p) # Len(to)
      <4>1. SUFFICES ASSUME Len(p) = Len(to) PROVE FALSE
        OBVIOUS
      <4>2. Len(q) \in 1 .. Len(to)
        BY <3>3, <3>4, <4>1
      <4>3. q[Len(q)] = to[Len(to)]
        BY <3>3, <4>1, <4>2
      <4> QED BY <2>1, <4>3
    <3>6. q[Len(q)] = p[Len(p)]
      <4>1. Len(p) \in Len(to) + 1 .. Len(p)
        BY <3>2, <3>4, <3>5
      <4> QED BY <3>3, <4>1
    <3>7. p \in Lost(t, now)
      BY <2>1, <2>3, <3>1, <3>6 DEF Lost
    <3> QED BY <2>3, <3>1, <3>7
  <2> QED BY <1>1, <2>1, <2>2, <2>3
<1>4. Cardinality(Lost(m, now)) <= Cardinality(R)
  BY <1>2, <1>3, FS_Subset
<1>5. /\ Cardinality(Lost(m, now)) \in Nat /\ Cardinality(R) \in Nat
      /\ Cardinality(Lost(t, now)) \in Nat
  BY <1>1, <1>2, LostIsFinite, FS_CardinalityType
<1> HIDE DEF m, R
<1>6. Cardinality(Lost(m, now)) <= Cardinality(Lost(t, now))
  BY <1>2, <1>4, <1>5
<1> QED BY <1>6 DEF m

\* A run that ends adds what it was working on to what there was.
LEMMA LostAtEnd ==
    ASSUME NEW t, HasPaths(t), NEW now \in Nat, NEW held, FreshTree(t, now, held), IsFiniteSet(held),
           \A x \in held : IsPath(x)
    PROVE  Cardinality(Lost(t, now + 1)) <= Cardinality(Lost(t, now)) + Cardinality(held)
<1>1. Lost(t, now + 1) \subseteq Lost(t, now) \cup held
  <2> SUFFICES ASSUME NEW p \in Lost(t, now + 1), p \notin held PROVE p \in Lost(t, now)
    OBVIOUS
  <2>1. p \in DOMAIN t /\ IsPath(p) /\ p[Len(p)].mark # "plain" /\ t[p].kind = "dir"
    BY DEF Lost, HasPaths
  <2>2. Len(p) \in 1 .. Len(p)
    BY <2>1, PathSteps
  <2>3. OldStep(p[Len(p)], now)
    <3>1. CASE OldPath(p, now)
      BY <2>2, <3>1 DEF OldPath
    <3>2. ASSUME NEW x \in held, OldBut(p, x, now) PROVE OldStep(p[Len(p)], now)
      <4>1. Len(x) # Len(p)
        BY <2>1, <3>2, WholePrefix DEF OldBut
      <4> QED BY <2>2, <3>2, <4>1 DEF OldBut
    <3> QED BY <2>1, <3>1, <3>2 DEF FreshTree
  <2> QED BY <2>1, <2>3 DEF Lost, OldStep
<1>2. IsFiniteSet(Lost(t, now)) /\ Cardinality(Lost(t, now)) \in Nat
  BY LostIsFinite
<1>3. Cardinality(held) \in Nat
  BY FS_CardinalityType
<1>4. /\ IsFiniteSet(Lost(t, now) \cup held)
      /\ Cardinality(Lost(t, now) \cup held) =
           Cardinality(Lost(t, now)) + Cardinality(held) - Cardinality(Lost(t, now) \cap held)
  BY <1>2, FS_Union
<1>5. Cardinality(Lost(t, now) \cap held) \in Nat
  <2>1. IsFiniteSet(Lost(t, now) \cap held)
    BY <1>2, FS_Subset
  <2> QED BY <2>1, FS_CardinalityType
<1>6. Cardinality(Lost(t, now + 1)) <= Cardinality(Lost(t, now) \cup held)
  BY <1>1, <1>4, FS_Subset
<1>7. Cardinality(Lost(t, now + 1)) \in Nat
  BY LostIsFinite
<1> QED BY <1>2, <1>3, <1>4, <1>5, <1>6, <1>7

LEMMA NothingLost ==
    ASSUME RunInv, FreshInv, [ExpansionNext]_expansionVars
    PROVE  Cardinality(Lost(tree', Now)) <= Cardinality(Lost(tree, Now))
<1>e. HasPaths(tree)
  BY DEF RunInv, TypedTree
<1>n. Cardinality(Lost(tree, Now)) \in Nat
  BY <1>e, LostIsFinite
<1>s. Lost(tree', Now) \subseteq Lost(tree, Now) => Cardinality(Lost(tree', Now)) <= Cardinality(Lost(tree, Now))
  BY <1>e, NoMoreLost
<1>w. ASSUME NEW t, HasPaths(t), NEW d PROVE Lost(Without(t, d), Now) \subseteq Lost(t, Now)
  <2>1. /\ DOMAIN Without(t, d) = {p \in DOMAIN t : ~IsPrefix(d, p)}
        /\ \A q \in DOMAIN t : ~IsPrefix(d, q) => Without(t, d)[q] = t[q]
    BY <1>w, WithoutNodes
  <2> QED BY <2>1 DEF Lost
<1>t. ASSUME NEW p, NEW node, node.kind # "dir" \/ p[Len(p)].mark = "plain" \/ ~(p[Len(p)].run < Now)
      PROVE  Lost(With(tree, p, node), Now) \subseteq Lost(tree, Now)
  BY <1>t DEF Lost, With
<1>a. ASSUME Busy
      PROVE  /\ Now = runs /\ runs \in Nat
             /\ IsPath(Target) /\ IsPath(Candidate) /\ IsPath(Previous)
             /\ Len(Candidate) = Len(Target) /\ Len(Previous) = Len(Target)
             /\ ~(Candidate[Len(Candidate)].run < Now) /\ ~(Previous[Len(Previous)].run < Now)
             /\ Target[Len(Target)].mark = "plain"
  <2>1. IsPath(at.path) /\ runs \in Nat /\ Now = runs
    BY <1>a DEF RunInv, IsVisit, Busy, Now
  <2>2. Target[Len(Target)].mark = "plain"
    BY <2>1, AtPlace
  <2>3. Candidate[Len(Candidate)].run = runs /\ Previous[Len(Previous)].run = runs
    BY <1>a, WhereTheRunWorks
  <2>4. ~(runs < Now)
    BY <2>1
  <2>5. ~(Candidate[Len(Candidate)].run < Now) /\ ~(Previous[Len(Previous)].run < Now)
    BY <2>3, <2>4
  <2>6. /\ IsPath(Target) /\ IsPath(Candidate) /\ IsPath(Previous)
        /\ Len(Candidate) = Len(Target) /\ Len(Previous) = Len(Target)
    BY <1>a, WhereTheRunWorks
  <2> QED BY <2>1, <2>2, <2>5, <2>6
<1>1. CASE tree' = tree
  BY <1>1, <1>s
<1>2. CASE Busy /\ tree' = Without(tree, Candidate)
  BY <1>2, <1>e, <1>s, <1>w
<1>3. CASE pc = "prepare" /\ tree' = With(tree, Candidate, Node("dir", staged, None))
  <2>1. Busy
    BY <1>3 DEF Busy
  <2> QED BY <1>3, <1>a, <1>s, <1>t, <2>1
<1>4. CASE pc = "write" /\ \E e : IsMember(e) /\ tree' = With(tree, PathIn(Candidate, e), Piece(staged, e))
  <2>1. PICK e : IsMember(e) /\ tree' = With(tree, PathIn(Candidate, e), Piece(staged, e))
    BY <1>4
  <2>2. Piece(staged, e).kind # "dir"
    BY DEF Piece, Node
  <2> QED BY <1>s, <1>t, <2>1, <2>2
<1>5. CASE Mark
  <2>1. Busy /\ tree' = [tree EXCEPT ![Candidate].whose = Last(at.path).name]
    BY <1>5 DEF Mark, Busy
  <2>2. DOMAIN tree' = DOMAIN tree /\ \A p \in DOMAIN tree : p # Candidate => tree'[p] = tree[p]
    BY <2>1
  <2>3. Candidate \notin Lost(tree', Now)
    BY <1>a, <2>1 DEF Lost
  <2> QED BY <1>s, <2>2, <2>3 DEF Lost
<1>6. CASE MoveOut
  <2>1. Busy /\ tree' = Moved(tree, Target, Previous)
    BY <1>6 DEF MoveOut, Busy
  <2> QED BY <2>1, <1>a, <1>e, LostMoved
<1>7. CASE MoveIn
  <2>1. Busy /\ tree' = Moved(tree, Candidate, Target)
    BY <1>7 DEF MoveIn, Busy
  <2> QED BY <2>1, <1>a, <1>e, LostMoved
<1>8. CASE DropBackup
  BY <1>8, <1>e, <1>s, <1>w DEF DropBackup
<1>9. CASE /\ pc = "in" /\ backup /\ ~Stands(tree, Target)
           /\ tree' = Without(Moved(tree, Previous, Target), Candidate)
  <2> DEFINE m == Moved(tree, Previous, Target)
  <2>1. Busy
    BY <1>9 DEF Busy
  <2>2. HasPaths(m) /\ Cardinality(Lost(m, Now)) <= Cardinality(Lost(tree, Now))
    BY <2>1, <1>a, <1>e, LostMoved, MovedFrom
  <2> HIDE DEF m
  <2>3. Lost(tree', Now) \subseteq Lost(m, Now)
    BY <1>9, <1>w, <2>2 DEF m
  <2>4. Cardinality(Lost(tree', Now)) <= Cardinality(Lost(m, Now))
    BY <2>2, <2>3, NoMoreLost
  <2>5. HasPaths(tree')
    BY <1>9, <2>2, WithoutNodes DEF m
  <2>6. Cardinality(Lost(tree', Now)) \in Nat /\ Cardinality(Lost(m, Now)) \in Nat
    BY <2>2, <2>5, LostIsFinite
  <2> QED BY <1>n, <2>2, <2>4, <2>6
<1>10. CASE User
  <2>1. ASSUME NEW name \in Names, NEW c \in Contents, PutsArchive(name, c)
        PROVE  Lost(tree', Now) \subseteq Lost(tree, Now)
    <3>1. tree' = With(tree, <<Plain(name)>>, Node("zip", c, None)) /\ Node("zip", c, None).kind # "dir"
      BY <2>1 DEF PutsArchive, Node
    <3> QED BY <1>t, <3>1
  <2>2. ASSUME NEW name \in Names, RemovesArchive(name) PROVE Lost(tree', Now) \subseteq Lost(tree, Now)
    BY <2>2 DEF RemovesArchive, Lost, Restrict
  <2>3. ASSUME NEW name \in Names, MakesDirectory(name) PROVE Lost(tree', Now) \subseteq Lost(tree, Now)
    <3>1. tree' = With(tree, <<Plain(ExtractDir[name])>>, Node("user", edits', None))
          /\ Node("user", edits', None).kind # "dir"
      BY <2>3 DEF MakesDirectory, Node
    <3> QED BY <1>t, <3>1
  <2>4. ASSUME NEW name \in Names, RemovesExtraction(name) PROVE Lost(tree', Now) \subseteq Lost(tree, Now)
    BY <2>4, <1>e, <1>w DEF RemovesExtraction
  <2> QED BY <1>10, <1>s, <2>1, <2>2, <2>3, <2>4 DEF User
<1> QED BY <1>1, <1>2, <1>3, <1>4, <1>5, <1>6, <1>7, <1>8, <1>9, <1>10, TreeChanges

LEMMA StraySteps ==
    RunInv /\ RunInv' /\ FreshInv /\ StrayInv /\ [ExpansionNext]_expansionVars => StrayInv'
<1> SUFFICES ASSUME RunInv, RunInv', FreshInv, StrayInv, [ExpansionNext]_expansionVars PROVE StrayInv'
  OBVIOUS
<1> USE DEF Goto, visit, source, oracle, bounds, budget
<1>e. /\ HasPaths(tree) /\ HasPaths(tree') /\ runs \in Nat /\ strays \in Nat
      /\ FreshTree(tree, Now, Held)
  BY DEF RunInv, TypedTree, FreshInv
<1>f. Cardinality(Lost(tree', Now)) <= strays
  <2>1. Cardinality(Lost(tree', Now)) <= Cardinality(Lost(tree, Now))
    BY NothingLost
  <2>2. Cardinality(Lost(tree', Now)) \in Nat /\ Cardinality(Lost(tree, Now)) \in Nat
    BY <1>e, LostIsFinite
  <2> QED BY <1>e, <2>1, <2>2 DEF StrayInv
<1>g. ASSUME Now' = Now, strays' = strays PROVE StrayInv'
  BY <1>f, <1>g DEF StrayInv
\* The run ends, and leaves what it holds.
<1>h. ASSUME NEW held, FreshTree(tree', runs, held), IsFiniteSet(held), \A x \in held : IsPath(x),
             pc # "idle", pc' = "idle", runs' = runs, NEW n \in Nat, Cardinality(held) <= n,
             strays' = strays + n
      PROVE  StrayInv'
  <2>1. Now = runs /\ Now' = runs + 1
    BY <1>h DEF Now
  <2>2. Cardinality(Lost(tree', runs + 1)) <= Cardinality(Lost(tree', runs)) + Cardinality(held)
    BY <1>e, <1>h, LostAtEnd
  <2>3. /\ Cardinality(Lost(tree', runs + 1)) \in Nat /\ Cardinality(Lost(tree', runs)) \in Nat
        /\ Cardinality(held) \in Nat
    BY <1>e, <1>h, LostIsFinite, FS_CardinalityType
  <2>4. Cardinality(Lost(tree', runs)) <= strays
    BY <1>f, <2>1
  <2>5. Cardinality(Lost(tree', runs + 1)) <= strays'
    BY <1>e, <1>h, <2>2, <2>3, <2>4
  <2> QED BY <2>1, <2>5 DEF StrayInv
<1>i. \A x : IsFiniteSet({}) /\ Cardinality({}) = 0 /\ IsFiniteSet({x}) /\ Cardinality({x}) = 1
  BY FS_EmptySet, FS_Singleton
<1>j. ASSUME FreshTree(tree', runs, {}), pc # "idle", pc' = "idle", runs' = runs, strays' = strays
      PROVE  StrayInv'
  <2>1. strays' = strays + 0 /\ 0 \in Nat /\ Cardinality({}) <= 0
    BY <1>e, <1>i, <1>j
  <2> QED BY <1>h, <1>i, <1>j, <2>1
<1>k. ASSUME FreshTree(tree', runs, {Previous}), Busy, pc' = "idle", runs' = runs, strays' = strays + 1
      PROVE  StrayInv'
  <2>1. IsPath(Previous)
    BY <1>k, WhereTheRunWorks
  <2>2. Cardinality({Previous}) <= 1 /\ 1 \in Nat
    BY <1>i
  <2> QED BY <1>h, <1>i, <1>k, <2>1, <2>2 DEF Busy
<1>m. ASSUME Busy, tree' = Without(tree, Candidate)
      PROVE  /\ ~Aside => FreshTree(tree', runs, {})
             /\ Aside => FreshTree(tree', runs, {Previous})
  <2>1. FreshTree(tree', runs, Held \ {Candidate})
    BY <1>e, <1>m, FreshWithout DEF Now, Busy
  <2>2. Candidate # Previous
    BY <1>m, WhereTheRunWorks
  <2>3. Held \ {Candidate} = IF Aside THEN {Previous} ELSE {}
    BY <2>2 DEF Held
  <2> QED BY <2>1, <2>3
<1>1. CASE \E observe \in BOOLEAN : Start(observe)
  BY <1>1, <1>g DEF Start, Unless, Now
<1>2. CASE Finish
  <2>1. pc = "take" /\ pc' = "idle" /\ UNCHANGED <<tree, runs, strays>>
    BY <1>2 DEF Finish
  <2>2. Held = {} /\ Now = runs
    BY <2>1 DEF Held, Placed, Aside, Now
  <2> QED BY <1>e, <1>j, <2>1, <2>2
<1>3. CASE Prepare
  <2>1. pc = "prepare" /\ UNCHANGED <<runs, strays>>
    BY <1>3 DEF Prepare, Throw, HoldCandidate
  <2>2. pc' # "idle" \/ (pc' = "idle" /\ tree' = Without(tree, Candidate))
    BY <1>3 DEF Prepare, Throw, HoldCandidate, Cleaned
  <2>3. CASE pc' # "idle"
    BY <1>g, <2>1, <2>3 DEF Now
  <2>4. CASE pc' = "idle" /\ tree' = Without(tree, Candidate)
    BY <1>j, <1>m, <2>1, <2>4 DEF Busy, Aside
  <2> QED BY <2>2, <2>3, <2>4
<1>4. CASE Check
  <2>1. pc = "check" /\ UNCHANGED <<runs, strays>>
    BY <1>4 DEF Check, Throw
  <2>2. pc' # "idle" \/ (pc' = "idle" /\ tree' = Without(tree, Candidate))
    BY <1>4 DEF Check, Throw, Cleaned
  <2>3. CASE pc' # "idle"
    BY <1>g, <2>1, <2>3 DEF Now
  <2>4. CASE pc' = "idle" /\ tree' = Without(tree, Candidate)
    BY <1>j, <1>m, <2>1, <2>4 DEF Busy, Aside
  <2> QED BY <2>2, <2>3, <2>4
<1>5. CASE Vanished
  <2>1. pc \in {"stage", "out"} /\ pc' = "idle" /\ UNCHANGED <<runs, strays>> /\ tree' = Without(tree, Candidate)
    BY <1>5 DEF Vanished, Throw, Cleaned
  <2> QED BY <1>j, <1>m, <2>1 DEF Busy, Aside
<1>6. CASE CallFails
  <2>1. /\ pc \in {"write", "check", "out", "drop", "record"} /\ pc' = "idle" /\ runs' = runs
        /\ strays' = strays + (IF pc = "drop" THEN 1 ELSE 0) /\ tree' = Without(tree, Candidate)
    BY <1>6 DEF CallFails, Throw, Cleaned
  <2>2. CASE pc = "drop"
    BY <1>k, <1>m, <2>1, <2>2 DEF Busy, Aside
  <2>3. CASE pc # "drop"
    BY <1>e, <1>j, <1>m, <2>1, <2>3 DEF Busy, Aside
  <2> QED BY <2>2, <2>3
<1>7. CASE Restore
  <2>1. pc = "in" /\ pc' = "idle" /\ runs' = runs
    BY <1>7 DEF Restore
  <2>2. Busy
    BY <2>1 DEF Busy
  <2>3. CASE backup /\ ~Stands(tree, Target)
    <3> DEFINE m == Moved(tree, Previous, Target)
    <3>1. tree' = Without(m, Candidate) /\ strays' = strays
      BY <1>e, <1>7, <2>3 DEF Restore
    <3>2. /\ IsPath(Target) /\ IsPath(Previous) /\ Len(Previous) = Len(Target)
          /\ \A x \in Held : IsPath(x) /\ Len(x) = Len(Previous)
          /\ \A i \in 1 .. Len(Target) : OldStep(Target[i], runs)
          /\ Len(Target) \in 1 .. Len(Target)
      <4>1. /\ IsPath(Target) /\ IsPath(Previous) /\ Len(Previous) = Len(Target)
            /\ IsPath(Candidate) /\ Len(Candidate) = Len(Target) /\ OldPath(Target, runs)
        BY <2>2, WhereTheRunWorks
      <4>2. Held \subseteq {Candidate, Previous}
        BY DEF Held
      <4>3. Len(Target) \in 1 .. Len(Target)
        BY <4>1, PathSteps
      <4> QED BY <4>1, <4>2, <4>3 DEF OldPath
    <3>3. FreshTree(m, runs, (Held \ {Previous}) \cup {})
      BY <1>e, <2>1, <3>2, FreshMoved DEF Now
    <3> HIDE DEF m
    <3>4. FreshTree(tree', runs, ((Held \ {Previous}) \cup {}) \ {Candidate})
      BY <3>1, <3>3, FreshWithout
    <3>5. ((Held \ {Previous}) \cup {}) \ {Candidate} = {}
      BY DEF Held
    <3>6. FreshTree(tree', runs, {})
      BY <3>4, <3>5
    <3> QED BY <1>j, <2>1, <3>1, <3>6
  <2>4. CASE ~(backup /\ ~Stands(tree, Target))
    <3>1. tree' = Without(tree, Candidate) /\ strays' = strays + (IF backup THEN 1 ELSE 0)
      BY <1>7, <2>4 DEF Restore
    <3>2. CASE backup
      BY <1>k, <1>m, <2>1, <2>2, <3>1, <3>2 DEF Aside
    <3>3. CASE ~backup
      BY <1>e, <1>j, <1>m, <2>1, <2>2, <3>1, <3>3 DEF Aside
    <3> QED BY <3>2, <3>3
  <2> QED BY <2>3, <2>4
<1>8. CASE Crash
  <2>1. pc # "idle" /\ pc' = "idle" /\ UNCHANGED <<tree, runs>> /\ strays' = strays + 2
    BY <1>8 DEF Crash
  <2>2. FreshTree(tree', runs, Held)
    BY <1>e, <2>1 DEF Now
  <2>3. IsFiniteSet(Held) /\ Cardinality(Held) <= 2 /\ \A x \in Held : IsPath(x)
    <3>1. Busy => IsPath(Candidate) /\ IsPath(Previous)
      BY WhereTheRunWorks
    <3>2. ~Busy => Held = {}
      BY DEF Busy, Held, Placed, Aside
    <3>3. Held \subseteq {Candidate} \cup {Previous}
      BY DEF Held
    <3>4. IsFiniteSet({Candidate} \cup {Previous}) /\ Cardinality({Candidate} \cup {Previous}) <= 2
      <4>1. /\ IsFiniteSet({Candidate} \cup {Previous})
            /\ Cardinality({Candidate} \cup {Previous}) =
                 Cardinality({Candidate}) + Cardinality({Previous}) - Cardinality({Candidate} \cap {Previous})
        BY <1>i, FS_Union
      <4>2. Cardinality({Candidate} \cap {Previous}) \in Nat
        <5>1. IsFiniteSet({Candidate} \cap {Previous})
          BY <1>i, FS_Intersection
        <5> QED BY <5>1, FS_CardinalityType
      <4>3. Cardinality({Candidate}) = 1 /\ Cardinality({Previous}) = 1
        BY <1>i
      <4>4. Cardinality({Candidate} \cup {Previous}) = 1 + 1 - Cardinality({Candidate} \cap {Previous})
        BY <4>1, <4>3, Zenon
      <4> DEFINE shared == Cardinality({Candidate} \cap {Previous})
      <4>5. shared \in Nat
        BY <4>2
      <4> HIDE DEF shared
      <4>6. 1 + 1 - shared <= 2
        BY <4>5
      <4>7. Cardinality({Candidate} \cup {Previous}) <= 2
        BY <4>4, <4>6, Zenon DEF shared
      <4> QED BY <4>1, <4>7
    <3>5. IsFiniteSet(Held) /\ Cardinality(Held) <= Cardinality({Candidate} \cup {Previous})
      BY <3>3, <3>4, FS_Subset
    <3>6. Cardinality(Held) \in Nat /\ Cardinality({Candidate} \cup {Previous}) \in Nat
      BY <3>4, <3>5, FS_CardinalityType
    <3>7. Cardinality(Held) <= 2
      BY <3>4, <3>5, <3>6
    <3> QED BY <3>1, <3>2, <3>3, <3>5, <3>7
  <2> QED BY <1>h, <2>1, <2>2, <2>3
<1>9. CASE \/ Take \/ Stage \/ Admit \/ Verify \/ Write \/ Mark \/ MoveOut \/ MoveIn
           \/ DropBackup \/ Extracted \/ TimeRunsOut
  <2>1. pc # "idle" /\ pc' # "idle" /\ UNCHANGED <<runs, strays>>
    BY <1>9 DEF Take, Stage, Admit, Verify, Hold, Foretell, Write, HoldCandidate, Mark,
                MoveOut, MoveIn, DropBackup, Extracted, TimeRunsOut
  <2> QED BY <1>g, <2>1 DEF Now
<1>10. CASE User
  BY <1>10, <1>g DEF User, UserActs, PutsArchive, RemovesArchive, MakesDirectory, RemovesExtraction, Now
<1>11. CASE UNCHANGED expansionVars
  BY <1>11, <1>g DEF expansionVars, Now
<1> QED BY <1>1, <1>2, <1>3, <1>4, <1>5, <1>6, <1>7, <1>8, <1>9, <1>10, <1>11 DEF ExpansionNext, Step

\* The finally of materializeArchiveContext: a candidate or a backup is left behind by a crash,
\* or by a call that fails behind the swap, and by nothing else, however many archives are
\* expanded and held.
THEOREM StraysAccounted == ExpansionSpec => []StraysAreAccountedFor
<1>1. RunInv /\ FreshInv /\ StrayInv => StraysAreAccountedFor
  <2> SUFFICES ASSUME RunInv, FreshInv, StrayInv, pc \in {"idle", "take"}
               PROVE  Cardinality({d \in DOMAIN tree : d # <<>> /\ Last(d).mark # "plain" /\ tree[d].kind = "dir"})
                          <= strays
    BY DEF StraysAreAccountedFor
  <2>1. Held = {} /\ FreshTree(tree, Now, Held) /\ HasPaths(tree)
    BY DEF Held, Placed, Aside, FreshInv, RunInv, TypedTree
  <2>2. \A d \in DOMAIN tree : IsPath(d) /\ Len(d) \in 1 .. Len(d) /\ OldPath(d, Now)
    BY <2>1, PathSteps DEF FreshTree, HasPaths
  <2>3. \A d \in DOMAIN tree : d # <<>> /\ Last(d).mark = d[Len(d)].mark
    BY <2>2 DEF IsPath, Last
  <2>4. \A d \in DOMAIN tree : d[Len(d)].mark # "plain" => d[Len(d)].run < Now
    BY <2>2 DEF OldPath, OldStep
  <2>5. {d \in DOMAIN tree : d # <<>> /\ Last(d).mark # "plain" /\ tree[d].kind = "dir"} = Lost(tree, Now)
    BY <2>3, <2>4 DEF Lost
  <2> QED BY <2>5 DEF StrayInv
<1>2. ExpansionInit => StrayInv
  <2> SUFFICES ASSUME ExpansionInit PROVE StrayInv
    OBVIOUS
  <2>1. DOMAIN <<>> = {}
    OBVIOUS
  <2>2. Lost(tree, Now) = {}
    BY <2>1 DEF ExpansionInit, Lost
  <2> QED BY <2>2, FS_EmptySet DEF StrayInv, ExpansionInit
<1> QED BY <1>1, <1>2, ExpansionStarts, FreshStarts, RunSteps, FreshSteps, StraySteps, PTL
        DEF ExpansionSpec

-----------------------------------------------------------------------------
(* What the marker vouches for *)

FilesOf(c) == {e \in {Directory[c][i] : i \in DOMAIN Directory[c]} : e.kind = "file"}

\* Nothing stands in the way to a member, so that nothing moves a part of an extraction.
HasMember(t, d, e) ==
    /\ IsMember(e)
    /\ PathIn(d, e) \in DOMAIN t /\ t[PathIn(d, e)] = Piece(t[d].of, e)
    /\ \A q \in DOMAIN t : IsPrefix(d, q) /\ IsPrefix(q, PathIn(d, e)) => q = d \/ q = PathIn(d, e)

Whole(t) == \A d \in DOMAIN t : Owned(t, d) => \A e \in FilesOf(t[d].of) : HasMember(t, d, e)

\* No extraction above x has a member at x or below.
Clear(t, x) ==
    \A d \in DOMAIN t : Owned(t, d) /\ IsPrefix(d, x) /\ d # x =>
        \A e \in FilesOf(t[d].of) : IsMember(e) => ~IsPrefix(x, PathIn(d, e))

LEMMA MemberBelow ==
    ASSUME NEW d, IsPath(d), NEW e, IsMember(e), NEW x, IsPath(x), Len(x) > Len(d),
           IsPrefix(x, PathIn(d, e))
    PROVE  x[Len(x)].mark = "plain"
<1> DEFINE q == PathIn(d, e)
<1>1. IsPath(q) /\ \A i \in Len(d) + 1 .. Len(q) : q[i] = Plain(Canonical(e)[i - Len(d)])
  BY MemberPath
<1>2. IsPrefix(x, q)
  OBVIOUS
<1> HIDE DEF q
<1>3. Len(x) <= Len(q) /\ \A i \in 1 .. Len(x) : x[i] = q[i]
  BY <1>1, <1>2, PrefixSteps
<1>4. Len(x) \in Nat /\ Len(d) \in Nat /\ Len(q) \in Nat /\ Len(x) >= 1
  BY <1>1, PathSteps
<1>5. Len(x) \in 1 .. Len(x) /\ Len(x) \in Len(d) + 1 .. Len(q)
  BY <1>3, <1>4
<1>6. x[Len(x)] = Plain(Canonical(e)[Len(x) - Len(d)])
  BY <1>1, <1>3, <1>5
<1> QED BY <1>6 DEF Plain

LEMMA LongerThan ==
    ASSUME NEW d, NEW x, IsPath(d), IsPath(x), IsPrefix(d, x), d # x
    PROVE  Len(x) > Len(d) /\ ~IsPrefix(x, d)
<1>1. Len(d) <= Len(x) /\ Len(d) \in Nat /\ Len(x) \in Nat
  BY PrefixSteps, PathSteps
<1>2. Len(d) # Len(x)
  BY WholePrefix
<1>3. Len(x) > Len(d)
  BY <1>1, <1>2
<1>4. IsPrefix(x, d) => Len(x) <= Len(d)
  BY PrefixSteps
<1> QED BY <1>1, <1>3, <1>4

LEMMA MarkedIsClear ==
    ASSUME NEW t, HasPaths(t), NEW x, IsPath(x), x[Len(x)].mark # "plain"
    PROVE  Clear(t, x)
BY MemberBelow, LongerThan DEF Clear, HasPaths

LEMMA TopIsClear ==
    ASSUME NEW t, HasPaths(t), NEW x, IsPath(x), Len(x) = 1
    PROVE  Clear(t, x)
BY OneStepDeep DEF Clear, HasPaths

LEMMA OwnedIsClear ==
    ASSUME NEW t, HasPaths(t), Whole(t), NEW x, Owned(t, x)
    PROVE  Clear(t, x)
<1> SUFFICES ASSUME NEW d \in DOMAIN t, Owned(t, d), IsPrefix(d, x), d # x,
                    NEW e \in FilesOf(t[d].of), IsPrefix(x, PathIn(d, e))
             PROVE  FALSE
  BY DEF Clear
<1>1. HasMember(t, d, e) /\ x \in DOMAIN t /\ t[x].kind = "dir"
  BY DEF Whole, Owned
<1>2. x = PathIn(d, e)
  BY <1>1 DEF HasMember
<1>3. Piece(t[d].of, e).kind # "dir"
  BY DEF Piece, Node
<1> QED BY <1>1, <1>2, <1>3 DEF HasMember

LEMMA WholeWith ==
    ASSUME NEW t, HasPaths(t), Whole(t), NEW p, IsPath(p), Clear(t, p), NEW node, node.whose = None
    PROVE  Whole(With(t, p, node))
<1> DEFINE w == With(t, p, node)
<1>1. /\ DOMAIN w = DOMAIN t \cup {p} /\ w[p] = node
      /\ \A q \in DOMAIN t : q # p => w[q] = t[q]
  BY DEF With
<1> HIDE DEF w
<1> SUFFICES ASSUME NEW d \in DOMAIN w, Owned(w, d), NEW e \in FilesOf(w[d].of) PROVE HasMember(w, d, e)
  BY DEF Whole, w
<1>2. d # p /\ d \in DOMAIN t /\ w[d] = t[d] /\ Owned(t, d) /\ IsPath(d)
  BY <1>1 DEF Owned, HasPaths
<1>3. HasMember(t, d, e)
  BY <1>2 DEF Whole
<1>4. IsMember(e)
  BY <1>3 DEF HasMember
<1>5. IsPrefix(d, PathIn(d, e)) /\ IsPath(PathIn(d, e))
  BY <1>2, <1>4, MemberPath
<1>6. IsPrefix(d, p) => ~IsPrefix(p, PathIn(d, e))
  BY <1>2, <1>4 DEF Clear
<1>7. PathIn(d, e) # p
  BY <1>5, <1>6, OwnPrefix
<1> QED BY <1>1, <1>2, <1>3, <1>6, <1>7 DEF HasMember

LEMMA WholeWithout ==
    ASSUME NEW t, HasPaths(t), Whole(t), NEW x, IsPath(x), Clear(t, x)
    PROVE  Whole(Without(t, x))
<1> DEFINE w == Without(t, x)
<1>1. /\ DOMAIN w = {p \in DOMAIN t : ~IsPrefix(x, p)}
      /\ \A q \in DOMAIN t : ~IsPrefix(x, q) => w[q] = t[q]
  BY WithoutNodes
<1> HIDE DEF w
<1> SUFFICES ASSUME NEW d \in DOMAIN w, Owned(w, d), NEW e \in FilesOf(w[d].of) PROVE HasMember(w, d, e)
  BY DEF Whole, w
<1>2. d \in DOMAIN t /\ ~IsPrefix(x, d) /\ w[d] = t[d] /\ Owned(t, d) /\ IsPath(d)
  BY <1>1 DEF Owned, HasPaths
<1>3. HasMember(t, d, e)
  BY <1>2 DEF Whole
<1>4. IsMember(e)
  BY <1>3 DEF HasMember
<1>5. IsPrefix(d, PathIn(d, e)) /\ IsPath(PathIn(d, e))
  BY <1>2, <1>4, MemberPath
<1>6. ~IsPrefix(x, PathIn(d, e))
  <2> SUFFICES ASSUME IsPrefix(x, PathIn(d, e)) PROVE FALSE
    OBVIOUS
  <2>1. Len(d) \in Nat /\ Len(x) \in Nat
    BY <1>2, PathSteps
  <2>2. CASE Len(x) <= Len(d)
    BY <1>2, <1>5, <2>2, PrefixBetween
  <2>3. CASE Len(d) <= Len(x)
    <3>1. IsPrefix(d, x)
      BY <1>2, <1>5, <2>3, PrefixBetween
    <3>2. d # x
      BY <1>2, OwnPrefix
    <3> QED BY <1>2, <1>4, <3>1, <3>2 DEF Clear
  <2> QED BY <2>1, <2>2, <2>3
<1>7. PathIn(d, e) \in DOMAIN t
  BY <1>3 DEF HasMember
<1> QED BY <1>1, <1>2, <1>3, <1>6, <1>7 DEF HasMember

LEMMA RebasedPrefix ==
    ASSUME NEW p, NEW r, NEW from, NEW to, IsPath(p), IsPath(r), IsPath(from), IsPath(to),
           Len(from) = Len(to), IsPrefix(from, p), IsPrefix(from, r),
           IsPrefix(Rebased(p, from, to), Rebased(r, from, to))
    PROVE  IsPrefix(p, r)
<1> DEFINE a == Rebased(p, from, to)
           b == Rebased(r, from, to)
<1>1. /\ Len(from) <= Len(p) /\ \A i \in 1 .. Len(from) : from[i] = p[i]
      /\ Len(from) <= Len(r) /\ \A i \in 1 .. Len(from) : from[i] = r[i]
  BY PrefixSteps
<1>2. IsPath(a) /\ Len(a) = Len(p) /\ \A i \in Len(to) + 1 .. Len(p) : a[i] = p[i]
  BY <1>1, RebasedSteps
<1>3. IsPath(b) /\ Len(b) = Len(r) /\ \A i \in Len(to) + 1 .. Len(r) : b[i] = r[i]
  BY <1>1, RebasedSteps
<1>4. IsPrefix(a, b)
  OBVIOUS
<1> HIDE DEF a, b
<1>5. Len(a) <= Len(b) /\ \A i \in 1 .. Len(a) : a[i] = b[i]
  BY <1>2, <1>3, <1>4, PrefixSteps
<1>6. Len(p) \in Nat /\ Len(r) \in Nat /\ Len(to) \in Nat
  BY PathSteps
<1>7. ASSUME NEW i \in 1 .. Len(p) PROVE p[i] = r[i]
  <2>1. CASE i \in 1 .. Len(from)
    BY <1>1, <2>1
  <2>2. CASE i \in Len(to) + 1 .. Len(p)
    <3>1. i \in Len(to) + 1 .. Len(r) /\ i \in 1 .. Len(a)
      BY <1>2, <1>3, <1>5, <1>6, <2>2
    <3> QED BY <1>2, <1>3, <1>5, <2>2, <3>1
  <2> QED BY <1>6, <2>1, <2>2
<1> QED BY <1>2, <1>3, <1>5, <1>7, PrefixSteps

LEMMA RebasedMember ==
    ASSUME NEW p, NEW from, NEW to, IsPath(p), IsPath(from), IsPath(to), Len(from) = Len(to),
           IsPrefix(from, p), NEW e, IsMember(e)
    PROVE  PathIn(Rebased(p, from, to), e) = Rebased(PathIn(p, e), from, to)
<1> DEFINE d == Rebased(p, from, to)
           m == PathIn(p, e)
           a == PathIn(d, e)
           b == Rebased(m, from, to)
           c == Canonical(e)
<1>1. Len(from) <= Len(p)
  BY PrefixSteps
<1>2. /\ IsPath(d) /\ Len(d) = Len(p)
      /\ \A i \in 1 .. Len(to) : d[i] = to[i]
      /\ \A i \in Len(to) + 1 .. Len(p) : d[i] = p[i]
  BY <1>1, RebasedSteps
<1>3. /\ IsPath(m) /\ IsPrefix(p, m) /\ Len(m) = Len(p) + Len(c) /\ Len(c) \in Nat
      /\ \A i \in Len(p) + 1 .. Len(m) : m[i] = Plain(c[i - Len(p)])
  BY MemberPath
<1> HIDE DEF m
<1>4. Len(p) <= Len(m) /\ \A i \in 1 .. Len(p) : p[i] = m[i]
  BY <1>3, PrefixSteps
<1>5. Len(p) \in Nat /\ Len(to) \in Nat
  BY PathSteps
<1>6. Len(from) <= Len(m)
  BY <1>1, <1>3, <1>5
<1>7. /\ IsPath(b) /\ Len(b) = Len(m)
      /\ \A i \in 1 .. Len(to) : b[i] = to[i]
      /\ \A i \in Len(to) + 1 .. Len(m) : b[i] = m[i]
  BY <1>3, <1>6, RebasedSteps
<1> HIDE DEF b, d
<1>8. /\ IsPath(a) /\ IsPrefix(d, a) /\ Len(a) = Len(d) + Len(c)
      /\ \A i \in Len(d) + 1 .. Len(a) : a[i] = Plain(c[i - Len(d)])
  BY <1>2, MemberPath
<1> HIDE DEF a, c
<1>9. Len(d) <= Len(a) /\ \A i \in 1 .. Len(d) : d[i] = a[i]
  BY <1>2, <1>8, PrefixSteps
<1>10. Len(a) = Len(b)
  BY <1>2, <1>3, <1>7, <1>8
<1>11. ASSUME NEW i \in 1 .. Len(a) PROVE a[i] = b[i]
  <2>1. CASE i \in 1 .. Len(to)
    <3>1. i \in 1 .. Len(d)
      BY <1>1, <1>2, <1>5, <2>1
    <3> QED BY <1>2, <1>7, <1>9, <2>1, <3>1
  <2>2. CASE i \in Len(to) + 1 .. Len(p)
    <3>1. i \in 1 .. Len(d) /\ i \in 1 .. Len(p) /\ i \in Len(to) + 1 .. Len(m)
      BY <1>2, <1>3, <1>5, <2>2
    <3> QED BY <1>2, <1>4, <1>7, <1>9, <2>2, <3>1
  <2>3. CASE i \in Len(p) + 1 .. Len(a)
    <3>1. i \in Len(d) + 1 .. Len(a) /\ i \in Len(p) + 1 .. Len(m) /\ i \in Len(to) + 1 .. Len(m)
      BY <1>1, <1>2, <1>3, <1>5, <1>8, <2>3
    <3> QED BY <1>2, <1>3, <1>7, <1>8, <3>1
  <2> QED BY <1>5, <2>1, <2>2, <2>3
<1>12. a = b
  BY <1>7, <1>8, <1>10, <1>11, SamePath
<1> QED BY <1>12 DEF a, b, d, m

\* Whole extractions move as a whole, to where nothing stands.
LEMMA WholeMoved ==
    ASSUME NEW t, HasPaths(t), Whole(t), NEW from, NEW to, IsPath(from), IsPath(to),
           Len(from) = Len(to), Clear(t, from), Inside(t, to) = {}
    PROVE  Whole(Moved(t, from, to))
<1> DEFINE m == Moved(t, from, to)
<1>1. /\ HasPaths(m)
      /\ \A p \in Inside(t, from) :
           Rebased(p, from, to) \in DOMAIN m /\ m[Rebased(p, from, to)] = t[p]
      /\ \A p \in DOMAIN t : ~IsPrefix(from, p) /\ ~IsPrefix(to, p) => p \in DOMAIN m /\ m[p] = t[p]
  BY MovedFrom
<1>2. \A q \in DOMAIN m :
        \/ q \in DOMAIN t /\ ~IsPrefix(from, q) /\ m[q] = t[q]
        \/ IsPrefix(to, q) /\ \E p \in Inside(t, from) : q = Rebased(p, from, to) /\ m[q] = t[p]
  BY MovedFrom
<1>3. \A q \in DOMAIN t : ~IsPrefix(to, q)
  BY DEF Inside
<1> HIDE DEF m
<1> SUFFICES ASSUME NEW d \in DOMAIN m, Owned(m, d), NEW e \in FilesOf(m[d].of) PROVE HasMember(m, d, e)
  BY DEF Whole, m
<1>4. IsPath(d)
  BY <1>1 DEF HasPaths
<1>5. CASE d \in DOMAIN t /\ ~IsPrefix(from, d) /\ m[d] = t[d]
  <2>1. Owned(t, d) /\ e \in FilesOf(t[d].of)
    BY <1>5 DEF Owned
  <2>2. HasMember(t, d, e)
    BY <1>5, <2>1 DEF Whole
  <2>3. IsMember(e) /\ PathIn(d, e) \in DOMAIN t
    BY <2>2 DEF HasMember
  <2>4. IsPrefix(d, PathIn(d, e)) /\ IsPath(PathIn(d, e))
    BY <1>4, <2>3, MemberPath
  <2>5. ~IsPrefix(from, PathIn(d, e))
    <3> SUFFICES ASSUME IsPrefix(from, PathIn(d, e)) PROVE FALSE
      OBVIOUS
    <3>1. Len(d) \in Nat /\ Len(from) \in Nat
      BY <1>4, PathSteps
    <3>2. CASE Len(from) <= Len(d)
      BY <1>4, <1>5, <2>4, <3>2, PrefixBetween
    <3>3. CASE Len(d) <= Len(from)
      <4>1. IsPrefix(d, from)
        BY <1>4, <2>4, <3>3, PrefixBetween
      <4>2. d # from
        BY <1>4, <1>5, OwnPrefix
      <4> QED BY <1>5, <2>1, <2>3, <4>1, <4>2 DEF Clear
    <3> QED BY <3>1, <3>2, <3>3
  <2>6. ~IsPrefix(to, PathIn(d, e))
    BY <1>3, <2>3
  <2>7. PathIn(d, e) \in DOMAIN m /\ m[PathIn(d, e)] = t[PathIn(d, e)]
    BY <1>1, <2>3, <2>5, <2>6
  <2>8. ASSUME NEW q \in DOMAIN m, IsPrefix(d, q), IsPrefix(q, PathIn(d, e))
        PROVE  q = d \/ q = PathIn(d, e)
    <3>1. IsPath(q)
      BY <1>1 DEF HasPaths
    <3>2. ~IsPrefix(to, q)
      BY <2>4, <2>6, <2>8, <3>1, PrefixOfPrefix
    <3>3. q \in DOMAIN t
      BY <1>2, <3>2
    <3> QED BY <2>2, <2>8, <3>3 DEF HasMember
  <2> QED BY <1>5, <2>2, <2>3, <2>7, <2>8 DEF HasMember
<1>6. ASSUME IsPrefix(to, d), NEW p \in Inside(t, from), d = Rebased(p, from, to), m[d] = t[p]
      PROVE  HasMember(m, d, e)
  <2>1. p \in DOMAIN t /\ IsPath(p) /\ IsPrefix(from, p)
    BY DEF Inside, HasPaths
  <2>2. Owned(t, p) /\ e \in FilesOf(t[p].of)
    BY <1>6, <2>1 DEF Owned
  <2>3. HasMember(t, p, e)
    BY <2>1, <2>2 DEF Whole
  <2>4. IsMember(e) /\ PathIn(p, e) \in DOMAIN t
    BY <2>3 DEF HasMember
  <2>5. IsPrefix(p, PathIn(p, e)) /\ IsPath(PathIn(p, e))
    BY <2>1, <2>4, MemberPath
  <2>6. PathIn(p, e) \in Inside(t, from)
    BY <2>1, <2>4, <2>5, PrefixOfPrefix DEF Inside
  <2>7. PathIn(d, e) = Rebased(PathIn(p, e), from, to)
    BY <1>6, <2>1, <2>4, RebasedMember
  <2>8. PathIn(d, e) \in DOMAIN m /\ m[PathIn(d, e)] = t[PathIn(p, e)]
    BY <1>1, <2>6, <2>7
  <2>9. ASSUME NEW q \in DOMAIN m, IsPrefix(d, q), IsPrefix(q, PathIn(d, e))
        PROVE  q = d \/ q = PathIn(d, e)
    <3>1. IsPath(q)
      BY <1>1 DEF HasPaths
    <3>2. IsPrefix(to, q)
      BY <1>4, <1>6, <2>9, <3>1, PrefixOfPrefix
    <3>3. PICK r \in Inside(t, from) : q = Rebased(r, from, to)
      BY <1>2, <1>3, <3>2
    <3>4. r \in DOMAIN t /\ IsPath(r) /\ IsPrefix(from, r)
      BY DEF Inside, HasPaths
    <3>5. IsPrefix(p, r)
      BY <1>6, <2>1, <2>9, <3>3, <3>4, RebasedPrefix
    <3>6. IsPrefix(from, PathIn(p, e))
      BY <2>6 DEF Inside
    <3>7. IsPrefix(r, PathIn(p, e))
      BY <2>5, <2>7, <2>9, <3>3, <3>4, <3>6, RebasedPrefix
    <3>8. r = p \/ r = PathIn(p, e)
      BY <2>3, <3>4, <3>5, <3>7 DEF HasMember
    <3> QED BY <1>6, <2>7, <3>3, <3>8
  <2>10. Piece(m[d].of, e) = Piece(t[p].of, e)
    BY <1>6
  <2> QED BY <2>3, <2>4, <2>8, <2>9, <2>10 DEF HasMember
<1> QED BY <1>2, <1>5, <1>6

\* Below a nested target its owner's extraction stands until it is moved.
OutInv == pc = "out" /\ Len(at.path) > 1 => Owned(tree, Target)

LEMMA OutSteps == RunInv /\ OutInv /\ [ExpansionNext]_expansionVars => OutInv'
<1> SUFFICES ASSUME RunInv, OutInv, [ExpansionNext]_expansionVars, pc' = "out", Len(at'.path) > 1
             PROVE  Owned(tree', Target')
  BY DEF OutInv
<1> USE DEF Goto, visit, source, oracle, bounds, budget
<1>1. CASE Check
  <2>1. MayReplace(Target, Last(at.path).name) /\ Stands(tree, Target) /\ UNCHANGED <<tree, at>>
    BY <1>1 DEF Check, Throw
  <2>2. Target' = Target
    BY <2>1 DEF Target
  <2> QED BY <2>1, <2>2 DEF MayReplace
<1>2. CASE TimeRunsOut \/ UNCHANGED expansionVars
  <2>1. UNCHANGED <<pc, tree, at>>
    BY <1>2 DEF TimeRunsOut, expansionVars
  <2>2. Target' = Target
    BY <2>1 DEF Target
  <2> QED BY <2>1, <2>2 DEF OutInv
<1>3. CASE User
  <2>1. UNCHANGED <<pc, at>>
    BY <1>3 DEF User, UserActs, PutsArchive, RemovesArchive, MakesDirectory, RemovesExtraction
  <2>2. Owned(tree, Target) /\ Target' = Target
    BY <2>1 DEF OutInv, Target
  <2>3. Len(Target) > 1
    <3>1. IsPath(at.path)
      BY <2>1 DEF RunInv, IsVisit, Busy
    <3> QED BY <2>1, <3>1, AtPlace
  <2>4. \A step : Len(<<step>>) = 1
    OBVIOUS
  <2>5. \A step : Target # <<step>>
    BY <2>3, <2>4
  <2>6. ASSUME NEW name \in Names, NEW c \in Contents, PutsArchive(name, c) PROVE Owned(tree', Target)
    BY <2>2, <2>5, <2>6 DEF PutsArchive, With, Owned
  <2>7. ASSUME NEW name \in Names, RemovesArchive(name) PROVE Owned(tree', Target)
    BY <2>2, <2>5, <2>7 DEF RemovesArchive, Restrict, Owned
  <2>8. ASSUME NEW name \in Names, MakesDirectory(name) PROVE Owned(tree', Target)
    BY <2>2, <2>5, <2>8 DEF MakesDirectory, With, Owned
  <2>9. ASSUME NEW name \in Names, RemovesExtraction(name) PROVE FALSE
    <3>1. Len(at.path) = 1
      BY <2>1, <2>9 DEF RemovesExtraction
    <3> QED BY <2>1, <3>1
  <2> QED BY <1>3, <2>2, <2>6, <2>7, <2>8, <2>9 DEF User
<1>4. CASE \/ \E observe \in BOOLEAN : Start(observe)
           \/ Finish \/ Take \/ Stage \/ Admit \/ Verify \/ Prepare \/ Write \/ Mark \/ MoveOut \/ MoveIn
           \/ DropBackup \/ Extracted \/ Vanished \/ Restore \/ CallFails \/ Crash
  BY <1>4 DEF Start, Finish, Take, Stage, Admit, Verify, Hold, Foretell, Prepare, Write, Mark, MoveOut,
              MoveIn, DropBackup, Extracted, Vanished, Restore, CallFails, Crash, Throw, HoldCandidate
<1> QED BY <1>1, <1>2, <1>3, <1>4 DEF ExpansionNext, Step

\* The marker is written when every member stands.
LEMMA WholeMarked ==
    ASSUME RunInv, FreshInv, CandInv, Whole(tree), Mark
    PROVE  Whole(tree')
<1> USE DEF Goto
<1>1. /\ pc = "write" /\ written = Len(Members) /\ UNCHANGED at
      /\ tree' = [tree EXCEPT ![Candidate].whose = Last(at.path).name]
  BY DEF Mark, visit
<1>2. Placed /\ Busy
  BY <1>1 DEF Placed, Busy
<1>3. /\ Candidate \in DOMAIN tree /\ tree[Candidate] = Node("dir", staged, None)
      /\ \A j \in 1 .. written :
           /\ PathIn(Candidate, Members[j]) \in DOMAIN tree
           /\ tree[PathIn(Candidate, Members[j])] = Piece(staged, Members[j])
      /\ \A p \in Inside(tree, Candidate) :
           p = Candidate \/ \E j \in 1 .. written : p = PathIn(Candidate, Members[j])
  BY <1>1, <1>2 DEF CandInv
<1>4. /\ DOMAIN tree' = DOMAIN tree
      /\ tree'[Candidate] = Node("dir", staged, LastName(at.path))
      /\ \A p \in DOMAIN tree : p # Candidate => tree'[p] = tree[p]
  BY <1>1, <1>3 DEF Node, Last, LastName
<1>5. /\ Len(Members) \in Nat
      /\ \A j \in 1 .. Len(Members) : IsMember(Members[j])
      /\ \A i \in DOMAIN Directory[staged] : Directory[staged][i].kind = "file" =>
           \E j \in 1 .. Len(Members) : Members[j] = Directory[staged][i]
      /\ \A j, k \in 1 .. Len(Members) : j # k =>
           ~IsPrefix(Canonical(Members[j]), Canonical(Members[k]))
  BY <1>1, <1>2, MembersKnown DEF RunInv, Admitted
<1>6. IsPath(Candidate) /\ HasPaths(tree) /\ HasPaths(tree')
  BY <1>2, <1>4, WhereTheRunWorks DEF RunInv, TypedTree, HasPaths
<1>7. \A c, e : Piece(c, e).kind # "dir" /\ Piece(c, e) # tree[Candidate]
  <2>1. \A c, e : Piece(c, e).kind # "dir"
    BY DEF Piece, Node
  <2>2. tree[Candidate].kind = "dir"
    BY <1>3 DEF Node
  <2> QED BY <2>1, <2>2
<1> SUFFICES ASSUME NEW d \in DOMAIN tree', Owned(tree', d), NEW e \in FilesOf(tree'[d].of)
             PROVE  HasMember(tree', d, e)
  BY DEF Whole
<1>8. CASE d # Candidate
  <2>1. Owned(tree, d) /\ e \in FilesOf(tree[d].of) /\ d \in DOMAIN tree
    BY <1>4, <1>8 DEF Owned
  <2>2. HasMember(tree, d, e)
    BY <2>1 DEF Whole
  <2>3. PathIn(d, e) # Candidate
    BY <1>7, <2>2 DEF HasMember
  <2> QED BY <1>4, <1>8, <2>1, <2>2, <2>3 DEF HasMember
<1>9. CASE d = Candidate
  <2>1. tree'[d].of = staged
    BY <1>4, <1>9 DEF Node
  <2>2. PICK k \in 1 .. Len(Members) : Members[k] = e
    BY <1>5, <2>1 DEF FilesOf
  <2>3. IsMember(e) /\ k \in 1 .. written
    BY <1>1, <1>5, <2>2
  <2>4. PathIn(d, e) \in DOMAIN tree /\ tree[PathIn(d, e)] = Piece(staged, e)
    BY <1>3, <1>9, <2>2, <2>3
  <2>5. PathIn(d, e) # Candidate
    BY <1>7, <2>4
  <2>6. ASSUME NEW q \in DOMAIN tree, IsPrefix(d, q), IsPrefix(q, PathIn(d, e)), q # d
        PROVE  q = PathIn(d, e)
    <3>1. q \in Inside(tree, Candidate)
      BY <1>9, <2>6 DEF Inside
    <3>2. PICK j \in 1 .. written : q = PathIn(Candidate, Members[j])
      BY <1>3, <1>9, <2>6, <3>1
    <3>3. j \in 1 .. Len(Members) /\ IsMember(Members[j])
      BY <1>1, <1>5
    <3>4. IsPrefix(Canonical(Members[j]), Canonical(e))
      BY <1>6, <1>9, <2>3, <2>6, <3>2, <3>3, MembersApart
    <3>5. j = k
      BY <1>5, <2>2, <3>3, <3>4
    <3> QED BY <1>9, <2>2, <3>2, <3>5
  <2> QED BY <1>4, <1>9, <2>1, <2>3, <2>4, <2>5, <2>6 DEF HasMember
<1> QED BY <1>8, <1>9

LEMMA WholeSteps ==
    RunInv /\ FreshInv /\ CandInv /\ OutInv /\ Whole(tree) /\ [ExpansionNext]_expansionVars
        => Whole(tree')
<1> SUFFICES ASSUME RunInv, FreshInv, CandInv, OutInv, Whole(tree), [ExpansionNext]_expansionVars
             PROVE  Whole(tree')
  OBVIOUS
<1>e. HasPaths(tree)
  BY DEF RunInv, TypedTree
<1>a. ASSUME Busy
      PROVE  /\ IsPath(Target) /\ IsPath(Candidate) /\ IsPath(Previous)
             /\ Len(Candidate) = Len(Target) /\ Len(Previous) = Len(Target)
             /\ \A t : HasPaths(t) => Clear(t, Candidate) /\ Clear(t, Previous)
  <2>1. /\ IsPath(Target) /\ IsPath(Candidate) /\ IsPath(Previous)
        /\ Len(Candidate) = Len(Target) /\ Len(Previous) = Len(Target)
        /\ Candidate[Len(Candidate)].mark # "plain" /\ Previous[Len(Previous)].mark # "plain"
    BY <1>a, WhereTheRunWorks
  <2> QED BY <2>1, MarkedIsClear
<1>b. \A kind, of : Node(kind, of, None).whose = None
  BY DEF Node
<1>1. CASE tree' = tree
  BY <1>1
<1>2. CASE Busy /\ tree' = Without(tree, Candidate)
  BY <1>2, <1>a, <1>e, WholeWithout
<1>3. CASE pc = "prepare" /\ tree' = With(tree, Candidate, Node("dir", staged, None))
  <2>1. Busy
    BY <1>3 DEF Busy
  <2> QED BY <1>3, <1>a, <1>b, <1>e, <2>1, WholeWith
<1>4. CASE pc = "write" /\ \E e : IsMember(e) /\ tree' = With(tree, PathIn(Candidate, e), Piece(staged, e))
  <2>1. PICK e : IsMember(e) /\ tree' = With(tree, PathIn(Candidate, e), Piece(staged, e))
    BY <1>4
  <2>2. Busy /\ Placed
    BY <1>4 DEF Busy, Placed
  <2> DEFINE q == PathIn(Candidate, e)
             piece == Piece(staged, e)
  <2>3. IsPath(q) /\ IsPrefix(Candidate, q)
    BY <1>a, <2>1, <2>2, MemberPath
  <2>4. piece.whose = None
    BY <1>b DEF Piece
  <2>5. tree' = With(tree, q, piece)
    BY <2>1
  <2> HIDE DEF q, piece
  <2>6. ASSUME NEW d \in DOMAIN tree, Owned(tree, d), IsPrefix(d, q), d # q,
               NEW f \in FilesOf(tree[d].of), IsMember(f), IsPrefix(q, PathIn(d, f))
        PROVE  FALSE
    <3>1. IsPath(d) /\ Len(d) \in Nat /\ Len(Candidate) \in Nat
      BY <1>a, <1>e, <2>2, PathSteps DEF HasPaths
    <3>2. CASE Len(Candidate) <= Len(d)
      <4>1. d \in Inside(tree, Candidate)
        BY <1>a, <2>2, <2>3, <2>6, <3>1, <3>2, PrefixBetween DEF Inside
      <4>2. d = Candidate \/ \E j \in 1 .. written : d = PathIn(Candidate, Members[j])
        BY <2>2, <4>1 DEF CandInv
      <4>3. tree[d] = Node("dir", staged, None) \/ \E j \in 1 .. written : tree[d] = Piece(staged, Members[j])
        BY <1>4, <2>2, <4>2 DEF CandInv
      <4>4. \A m : Piece(staged, m).whose = None
        BY <1>b DEF Piece
      <4> QED BY <1>b, <2>6, <4>3, <4>4 DEF Owned
    <3>3. CASE Len(d) < Len(Candidate)
      <4>1. IsPath(PathIn(d, f))
        BY <2>6, <3>1, MemberPath
      <4>2. IsPrefix(Candidate, PathIn(d, f))
        BY <1>a, <2>2, <2>3, <2>6, <4>1, PrefixOfPrefix
      <4>3. Candidate[Len(Candidate)].mark = "plain"
        BY <1>a, <2>2, <2>6, <3>1, <3>3, <4>2, MemberBelow
      <4>4. Candidate[Len(Candidate)].mark # "plain"
        BY <2>2, WhereTheRunWorks
      <4> QED BY <4>3, <4>4
    <3> QED BY <3>1, <3>2, <3>3
  <2>7. Clear(tree, q)
    BY <2>6 DEF Clear
  <2> QED BY <1>e, <2>3, <2>4, <2>5, <2>7, WholeWith
<1>5. CASE Mark
  BY <1>5, WholeMarked
<1>6. CASE MoveOut
  <2>1. pc = "out" /\ tree' = Moved(tree, Target, Previous)
    BY <1>6 DEF MoveOut
  <2>2. Busy /\ ~Aside
    BY <2>1 DEF Busy, Aside
  <2>3. Inside(tree, Previous) = {}
    BY <2>2, NothingHeld
  <2>4. Clear(tree, Target)
    <3>1. IsPath(at.path) /\ Len(at.path) \in Nat /\ Len(at.path) >= 1 /\ Len(Target) = Len(at.path)
      <4>1. IsPath(at.path)
        BY <2>2 DEF RunInv, IsVisit
      <4> QED BY <4>1, AtPlace
    <3>2. CASE Len(at.path) > 1
      BY <1>e, <2>1, <3>2, OwnedIsClear DEF OutInv
    <3>3. CASE Len(at.path) = 1
      BY <1>a, <1>e, <2>2, <3>1, <3>3, TopIsClear
    <3>4. \A n \in Nat : n >= 1 => n = 1 \/ n > 1
      OBVIOUS
    <3>5. Len(at.path) = 1 \/ Len(at.path) > 1
      BY <3>1, <3>4
    <3> QED BY <3>2, <3>3, <3>5
  <2> QED BY <1>a, <1>e, <2>1, <2>2, <2>3, <2>4, WholeMoved
<1>7. CASE MoveIn
  <2>1. tree' = Moved(tree, Candidate, Target) /\ Inside(tree, Target) = {} /\ Busy
    BY <1>7 DEF MoveIn, Busy, Stands
  <2> QED BY <1>a, <1>e, <2>1, WholeMoved
<1>8. CASE DropBackup
  <2>1. Busy /\ tree' = Without(tree, Previous)
    BY <1>8 DEF DropBackup, Busy
  <2> QED BY <2>1, <1>a, <1>e, WholeWithout
<1>9. CASE /\ pc = "in" /\ backup /\ ~Stands(tree, Target)
           /\ tree' = Without(Moved(tree, Previous, Target), Candidate)
  <2> DEFINE m == Moved(tree, Previous, Target)
  <2>1. Busy /\ Inside(tree, Target) = {} /\ tree' = Without(m, Candidate)
    BY <1>9 DEF Busy, Stands
  <2>2. HasPaths(m) /\ Whole(m)
    BY <1>a, <1>e, <2>1, MovedFrom, WholeMoved
  <2> HIDE DEF m
  <2> QED BY <1>a, <2>1, <2>2, WholeWithout
<1>10. CASE User
  <2>1. \A step : IsPath(<<step>>) /\ Len(<<step>>) = 1 /\ Clear(tree, <<step>>)
    <3>1. ASSUME NEW step PROVE IsPath(<<step>>) /\ Len(<<step>>) = 1
      BY OneStep
    <3> QED BY <1>e, <3>1, TopIsClear
  <2>2. ASSUME NEW name \in Names, NEW c \in Contents, PutsArchive(name, c) PROVE Whole(tree')
    BY <1>b, <1>e, <2>1, <2>2, WholeWith DEF PutsArchive
  <2>3. ASSUME NEW name \in Names, MakesDirectory(name) PROVE Whole(tree')
    BY <1>b, <1>e, <2>1, <2>3, WholeWith DEF MakesDirectory
  <2>4. ASSUME NEW name \in Names, RemovesExtraction(name) PROVE Whole(tree')
    BY <1>e, <2>1, <2>4, WholeWithout DEF RemovesExtraction
  <2>5. ASSUME NEW name \in Names, RemovesArchive(name) PROVE Whole(tree')
    <3> DEFINE p == <<Plain(name)>>
    <3>1. tree' = Restrict(tree, DOMAIN tree \ {p})
      BY <2>5 DEF RemovesArchive
    <3>2. IsPath(p) /\ Len(p) = 1
      BY <2>1
    <3> HIDE DEF p
    <3>3. DOMAIN tree' = DOMAIN tree \ {p} /\ \A q \in DOMAIN tree' : tree'[q] = tree[q]
      BY <1>e, <3>1, OneNodeLess
    <3> SUFFICES ASSUME NEW d \in DOMAIN tree', Owned(tree', d), NEW e \in FilesOf(tree'[d].of)
                 PROVE  HasMember(tree', d, e)
      BY DEF Whole
    <3>4. d \in DOMAIN tree /\ Owned(tree, d) /\ IsPath(d)
      BY <1>e, <3>3 DEF Owned, HasPaths
    <3>5. HasMember(tree, d, e)
      BY <3>3, <3>4 DEF Whole
    <3>6. PathIn(d, e) # p
      <4> DEFINE m == PathIn(d, e)
      <4>1. IsMember(e)
        BY <3>5 DEF HasMember
      <4>2. Len(m) > Len(d) /\ IsPath(m)
        BY <3>4, <4>1, MemberPath
      <4>3. Len(d) \in Nat /\ Len(d) >= 1
        BY <3>4, PathSteps
      <4> HIDE DEF m
      <4>4. Len(m) # 1
        <5>1. Len(m) \in Nat
          BY <4>2, PathSteps
        <5>2. \A k, n \in Nat : k > n /\ n >= 1 => k # 1
          OBVIOUS
        <5> QED BY <4>2, <4>3, <5>1, <5>2
      <4>5. m # p
        BY <3>2, <4>4
      <4> QED BY <4>5 DEF m
    <3> QED BY <3>3, <3>5, <3>6 DEF HasMember
  <2> QED BY <1>10, <2>2, <2>3, <2>4, <2>5 DEF User
<1> QED BY <1>1, <1>2, <1>3, <1>4, <1>5, <1>6, <1>7, <1>8, <1>9, <1>10, TreeChanges

\* writeExtractionOwnership: at every moment, every directory that bears the marker holds every
\* member of the one snapshot it names, in its place; for any archives, and at any depth.
THEOREM MarkedAreWhole == ExpansionSpec => []ExtractionsAreWhole
<1>1. Whole(tree) => ExtractionsAreWhole
  <2> SUFFICES ASSUME Whole(tree), NEW d \in DOMAIN tree, Owned(tree, d),
                      NEW i \in DOMAIN Directory[tree[d].of], Directory[tree[d].of][i].kind = "file"
               PROVE  LET e == Directory[tree[d].of][i]
                      IN  PathIn(d, e) \in DOMAIN tree /\ tree[PathIn(d, e)] = Piece(tree[d].of, e)
    BY DEF ExtractionsAreWhole
  <2>1. Directory[tree[d].of][i] \in FilesOf(tree[d].of)
    BY DEF FilesOf
  <2> QED BY <2>1 DEF Whole, HasMember
<1>2. ExpansionInit => OutInv /\ Whole(tree)
  <2> SUFFICES ASSUME ExpansionInit PROVE OutInv /\ Whole(tree)
    OBVIOUS
  <2>1. DOMAIN <<>> = {}
    OBVIOUS
  <2> QED BY <2>1 DEF ExpansionInit, OutInv, Whole
<1> DEFINE WholeNow == Whole(tree)
<1>3. WholeNow /\ RunInv /\ FreshInv /\ CandInv /\ OutInv /\ [ExpansionNext]_expansionVars => WholeNow'
  BY WholeSteps
<1> HIDE DEF WholeNow
<1>4. (WholeNow => ExtractionsAreWhole) /\ (ExpansionInit => OutInv /\ WholeNow)
  BY <1>1, <1>2 DEF WholeNow
<1> QED BY <1>3, <1>4, ExpansionStarts, SafeStarts, RunSteps, FreshSteps, CandidateSteps, OutSteps,
           PTL DEF ExpansionSpec
-----------------------------------------------------------------------------
(* What a dry run foretells.  A dry run makes out a bill: what each archive *)
(* of its list is charged, in the order of the list (DryRun).  A real run   *)
(* that follows it finds every archive and every free directory as the dry  *)
(* run found them (Alike), and keeps step with the bill (RealRun) until it  *)
(* comes to the archives it extracted itself (Beyond).                      *)

\* The archive at p may be expanded where it stands (extractionRefusalReason).
FreeFor(t, p) ==
    LET d == ExtractDirFor(p) IN Stands(t, d) => Owned(t, d) /\ t[d].whose = Last(p).name

\* Trees agree on all that is older than this run and that no archive of S may replace.
Alike(T, t, S, now) ==
    \A q : IsPath(q) /\ OldPath(q, now)
           /\ (\A r \in S : FreeFor(T, r) => ~IsPrefix(ExtractDirFor(r), q)) =>
        (q \in DOMAIN t <=> q \in DOMAIN T) /\ (q \in DOMAIN T => t[q] = T[q])

\* The list a run begins with.
ListOf(T) == Queued(FindArchives(T), 0)

LEMMA ListFacts ==
    ASSUME NEW T, TypedTree(T)
    PROVE  LET L == ListOf(T)
           IN  /\ Len(L) \in Nat
               /\ \A i \in 1 .. Len(L) :
                    /\ L[i].path \in FindArchives(T) /\ L[i].depth = 0
                    /\ \A j \in 1 .. Len(L) : L[i].path = L[j].path => i = j
<1> DEFINE paths == FindArchives(T)
           S == {[path |-> p, depth |-> 0] : p \in paths}
           f == [p \in paths |-> [path |-> p, depth |-> 0]]
           L == SetToSeq(S)
<1>1. IsFiniteSet(paths)
  BY FS_Subset DEF TypedTree, HasPaths, FindArchives
<1>2. IsFiniteSet(S)
  <2>1. DOMAIN f = paths /\ S = {f[x] : x \in DOMAIN f}
    OBVIOUS
  <2> HIDE DEF f, S, paths
  <2>2. IsFiniteSet({f[x] : x \in DOMAIN f})
    BY <1>1, <2>1, ImageIsFinite
  <2> QED BY <2>1, <2>2
<1>3. \A v \in S : v.path \in paths /\ v.depth = 0
  OBVIOUS
<1>4. \A v, u \in S : v.path = u.path => v = u
  OBVIOUS
<1> HIDE DEF S, paths
<1>5. PICK g : g \in Bijection(1 .. Cardinality(S), S)
  BY <1>2, FS_CardinalityType DEF ExistsBijection
<1>6. g \in [1 .. Cardinality(S) -> S] /\ IsInjective(g)
  BY <1>5 DEF Bijection, Injection
<1>7. L \in [1 .. Cardinality(S) -> S] /\ IsInjective(L)
  BY <1>6 DEF SetToSeq
<1>8. ListOf(T) = L
  BY DEF ListOf, Queued, S, paths
<1> HIDE DEF L
<1>9. Cardinality(S) \in Nat
  BY <1>2, FS_CardinalityType
<1>10. L \in Seq(S) /\ Len(L) = Cardinality(S)
  BY <1>7, <1>9
<1>11. \A i, j \in 1 .. Len(L) : L[i] = L[j] => i = j
  BY <1>7, <1>10 DEF IsInjective
<1>12. \A i \in 1 .. Len(L) : L[i] \in S
  BY <1>7, <1>10
<1> QED BY <1>3, <1>4, <1>8, <1>9, <1>10, <1>11, <1>12 DEF paths

LEMMA ExtractDirIsPlain ==
    ASSUME NEW p, IsPath(p)
    PROVE  LET d == ExtractDirFor(p)
           IN  /\ IsPath(d) /\ Len(d) = Len(p) /\ Len(p) \in Nat /\ Len(p) >= 1
               /\ \A i \in 1 .. Len(p) - 1 : d[i] = p[i]
               /\ d[Len(p)].mark = "plain"
<1>1. Plain(ExtractDir[p[Len(p)].name]).mark = "plain"
  BY DEF Plain
<1> QED BY <1>1, ExtractDirSteps, PathSteps

\* What was extracted earlier and may be replaced holds no archive of the list.
LEMMA NotBelow ==
    ASSUME NEW T, TypedTree(T), NEW p \in FindArchives(T), NEW r, IsPath(r), FreeFor(T, r)
    PROVE  ~IsPrefix(ExtractDirFor(r), p)
<1> DEFINE d == ExtractDirFor(r)
<1>1. SUFFICES ASSUME IsPrefix(d, p) PROVE FALSE
  OBVIOUS
<1>2. /\ IsPath(p) /\ p \in DOMAIN T /\ T[p].kind = "zip"
      /\ \A n \in 1 .. Len(p) - 1 : Owned(T, SubSeq(p, 1, n)) => p[n].mark # "plain"
  BY DEF FindArchives, IsZip, TypedTree, HasPaths
<1>3. /\ IsPath(d) /\ Len(d) = Len(r) /\ d[Len(r)].mark = "plain"
  BY ExtractDirIsPlain
<1>4. Owned(T, d)
  BY <1>1, <1>2 DEF FreeFor, Stands, Inside
<1> HIDE DEF d
<1>5. Len(d) <= Len(p) /\ (\A i \in 1 .. Len(d) : d[i] = p[i])
  BY <1>1, <1>2, <1>3, PrefixSteps
<1>6. Len(d) \in Nat /\ Len(d) >= 1 /\ Len(p) \in Nat
  BY <1>2, <1>3, PathSteps
<1>7. d # p
  BY <1>2, <1>4 DEF Owned
<1>8. Len(d) # Len(p)
  BY <1>1, <1>2, <1>3, <1>7, WholePrefix
<1>9. Len(d) \in 1 .. Len(p) - 1 /\ Len(d) \in 1 .. Len(d)
  BY <1>5, <1>6, <1>8
<1>10. SubSeq(p, 1, Len(d)) = d
  <2>1. SubSeq(d, 1, Len(d)) = d
    BY <1>3 DEF IsPath
  <2> QED BY <1>1, <2>1 DEF IsPrefix
<1>11. p[Len(d)].mark = "plain"
  BY <1>3, <1>5, <1>9
<1> QED BY <1>2, <1>4, <1>9, <1>10, <1>11

\* So an archive of the list is where it was, ...
LEMMA StillThere ==
    ASSUME NEW T, TypedTree(T), NEW now, \A q \in DOMAIN T : OldPath(q, now),
           NEW t, NEW S, S \subseteq FindArchives(T), Alike(T, t, S, now),
           NEW p \in FindArchives(T)
    PROVE  IsPath(p) /\ p \in DOMAIN t /\ t[p] = T[p]
<1>1. IsPath(p) /\ p \in DOMAIN T /\ OldPath(p, now)
  BY DEF FindArchives, TypedTree, HasPaths
<1>2. \A r \in S : FreeFor(T, r) => ~IsPrefix(ExtractDirFor(r), p)
  <2>1. \A r \in S : IsPath(r)
    BY DEF FindArchives, TypedTree, HasPaths
  <2> QED BY <2>1, NotBelow
<1> QED BY <1>1, <1>2 DEF Alike

\* A directory of the list that reaches under another one's, or above it.
LEMMA DirectoriesApart ==
    ASSUME NEW p, IsPath(p), NEW r, IsPath(r), NEW q, IsPath(q),
           IsPrefix(ExtractDirFor(p), q), IsPrefix(ExtractDirFor(r), q),
           ExtractDirFor(p) # ExtractDirFor(r)
    PROVE  IsPrefix(ExtractDirFor(r), p) \/ IsPrefix(ExtractDirFor(p), r)
<1> DEFINE d == ExtractDirFor(p)
           e == ExtractDirFor(r)
<1>1. /\ IsPath(d) /\ Len(d) = Len(p) /\ \A i \in 1 .. Len(p) - 1 : d[i] = p[i]
      /\ IsPath(e) /\ Len(e) = Len(r) /\ \A i \in 1 .. Len(r) - 1 : e[i] = r[i]
  BY ExtractDirSteps
<1> HIDE DEF d, e
<1>2. IsPrefix(d, q) /\ IsPrefix(e, q) /\ d # e
  BY DEF d, e
<1>3. Len(p) \in Nat /\ Len(r) \in Nat
  BY PathSteps
<1>4. \A i \in 1 .. Len(d) : d[i] = q[i]
  BY <1>1, <1>2, PrefixSteps
<1>5. \A i \in 1 .. Len(e) : e[i] = q[i]
  BY <1>1, <1>2, PrefixSteps
<1>6. CASE Len(d) = Len(e)
  BY <1>1, <1>2, <1>6, SiblingsApart DEF Disjoint
<1>7. CASE Len(e) < Len(d)
  <2>1. \A i \in 1 .. Len(e) : e[i] = p[i]
    BY <1>1, <1>3, <1>4, <1>5, <1>7
  <2>2. IsPrefix(e, p)
    BY <1>1, <1>3, <1>7, <2>1, PrefixSteps
  <2> QED BY <2>2 DEF e
<1>8. CASE Len(d) < Len(e)
  <2>1. \A i \in 1 .. Len(d) : d[i] = r[i]
    BY <1>1, <1>3, <1>4, <1>5, <1>8
  <2>2. IsPrefix(d, r)
    BY <1>1, <1>3, <1>8, <2>1, PrefixSteps
  <2> QED BY <2>2 DEF d
<1> QED BY <1>1, <1>3, <1>6, <1>7, <1>8

\* ... and may be expanded there or not, as before, whatever else was expanded meanwhile.
LEMMA FreeAsBefore ==
    ASSUME NEW T, TypedTree(T), NEW now, \A q \in DOMAIN T : OldPath(q, now),
           NEW t, HasPaths(t), \A q \in DOMAIN t : OldPath(q, now),
           NEW S, S \subseteq FindArchives(T), Alike(T, t, S, now),
           NEW p \in FindArchives(T), \A r \in S : ExtractDirFor(r) # ExtractDirFor(p)
    PROVE  FreeFor(t, p) <=> FreeFor(T, p)
<1> DEFINE d == ExtractDirFor(p)
<1>1. IsPath(p) /\ OldPath(p, now) /\ \A r \in S : IsPath(r) /\ r \in DOMAIN T
  BY DEF FindArchives, TypedTree, HasPaths
<1>2. IsPath(d)
  BY <1>1, ExtractDirSteps
<1>3. OldPath(d, now)
  <2>1. /\ Len(d) = Len(p) /\ Len(p) \in Nat /\ d[Len(p)].mark = "plain"
        /\ \A i \in 1 .. Len(p) - 1 : d[i] = p[i]
    BY <1>1, ExtractDirIsPlain
  <2>2. \A i \in 1 .. Len(p) : i = Len(p) \/ i \in 1 .. Len(p) - 1
    BY <2>1
  <2> HIDE DEF d
  <2> QED BY <1>1, <2>1, <2>2 DEF OldPath, OldStep
\* An archive of S stands in both, and its directory reaches nobody else's.
<1>4. \A r \in S : r \in DOMAIN t
  BY StillThere
<1>5. ASSUME NEW q, IsPath(q), IsPrefix(d, q), NEW r \in S, FreeFor(T, r), IsPrefix(ExtractDirFor(r), q)
      PROVE  IsPrefix(d, r)
  BY <1>1, <1>5, DirectoriesApart, NotBelow
<1>6. ASSUME NEW q, IsPath(q), OldPath(q, now), IsPrefix(d, q)
      PROVE  \/ (q \in DOMAIN t <=> q \in DOMAIN T) /\ (q \in DOMAIN T => t[q] = T[q])
             \/ \E r \in S : IsPrefix(d, r)
  BY <1>5, <1>6 DEF Alike
<1>7. \A r \in S : FreeFor(T, r) => ~IsPrefix(ExtractDirFor(r), d)
  <2> SUFFICES ASSUME NEW r \in S, FreeFor(T, r), IsPrefix(ExtractDirFor(r), d) PROVE FALSE
    OBVIOUS
  <2>1. Len(ExtractDirFor(r)) <= Len(d) /\ IsPath(ExtractDirFor(r)) /\ Len(ExtractDirFor(r)) = Len(r)
        /\ Len(d) = Len(p)
    BY <1>1, <1>2, ExtractDirSteps, PrefixSteps
  <2>2. IsPrefix(d, r)
    BY <1>2, <1>5, OwnPrefix
  <2>3. Len(d) <= Len(r)
    BY <1>1, <1>2, <2>2, PrefixSteps
  <2>4. Len(ExtractDirFor(r)) = Len(d)
    BY <1>1, <2>1, <2>3, PathSteps
  <2> QED BY <1>2, <2>1, <2>4, WholePrefix
<1>8. (d \in DOMAIN t <=> d \in DOMAIN T) /\ (d \in DOMAIN T => t[d] = T[d])
  BY <1>2, <1>3, <1>7 DEF Alike
<1>9. Stands(t, d) <=> Stands(T, d)
  <2>1. ASSUME NEW r \in S, IsPrefix(d, r) PROVE Stands(t, d) /\ Stands(T, d)
    BY <1>1, <1>4, <2>1 DEF Stands, Inside
  <2>2. ASSUME NEW q \in DOMAIN t, IsPrefix(d, q) PROVE Stands(T, d)
    <3>1. IsPath(q) /\ OldPath(q, now)
      BY DEF HasPaths
    <3>2. q \in DOMAIN T \/ \E r \in S : IsPrefix(d, r)
      BY <1>6, <2>2, <3>1
    <3> QED BY <2>1, <2>2, <3>2 DEF Stands, Inside
  <2>3. ASSUME NEW q \in DOMAIN T, IsPrefix(d, q) PROVE Stands(t, d)
    <3>1. IsPath(q) /\ OldPath(q, now)
      BY DEF TypedTree, HasPaths
    <3>2. q \in DOMAIN t \/ \E r \in S : IsPrefix(d, r)
      BY <1>6, <2>3, <3>1
    <3> QED BY <2>1, <2>3, <3>2 DEF Stands, Inside
  <2> QED BY <2>2, <2>3 DEF Stands, Inside
<1> QED BY <1>8, <1>9 DEF FreeFor, Owned

\* What the run does, it does at its own marks, and at the target it may replace.
LEMMA RunKeepsAlike ==
    ASSUME RunInv, FreshInv, [ExpansionNext]_expansionVars, ~User,
           NEW T, NEW S, Alike(T, tree, S, runs),
           pc \in {"out", "in"} => at.path \in S /\ FreeFor(T, at.path)
    PROVE  Alike(T, tree', S, runs)
<1> SUFFICES ASSUME NEW q, IsPath(q), OldPath(q, runs),
                    \A r \in S : FreeFor(T, r) => ~IsPrefix(ExtractDirFor(r), q)
             PROVE  (q \in DOMAIN tree' <=> q \in DOMAIN T) /\ (q \in DOMAIN T => tree'[q] = T[q])
  BY DEF Alike
<1>1. (q \in DOMAIN tree <=> q \in DOMAIN T) /\ (q \in DOMAIN T => tree[q] = T[q])
  BY DEF Alike
<1>2. SUFFICES (q \in DOMAIN tree' <=> q \in DOMAIN tree) /\ (q \in DOMAIN tree => tree'[q] = tree[q])
  BY <1>1
<1>3. HasPaths(tree)
  BY DEF RunInv, TypedTree
<1>4. Busy => /\ IsPath(Target) /\ IsPath(Candidate) /\ IsPath(Previous)
              /\ Len(Candidate) = Len(Target) /\ Len(Previous) = Len(Target)
              /\ ~OldStep(Candidate[Len(Candidate)], runs) /\ ~OldStep(Previous[Len(Previous)], runs)
  BY WhereTheRunWorks
<1>5. ASSUME NEW x, IsPath(x), ~OldStep(x[Len(x)], runs) PROVE ~IsPrefix(x, q)
  <2>1. Len(x) \in Nat /\ Len(x) >= 1 /\ Len(q) \in Nat
    BY <1>5, PathSteps
  <2>2. IsPrefix(x, q) => Len(x) \in 1 .. Len(q) /\ x[Len(x)] = q[Len(x)]
    <3>1. IsPrefix(x, q) => Len(x) <= Len(q) /\ \A i \in 1 .. Len(x) : x[i] = q[i]
      BY <1>5, PrefixSteps
    <3> QED BY <2>1, <3>1
  <2> QED BY <1>5, <2>2 DEF OldPath
<1>6. Busy => ~IsPrefix(Candidate, q) /\ ~IsPrefix(Previous, q)
  BY <1>4, <1>5
<1>7. pc \in {"out", "in"} => ~IsPrefix(Target, q)
  BY DEF Target
<1>8. CASE tree' = tree
  BY <1>8
<1>9. CASE Busy /\ tree' = Without(tree, Candidate)
  BY <1>9, <1>6, <1>3, WithoutNodes
<1>10. CASE pc = "prepare" /\ tree' = With(tree, Candidate, Node("dir", staged, None))
  <2>1. q # Candidate
    BY <1>10, <1>4, <1>6, OwnPrefix DEF Busy
  <2> QED BY <1>10, <2>1 DEF With
<1>11. CASE pc = "write" /\ \E e : IsMember(e) /\ tree' = With(tree, PathIn(Candidate, e), Piece(staged, e))
  <2>1. PICK e : IsMember(e) /\ tree' = With(tree, PathIn(Candidate, e), Piece(staged, e))
    BY <1>11
  <2>2. Busy
    BY <1>11 DEF Busy
  <2>3. IsPrefix(Candidate, PathIn(Candidate, e))
    BY <1>4, <2>1, <2>2, MemberPath
  <2>4. q # PathIn(Candidate, e)
    BY <1>6, <2>2, <2>3
  <2> QED BY <2>1, <2>4 DEF With
<1>12. CASE Mark
  <2>1. Busy /\ tree' = [tree EXCEPT ![Candidate].whose = Last(at.path).name]
    BY <1>12 DEF Mark, Busy
  <2>2. q # Candidate
    BY <2>1, <1>4, <1>6, OwnPrefix
  <2> QED BY <2>1, <2>2
<1>13. CASE MoveOut
  <2>1. Busy /\ tree' = Moved(tree, Target, Previous) /\ pc = "out"
    BY <1>13 DEF MoveOut, Busy
  <2> QED BY <2>1, <1>3, <1>4, <1>6, <1>7, MovedFrom
<1>14. CASE MoveIn
  <2>1. Busy /\ tree' = Moved(tree, Candidate, Target) /\ pc = "in"
    BY <1>14 DEF MoveIn, Busy
  <2> QED BY <2>1, <1>3, <1>4, <1>6, <1>7, MovedFrom
<1>15. CASE DropBackup
  <2>1. Busy /\ tree' = Without(tree, Previous)
    BY <1>15 DEF DropBackup, Busy
  <2> QED BY <2>1, <1>6, <1>3, WithoutNodes
<1>16. CASE /\ pc = "in" /\ backup /\ ~Stands(tree, Target)
            /\ tree' = Without(Moved(tree, Previous, Target), Candidate)
  <2> DEFINE m == Moved(tree, Previous, Target)
  <2>1. Busy
    BY <1>16 DEF Busy
  <2>2. HasPaths(m) /\ (q \in DOMAIN m <=> q \in DOMAIN tree) /\ (q \in DOMAIN tree => m[q] = tree[q])
    BY <1>16, <2>1, <1>3, <1>4, <1>6, <1>7, MovedFrom
  <2>3. tree' = Without(m, Candidate)
    BY <1>16
  <2> HIDE DEF m
  <2> QED BY <2>1, <2>2, <2>3, <1>6, WithoutNodes
<1> QED BY <1>8, <1>9, <1>10, <1>11, <1>12, <1>13, <1>14, <1>15, <1>16, TreeChanges

-----------------------------------------------------------------------------
(* The bill of a list *)

\* What an archive at p declares: the verdict of the preflight at the root.
Offer(T, p) == Verdicts[T[p].of][0]

\* Ceiling and Streams, of what was spent before the archive.
Room(base, done) ==
    LET rest(limit, used) == IF limit > used THEN limit - used ELSE 0
        allowances == {Policy.member, rest(Policy.archive, done), rest(Policy.session, base + done)}
    IN  CHOOSE n \in allowances : \A m \in allowances : n <= m
Fits(e, base, done) ==
    Room(base, done) > 0 /\ e.yields = e.declares /\ e.yields \in 0 .. Room(base, done)

\* The archive at p is admitted when base bytes and count archives have been charged, ...
MayEnter(T, p, base, count) ==
    /\ ~(Size[T[p].of] > Policy.compressed) /\ FreeFor(T, p) /\ Offer(T, p).accepted
    /\ count < Policy.archives /\ base + Offer(T, p).declared <= Policy.session

\* ... its first n members stream, and b counts their bytes, ...
Measured(T, p, base, b, n) ==
    LET members == Offer(T, p).members
    IN  /\ DOMAIN b = Nat /\ b[0] = 0
        /\ \A j \in 1 .. n : Fits(members[j], base, b[j - 1]) /\ b[j] = b[j - 1] + members[j].yields

\* ... or one of them does not.
StopsShort(T, p, base, b) ==
    LET members == Offer(T, p).members
    IN  \E n \in Nat : /\ n < Len(members) /\ Measured(T, p, base, b, n)
                       /\ ~Fits(members[n + 1], base, b[n])

Bytes(T, p, b) == b[Len(Offer(T, p).members)]

\* The archive at p, the i-th, passes or not; base and count are charged before it, a and c after.
Outcome(T, p, base, count, b, a, c, i, X) ==
    IF i \in X
    THEN /\ MayEnter(T, p, base, count) /\ Measured(T, p, base, b, Len(Offer(T, p).members))
         /\ a = base + Bytes(T, p, b) /\ c = count + 1
    ELSE /\ MayEnter(T, p, base, count) => StopsShort(T, p, base, b)
         /\ a = base /\ c = count

Settled(T, p, i, s, o, w, X) ==
    Outcome(T, p, s[i - 1], o[i - 1], w[i], s[i], o[i], i, X)

\* The first n archives of a list: which of them go through (X), what is charged after each
\* (s, o), and the bytes of their members (w).
Bill(T, L, n, s, o, w, X) ==
    /\ DOMAIN s = Nat /\ DOMAIN o = Nat /\ DOMAIN w = Nat
    /\ s[0] = 0 /\ o[0] = 0
    /\ \A i \in 1 .. n : Settled(T, L[i].path, i, s, o, w, X)

Through(L, n, X) == {L[i].path : i \in {j \in 1 .. n : j \in X}}

\* f and g differ at m only.
But(f, g, m) == DOMAIN f = Nat /\ \A i \in Nat : i # m => f[i] = g[i]

LEMMA EntryAdded ==
    ASSUME NEW T, NEW L, NEW n \in Nat, NEW m \in Nat, n = m - 1,
           NEW s, NEW o, NEW w, NEW X, Bill(T, L, n, s, o, w, X),
           NEW s2, NEW o2, NEW w2, NEW X2, But(s2, s, m), But(o2, o, m), But(w2, w, m),
           \A i \in Nat : i # m => (i \in X2 <=> i \in X),
           Settled(T, L[m].path, m, s2, o2, w2, X2)
    PROVE  Bill(T, L, m, s2, o2, w2, X2)
<1>1. DOMAIN s = Nat /\ DOMAIN o = Nat /\ DOMAIN w = Nat /\ s[0] = 0 /\ o[0] = 0
      /\ \A i \in 1 .. n : Settled(T, L[i].path, i, s, o, w, X)
  BY DEF Bill
<1>2. /\ DOMAIN s2 = Nat /\ \A i \in Nat : i # m => s2[i] = s[i]
      /\ DOMAIN o2 = Nat /\ \A i \in Nat : i # m => o2[i] = o[i]
      /\ DOMAIN w2 = Nat /\ \A i \in Nat : i # m => w2[i] = w[i]
  BY DEF But
<1>3. ASSUME NEW i \in 1 .. n PROVE Settled(T, L[i].path, i, s2, o2, w2, X2)
  <2>1. i \in Nat /\ i - 1 \in Nat /\ i # m /\ i - 1 # m
    OBVIOUS
  <2>2. s2[i] = s[i] /\ s2[i - 1] = s[i - 1] /\ o2[i] = o[i] /\ o2[i - 1] = o[i - 1] /\ w2[i] = w[i]
        /\ (i \in X2 <=> i \in X)
    BY <1>2, <2>1
  <2> QED BY <1>1, <2>2 DEF Settled, Outcome
<1>5. \A i \in 1 .. m : i \in 1 .. n \/ i = m
  OBVIOUS
<1>6. s2[0] = 0 /\ o2[0] = 0
  <2>1. 0 # m
    OBVIOUS
  <2> QED BY <1>1, <1>2, <2>1
<1>7. Bill(T, L, m, s2, o2, w2, X2)
  BY <1>2, <1>3, <1>5, <1>6 DEF Bill
<1> QED BY <1>7

\* There is a bill of the first n archives that comes to a bytes and c archives, for those of P.
Billed(T, L, n, a, c, P) ==
    \E s, o, w, X : Bill(T, L, n, s, o, w, X) /\ s[n] = a /\ o[n] = c /\ P = Through(L, n, X)

LEMMA BillExtended ==
    ASSUME NEW T, NEW L, NEW n \in Nat, NEW m \in Nat, n = m - 1,
           NEW s, NEW o, NEW w, NEW X, Bill(T, L, n, s, o, w, X), NEW b, NEW a, NEW c, NEW X2,
           \A i \in Nat : i # m => (i \in X2 <=> i \in X),
           Outcome(T, L[m].path, s[n], o[n], b, a, c, m, X2)
    PROVE  Billed(T, L, m, a, c, Through(L, m, X2))
<1> DEFINE s2 == [s EXCEPT ![m] = a]
           o2 == [o EXCEPT ![m] = c]
           w2 == [w EXCEPT ![m] = b]
<1>1. DOMAIN s = Nat /\ DOMAIN o = Nat /\ DOMAIN w = Nat
  BY DEF Bill
<1>2. But(s2, s, m) /\ s2[m] = a
  BY <1>1 DEF But
<1>3. But(o2, o, m) /\ o2[m] = c
  BY <1>1 DEF But
<1>4. But(w2, w, m) /\ w2[m] = b
  BY <1>1 DEF But
<1> HIDE DEF s2, o2, w2
<1>5. s2[n] = s[n] /\ o2[n] = o[n] /\ m - 1 = n
  <2>1. n # m
    OBVIOUS
  <2> QED BY <1>2, <1>3, <2>1 DEF But
<1>6. Settled(T, L[m].path, m, s2, o2, w2, X2)
  BY <1>2, <1>3, <1>4, <1>5 DEF Settled, Outcome
<1>7. Bill(T, L, m, s2, o2, w2, X2)
  BY <1>2, <1>3, <1>4, <1>6, EntryAdded
<1> QED BY <1>2, <1>3, <1>7 DEF Billed

LEMMA BillGrows ==
    ASSUME NEW T, NEW L, NEW n \in Nat, NEW m \in Nat, n = m - 1, NEW p, p = L[m].path,
           NEW base, NEW count, NEW P, Billed(T, L, n, base, count, P), NEW b
    PROVE  /\ MayEnter(T, p, base, count) /\ Measured(T, p, base, b, Len(Offer(T, p).members)) =>
                Billed(T, L, m, base + Bytes(T, p, b), count + 1, P \cup {p})
           /\ (MayEnter(T, p, base, count) => StopsShort(T, p, base, b)) =>
                Billed(T, L, m, base, count, P)
<1>0. (\A j : j \in 1 .. m <=> j \in 1 .. n \/ j = m) /\ \A j \in 1 .. n : j # m
  OBVIOUS
<1>1. PICK s, o, w, X : Bill(T, L, n, s, o, w, X) /\ s[n] = base /\ o[n] = count /\ P = Through(L, n, X)
  BY DEF Billed
<1>2. ASSUME MayEnter(T, p, base, count), Measured(T, p, base, b, Len(Offer(T, p).members))
      PROVE  Billed(T, L, m, base + Bytes(T, p, b), count + 1, P \cup {p})
  <2> DEFINE a == base + Bytes(T, p, b)
             c == count + 1
             X2 == X \cup {m}
  <2>1. Outcome(T, L[m].path, s[n], o[n], b, a, c, m, X2)
    BY <1>1, <1>2 DEF Outcome
  <2>2. \A i \in Nat : i # m => (i \in X2 <=> i \in X)
    OBVIOUS
  <2>3. P \cup {p} = Through(L, m, X2)
    <3>1. {j \in 1 .. m : j \in X2} = {j \in 1 .. n : j \in X} \cup {m}
      BY <1>0
    <3> QED BY <1>1, <3>1 DEF Through
  <2> HIDE DEF a, c, X2
  <2>4. Billed(T, L, m, a, c, Through(L, m, X2))
    BY <1>1, <2>1, <2>2, BillExtended
  <2> QED BY <2>3, <2>4 DEF a, c
<1>3. ASSUME MayEnter(T, p, base, count) => StopsShort(T, p, base, b)
      PROVE  Billed(T, L, m, base, count, P)
  <2> DEFINE X2 == X \ {m}
  <2>1. Outcome(T, L[m].path, s[n], o[n], b, base, count, m, X2)
    BY <1>1, <1>3 DEF Outcome
  <2>2. \A i \in Nat : i # m => (i \in X2 <=> i \in X)
    OBVIOUS
  <2>3. P = Through(L, m, X2)
    <3>1. {j \in 1 .. m : j \in X2} = {j \in 1 .. n : j \in X}
      BY <1>0
    <3> QED BY <1>1, <3>1 DEF Through
  <2> HIDE DEF X2
  <2>4. Billed(T, L, m, base, count, Through(L, m, X2))
    BY <1>1, <2>1, <2>2, BillExtended
  <2> QED BY <2>3, <2>4
<1> QED BY <1>2, <1>3

\* The first k archives of the list of T have been taken, in its order.
Following(T, k) ==
    LET L == ListOf(T)
    IN  /\ k \in 0 .. Len(L) /\ Len(L) - k <= Len(queue)
        /\ \A i \in 1 .. Len(L) - k : queue[i] = L[k + i]
        /\ seen = {L[i].path : i \in 1 .. k}
        /\ Busy => k >= 1 /\ at = L[k]

Dealt(k) == IF Busy THEN k - 1 ELSE k

\* A dry run makes out the bill, ...
DryRun(k) ==
    /\ Following(tree, k) /\ Len(queue) = Len(ListOf(tree)) - k
    /\ pc \in {"idle", "take", "stage", "admit", "verify"}
    /\ pc = "idle" => k = Len(ListOf(tree))
    /\ Billed(tree, ListOf(tree), Dealt(k), spent, opened, told)
    /\ pc \in {"admit", "verify"} => staged = tree[at.path].of /\ ~(Size[staged] > Policy.compressed)
    /\ pc = "verify" =>
         /\ MayEnter(tree, at.path, spent, opened) /\ written \in Nat /\ written <= Len(Members)
         /\ \E b : Measured(tree, at.path, spent, b, written) /\ bytes = b[written]

\* What is at hand is the entry of the list last taken.
LEMMA AtHand ==
    ASSUME NEW T, TypedTree(T), NEW k, Following(T, k), Busy
    PROVE  /\ k \in 1 .. Len(ListOf(T)) /\ k \in Nat /\ k - 1 \in Nat
           /\ at = ListOf(T)[k] /\ at.depth = 0 /\ at.path \in FindArchives(T)
           /\ at.path \in seen
<1>1. Len(ListOf(T)) \in Nat
  BY ListFacts
<1>2. k \in 1 .. Len(ListOf(T)) /\ k \in Nat /\ k - 1 \in Nat /\ at = ListOf(T)[k]
  BY <1>1 DEF Following
<1>3. at.depth = 0 /\ at.path \in FindArchives(T)
  BY <1>2, ListFacts
<1>4. at.path \in seen
  BY <1>2 DEF Following
<1> QED BY <1>2, <1>3, <1>4

LEMMA OfferAtHand ==
    ASSUME NEW T, at.depth = 0, staged = T[at.path].of
    PROVE  /\ Preflight = Offer(T, at.path) /\ Members = Offer(T, at.path).members
BY DEF Preflight, Members, Offer

LEMMA SameStreams ==
    ASSUME ~late, NEW e, NEW done
    PROVE  Streams(e, done) <=> Fits(e, spent, done)
<1>1. Ceiling(done) = Room(spent, done)
  BY DEF Ceiling, Room
<1> QED BY <1>1 DEF Streams, Fits

\* The next of the list is taken: it was not visited before.
LEMMA NextIsTaken ==
    ASSUME RunInv, NEW T, TypedTree(T), NEW k, Following(T, k), Take, k < Len(ListOf(T))
    PROVE  /\ Head(queue) = ListOf(T)[k + 1] /\ Head(queue).path \notin seen
           /\ seen' = seen \cup {at'.path} /\ at' = Head(queue) /\ pc' = "stage"
           /\ Following(T, k + 1)' /\ Len(queue') = Len(queue) - 1
           /\ k + 1 \in Nat /\ Dealt(k) = k /\ Dealt(k + 1)' = k
<1> DEFINE L == ListOf(T)
<1>1. /\ Len(L) \in Nat /\ k \in Nat /\ k + 1 \in 1 .. Len(L)
      /\ \A i, j \in 1 .. Len(L) : L[i].path = L[j].path => i = j
  <2>1. Len(L) \in Nat /\ \A i, j \in 1 .. Len(L) : L[i].path = L[j].path => i = j
    BY ListFacts
  <2>2. k \in 0 .. Len(L)
    BY DEF Following
  <2> HIDE DEF L
  <2>3. k < Len(L)
    BY DEF L
  <2> QED BY <2>1, <2>2, <2>3
<1>2. /\ Len(L) - k <= Len(queue) /\ \A i \in 1 .. Len(L) - k : queue[i] = L[k + i]
      /\ seen = {L[i].path : i \in 1 .. k}
  BY DEF Following
<1> HIDE DEF L
<1>3. PICK S : queue \in Seq(S)
  BY DEF RunInv, Take
<1>4. pc = "take" /\ queue # <<>> /\ queue' = Tail(queue)
  BY DEF Take
<1>5. Head(queue) = queue[1]
  BY <1>3, <1>4
<1>6. 1 \in 1 .. Len(L) - k
  BY <1>1
<1>7. Head(queue) = L[k + 1]
  BY <1>2, <1>5, <1>6
<1>8. Head(queue).path \notin seen
  <2>1. \A i \in 1 .. k : i \in 1 .. Len(L) /\ i # k + 1
    BY <1>1
  <2> QED BY <1>1, <1>2, <1>7, <2>1
<1>9. /\ seen' = seen \cup {Head(queue).path} /\ at' = Head(queue) /\ pc' = "stage"
  BY <1>8 DEF Take, Goto
<1>10. seen' = {L[i].path : i \in 1 .. k + 1}
  <2>1. \A i \in 1 .. k + 1 : i \in 1 .. k \/ i = k + 1
    BY <1>1
  <2>2. \A i \in 1 .. k : i \in 1 .. k + 1
    BY <1>1
  <2>3. k + 1 \in 1 .. k + 1
    BY <1>1
  <2> QED BY <1>2, <1>7, <1>9, <2>1, <2>2, <2>3
<1>11. Len(queue') = Len(queue) - 1 /\ \A i \in 1 .. Len(queue) - 1 : queue'[i] = queue[i + 1]
  BY <1>3, <1>4
<1>12. \A i \in 1 .. Len(L) - (k + 1) : queue'[i] = L[k + 1 + i]
  <2> SUFFICES ASSUME NEW i \in 1 .. Len(L) - (k + 1) PROVE queue'[i] = L[k + 1 + i]
    OBVIOUS
  <2>1. i \in 1 .. Len(queue) - 1 /\ i + 1 \in 1 .. Len(L) - k /\ k + (i + 1) = k + 1 + i
    BY <1>1, <1>2, <1>3
  <2> QED BY <1>2, <1>11, <2>1
<1>13. Len(L) - (k + 1) <= Len(queue')
  BY <1>1, <1>2, <1>3, <1>11
<1>14. Following(T, k + 1)'
  <2>1. k + 1 \in 0 .. Len(L) /\ k + 1 >= 1
    BY <1>1
  <2> QED BY <2>1, <1>7, <1>9, <1>10, <1>12, <1>13 DEF Following, L
<1>15. ~Busy /\ Busy'
  BY <1>4, <1>9 DEF Busy
<1>16. Dealt(k) = k /\ Dealt(k + 1)' = k
  BY <1>1, <1>15 DEF Dealt
<1> QED BY <1>1, <1>7, <1>8, <1>9, <1>11, <1>14, <1>16 DEF L

\* A dry run is done with an archive: it passes, or it does not.
LEMMA DryVisitEnds ==
    ASSUME RunInv, NEW k, DryRun(k), Busy, pc' = "take", UNCHANGED <<tree, queue, seen, at>>, NEW b,
           \/ /\ MayEnter(tree, at.path, spent, opened)
              /\ Measured(tree, at.path, spent, b, Len(Offer(tree, at.path).members))
              /\ spent' = spent + Bytes(tree, at.path, b) /\ opened' = opened + 1
              /\ told' = told \cup {at.path}
           \/ /\ MayEnter(tree, at.path, spent, opened) => StopsShort(tree, at.path, spent, b)
              /\ UNCHANGED <<spent, opened, told>>
    PROVE  DryRun(k)'
<1> DEFINE L == ListOf(tree)
           p == at.path
           n == k - 1
<1>1. /\ Following(tree, k) /\ Len(queue) = Len(L) - k /\ Billed(tree, L, n, spent, opened, told)
  BY DEF DryRun, Dealt
<1>2. n \in Nat /\ k \in Nat /\ L[k].path = p
  <2>1. TypedTree(tree)
    BY DEF RunInv
  <2> QED BY <1>1, <2>1, AtHand
<1>3. L' = L
  BY DEF ListOf, Queued, FindArchives, IsZip, Owned
<1> HIDE DEF L, p, n
<1>4. Billed(tree, L, k, spent', opened', told')
  <2> HIDE DEF n
  <2>1. n = k - 1
    BY DEF n
  <2>2. CASE /\ MayEnter(tree, p, spent, opened)
             /\ Measured(tree, p, spent, b, Len(Offer(tree, p).members))
             /\ spent' = spent + Bytes(tree, p, b) /\ opened' = opened + 1
             /\ told' = told \cup {p}
    <3>1. Billed(tree, L, k, spent + Bytes(tree, p, b), opened + 1, told \cup {p})
      BY <1>1, <1>2, <2>1, <2>2, BillGrows
    <3> QED BY <2>2, <3>1
  <2>3. CASE /\ MayEnter(tree, p, spent, opened) => StopsShort(tree, p, spent, b)
             /\ UNCHANGED <<spent, opened, told>>
    <3>1. Billed(tree, L, k, spent, opened, told)
      BY <1>1, <1>2, <2>1, <2>3, BillGrows
    <3> QED BY <2>3, <3>1
  <2> QED BY <2>2, <2>3 DEF p
<1>5. ~Busy'
  BY DEF Busy
<1>6. Following(tree, k)' /\ Dealt(k)' = k /\ Len(queue') = Len(L') - k
  BY <1>1, <1>3, <1>5 DEF Following, Dealt, L
<1>7. Billed(tree, ListOf(tree), Dealt(k), spent, opened, told)'
  BY <1>3, <1>4, <1>6 DEF L
<1> QED BY <1>6, <1>7 DEF DryRun, L

LEMMA AdmitsWhatMayEnter ==
    ASSUME NEW T, at.depth = 0, staged = T[at.path].of, ~(Size[staged] > Policy.compressed), ~late,
           MayReplace(Target, Last(at.path).name) <=> FreeFor(T, at.path)
    PROVE  MayReplace(Target, Last(at.path).name) /\ Preflight.accepted /\ SessionAdmits
               <=> MayEnter(T, at.path, spent, opened)
<1>1. Preflight = Offer(T, at.path)
  BY OfferAtHand
<1> QED BY <1>1 DEF MayEnter, SessionAdmits

LEMMA FreeAtHand == MayReplace(Target, Last(at.path).name) <=> FreeFor(tree, at.path)
BY DEF MayReplace, FreeFor, Target

LEMMA NothingMeasured ==
    ASSUME NEW T, NEW p, NEW base
    PROVE  Measured(T, p, base, [i \in Nat |-> 0], 0) /\ [i \in Nat |-> 0][0] = 0
<1> DEFINE b == [i \in Nat |-> 0]
<1>1. DOMAIN b = Nat /\ b[0] = 0 /\ 1 .. 0 = {}
  OBVIOUS
<1> HIDE DEF b
<1>2. Measured(T, p, base, b, 0) /\ b[0] = 0
  BY <1>1 DEF Measured
<1> QED BY <1>2 DEF b

LEMMA OneMoreMeasured ==
    ASSUME NEW T, NEW p, NEW base, NEW b, NEW n \in Nat, Measured(T, p, base, b, n),
           Fits(Offer(T, p).members[n + 1], base, b[n])
    PROVE  \E c : /\ Measured(T, p, base, c, n + 1)
                  /\ c[n + 1] = b[n] + Offer(T, p).members[n + 1].yields
<1> DEFINE members == Offer(T, p).members
           after == b[n] + members[n + 1].yields
           c == [b EXCEPT ![n + 1] = after]
<1>1. /\ DOMAIN b = Nat /\ b[0] = 0
      /\ \A j \in 1 .. n : Fits(members[j], base, b[j - 1]) /\ b[j] = b[j - 1] + members[j].yields
  BY DEF Measured
<1>2. DOMAIN c = Nat /\ c[n + 1] = after /\ \A j \in Nat : j # n + 1 => c[j] = b[j]
  BY <1>1
<1> HIDE DEF c
<1>3. c[0] = 0 /\ c[n] = b[n]
  <2>1. 0 # n + 1 /\ n # n + 1
    OBVIOUS
  <2> QED BY <1>1, <1>2, <2>1
<1>4. ASSUME NEW j \in 1 .. n + 1
      PROVE  Fits(members[j], base, c[j - 1]) /\ c[j] = c[j - 1] + members[j].yields
  <2>1. CASE j \in 1 .. n
    <3>1. c[j] = b[j] /\ c[j - 1] = b[j - 1]
      <4>1. j \in Nat /\ j - 1 \in Nat /\ j # n + 1 /\ j - 1 # n + 1
        BY <2>1
      <4> QED BY <1>2, <4>1
    <3> QED BY <1>1, <2>1, <3>1
  <2>2. CASE j = n + 1
    <3>1. j - 1 = n
      BY <2>2
    <3>2. Fits(members[n + 1], base, b[n])
      OBVIOUS
    <3> HIDE DEF members
    <3> QED BY <1>2, <1>3, <2>2, <3>1, <3>2
  <2> QED BY <2>1, <2>2
<1>5. Measured(T, p, base, c, n + 1)
  BY <1>2, <1>3, <1>4 DEF Measured
<1> QED BY <1>2, <1>5

LEMMA DryBegins ==
    ASSUME RunInv, Start(TRUE)
    PROVE  DryRun(0)' /\ dry' /\ ~late'
<1> DEFINE L == ListOf(tree)
<1>1. /\ pc' = "take" /\ dry' = TRUE /\ late' = FALSE /\ tree' = tree /\ queue' = L /\ seen' = {}
      /\ spent' = 0 /\ opened' = 0 /\ told' = {}
  BY DEF Start, Goto, source, ListOf
<1>2. L' = L
  BY <1>1 DEF ListOf, Queued, FindArchives, IsZip, Owned
<1>3. Len(L) \in Nat
  BY ListFacts DEF RunInv
<1>4. ~Busy'
  BY <1>1 DEF Busy
<1> HIDE DEF L
<1>5. Following(tree, 0)' /\ Dealt(0)' = 0 /\ Len(queue') = Len(L') - 0
  <2>1. 1 .. 0 = {} /\ 0 \in 0 .. Len(L) /\ Len(L) - 0 = Len(L) /\ \A i \in 1 .. Len(L) : 0 + i = i
    BY <1>3
  <2> QED BY <1>1, <1>2, <1>4, <2>1 DEF Following, Dealt, L
<1>6. Billed(tree, L, 0, 0, 0, {})
  <2> DEFINE z == [i \in Nat |-> 0]
  <2>1. DOMAIN z = Nat /\ z[0] = 0 /\ 1 .. 0 = {}
    OBVIOUS
  <2> HIDE DEF z
  <2>2. Bill(tree, L, 0, z, z, z, {})
    BY <2>1 DEF Bill
  <2>3. Through(L, 0, {}) = {}
    BY DEF Through
  <2> QED BY <2>1, <2>2, <2>3 DEF Billed
<1>7. Billed(tree, ListOf(tree), Dealt(0), spent, opened, told)'
  BY <1>1, <1>2, <1>5, <1>6 DEF L
<1> QED BY <1>1, <1>5, <1>7 DEF DryRun, L

LEMMA DryStays ==
    ASSUME NEW k, DryRun(k), UNCHANGED expansionVars
    PROVE  DryRun(k)'
<1> USE DEF visit, source, oracle, bounds, budget
<1>1. UNCHANGED <<pc, tree, queue, seen, at, staged, written, bytes, spent, opened, told>>
  BY DEF expansionVars
<1>2. /\ Following(tree, k) /\ Len(queue) = Len(ListOf(tree)) - k
      /\ Billed(tree, ListOf(tree), Dealt(k), spent, opened, told)
  BY DEF DryRun
<1>3. ListOf(tree)' = ListOf(tree) /\ Busy' = Busy /\ Members' = Members
  BY <1>1 DEF ListOf, Queued, FindArchives, IsZip, Owned, Busy, Members, Preflight
<1>4. Following(tree, k)' /\ Dealt(k)' = Dealt(k)
  BY <1>1, <1>2, <1>3 DEF Following, Dealt
<1>5. Billed(tree, ListOf(tree), Dealt(k), spent, opened, told)'
  BY <1>1, <1>2, <1>3, <1>4
<1>6. (\E b : Measured(tree, at.path, spent, b, written) /\ bytes = b[written]) =>
      (\E b : Measured(tree, at.path, spent, b, written) /\ bytes = b[written])'
  BY <1>1 DEF Measured, Offer
<1>7. MayEnter(tree, at.path, spent, opened) => MayEnter(tree, at.path, spent, opened)'
  BY <1>1 DEF MayEnter, FreeFor, Stands, Inside, Owned, Offer, ExtractDirFor
<1> QED BY <1>1, <1>2, <1>3, <1>4, <1>5, <1>6, <1>7 DEF DryRun

LEMMA DryGoesOn ==
    ASSUME RunInv, BudgetInv, [ExpansionNext]_expansionVars, quiet', dry, ~late, pc # "idle",
           NEW k, DryRun(k)
    PROVE  dry' /\ ~late' /\ \E j : DryRun(j)'
<1> USE DEF Goto, visit, source, oracle, bounds, budget
<1> DEFINE L == ListOf(tree)
<1>0. TypedTree(tree) /\ Len(L) \in Nat /\ k \in 0 .. Len(L) /\ k \in Nat
  <2>1. TypedTree(tree) /\ Len(L) \in Nat /\ k \in 0 .. Len(L)
    BY ListFacts DEF RunInv, DryRun, Following
  <2> QED BY <2>1
<1>1. /\ Following(tree, k) /\ Len(queue) = Len(L) - k
      /\ pc \in {"take", "stage", "admit", "verify"}
      /\ Billed(tree, L, Dealt(k), spent, opened, told)
  BY DEF DryRun
<1>2. tree' = tree => L' = L
  BY DEF ListOf, Queued, FindArchives, IsZip, Owned
<1>3. Busy => at.depth = 0
  BY <1>0, <1>1, AtHand
<1> HIDE DEF L
<1>4. CASE Finish
  <2>1. /\ pc = "take" /\ queue = <<>> /\ pc' = "idle" /\ dry' = dry /\ late' = late
        /\ UNCHANGED <<tree, queue, seen, at, spent, opened, told>>
    BY <1>4 DEF Finish
  <2>2. k = Len(L)
    BY <1>0, <1>1, <2>1
  <2>3. ~Busy /\ ~Busy'
    BY <2>1 DEF Busy
  <2>4. Following(tree, k)' /\ Dealt(k)' = Dealt(k)
    BY <1>1, <1>2, <2>1, <2>3 DEF Following, Dealt, L
  <2>5. Billed(tree, ListOf(tree), Dealt(k), spent, opened, told)'
    BY <1>1, <1>2, <2>1, <2>4 DEF L
  <2>6. DryRun(k)'
    BY <1>1, <1>2, <2>1, <2>2, <2>4, <2>5 DEF DryRun, L
  <2> QED BY <2>1, <2>6
<1>5. CASE Take
  <2>1. pc = "take" /\ queue # <<>> /\ dry' = dry /\ late' = late /\ UNCHANGED <<tree, spent, opened, told>>
    BY <1>5 DEF Take
  <2>2. k < Len(L)
    <3>1. PICK S : queue \in Seq(S)
      BY <2>1 DEF RunInv
    <3>2. Len(queue) >= 1
      BY <2>1, <3>1
    <3> QED BY <1>0, <1>1, <3>2
  <2>3. /\ pc' = "stage" /\ Following(tree, k + 1)' /\ Len(queue') = Len(queue) - 1
        /\ Dealt(k) = k /\ Dealt(k + 1)' = k
    <3>1. /\ pc' = "stage" /\ Following(tree, k + 1)' /\ Len(queue') = Len(queue) - 1
          /\ Dealt(k) = k /\ Dealt(k + 1)' = k
      <4>1. \A T : TypedTree(T) /\ Following(T, k) /\ k < Len(ListOf(T)) /\ T = tree =>
              /\ pc' = "stage" /\ Following(T, k + 1)' /\ Len(queue') = Len(queue) - 1
              /\ Dealt(k) = k /\ Dealt(k + 1)' = k
        BY <1>5, NextIsTaken
      <4>2. \A T : T = tree => T = tree'
        BY <2>1
      <4>3. /\ pc' = "stage" /\ Len(queue') = Len(queue) - 1 /\ Dealt(k) = k /\ Dealt(k + 1)' = k
        BY <1>0, <1>1, <2>2, <4>1 DEF L
      <4>4. Following(tree, k + 1)'
        BY <1>0, <1>1, <1>2, <2>1, <2>2, <4>1, <4>2 DEF L, Following
      <4> QED BY <4>3, <4>4
    <3> QED BY <3>1
  <2>4. Billed(tree, ListOf(tree), Dealt(k + 1), spent, opened, told)'
    BY <1>1, <1>2, <2>1, <2>3 DEF L
  <2>5. Len(queue') = Len(L') - (k + 1)
    BY <1>0, <1>1, <1>2, <2>1, <2>3
  <2>6. DryRun(k + 1)'
    BY <2>3, <2>4, <2>5 DEF DryRun, L
  <2> QED BY <2>1, <2>6
\* Steps of a visit.
<1>6. ASSUME Busy, UNCHANGED <<tree, queue, seen, at, spent, opened, told>>,
             pc' \in {"admit", "verify"},
             staged' = tree[at.path].of /\ ~(Size[staged'] > Policy.compressed),
             pc' = "verify" =>
               /\ MayEnter(tree, at.path, spent, opened) /\ written' \in Nat /\ written' <= Len(Members')
               /\ \E b : Measured(tree, at.path, spent, b, written') /\ bytes' = b[written']
      PROVE  \E j : DryRun(j)'
  <2>1. Busy'
    BY <1>6 DEF Busy
  <2>2. Following(tree, k)' /\ Dealt(k)' = Dealt(k)
    BY <1>1, <1>2, <1>6, <2>1 DEF Following, Dealt, L
  <2>3. Billed(tree, ListOf(tree), Dealt(k), spent, opened, told)'
    BY <1>1, <1>2, <1>6, <2>2 DEF L
  <2>4. pc' = "verify" =>
          /\ MayEnter(tree, at.path, spent, opened)' /\ written' \in Nat /\ written' <= Len(Members')
          /\ (\E b : Measured(tree, at.path, spent, b, written) /\ bytes = b[written])'
    <3>1. MayEnter(tree, at.path, spent, opened) => MayEnter(tree, at.path, spent, opened)'
      BY <1>6 DEF MayEnter, FreeFor, Stands, Inside, Owned, Offer, ExtractDirFor
    <3>2. (\E b : Measured(tree, at.path, spent, b, written') /\ bytes' = b[written']) =>
          (\E b : Measured(tree, at.path, spent, b, written) /\ bytes = b[written])'
      BY <1>6 DEF Measured, Offer
    <3> QED BY <1>6, <3>1, <3>2
  <2>5. DryRun(k)'
    BY <1>1, <1>2, <1>6, <2>2, <2>3, <2>4 DEF DryRun, L
  <2> QED BY <2>5
<1>7. CASE Stage
  <2>1. pc = "stage" /\ Busy /\ dry' = dry /\ late' = late /\ UNCHANGED <<tree, queue, seen, at>>
    BY <1>7 DEF Stage, Hold, Busy
  <2>2. CASE Size[tree[at.path].of] > Policy.compressed
    <3>1. pc' = "take" /\ UNCHANGED <<spent, opened, told>>
      BY <1>7, <2>2 DEF Stage, Hold
    <3>2. ~MayEnter(tree, at.path, spent, opened)
      BY <2>2 DEF MayEnter
    <3> QED BY <2>1, <3>1, <3>2, DryVisitEnds
  <2>3. CASE ~(Size[tree[at.path].of] > Policy.compressed)
    <3>1. pc' = "admit" /\ staged' = tree[at.path].of /\ UNCHANGED <<spent, opened, told>>
      BY <1>7, <2>3 DEF Stage
    <3> QED BY <2>1, <2>3, <3>1, <1>6
  <2> QED BY <2>2, <2>3
<1>8. CASE Admit
  <2>1. /\ pc = "admit" /\ Busy /\ dry' = dry /\ late' = late
        /\ UNCHANGED <<tree, queue, seen, at, staged, written, bytes, spent, opened, told>>
    BY <1>8 DEF Admit, Hold, Busy
  <2>2. staged = tree[at.path].of /\ ~(Size[staged] > Policy.compressed)
    BY <2>1 DEF DryRun
  <2> DEFINE Admits == MayReplace(Target, Last(at.path).name) /\ Preflight.accepted /\ SessionAdmits
  <2>3. Admits <=> MayEnter(tree, at.path, spent, opened)
    BY <1>3, <2>1, <2>2, FreeAtHand, AdmitsWhatMayEnter
  <2>4. pc' = IF Admits THEN "verify" ELSE "take"
    BY <1>8 DEF Admit, Hold
  <2>5. CASE MayEnter(tree, at.path, spent, opened)
    <3>1. pc' = "verify"
      BY <2>3, <2>4, <2>5
    <3>2. written = 0 /\ bytes = 0
      BY <2>1 DEF RunInv, BudgetInv
    <3>3. \E b : Measured(tree, at.path, spent, b, 0) /\ 0 = b[0]
      BY NothingMeasured
    <3>4. Members' = Members /\ Len(Members) \in Nat
      <4>1. Members' = Members
        BY <2>1 DEF Members, Preflight
      <4>2. Len(Members) \in Nat
        BY <2>1, <2>3, <2>5, MembersKnown DEF RunInv
      <4> QED BY <4>1, <4>2
    <3> QED BY <1>6, <2>1, <2>2, <2>5, <3>1, <3>2, <3>3, <3>4
  <2>6. CASE ~MayEnter(tree, at.path, spent, opened)
    <3>1. pc' = "take"
      BY <2>3, <2>4, <2>6
    <3> QED BY <2>1, <2>6, <3>1, DryVisitEnds
  <2> QED BY <2>5, <2>6
<1>9. CASE Verify
  <2>1. /\ pc = "verify" /\ Busy /\ dry' = dry /\ late' = late
        /\ UNCHANGED <<tree, queue, seen, at, staged>>
    BY <1>9 DEF Verify, Foretell, Hold, Busy
  <2>2. staged = tree[at.path].of /\ ~(Size[staged] > Policy.compressed)
    BY <2>1 DEF DryRun
  <2>3. /\ MayEnter(tree, at.path, spent, opened) /\ written \in Nat /\ written <= Len(Members)
    BY <2>1 DEF DryRun
  <2>4. PICK b : Measured(tree, at.path, spent, b, written) /\ bytes = b[written]
    BY <2>1 DEF DryRun
  <2>5. Members = Offer(tree, at.path).members /\ Members' = Members
    <3>1. Members' = Members
      BY <2>1 DEF Members, Preflight
    <3> QED BY <1>3, <2>1, <2>2, <3>1, OfferAtHand
  <2>6. CASE written = Len(Members)
    <3>1. /\ pc' = "take" /\ spent' = spent + bytes /\ opened' = opened + 1
          /\ told' = told \cup {at.path}
      BY <1>9, <2>6 DEF Verify, Foretell, Record
    <3>2. bytes = Bytes(tree, at.path, b) /\ Measured(tree, at.path, spent, b, Len(Offer(tree, at.path).members))
      BY <2>4, <2>5, <2>6 DEF Bytes
    <3> QED BY <2>1, <2>3, <3>1, <3>2, DryVisitEnds
  <2>7. CASE written # Len(Members) /\ Streams(Members[written + 1], bytes)
    <3> DEFINE e == Members[written + 1]
    <3>1. /\ pc' = "verify" /\ written' = written + 1 /\ bytes' = bytes + e.yields
          /\ UNCHANGED <<spent, opened, told>>
      BY <1>9, <2>1, <2>7 DEF Verify
    <3>2. Fits(Offer(tree, at.path).members[written + 1], spent, b[written])
      BY <2>4, <2>5, <2>7, SameStreams
    <3>3. \E c : Measured(tree, at.path, spent, c, written') /\ bytes' = c[written']
      <4>1. \E c : /\ Measured(tree, at.path, spent, c, written + 1)
                   /\ c[written + 1] = b[written] + Offer(tree, at.path).members[written + 1].yields
        BY <2>3, <2>4, <3>2, OneMoreMeasured
      <4> QED BY <2>4, <2>5, <3>1, <4>1
    <3>4. written' \in Nat /\ written' <= Len(Members)
      <4>1. Len(Members) \in Nat
        BY <2>1, <1>3, MembersKnown DEF RunInv, Admitted
      <4> QED BY <2>3, <2>7, <3>1, <4>1
    <3> HIDE DEF e
    <3> QED BY <1>6, <2>1, <2>2, <2>3, <2>5, <3>1, <3>3, <3>4
  <2>8. CASE written # Len(Members) /\ ~Streams(Members[written + 1], bytes)
    <3>1. pc' = "take" /\ UNCHANGED <<spent, opened, told>>
      BY <1>9, <2>8 DEF Verify, Hold
    <3>2. ~Fits(Offer(tree, at.path).members[written + 1], spent, b[written])
      BY <2>4, <2>5, <2>8, SameStreams
    <3>3. written < Len(Offer(tree, at.path).members)
      <4>1. Len(Members) \in Nat
        BY <2>1, <1>3, MembersKnown DEF RunInv, Admitted
      <4> QED BY <2>3, <2>5, <2>8, <4>1
    <3>4. StopsShort(tree, at.path, spent, b)
      BY <2>3, <2>4, <3>2, <3>3 DEF StopsShort
    <3> QED BY <2>1, <3>1, <3>4, DryVisitEnds
  <2> QED BY <2>6, <2>7, <2>8
<1>10. CASE UNCHANGED expansionVars
  <2>1. DryRun(k)'
    BY <1>10, DryStays
  <2> QED BY <1>10, <2>1 DEF expansionVars
<1>11. CASE \/ \E observe \in BOOLEAN : Start(observe)
            \/ Prepare \/ Write \/ Mark \/ Check \/ MoveOut \/ MoveIn \/ DropBackup \/ Extracted
            \/ Vanished \/ Restore \/ CallFails \/ Crash \/ TimeRunsOut \/ User
  <2>1. CASE \E observe \in BOOLEAN : Start(observe)
    BY <2>1 DEF Start
  <2>2. CASE Prepare \/ Write \/ Mark \/ Check \/ MoveOut \/ MoveIn \/ DropBackup \/ Extracted
    BY <1>1, <2>2 DEF Prepare, Write, Mark, Check, MoveOut, MoveIn, DropBackup, Extracted
  <2>3. CASE Vanished \/ Restore \/ CallFails \/ Crash \/ TimeRunsOut \/ User
    BY <2>3 DEF Vanished, Restore, CallFails, Crash, TimeRunsOut, User, Throw, UserActs,
                PutsArchive, RemovesArchive, MakesDirectory, RemovesExtraction
  <2> QED BY <1>11, <2>1, <2>2, <2>3
<1> QED BY <1>4, <1>5, <1>7, <1>8, <1>9, <1>10, <1>11 DEF ExpansionNext, Step

\* ... and a real run finds the tree as it was and follows the bill, as long as no two archives
\* it has visited expand into one directory ...
NoneShared == \A q, r \in seen : ExtractDirFor(q) = ExtractDirFor(r) => q = r

Chosen(T) == staged = T[at.path].of /\ ~(Size[staged] > Policy.compressed)

OnBill(T, w, X, k) ==
    LET members == Offer(T, at.path).members
    IN  \/ /\ k \in X /\ Measured(T, at.path, spent, w[k], Len(members))
           /\ bytes = w[k][IF pc \in {"prepare", "write"} THEN written ELSE Len(members)]
        \/ /\ k \notin X /\ pc \in {"prepare", "write"}
           /\ \E n \in Nat :
                /\ n < Len(members) /\ Measured(T, at.path, spent, w[k], n)
                /\ ~Fits(members[n + 1], spent, w[k][n])
                /\ written <= n /\ bytes = w[k][written]

InStep(T, s, o, w, X, k) ==
    /\ Alike(T, tree, IF pc \in {"stage", "admit"} THEN seen \ {at.path} ELSE seen, runs)
    /\ spent = s[Dealt(k)] /\ opened = o[Dealt(k)]
    /\ pc \notin {"take", "stage"} => Chosen(T)
    /\ pc \notin {"take", "stage", "admit"} =>
         MayEnter(T, at.path, spent, opened) /\ OnBill(T, w, X, k)

RealRun(T, s, o, w, X, k) ==
    /\ TypedTree(T) /\ \A q \in DOMAIN T : OldPath(q, runs)
    /\ Bill(T, ListOf(T), Len(ListOf(T)), s, o, w, X) /\ told = Through(ListOf(T), Len(ListOf(T)), X)
    /\ Following(T, k) /\ pc \notin {"idle", "verify"}
    /\ NoneShared => InStep(T, s, o, w, X, k)

\* ... until it comes to what it extracted itself.
Beyond == pc # "verify" /\ told \subseteq seen /\ (Busy => at.path \notin told)

ForetellInv ==
    quiet => IF dry
             THEN (pc # "idle" => ~late) /\ \E k : DryRun(k)
             ELSE /\ pc # "idle" /\ ~late
                  /\ Beyond \/ \E T, s, o, w, X, k : RealRun(T, s, o, w, X, k)

LEMMA AlikeWeaker ==
    ASSUME NEW T, NEW t, NEW S, NEW U, S \subseteq U, NEW now, Alike(T, t, S, now)
    PROVE  Alike(T, t, U, now)
BY DEF Alike

\* What the bill says of the archive at hand.
LEMMA BillAtHand ==
    ASSUME NEW T, NEW s, NEW o, NEW w, NEW X, NEW k, RealRun(T, s, o, w, X, k), Busy
    PROVE  LET p == at.path
               members == Offer(T, p).members
           IN  /\ k \in X =>
                    /\ MayEnter(T, p, s[k - 1], o[k - 1])
                    /\ Measured(T, p, s[k - 1], w[k], Len(members))
                    /\ s[k] = s[k - 1] + w[k][Len(members)] /\ o[k] = o[k - 1] + 1
               /\ k \notin X =>
                    /\ MayEnter(T, p, s[k - 1], o[k - 1]) => StopsShort(T, p, s[k - 1], w[k])
                    /\ s[k] = s[k - 1] /\ o[k] = o[k - 1]
               /\ at.path \in told => k \in X
<1> DEFINE L == ListOf(T)
<1>1. /\ TypedTree(T) /\ Following(T, k) /\ told = Through(L, Len(L), X)
      /\ \A i \in 1 .. Len(L) : Settled(T, L[i].path, i, s, o, w, X)
  BY DEF RealRun, Bill
<1>2. k \in 1 .. Len(L) /\ L[k].path = at.path
  BY <1>1, AtHand
<1>3. Settled(T, at.path, k, s, o, w, X)
  BY <1>1, <1>2
<1>4. at.path \in told => k \in X
  <2>1. \A i \in 1 .. Len(L) : L[i].path = L[k].path => i = k
    BY <1>1, <1>2, ListFacts
  <2> HIDE DEF L
  <2> QED BY <1>1, <1>2, <2>1 DEF Through
<1> QED BY <1>3, <1>4 DEF Settled, Outcome, Bytes

LEMMA RealBegins ==
    ASSUME RunInv, FreshInv, pc = "idle", Start(FALSE), NEW j, DryRun(j)
    PROVE  ~dry' /\ ~late' /\ \E T, s, o, w, X, k : RealRun(T, s, o, w, X, k)'
<1>1. PICK T : T = tree
  OBVIOUS
<1> DEFINE L == ListOf(T)
<1>2. /\ pc' = "take" /\ dry' = FALSE /\ late' = FALSE /\ tree' = tree /\ queue' = L /\ seen' = {}
      /\ spent' = 0 /\ opened' = 0 /\ told' = told /\ runs' = runs + 1
  BY <1>1 DEF Start, Goto, source, ListOf, Unless, oracle
<1>3. TypedTree(T) /\ Len(L) \in Nat
  BY <1>1, ListFacts DEF RunInv
<1>4. \A q \in DOMAIN T : OldPath(q, runs')
  <2>1. FreshTree(tree, runs + 1, {})
    BY DEF FreshInv, Now, Held, Placed, Aside
  <2> QED BY <1>1, <1>2, <2>1 DEF FreshTree
<1>5. Billed(T, L, Len(L), spent, opened, told)
  BY <1>1 DEF DryRun, Dealt, Busy
<1> HIDE DEF L
<1>6. PICK s, o, w, X : Bill(T, L, Len(L), s, o, w, X) /\ told = Through(L, Len(L), X)
  BY <1>5 DEF Billed
<1>7. ~Busy'
  BY <1>2 DEF Busy
<1>8. Following(T, 0)' /\ Dealt(0)' = 0
  <2>1. 1 .. 0 = {} /\ 0 \in 0 .. Len(L) /\ Len(L) - 0 = Len(L) /\ \A i \in 1 .. Len(L) : 0 + i = i
    BY <1>3
  <2> QED BY <1>2, <1>7, <2>1 DEF Following, Dealt, L
<1>9. InStep(T, s, o, w, X, 0)'
  <2>1. s[0] = 0 /\ o[0] = 0
    BY <1>6 DEF Bill
  <2>2. Alike(T, tree', {}, runs')
    BY <1>1, <1>2 DEF Alike
  <2> QED BY <1>2, <1>8, <2>1, <2>2 DEF InStep
<1>10. RealRun(T, s, o, w, X, 0)'
  BY <1>2, <1>3, <1>4, <1>6, <1>8, <1>9 DEF RealRun, L
<1> QED BY <1>2, <1>10

\* A visit ends, with the charge the bill has for it.
LEMMA RealVisitEnds ==
    ASSUME NEW T, NEW s, NEW o, NEW w, NEW X, NEW k, RealRun(T, s, o, w, X, k), Busy,
           pc' = "take", UNCHANGED <<seen, at, told, runs>>,
           queue' = queue \/ \E N : queue' = queue \o N /\ \E S : queue \in Seq(S) /\ N \in Seq(S),
           NoneShared => Alike(T, tree', seen, runs) /\ spent' = s[k] /\ opened' = o[k]
    PROVE  RealRun(T, s, o, w, X, k)'
<1> DEFINE L == ListOf(T)
<1>1. TypedTree(T) /\ Following(T, k) /\ Len(L) \in Nat
  BY ListFacts DEF RealRun
<1>2. ~Busy' /\ k \in Nat
  BY <1>1, AtHand DEF Busy
<1>3. /\ Len(L) - k <= Len(queue') /\ \A i \in 1 .. Len(L) - k : queue'[i] = L[k + i]
  <2>1. Len(L) - k <= Len(queue) /\ \A i \in 1 .. Len(L) - k : queue[i] = L[k + i]
    BY <1>1 DEF Following
  <2> HIDE DEF L
  <2>2. CASE queue' = queue
    BY <2>1, <2>2
  <2>3. ASSUME NEW N, queue' = queue \o N, NEW S, queue \in Seq(S), N \in Seq(S)
        PROVE  Len(L) - k <= Len(queue') /\ \A i \in 1 .. Len(L) - k : queue'[i] = L[k + i]
    <3>1. Len(queue) \in Nat /\ Len(queue') >= Len(queue) /\ Len(queue') \in Nat
          /\ \A i \in 1 .. Len(queue) : queue'[i] = queue[i]
      BY <2>3
    <3>2. \A i \in 1 .. Len(L) - k : i \in 1 .. Len(queue)
      BY <1>1, <1>2, <2>1, <3>1
    <3> QED BY <1>1, <1>2, <2>1, <3>1, <3>2
  <2> QED BY <2>2, <2>3
<1>4. Following(T, k)' /\ Dealt(k)' = k
  BY <1>1, <1>2, <1>3 DEF Following, Dealt
<1>5. NoneShared' => NoneShared
  BY DEF NoneShared
<1>6. NoneShared' => InStep(T, s, o, w, X, k)'
  BY <1>4, <1>5 DEF InStep
<1> QED BY <1>4, <1>6 DEF RealRun

\* A step within a visit.
LEMMA RealVisitGoesOn ==
    ASSUME NEW T, NEW s, NEW o, NEW w, NEW X, NEW k, RealRun(T, s, o, w, X, k), Busy,
           pc' \notin {"idle", "take", "stage", "verify"},
           UNCHANGED <<queue, seen, at, told, runs, spent, opened>>,
           NoneShared =>
             /\ Alike(T, tree', IF pc' = "admit" THEN seen \ {at.path} ELSE seen, runs) /\ Chosen(T)'
             /\ pc' # "admit" =>
                  MayEnter(T, at.path, spent, opened) /\ OnBill(T, w, X, k)'
    PROVE  RealRun(T, s, o, w, X, k)'
<1>1. Following(T, k)
  BY DEF RealRun
<1>2. Busy'
  BY DEF Busy
<1>3. Following(T, k)' /\ Dealt(k)' = Dealt(k)
  BY <1>1, <1>2 DEF Following, Dealt
<1>4. NoneShared' => NoneShared
  BY DEF NoneShared
<1>5. MayEnter(T, at.path, spent, opened) => MayEnter(T, at.path, spent, opened)'
  BY DEF MayEnter, FreeFor, Stands, Inside, Owned, Offer, ExtractDirFor
<1>6. NoneShared' => InStep(T, s, o, w, X, k)'
  BY <1>3, <1>4, <1>5 DEF InStep, RealRun
<1> QED BY <1>3, <1>6 DEF RealRun

\* The run keeps step with the bill; what is on it goes through.
LEMMA RealGoesOn ==
    ASSUME RunInv, FreshInv, BudgetInv, [ExpansionNext]_expansionVars, quiet', ~dry, ~late,
           NEW T, NEW s, NEW o, NEW w, NEW X, NEW k, RealRun(T, s, o, w, X, k)
    PROVE  /\ ~dry' /\ ~late' /\ pc' # "idle"
           /\ Beyond' \/ RealRun(T, s, o, w, X, k)' \/ RealRun(T, s, o, w, X, k + 1)'
           /\ NoneShared /\ Busy /\ at.path \in told /\ pc' = "take" => pc = "record"
<1> USE DEF Goto, visit, source, oracle, bounds, budget
<1> DEFINE L == ListOf(T)
           p == at.path
           members == Offer(T, p).members
           Here(q) == RealRun(T, s, o, w, X, k)' /\ (NoneShared /\ q \in told /\ pc' = "take" => pc = "record")
<1>1. /\ TypedTree(T) /\ (\A q \in DOMAIN T : OldPath(q, runs)) /\ Following(T, k)
      /\ told = Through(L, Len(L), X) /\ pc \notin {"idle", "verify"}
      /\ NoneShared => InStep(T, s, o, w, X, k)
  BY DEF RealRun
<1>2. Len(L) \in Nat /\ k \in 0 .. Len(L) /\ k \in Nat
  <2>1. Len(L) \in Nat /\ k \in 0 .. Len(L)
    BY <1>1, ListFacts DEF Following
  <2> QED BY <2>1
<1>3. seen \subseteq FindArchives(T)
  BY <1>1, <1>2, ListFacts DEF Following
<1>4. Busy => /\ k \in 1 .. Len(L) /\ k - 1 \in Nat /\ at.depth = 0 /\ p \in FindArchives(T) /\ p \in seen
              /\ IsPath(p) /\ Dealt(k) = k - 1
  <2>1. Busy => /\ k \in 1 .. Len(L) /\ k - 1 \in Nat /\ at.depth = 0 /\ p \in FindArchives(T) /\ p \in seen
    BY <1>1, AtHand
  <2>2. \A q \in FindArchives(T) : IsPath(q)
    BY <1>1 DEF FindArchives, TypedTree, HasPaths
  <2> QED BY <2>1, <2>2 DEF Dealt
<1>5. Busy /\ k \in X =>
        /\ MayEnter(T, p, s[k - 1], o[k - 1]) /\ Measured(T, p, s[k - 1], w[k], Len(members))
        /\ s[k] = s[k - 1] + w[k][Len(members)] /\ o[k] = o[k - 1] + 1
  BY BillAtHand
<1>6. Busy /\ k \notin X =>
        /\ MayEnter(T, p, s[k - 1], o[k - 1]) => StopsShort(T, p, s[k - 1], w[k])
        /\ s[k] = s[k - 1] /\ o[k] = o[k - 1]
  BY BillAtHand
<1>7. Busy /\ p \in told => k \in X
  BY BillAtHand
<1> HIDE DEF L, p, members
<1>8. Busy /\ NoneShared =>
        /\ Alike(T, tree, IF pc \in {"stage", "admit"} THEN seen \ {p} ELSE seen, runs)
        /\ spent = s[k - 1] /\ opened = o[k - 1]
        /\ pc \notin {"take", "stage"} => Chosen(T)
        /\ pc \notin {"take", "stage", "admit"} =>
             MayEnter(T, p, spent, opened) /\ OnBill(T, w, X, k)
  BY <1>1, <1>4 DEF InStep, p
\* Whoever works on the tree: it stays alike.
<1>9. ASSUME ~User, Busy, NoneShared PROVE Alike(T, tree', seen, runs)
  <2>1. Alike(T, tree, seen, runs)
    <3>1. seen \ {p} \subseteq seen
      OBVIOUS
    <3> QED BY <1>8, <1>9, <3>1, AlikeWeaker
  <2>2. pc \in {"out", "in"} => p \in seen /\ FreeFor(T, p)
    BY <1>4, <1>8, <1>9 DEF MayEnter
  <2> QED BY <1>9, <2>1, <2>2, RunKeepsAlike DEF p
\* A visit ends without a charge, and that is what the bill says, ...
<1>10. ASSUME ~User, Busy, pc' = "take", UNCHANGED <<queue, seen, at, told, runs, spent, opened>>,
              NoneShared => k \notin X
       PROVE  Here(p)
  <2>1. NoneShared => Alike(T, tree', seen, runs) /\ spent' = s[k] /\ opened' = o[k]
    BY <1>6, <1>8, <1>9, <1>10
  <2>2. RealRun(T, s, o, w, X, k)'
    BY <1>10, <2>1, RealVisitEnds
  <2> QED BY <1>7, <1>10, <2>2
\* ... or it goes on.
<1>11. ASSUME ~User, Busy, pc' \notin {"idle", "take", "stage", "admit", "verify"},
              UNCHANGED <<queue, seen, at, staged, told, runs, spent, opened>>,
              NoneShared => Chosen(T) /\ MayEnter(T, p, spent, opened) /\ OnBill(T, w, X, k)'
       PROVE  Here(p)
  <2>1. NoneShared => /\ Alike(T, tree', seen, runs) /\ Chosen(T)'
                      /\ MayEnter(T, p, spent, opened) /\ OnBill(T, w, X, k)'
    BY <1>9, <1>11 DEF Chosen
  <2>2. RealRun(T, s, o, w, X, k)'
    BY <1>11, <2>1, RealVisitGoesOn DEF p
  <2> QED BY <1>11, <2>2
\* A step that leaves the written bytes alone stays on the bill.
<1>12. ASSUME Busy, UNCHANGED <<at, spent, written, bytes>>, pc \notin {"stage", "admit"},
              pc' \notin {"idle", "take", "stage", "admit", "verify"},
              pc' \in {"prepare", "write"} <=> pc \in {"prepare", "write"}
       PROVE  OnBill(T, w, X, k) => OnBill(T, w, X, k)'
  BY <1>12 DEF OnBill
<1>13. CASE Take
  <2>1. pc = "take" /\ queue # <<>> /\ dry' = dry /\ late' = late /\ ~Busy
        /\ UNCHANGED <<tree, runs, spent, opened, told>>
    BY <1>13 DEF Take, Busy
  <2>2. CASE k < Len(L)
    <3>1. /\ Head(queue).path \notin seen /\ seen' = seen \cup {at'.path} /\ at' = Head(queue)
          /\ pc' = "stage" /\ Following(T, k + 1)' /\ Dealt(k) = k /\ Dealt(k + 1)' = k
      BY <1>1, <1>13, <2>2, NextIsTaken DEF L
    <3>2. NoneShared' => NoneShared
      BY <3>1 DEF NoneShared
    <3>3. NoneShared' => InStep(T, s, o, w, X, k + 1)'
      <4>1. seen' \ {at'.path} = seen
        BY <3>1
      <4> QED BY <1>1, <2>1, <3>1, <3>2, <4>1 DEF InStep
    <3>4. RealRun(T, s, o, w, X, k + 1)'
      BY <1>1, <2>1, <3>1, <3>3 DEF RealRun, L
    <3> QED BY <2>1, <3>1, <3>4
  <2>3. CASE k = Len(L)
    <3>1. told \subseteq seen
      BY <1>1, <2>3 DEF Following, Through, L
    <3>2. Beyond' /\ pc' # "idle"
      BY <1>13, <2>1, <3>1 DEF Take, Beyond, Busy
    <3> QED BY <2>1, <3>2
  <2> QED BY <1>2, <2>2, <2>3
<1>14. CASE Stage
  <2>1. pc = "stage" /\ Busy /\ dry' = dry /\ late' = late /\ UNCHANGED <<tree, queue, seen, at, told, runs, spent, opened>>
    BY <1>14 DEF Stage, Hold, Busy
  <2>2. ~User
    BY <1>14, <2>1 DEF Stage, Hold, User, UserActs, PutsArchive, RemovesArchive, MakesDirectory, RemovesExtraction
  <2>3. NoneShared => tree[p] = T[p]
    <3> SUFFICES ASSUME NoneShared PROVE tree[p] = T[p]
      OBVIOUS
    <3>1. seen \ {p} \subseteq FindArchives(T)
      BY <1>3
    <3>2. Alike(T, tree, seen \ {p}, runs)
      BY <1>8, <2>1
    <3>3. p \in FindArchives(T)
      BY <1>4, <2>1
    <3> QED BY <1>1, <3>1, <3>2, <3>3, StillThere
  <2>4. CASE Size[tree[p].of] > Policy.compressed
    <3>1. pc' = "take"
      BY <1>14, <2>4 DEF Stage, Hold, p
    <3>2. NoneShared => k \notin X
      BY <1>5, <2>1, <2>3, <2>4 DEF MayEnter
    <3> QED BY <1>10, <2>1, <2>2, <3>1, <3>2 DEF p
  <2>5. CASE ~(Size[tree[p].of] > Policy.compressed)
    <3>1. pc' = "admit" /\ staged' = tree[p].of
      BY <1>14, <2>5 DEF Stage, p
    <3>2. NoneShared => Alike(T, tree', seen \ {p}, runs) /\ Chosen(T)'
      BY <1>8, <2>1, <2>3, <2>5, <3>1 DEF Chosen, p
    <3>3. RealRun(T, s, o, w, X, k)'
      BY <2>1, <3>1, <3>2, RealVisitGoesOn DEF p
    <3> QED BY <2>1, <3>1, <3>3
  <2> QED BY <2>4, <2>5
<1>15. CASE Admit
  <2>1. /\ pc = "admit" /\ Busy /\ dry' = dry /\ late' = late
        /\ UNCHANGED <<tree, queue, seen, at, staged, written, bytes, told, runs, spent, opened>>
    BY <1>15 DEF Admit, Hold, Busy
  <2>2. ~User
    BY <1>15, <2>1 DEF Admit, Hold, User, UserActs, PutsArchive, RemovesArchive, MakesDirectory, RemovesExtraction
  <2> DEFINE Admits == MayReplace(Target, Last(at.path).name) /\ Preflight.accepted /\ SessionAdmits
  <2>3. NoneShared => (Admits <=> MayEnter(T, p, spent, opened))
    <3> SUFFICES ASSUME NoneShared PROVE Admits <=> MayEnter(T, p, spent, opened)
      OBVIOUS
    <3>1. \A r \in seen \ {p} : ExtractDirFor(r) # ExtractDirFor(p)
      BY <1>4, <2>1 DEF NoneShared
    <3>2. \A q \in DOMAIN tree : OldPath(q, runs)
      <4>1. FreshTree(tree, runs, {})
        BY <2>1 DEF FreshInv, Now, Held, Placed, Aside
      <4> QED BY <4>1 DEF FreshTree
    <3>3. HasPaths(tree) /\ seen \ {p} \subseteq FindArchives(T) /\ p \in FindArchives(T)
          /\ Alike(T, tree, seen \ {p}, runs)
      BY <1>3, <1>4, <1>8, <2>1 DEF RunInv, TypedTree
    <3>4. FreeFor(tree, p) <=> FreeFor(T, p)
      BY <1>1, <3>1, <3>2, <3>3, FreeAsBefore
    <3>5. Chosen(T)
      BY <1>8, <2>1
    <3> QED BY <1>4, <2>1, <3>4, <3>5, FreeAtHand, AdmitsWhatMayEnter DEF Chosen, p
  <2>4. pc' = IF Admits THEN "prepare" ELSE "take"
    BY <1>15 DEF Admit, Hold
  <2>5. CASE pc' = "take"
    <3>1. NoneShared => k \notin X
      BY <1>5, <1>8, <2>1, <2>3, <2>4, <2>5
    <3> QED BY <1>10, <2>1, <2>2, <2>5, <3>1 DEF p
  <2>6. CASE pc' = "prepare"
    <3>1. NoneShared => Chosen(T) /\ MayEnter(T, p, spent, opened)
      BY <1>8, <2>1, <2>3, <2>4, <2>6
    <3>2. written = 0 /\ bytes = 0
      BY <2>1 DEF RunInv, BudgetInv
    <3>3. NoneShared => OnBill(T, w, X, k)'
      <4> SUFFICES ASSUME NoneShared PROVE OnBill(T, w, X, k)'
        OBVIOUS
      <4>1. spent = s[k - 1] /\ opened = o[k - 1]
        BY <1>8, <2>1
      <4>2. CASE k \in X
        <5>1. Measured(T, p, spent, w[k], Len(members))
          BY <1>5, <2>1, <4>1, <4>2
        <5>2. w[k][0] = 0
          BY <5>1 DEF Measured
        <5> QED BY <2>1, <2>6, <3>2, <4>2, <5>1, <5>2 DEF OnBill, members, p
      <4>3. CASE k \notin X
        <5>1. StopsShort(T, p, spent, w[k])
          BY <1>6, <2>1, <3>1, <4>1, <4>3
        <5>2. PICK n \in Nat : n < Len(members) /\ Measured(T, p, spent, w[k], n)
                               /\ ~Fits(members[n + 1], spent, w[k][n])
          BY <5>1 DEF StopsShort, members
        <5>3. w[k][0] = 0 /\ 0 <= n
          BY <5>2 DEF Measured
        <5> QED BY <2>1, <2>6, <3>2, <4>3, <5>2, <5>3 DEF OnBill, members, p
      <4> QED BY <4>2, <4>3
    <3> QED BY <1>11, <2>1, <2>2, <2>6, <3>1, <3>3 DEF p
  <2> QED BY <2>4, <2>5, <2>6
<1>16. CASE Prepare
  <2>1. /\ pc = "prepare" /\ Busy /\ dry' = dry /\ late' = late
        /\ UNCHANGED <<queue, seen, at, staged, written, told, runs, spent, opened>>
    BY <1>16 DEF Prepare, HoldCandidate, Throw, Cleaned, Busy
  <2>2. ~User
    BY <1>16, <2>1 DEF Prepare, HoldCandidate, Throw, User, UserActs, PutsArchive, RemovesArchive,
                       MakesDirectory, RemovesExtraction
  <2>3. \/ pc' = "take" /\ ~SessionAdmits
        \/ pc' = "write" /\ bytes' = bytes
    BY <1>16 DEF Prepare, HoldCandidate, Throw
  <2>4. NoneShared => SessionAdmits
    <3> SUFFICES ASSUME NoneShared PROVE SessionAdmits
      OBVIOUS
    <3>1. MayEnter(T, p, spent, opened) /\ Chosen(T)
      BY <1>8, <2>1
    <3>2. Preflight = Offer(T, p)
      BY <1>4, <2>1, <3>1, OfferAtHand DEF Chosen, p
    <3> QED BY <3>1, <3>2 DEF MayEnter, SessionAdmits
  <2>5. CASE pc' = "take" /\ ~SessionAdmits
    BY <1>10, <2>1, <2>2, <2>4, <2>5 DEF p
  <2>6. CASE pc' = "write" /\ bytes' = bytes
    <3>1. OnBill(T, w, X, k) => OnBill(T, w, X, k)'
      BY <1>12, <2>1, <2>6
    <3> QED BY <1>8, <1>11, <2>1, <2>2, <2>6, <3>1 DEF p
  <2> QED BY <2>3, <2>5, <2>6
<1>17. CASE Write
  <2> DEFINE e == Members[written + 1]
  <2>1. /\ pc = "write" /\ Busy /\ written < Len(Members) /\ dry' = dry /\ late' = late
        /\ UNCHANGED <<queue, seen, at, staged, told, runs, spent, opened>>
    BY <1>17 DEF Write, HoldCandidate, Busy
  <2>2. ~User
    BY <1>17, <2>1 DEF Write, HoldCandidate, User, UserActs, PutsArchive, RemovesArchive,
                       MakesDirectory, RemovesExtraction
  <2>3. \/ pc' = "take" /\ ~Streams(e, bytes)
        \/ pc' = "write" /\ Streams(e, bytes) /\ written' = written + 1 /\ bytes' = bytes + e.yields
    BY <1>17 DEF Write, HoldCandidate
  <2>4. written \in Nat /\ Len(Members) \in Nat
    BY <2>1, MembersKnown DEF RunInv, Placed, Admitted
  <2>5. NoneShared => Members = members /\ Chosen(T) /\ MayEnter(T, p, spent, opened) /\ OnBill(T, w, X, k)
    <3>1. NoneShared => Chosen(T) /\ MayEnter(T, p, spent, opened) /\ OnBill(T, w, X, k)
      BY <1>8, <2>1
    <3> QED BY <1>4, <2>1, <3>1, OfferAtHand DEF Chosen, members, p
  <2>6. Streams(e, bytes) <=> Fits(e, spent, bytes)
    BY SameStreams
  <2> HIDE DEF e
  \* On the bill, every member streams; off it, those before one that does not.
  <2>7. ASSUME NoneShared, k \in X
        PROVE  Streams(e, bytes) /\ Measured(T, p, spent, w[k], Len(members))
               /\ w[k][written + 1] = bytes + e.yields
    <3>1. Measured(T, p, spent, w[k], Len(members)) /\ bytes = w[k][written]
      BY <2>1, <2>5, <2>7 DEF OnBill, members, p
    <3>2. written + 1 \in 1 .. Len(members) /\ (written + 1) - 1 = written
      BY <2>1, <2>4, <2>5, <2>7
    <3>3. \A j \in 1 .. Len(members) :
            Fits(members[j], spent, w[k][j - 1]) /\ w[k][j] = w[k][j - 1] + members[j].yields
      BY <3>1 DEF Measured, members
    <3>4. Fits(members[written + 1], spent, w[k][written])
          /\ w[k][written + 1] = w[k][written] + members[written + 1].yields
      BY <3>2, <3>3
    <3> QED BY <2>5, <2>6, <2>7, <3>1, <3>4 DEF e
  <2>8. ASSUME NoneShared, k \notin X, Streams(e, bytes)
        PROVE  \E n \in Nat : /\ n < Len(members) /\ Measured(T, p, spent, w[k], n)
                              /\ ~Fits(members[n + 1], spent, w[k][n])
                              /\ written + 1 <= n /\ w[k][written + 1] = bytes + e.yields
    <3>1. PICK n \in Nat : /\ n < Len(members) /\ Measured(T, p, spent, w[k], n)
                           /\ ~Fits(members[n + 1], spent, w[k][n])
                           /\ written <= n /\ bytes = w[k][written]
      BY <2>1, <2>5, <2>8 DEF OnBill, members, p
    <3>2. written # n
      BY <2>5, <2>6, <2>8, <3>1 DEF e
    <3>3. written + 1 \in 1 .. n /\ (written + 1) - 1 = written
      BY <2>4, <3>1, <3>2
    <3>4. \A j \in 1 .. n : w[k][j] = w[k][j - 1] + members[j].yields
      BY <3>1 DEF Measured, members
    <3>5. w[k][written + 1] = w[k][written] + members[written + 1].yields
      BY <3>3, <3>4
    <3>6. w[k][written + 1] = bytes + e.yields
      BY <2>5, <2>8, <3>1, <3>5 DEF e
    <3> QED BY <3>1, <3>3, <3>6
  <2>9. CASE pc' = "take" /\ ~Streams(e, bytes)
    BY <1>10, <2>1, <2>2, <2>7, <2>9 DEF p
  <2>10. CASE pc' = "write" /\ Streams(e, bytes) /\ written' = written + 1 /\ bytes' = bytes + e.yields
    <3>1. NoneShared => OnBill(T, w, X, k)'
      <4> SUFFICES ASSUME NoneShared PROVE OnBill(T, w, X, k)'
        OBVIOUS
      <4>1. CASE k \in X
        BY <2>1, <2>7, <2>10, <4>1 DEF OnBill, members, p
      <4>2. CASE k \notin X
        <5>1. PICK n \in Nat : /\ n < Len(members) /\ Measured(T, p, spent, w[k], n)
                               /\ ~Fits(members[n + 1], spent, w[k][n])
                               /\ written + 1 <= n /\ w[k][written + 1] = bytes + e.yields
          BY <2>8, <2>10, <4>2
        <5> QED BY <2>1, <2>10, <4>2, <5>1 DEF OnBill, members, p
      <4> QED BY <4>1, <4>2
    <3> QED BY <1>11, <2>1, <2>2, <2>5, <2>10, <3>1 DEF p
  <2> QED BY <2>3, <2>9, <2>10
<1>18. CASE Mark
  <2>1. /\ pc = "write" /\ Busy /\ written = Len(Members) /\ dry' = dry /\ late' = late /\ pc' = "check"
        /\ UNCHANGED <<queue, seen, at, staged, told, runs, spent, opened, written, bytes, edits>>
    BY <1>18 DEF Mark, Busy
  <2>2. ~User
    BY <2>1 DEF User, UserActs, PutsArchive, RemovesArchive, MakesDirectory, RemovesExtraction
  <2>3. NoneShared => Members = members /\ Chosen(T) /\ MayEnter(T, p, spent, opened) /\ OnBill(T, w, X, k)
    <3>1. NoneShared => Chosen(T) /\ MayEnter(T, p, spent, opened) /\ OnBill(T, w, X, k)
      BY <1>8, <2>1
    <3> QED BY <1>4, <2>1, <3>1, OfferAtHand DEF Chosen, members, p
  <2>4. Len(Members) \in Nat
    BY <2>1, MembersKnown DEF RunInv, Placed, Admitted
  <2>5. NoneShared => OnBill(T, w, X, k)'
    <3> SUFFICES ASSUME NoneShared PROVE OnBill(T, w, X, k)'
      OBVIOUS
    <3>1. k \in X
      BY <2>1, <2>3, <2>4 DEF OnBill, members, p
    <3> QED BY <2>1, <2>3, <3>1 DEF OnBill, members, p
  <2> QED BY <1>11, <2>1, <2>2, <2>3, <2>5 DEF p
<1>19. CASE Check \/ MoveOut \/ MoveIn \/ DropBackup
  <2>1. /\ pc \in {"check", "out", "in", "drop"} /\ Busy /\ pc' \in {"out", "in", "drop", "record"}
        /\ dry' = dry /\ late' = late
        /\ UNCHANGED <<queue, seen, at, staged, told, runs, spent, opened, written, bytes, edits>>
    BY <1>19 DEF Check, MoveOut, MoveIn, DropBackup, Throw, Busy
  <2>2. ~User
    BY <2>1 DEF User, UserActs, PutsArchive, RemovesArchive, MakesDirectory, RemovesExtraction
  <2>3. OnBill(T, w, X, k) => OnBill(T, w, X, k)'
    BY <1>12, <2>1
  <2> QED BY <1>8, <1>11, <2>1, <2>2, <2>3 DEF p
<1>20. CASE Extracted
  <2>1. /\ pc = "record" /\ Busy /\ pc' = "take" /\ dry' = dry /\ late' = late
        /\ spent' = spent + bytes /\ opened' = opened + 1 /\ queue' = queue \o EnqueueNestedZips(Target, at.depth)
        /\ UNCHANGED <<tree, seen, at, told, runs, edits>>
    BY <1>20 DEF Extracted, Record, Busy
  <2>2. ~User
    BY <2>1 DEF User, UserActs, PutsArchive, RemovesArchive, MakesDirectory, RemovesExtraction
  <2>3. NoneShared => Alike(T, tree', seen, runs) /\ spent' = s[k] /\ opened' = o[k]
    <3> SUFFICES ASSUME NoneShared PROVE spent' = s[k] /\ opened' = o[k]
      BY <1>9, <2>1, <2>2
    <3>1. spent = s[k - 1] /\ opened = o[k - 1] /\ OnBill(T, w, X, k)
      BY <1>8, <2>1
    <3>2. k \in X /\ bytes = w[k][Len(members)]
      BY <2>1, <3>1 DEF OnBill, members, p
    <3> QED BY <1>5, <2>1, <3>1, <3>2
  <2>4. \E N : queue' = queue \o N /\ \E S : queue \in Seq(S) /\ N \in Seq(S)
    <3>1. PICK S : queue \in Seq(S)
      BY <2>1 DEF RunInv
    <3>2. \E R : EnqueueNestedZips(Target, at.depth) \in Seq(R)
      <4>1. CASE at.depth >= Policy.depth
        <5>1. EnqueueNestedZips(Target, at.depth) = <<>> /\ <<>> \in Seq({})
          BY <4>1 DEF EnqueueNestedZips
        <5> QED BY <5>1
      <4>2. CASE ~(at.depth >= Policy.depth)
        <5> DEFINE paths == {q \in Inside(tree, Target) : IsZip(tree, q)}
        <5>1. at.depth + 1 \in 0 .. Policy.depth
          BY <2>1, <4>2, PolicyDepth DEF RunInv, IsVisit
        <5>2. paths \in SUBSET DOMAIN tree /\ \A q \in paths : IsZip(tree, q)
          BY DEF Inside
        <5> HIDE DEF paths
        <5>3. \E R : Queued(paths, at.depth + 1) \in Seq(R)
          BY <5>1, <5>2, QueuedVisits DEF RunInv
        <5> QED BY <4>2, <5>3 DEF EnqueueNestedZips, paths
      <4> QED BY <4>1, <4>2
    <3>3. PICK R : EnqueueNestedZips(Target, at.depth) \in Seq(R)
      BY <3>2
    <3>4. queue \in Seq(S \cup R) /\ EnqueueNestedZips(Target, at.depth) \in Seq(S \cup R)
      BY <3>1, <3>3, WiderSequences
    <3> QED BY <2>1, <3>4
  <2>5. RealRun(T, s, o, w, X, k)'
    BY <2>1, <2>3, <2>4, RealVisitEnds
  <2> QED BY <2>1, <2>5
<1>21. CASE UNCHANGED expansionVars
  <2>1. UNCHANGED <<pc, dry, late, tree, queue, seen, at, staged, written, bytes, spent, opened, told, runs>>
    BY <1>21 DEF expansionVars
  <2>2. Busy' = Busy /\ (NoneShared' <=> NoneShared) /\ (Chosen(T)' <=> Chosen(T))
    BY <2>1 DEF Busy, NoneShared, Chosen
  <2>3. Following(T, k)' /\ Dealt(k)' = Dealt(k)
    BY <1>1, <2>1, <2>2 DEF Following, Dealt
  <2>4. MayEnter(T, at.path, spent, opened) => MayEnter(T, at.path, spent, opened)'
    BY <2>1 DEF MayEnter, FreeFor, Stands, Inside, Owned, Offer, ExtractDirFor
  <2>5. OnBill(T, w, X, k) => OnBill(T, w, X, k)'
    BY <2>1 DEF OnBill
  <2>6. NoneShared' => InStep(T, s, o, w, X, k)'
    BY <1>1, <2>1, <2>2, <2>3, <2>4, <2>5 DEF InStep
  <2>7. RealRun(T, s, o, w, X, k)'
    BY <1>1, <2>1, <2>3, <2>6 DEF RealRun
  <2> QED BY <1>1, <2>1, <2>7 DEF Busy
<1>22. CASE \/ (\E observe \in BOOLEAN : Start(observe)) \/ Finish \/ Verify
            \/ Vanished \/ Restore \/ CallFails \/ Crash \/ TimeRunsOut \/ User
  <2>1. CASE (\E observe \in BOOLEAN : Start(observe)) \/ Finish \/ Verify
    BY <1>1, <2>1 DEF Start, Finish, Verify
  <2>2. CASE Vanished \/ Restore \/ CallFails \/ Crash \/ TimeRunsOut \/ User
    BY <2>2 DEF Vanished, Restore, CallFails, Crash, TimeRunsOut, User, Throw, UserActs,
                PutsArchive, RemovesArchive, MakesDirectory, RemovesExtraction
  <2> QED BY <1>22, <2>1, <2>2
<1> QED BY <1>13, <1>14, <1>15, <1>16, <1>17, <1>18, <1>19, <1>20, <1>21, <1>22
        DEF ExpansionNext, Step, p

LEMMA BeyondStays ==
    ASSUME Beyond, [ExpansionNext]_expansionVars, quiet', ~dry, ~late, pc # "idle"
    PROVE  Beyond' /\ ~dry' /\ ~late' /\ pc' # "idle"
<1> USE DEF Goto, visit, source, oracle, bounds, budget
<1>1. CASE Take
  <2>1. pc = "take" /\ dry' = dry /\ late' = late /\ told' = told
    BY <1>1 DEF Take
  <2>2. CASE Head(queue).path \in seen
    BY <1>1, <2>1, <2>2 DEF Take, Beyond, Busy
  <2>3. CASE Head(queue).path \notin seen
    <3>1. seen' = seen \cup {Head(queue).path} /\ at' = Head(queue) /\ pc' = "stage"
      BY <1>1, <2>3 DEF Take
    <3> QED BY <2>1, <2>3, <3>1 DEF Beyond
  <2> QED BY <2>2, <2>3
<1>2. CASE \/ Stage \/ Admit \/ Prepare \/ Write \/ Mark \/ Check \/ MoveOut \/ MoveIn \/ DropBackup
           \/ Extracted
  <2>1. Busy /\ UNCHANGED <<dry, late, seen, told>> /\ at' = at /\ pc' \notin {"idle", "verify"}
    <3>1. CASE Stage \/ Admit
      BY <3>1 DEF Stage, Admit, Hold, Busy
    <3>2. CASE Prepare
      BY <3>2 DEF Prepare, HoldCandidate, Throw, Busy
    <3>3. CASE Write \/ Mark
      BY <3>3 DEF Write, Mark, HoldCandidate, Busy
    <3>4. CASE Check \/ MoveOut \/ MoveIn \/ DropBackup \/ Extracted
      BY <3>4 DEF Check, MoveOut, MoveIn, DropBackup, Extracted, Record, Throw, Busy
    <3> QED BY <1>2, <3>1, <3>2, <3>3, <3>4
  <2> QED BY <2>1 DEF Beyond
<1>3. CASE (\E observe \in BOOLEAN : Start(observe)) \/ Finish \/ Verify
  BY <1>3 DEF Start, Finish, Verify, Beyond
<1>4. CASE Vanished \/ Restore \/ CallFails \/ Crash \/ TimeRunsOut \/ User
  BY <1>4 DEF Vanished, Restore, CallFails, Crash, TimeRunsOut, User, Throw, UserActs,
              PutsArchive, RemovesArchive, MakesDirectory, RemovesExtraction
<1>5. CASE UNCHANGED expansionVars
  BY <1>5 DEF expansionVars, Beyond, Busy
<1> QED BY <1>1, <1>2, <1>3, <1>4, <1>5 DEF ExpansionNext, Step

LEMMA ForetellSteps ==
    RunInv /\ FreshInv /\ BudgetInv /\ ForetellInv /\ [ExpansionNext]_expansionVars => ForetellInv'
<1> SUFFICES ASSUME RunInv, FreshInv, BudgetInv, ForetellInv, [ExpansionNext]_expansionVars, quiet'
             PROVE  ForetellInv'
  BY DEF ForetellInv
<1> DEFINE Observes == Start(TRUE)
           Starts == \E observe \in BOOLEAN : Start(observe)
<1>1. ASSUME Observes PROVE ForetellInv'
  <2>1. DryRun(0)' /\ dry' /\ ~late'
    BY <1>1, DryBegins
  <2> QED BY <2>1 DEF ForetellInv
<1>2. ASSUME quiet, dry, pc # "idle" PROVE ForetellInv'
  <2>1. PICK k : DryRun(k)
    BY <1>2 DEF ForetellInv
  <2>2. ~late
    BY <1>2 DEF ForetellInv
  <2>3. dry' /\ ~late' /\ \E j : DryRun(j)'
    BY <1>2, <2>1, <2>2, DryGoesOn
  <2> QED BY <2>3 DEF ForetellInv
<1>3. ASSUME quiet, dry, pc = "idle" PROVE ForetellInv'
  <2>1. PICK k : DryRun(k)
    BY <1>3 DEF ForetellInv
  <2> DEFINE Repairs == Start(FALSE)
  <2>2. CASE Repairs
    <3>1. ~dry' /\ ~late' /\ \E T, s, o, w, X, j : RealRun(T, s, o, w, X, j)'
      BY <1>3, <2>1, <2>2, RealBegins
    <3>2. pc' # "idle"
      BY <2>2 DEF Start, Goto
    <3> QED BY <3>1, <3>2 DEF ForetellInv
  <2>3. CASE UNCHANGED expansionVars
    <3>1. DryRun(k)'
      BY <2>1, <2>3, DryStays
    <3>2. dry' /\ pc' = "idle"
      BY <1>3, <2>3 DEF expansionVars
    <3> QED BY <3>1, <3>2 DEF ForetellInv
  <2>4. Observes \/ Repairs \/ UNCHANGED expansionVars
    <3>1. CASE Starts
      BY <3>1
    <3> HIDE DEF Observes, Repairs, Starts
    <3>2. ~User
      BY DEF User, UserActs, PutsArchive, RemovesArchive, MakesDirectory, RemovesExtraction
    <3>3. ~(\/ Finish \/ Take \/ Stage \/ Admit \/ Verify \/ Prepare \/ Write \/ Mark \/ Check
            \/ MoveOut \/ MoveIn \/ DropBackup \/ Extracted)
      BY <1>3 DEF Finish, Take, Stage, Admit, Verify, Prepare, Write, Mark, Check, MoveOut, MoveIn,
                  DropBackup, Extracted
    <3>4. ~(Vanished \/ Restore \/ CallFails \/ Crash \/ TimeRunsOut)
      BY <1>3 DEF Vanished, Restore, CallFails, Crash, TimeRunsOut
    <3>5. Starts \/ Step \/ CallFails \/ Crash \/ TimeRunsOut \/ User \/ UNCHANGED expansionVars
      BY DEF ExpansionNext
    <3>6. Step => \/ Starts \/ Finish \/ Take \/ Stage \/ Admit \/ Verify \/ Prepare \/ Write \/ Mark
                  \/ Check \/ MoveOut \/ MoveIn \/ DropBackup \/ Extracted \/ Vanished \/ Restore
      BY DEF Step, Starts
    <3> QED BY <3>1, <3>2, <3>3, <3>4, <3>5, <3>6
  <2> HIDE DEF Observes, Repairs
  <2> QED BY <1>1, <2>2, <2>3, <2>4
<1>4. ASSUME quiet, ~dry PROVE ForetellInv'
  <2>1. pc # "idle" /\ ~late /\ (Beyond \/ \E T, s, o, w, X, k : RealRun(T, s, o, w, X, k))
    BY <1>4 DEF ForetellInv
  <2>2. CASE Beyond
    <3>1. Beyond' /\ ~dry' /\ ~late' /\ pc' # "idle"
      BY <1>4, <2>1, <2>2, BeyondStays
    <3> QED BY <3>1 DEF ForetellInv
  <2>3. ASSUME NEW T, NEW s, NEW o, NEW w, NEW X, NEW k, RealRun(T, s, o, w, X, k)
        PROVE  ForetellInv'
    <3>1. /\ ~dry' /\ ~late' /\ pc' # "idle"
          /\ Beyond' \/ RealRun(T, s, o, w, X, k)' \/ RealRun(T, s, o, w, X, k + 1)'
      BY <1>4, <2>1, <2>3, RealGoesOn
    <3> QED BY <3>1 DEF ForetellInv
  <2> QED BY <2>1, <2>2, <2>3
<1>5. ~quiet => Observes
  <2>1. CASE Starts
    BY <2>1 DEF Start, oracle
  <2> HIDE DEF Observes, Starts
  <2>2. CASE UNCHANGED expansionVars
    BY <2>2 DEF expansionVars, oracle
  <2>3. CASE Finish \/ Take \/ Stage \/ Admit \/ Verify \/ Prepare \/ Write \/ Mark
    BY <2>3 DEF Finish, Take, Stage, Admit, Verify, Hold, Foretell, Prepare, Write, Mark, HoldCandidate,
                Throw, oracle, budget
  <2>4. CASE Check \/ MoveOut \/ MoveIn \/ DropBackup \/ Extracted
    BY <2>4 DEF Check, MoveOut, MoveIn, DropBackup, Extracted, Throw, oracle, budget
  <2>5. CASE Vanished \/ Restore \/ CallFails \/ Crash \/ TimeRunsOut \/ User
    BY <2>5 DEF Vanished, Restore, CallFails, Crash, TimeRunsOut, User, Throw, UserActs,
                PutsArchive, RemovesArchive, MakesDirectory, RemovesExtraction
  <2>6. Step => \/ Starts \/ Finish \/ Take \/ Stage \/ Admit \/ Verify \/ Prepare \/ Write \/ Mark
                \/ Check \/ MoveOut \/ MoveIn \/ DropBackup \/ Extracted \/ Vanished \/ Restore
    BY DEF Step, Starts
  <2> QED BY <2>1, <2>2, <2>3, <2>4, <2>5, <2>6 DEF ExpansionNext
<1> HIDE DEF Observes
<1> QED BY <1>1, <1>2, <1>3, <1>4, <1>5

\* ADR-016: whatever archives there are and whatever limits the policy sets, a real run that
\* follows an undisturbed dry run expands every archive the dry run said it would, as long as no
\* two archives it has visited so far expand into one directory.
THEOREM DryRunsForetell == ExpansionSpec => DryRunForetells
<1> DEFINE Foretold ==
        \A p \in told :
          /\ quiet /\ ~dry /\ pc # "take" /\ pc' = "take" /\ at.path = p
          /\ \A q, r \in seen : ExtractDirFor(q) = ExtractDirFor(r) => q = r
          => pc = "record"
<1>1. ExpansionInit => BudgetInv /\ ForetellInv
  BY PolicyTypes DEF ExpansionInit, BudgetInv, Places, Writing, ForetellInv
<1>2. RunInv /\ FreshInv /\ BudgetInv /\ ForetellInv /\ [ExpansionNext]_expansionVars =>
        [Foretold]_expansionVars
  <2> SUFFICES ASSUME RunInv, FreshInv, BudgetInv, ForetellInv, [ExpansionNext]_expansionVars,
                      at.path \in told, quiet, ~dry, pc # "take", pc' = "take", NoneShared
               PROVE  pc = "record"
    BY DEF NoneShared
  <2>1. pc # "idle" /\ ~late /\ (Beyond \/ \E T, s, o, w, X, k : RealRun(T, s, o, w, X, k))
    BY DEF ForetellInv
  <2>2. Busy
    BY <2>1 DEF Busy
  <2>3. ~Beyond
    BY <2>2 DEF Beyond
  <2>4. quiet'
    <3> USE DEF Goto, visit, source, oracle, bounds, budget
    <3>1. CASE (\E observe \in BOOLEAN : Start(observe)) \/ Finish \/ Take
      BY <2>1, <3>1 DEF Start, Finish, Take
    <3>2. CASE Stage \/ Admit \/ Verify \/ Extracted
      BY <3>2 DEF Stage, Admit, Verify, Extracted, Hold, Foretell
    <3>3. CASE Prepare \/ Write
      BY <3>3 DEF Prepare, Write, HoldCandidate, Throw
    <3>4. CASE Mark \/ Check \/ MoveOut \/ MoveIn \/ DropBackup \/ Vanished \/ Restore \/ CallFails
               \/ Crash \/ TimeRunsOut
      BY <3>4 DEF Mark, Check, MoveOut, MoveIn, DropBackup, Throw, Vanished, Restore, CallFails, Crash,
                  TimeRunsOut
    <3>5. CASE User
      BY <3>5 DEF User, UserActs, PutsArchive, RemovesArchive, MakesDirectory, RemovesExtraction
    <3>6. CASE UNCHANGED expansionVars
      BY <3>6 DEF expansionVars
    <3> QED BY <3>1, <3>2, <3>3, <3>4, <3>5, <3>6 DEF ExpansionNext, Step
  <2>5. ASSUME NEW T, NEW s, NEW o, NEW w, NEW X, NEW k, RealRun(T, s, o, w, X, k)
        PROVE  pc = "record"
    BY <2>1, <2>2, <2>4, <2>5, RealGoesOn
  <2> QED BY <2>1, <2>3, <2>5
<1>3. ExpansionSpec => [][Foretold]_expansionVars
  <2> HIDE DEF Foretold
  <2> QED BY <1>1, <1>2, ExpansionStarts, SafeStarts, RunSteps, FreshSteps, BudgetSteps, ForetellSteps, PTL
          DEF ExpansionSpec
<1> QED BY <1>3 DEF DryRunForetells
=============================================================================
