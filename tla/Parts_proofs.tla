---------------------------- MODULE Parts_proofs ----------------------------
(***************************************************************************)
(* Proofs about four of the parts that share no state:                     *)
(*   - the two-level interpretation cache.  What an entry of the second    *)
(*     level is found under determines it: the key holds the questions and *)
(*     the answers, and a document has one interpretation that agrees with *)
(*     a root.  So a hit is right whoever put the entry, and whatever roots*)
(*     it was put for;                                                     *)
(*   - the inventory of an annotated tree.  A hash and the clock beside it *)
(*     were true together once, in every carrier and in the hands of the   *)
(*     run; what an undisturbed run leaves behind it is what a run of that *)
(*     time would write there again;                                       *)
(*   - the carriers in comments.  To the rules about how a file begins, it *)
(*     begins with its block as it did without: so the block is looked for *)
(*     where it was put, it is the first one found there, and a host reads *)
(*     the lines it read;                                                  *)
(*   - the front matter.  A patched header is its lines, moved: each stays,*)
(*     is set, or is an item of a list that is written anew.  So what is no*)
(*     managed value is walked over in the same order before and after, the*)
(*     new header reads as the old one did unless a list has become empty, *)
(*     and every line of it is what a second patch makes of it.            *)
(***************************************************************************)
EXTENDS InterpretationCache, InventoryAnnotation, CommentCarrier, FrontMatter,
        FiniteSetTheorems, WellFoundedInduction, TLAPS

-----------------------------------------------------------------------------
(* Least and greatest numbers                                              *)

LEMMA LeastNatural ==
    ASSUME NEW S \in SUBSET Nat, S # {}
    PROVE  \E n \in S : \A m \in S : n <= m
  <1>1. PICK n \in S : \A m \in S : ~(<<m, n>> \in OpToRel(<, Nat))
    BY NatLessThanWellFounded, WFMin
  <1>2. \A m \in S : ~(m < n)
    BY <1>1 DEF OpToRel
  <1> QED  BY <1>2

\* Max is the library's, the choice that FoldLeft makes.
LEMMA LargestExists ==
    ASSUME NEW n \in Nat, NEW s \in SUBSET (1 .. n), s # {}
    PROVE  Max(s) \in s
  <1> DEFINE below == {n - x : x \in s}
  <1>1. below \in SUBSET Nat /\ below # {}
    <2>1. \A x \in s : n - x \in Nat
      OBVIOUS
    <2>2. below \in SUBSET Nat
      BY <2>1
    <2>3. PICK x \in s : TRUE
      OBVIOUS
    <2>4. n - x \in below
      OBVIOUS
    <2> QED  BY <2>2, <2>4
  <1>2. PICK b \in below : \A c \in below : b <= c
    <2> HIDE DEF below
    <2> QED  BY <1>1, LeastNatural
  <1>3. PICK x \in s : b = n - x
    BY <1>2
  <1>4. ASSUME NEW y \in s
        PROVE  x >= y
    <2>1. n - y \in below /\ x \in 1 .. n /\ y \in 1 .. n
      OBVIOUS
    <2>2. n - x <= n - y
      <3> HIDE DEF below
      <3> QED  BY <1>2, <1>3, <2>1
    <2> QED  BY <2>1, <2>2
  <1> QED  BY <1>3, <1>4 DEF Max

-----------------------------------------------------------------------------
(* The interpretation cache                                                *)

KeysInUse == Documents \X Seq(RootPaths \X Answers)
Jobs == [phase : {"interpret", "bound", "put"}, root : Roots, doc : Documents,
         key : KeysInUse \cup {NoEntry}]

\* The questions stored in level one lead to a key, and nothing else.
LevelOneOK ==
    /\ levelOne = [d \in Documents |-> levelOne[d]]
    /\ \A d \in Documents :
          \/ levelOne[d] = NoEntry
          \/ levelOne[d] = Portable(<<>>) /\ <<>> \in Transcripts[d]
          \/ \E t \in Transcripts[d] : t # <<>> /\ levelOne[d] = Index(t)

\* An entry of level two stands under its own questions and answers.
LevelTwoOK ==
    \A e \in levelTwo : \E d \in Documents : \E t \in Transcripts[d] : e = <<<<d, t>>, t>>

\* A worker looks under answers that hold in its root, and puts what holds there.
JobOK(w) ==
    /\ job[w].phase = "bound" =>
          \E s \in Seq(RootPaths \X Answers) :
              job[w].key = <<job[w].doc, s>> /\ Consistent(s, observed[job[w].root])
    /\ job[w].phase = "put" =>
          job[w].key = <<job[w].doc,
                         InterpretDocumentContent(job[w].doc, observed[job[w].root])>>

CacheInv ==
    /\ observed \in [Roots -> SUBSET RootPaths]
    /\ job \in [Workers -> Jobs \cup {NoEntry}]
    /\ LevelOneOK /\ LevelTwoOK
    /\ \A w \in Workers : job[w] # NoEntry => job[w] \in Jobs /\ JobOK(w)
    /\ InterpretationsAreCurrent

-----------------------------------------------------------------------------
\* A document has exactly one interpretation that agrees with a root.
LEMMA InterpretationIsUnique ==
    ASSUME NEW d \in Documents, NEW paths \in SUBSET RootPaths
    PROVE  /\ InterpretDocumentContent(d, paths) \in Transcripts[d]
           /\ Consistent(InterpretDocumentContent(d, paths), paths)
           /\ \A t \in Transcripts[d] :
                 Consistent(t, paths) => t = InterpretDocumentContent(d, paths)
  <1>1. PICK s \in Transcripts[d] :
            Consistent(s, paths) /\ \A t \in Transcripts[d] : Consistent(t, paths) => t = s
    BY TranscriptAssumption
  <1>2. InterpretDocumentContent(d, paths) = s
    BY <1>1, Zenon DEF InterpretDocumentContent
  <1> QED  BY <1>1, <1>2

\* A key holds the answers of the root it is made for.
LEMMA KeyAnswersForItsRoot ==
    ASSUME NEW d \in Documents, NEW paths \in SUBSET RootPaths, NEW t \in Transcripts[d]
    PROVE  \E s \in Seq(RootPaths \X Answers) :
              /\ RootBoundInterpretationKey(d, Index(t).probes, paths) = <<d, s>>
              /\ Consistent(s, paths)
              /\ Consistent(t, paths) => s = t
  <1>1. t \in Seq(RootPaths \X Answers)
    BY TranscriptAssumption
  <1> DEFINE probes == [i \in DOMAIN t |-> t[i][1]]
             s == [i \in DOMAIN probes |-> <<probes[i], AnswerTo(probes[i], paths)>>]
  <1>2. Index(t).probes = probes
    BY DEF Index
  <1>3. s \in Seq(RootPaths \X Answers)
    <2>1. DOMAIN probes = 1 .. Len(t) /\ Len(t) \in Nat
      BY <1>1
    <2>2. \A i \in 1 .. Len(t) : probes[i] \in RootPaths
      BY <1>1
    <2>3. s = [i \in 1 .. Len(t) |-> <<probes[i], AnswerTo(probes[i], paths)>>]
      BY <2>1, Zenon
    <2>4. \A i \in 1 .. Len(t) : <<probes[i], AnswerTo(probes[i], paths)>> \in RootPaths \X Answers
      BY <2>2 DEF AnswerTo, Answers
    <2> HIDE DEF probes
    <2> QED  BY <2>1, <2>3, <2>4
  <1>4. Consistent(s, paths)
    BY Zenon DEF Consistent
  <1>5. ASSUME Consistent(t, paths)
        PROVE  s = t
    <2>1. t = [i \in DOMAIN t |-> t[i]] /\ DOMAIN t = DOMAIN probes
      BY <1>1
    <2>2. ASSUME NEW i \in DOMAIN t
          PROVE  t[i] = <<probes[i], AnswerTo(probes[i], paths)>>
      <3>1. t[i] \in RootPaths \X Answers
        BY <1>1
      <3>2. t[i] = <<t[i][1], t[i][2]>>
        BY <3>1
      <3>3. t[i][2] = AnswerTo(t[i][1], paths)
        BY <1>5 DEF Consistent
      <3> QED  BY <3>2, <3>3, Zenon
    <2> QED  BY <2>1, <2>2, Zenon
  <1> HIDE DEF s, probes
  <1> QED  BY <1>2, <1>3, <1>4, <1>5, Zenon DEF RootBoundInterpretationKey, s

-----------------------------------------------------------------------------
LEMMA CacheInitOK ==
    KeyInit => CacheInv
  BY DEF KeyInit, CacheInv, LevelOneOK, LevelTwoOK, JobOK, InterpretationsAreCurrent

\* Whatever the step, an invariant of every worker but one and of that one is
\* one of all.
LEMMA OneJobChanges ==
    ASSUME job \in [Workers -> Jobs \cup {NoEntry}], NEW w \in Workers, NEW j,
           job' = [job EXCEPT ![w] = j], j \in Jobs \cup {NoEntry}
    PROVE  /\ job' \in [Workers -> Jobs \cup {NoEntry}]
           /\ job'[w] = j
           /\ \A v \in Workers : v # w => job'[v] = job[v]
  OBVIOUS

LEMMA CacheStepOK ==
    CacheInv /\ [KeyNext]_cacheVars => CacheInv'
  <1> SUFFICES ASSUME CacheInv, [KeyNext]_cacheVars
               PROVE  CacheInv'
    OBVIOUS
  <1> USE DEF CacheInv
  <1>0. \A r \in Roots : observed[r] \in SUBSET RootPaths
    OBVIOUS
  <1>1. CASE Acquire
    BY <1>1 DEF Acquire, LevelOneOK, LevelTwoOK, JobOK, InterpretationsAreCurrent
  <1>2. CASE Loses
    <2>1. observed' = observed /\ interpreted' = interpreted
      BY <1>2 DEF Loses
    <2>2. InterpretationsAreCurrent'
      BY <2>1 DEF InterpretationsAreCurrent
    <2>3. CASE (\E d \in Documents : levelOne' = [levelOne EXCEPT ![d] = NoEntry])
               /\ UNCHANGED <<levelTwo, job>>
      <3>1. LevelOneOK'
        BY <2>3 DEF LevelOneOK
      <3> QED  BY <2>1, <2>2, <2>3, <3>1 DEF LevelTwoOK, JobOK
    <2>4. CASE (\E e \in levelTwo : levelTwo' = levelTwo \ {e}) /\ UNCHANGED <<levelOne, job>>
      BY <2>1, <2>2, <2>4 DEF LevelOneOK, LevelTwoOK, JobOK
    <2>5. CASE (\E w \in Workers : job[w] # NoEntry /\ job' = [job EXCEPT ![w] = NoEntry])
               /\ UNCHANGED <<levelOne, levelTwo>>
      <3>1. PICK w \in Workers : job' = [job EXCEPT ![w] = NoEntry]
        BY <2>5
      <3>2. /\ job' \in [Workers -> Jobs \cup {NoEntry}]
            /\ job'[w] = NoEntry /\ \A v \in Workers : v # w => job'[v] = job[v]
        BY <3>1, OneJobChanges
      <3>3. \A v \in Workers : job'[v] # NoEntry => job'[v] \in Jobs /\ JobOK(v)'
        BY <2>1, <3>2 DEF JobOK
      <3> QED  BY <2>1, <2>2, <2>5, <3>2, <3>3 DEF LevelOneOK, LevelTwoOK
    <2> QED  BY <1>2, <2>3, <2>4, <2>5 DEF Loses
  <1>3. ASSUME NEW w \in Workers, NEW root \in Roots, NEW d \in Documents, LookUp(w, root, d)
        PROVE  CacheInv'
    <2>1. UNCHANGED <<observed, levelOne, levelTwo>>
      BY <1>3 DEF LookUp
    <2>2. LevelOneOK' /\ LevelTwoOK'
      BY <2>1 DEF LevelOneOK, LevelTwoOK
    <2>3. CASE levelOne[d] = NoEntry
      <3> DEFINE j == [phase |-> "interpret", root |-> root, doc |-> d, key |-> NoEntry]
      <3>1. job' = [job EXCEPT ![w] = j] /\ interpreted' = interpreted /\ j \in Jobs
        BY <1>3, <2>3 DEF LookUp, Sets, Jobs
      <3>2. /\ job' \in [Workers -> Jobs \cup {NoEntry}]
            /\ job'[w] = j /\ \A v \in Workers : v # w => job'[v] = job[v]
        BY <3>1, OneJobChanges
      <3>3. \A v \in Workers : job'[v] # NoEntry => job'[v] \in Jobs /\ JobOK(v)'
        BY <2>1, <3>1, <3>2 DEF JobOK
      <3> QED  BY <2>1, <2>2, <3>1, <3>2, <3>3 DEF InterpretationsAreCurrent
    <2>4. CASE levelOne[d] # NoEntry /\ IsRootDependentIndex(levelOne[d])
      <3> DEFINE key == RootBoundInterpretationKey(d, levelOne[d].probes, observed[root])
                 j == [phase |-> "bound", root |-> root, doc |-> d, key |-> key]
      <3>1. job' = [job EXCEPT ![w] = j] /\ interpreted' = interpreted
        BY <1>3, <2>4 DEF LookUp, Sets
      <3>2. PICK t \in Transcripts[d] : levelOne[d] = Index(t)
        BY <2>4 DEF LevelOneOK, IsRootDependentIndex, Portable
      <3>3. PICK s \in Seq(RootPaths \X Answers) : key = <<d, s>> /\ Consistent(s, observed[root])
        BY <1>0, <3>2, KeyAnswersForItsRoot
      <3>4. j \in Jobs
        BY <3>3 DEF Jobs, KeysInUse
      <3>5. /\ job' \in [Workers -> Jobs \cup {NoEntry}]
            /\ job'[w] = j /\ \A v \in Workers : v # w => job'[v] = job[v]
        BY <3>1, <3>4, OneJobChanges
      <3> HIDE DEF key
      <3>6. \A v \in Workers : job'[v] # NoEntry => job'[v] \in Jobs /\ JobOK(v)'
        BY <2>1, <3>3, <3>4, <3>5 DEF JobOK
      <3> QED  BY <2>1, <2>2, <3>1, <3>5, <3>6 DEF InterpretationsAreCurrent
    <2>5. CASE levelOne[d] # NoEntry /\ ~IsRootDependentIndex(levelOne[d])
      <3>1. job' = job /\ interpreted' = interpreted \cup {<<root, d, levelOne[d].result>>}
        BY <1>3, <2>5 DEF LookUp, Reports
      <3>2. \A t \in Transcripts[d] : t # <<>> => Index(t).probes # <<>>
        <4> SUFFICES ASSUME NEW t \in Transcripts[d], t # <<>>
                     PROVE  Index(t).probes # <<>>
          OBVIOUS
        <4>1. t \in Seq(RootPaths \X Answers)
          BY TranscriptAssumption
        <4>2. Len(t) > 0 /\ DOMAIN t = 1 .. Len(t)
          BY <4>1
        <4>3. DOMAIN Index(t).probes = 1 .. Len(t)
          BY <4>2 DEF Index
        <4> QED  BY <4>2, <4>3
      <3>3. levelOne[d] = Portable(<<>>) /\ <<>> \in Transcripts[d]
        BY <2>5, <3>2 DEF LevelOneOK, IsRootDependentIndex
      <3>4. levelOne[d].result = InterpretDocumentContent(d, observed[root])
        BY <1>0, <3>3, InterpretationIsUnique DEF Portable, Consistent
      <3>5. InterpretationsAreCurrent'
        BY <2>1, <3>1, <3>4 DEF InterpretationsAreCurrent
      <3> QED  BY <2>1, <2>2, <3>1, <3>5 DEF JobOK
    <2> QED  BY <2>3, <2>4, <2>5
  <1>4. ASSUME NEW w \in Workers, LookUpBound(w)
        PROVE  CacheInv'
    <2>1. UNCHANGED <<observed, levelOne, levelTwo>>
      BY <1>4 DEF LookUpBound
    <2>2. LevelOneOK' /\ LevelTwoOK'
      BY <2>1 DEF LevelOneOK, LevelTwoOK
    <2> DEFINE root == job[w].root
               d    == job[w].doc
    <2>3. job[w] \in Jobs /\ job[w] # NoEntry /\ root \in Roots /\ d \in Documents
      BY <1>4 DEF LookUpBound, Jobs
    <2>4. PICK s : job[w].key = <<d, s>> /\ Consistent(s, observed[root])
      BY <1>4, <2>3 DEF LookUpBound, JobOK
    <2>5. CASE \E e \in levelTwo : e[1] = job[w].key
      <3>1. PICK e \in levelTwo : /\ e[1] = job[w].key
                                  /\ interpreted' = interpreted \cup {<<root, d, e[2]>>}
        BY <1>4, <2>5 DEF LookUpBound, Reports
      <3>0. PICK c \in Documents : \E t \in Transcripts[c] : e = <<<<c, t>>, t>>
        BY DEF LevelTwoOK
      <3>2. PICK t \in Transcripts[c] : e = <<<<c, t>>, t>>
        BY <3>0
      <3>3. c = d /\ t = s
        BY <2>4, <3>1, <3>2
      <3>4. e[2] = InterpretDocumentContent(d, observed[root])
        BY <1>0, <2>3, <2>4, <3>2, <3>3, InterpretationIsUnique
      <3>5. InterpretationsAreCurrent'
        BY <2>1, <3>1, <3>4 DEF InterpretationsAreCurrent
      <3>6. job' = [job EXCEPT ![w] = NoEntry]
        BY <1>4, <2>5 DEF LookUpBound
      <3>7. /\ job' \in [Workers -> Jobs \cup {NoEntry}]
            /\ job'[w] = NoEntry /\ \A v \in Workers : v # w => job'[v] = job[v]
        BY <3>6, OneJobChanges
      <3>8. \A v \in Workers : job'[v] # NoEntry => job'[v] \in Jobs /\ JobOK(v)'
        BY <2>1, <3>7 DEF JobOK
      <3> QED  BY <2>1, <2>2, <3>5, <3>7, <3>8
    <2>6. CASE ~\E e \in levelTwo : e[1] = job[w].key
      <3> DEFINE j == [phase |-> "interpret", root |-> root, doc |-> d, key |-> NoEntry]
      <3>1. job' = [job EXCEPT ![w] = j] /\ interpreted' = interpreted /\ j \in Jobs
        BY <1>4, <2>3, <2>6 DEF LookUpBound, Sets, Jobs
      <3>2. /\ job' \in [Workers -> Jobs \cup {NoEntry}]
            /\ job'[w] = j /\ \A v \in Workers : v # w => job'[v] = job[v]
        BY <3>1, OneJobChanges
      <3>3. \A v \in Workers : job'[v] # NoEntry => job'[v] \in Jobs /\ JobOK(v)'
        BY <2>1, <3>1, <3>2 DEF JobOK
      <3> QED  BY <2>1, <2>2, <3>1, <3>2, <3>3 DEF InterpretationsAreCurrent
    <2> QED  BY <2>5, <2>6
  <1>5. ASSUME NEW w \in Workers, InterpretAndPut(w)
        PROVE  CacheInv'
    <2> DEFINE root == job[w].root
               d    == job[w].doc
               t    == InterpretDocumentContent(d, observed[root])
    <2>1. UNCHANGED <<observed, levelTwo>>
      BY <1>5 DEF InterpretAndPut
    <2>2. job[w] \in Jobs /\ job[w] # NoEntry /\ root \in Roots /\ d \in Documents
      BY <1>5 DEF InterpretAndPut, Jobs
    <2>3. t \in Transcripts[d] /\ Consistent(t, observed[root])
      BY <1>0, <2>2, InterpretationIsUnique
    <2>4. LevelTwoOK'
      BY <2>1 DEF LevelTwoOK
    <2>5. CASE t = <<>>
      <3>1. /\ levelOne' = [levelOne EXCEPT ![d] = Portable(t)]
            /\ interpreted' = interpreted \cup {<<root, d, t>>}
            /\ job' = [job EXCEPT ![w] = NoEntry]
        BY <1>5, <2>5 DEF InterpretAndPut, Reports
      <3>2. /\ job' \in [Workers -> Jobs \cup {NoEntry}]
            /\ job'[w] = NoEntry /\ \A v \in Workers : v # w => job'[v] = job[v]
        BY <3>1, OneJobChanges
      <3> HIDE DEF t
      <3>3. LevelOneOK'
        BY <2>3, <2>5, <3>1 DEF LevelOneOK
      <3>4. InterpretationsAreCurrent'
        BY <2>1, <3>1 DEF InterpretationsAreCurrent, t
      <3>5. \A v \in Workers : job'[v] # NoEntry => job'[v] \in Jobs /\ JobOK(v)'
        BY <2>1, <3>2 DEF JobOK
      <3> QED  BY <2>1, <2>4, <3>2, <3>3, <3>4, <3>5
    <2>6. CASE t # <<>>
      <3> DEFINE key == RootBoundInterpretationKey(d, Index(t).probes, observed[root])
                 j == [phase |-> "put", root |-> root, doc |-> d, key |-> key]
      <3>1. /\ levelOne' = [levelOne EXCEPT ![d] = Index(t)]
            /\ interpreted' = interpreted /\ job' = [job EXCEPT ![w] = j]
        BY <1>5, <2>6 DEF InterpretAndPut, Sets
      <3>2. key = <<d, t>>
        BY <1>0, <2>2, <2>3, KeyAnswersForItsRoot
      <3>3. t \in Seq(RootPaths \X Answers)
        BY <2>2, <2>3, TranscriptAssumption
      <3>4. j \in Jobs
        BY <2>2, <3>2, <3>3 DEF Jobs, KeysInUse
      <3>5. /\ job' \in [Workers -> Jobs \cup {NoEntry}]
            /\ job'[w] = j /\ \A v \in Workers : v # w => job'[v] = job[v]
        BY <3>1, <3>4, OneJobChanges
      <3> HIDE DEF key
      <3>6. \A v \in Workers : job'[v] # NoEntry => job'[v] \in Jobs /\ JobOK(v)'
        BY <2>1, <3>2, <3>4, <3>5 DEF JobOK
      <3>7. LevelOneOK'
        BY <2>3, <2>6, <3>1 DEF LevelOneOK
      <3> QED  BY <2>1, <2>4, <3>1, <3>5, <3>6, <3>7 DEF InterpretationsAreCurrent
    <2> QED  BY <2>5, <2>6
  <1>6. ASSUME NEW w \in Workers, PutBound(w)
        PROVE  CacheInv'
    <2> DEFINE root == job[w].root
               d    == job[w].doc
               t    == InterpretDocumentContent(d, observed[root])
    <2>1. UNCHANGED <<observed, levelOne>>
      BY <1>6 DEF PutBound
    <2>2. job[w] \in Jobs /\ job[w] # NoEntry /\ root \in Roots /\ d \in Documents
      BY <1>6 DEF PutBound, Jobs
    <2>3. t \in Transcripts[d]
      BY <1>0, <2>2, InterpretationIsUnique
    <2>4. job[w].key = <<d, t>>
      BY <1>6, <2>2 DEF PutBound, JobOK
    <2>5. /\ levelTwo' = {e \in levelTwo : e[1] # job[w].key} \cup {<<<<d, t>>, t>>}
          /\ interpreted' = interpreted \cup {<<root, d, t>>}
          /\ job' = [job EXCEPT ![w] = NoEntry]
      BY <1>6, <2>4 DEF PutBound, PutLevelTwo, Reports
    <2>6. /\ job' \in [Workers -> Jobs \cup {NoEntry}]
          /\ job'[w] = NoEntry /\ \A v \in Workers : v # w => job'[v] = job[v]
      BY <2>5, OneJobChanges
    <2>7. InterpretationsAreCurrent'
      BY <2>1, <2>5 DEF InterpretationsAreCurrent
    <2>8. LevelTwoOK'
      <3> HIDE DEF t
      <3> QED  BY <2>2, <2>3, <2>5 DEF LevelTwoOK
    <2>9. \A v \in Workers : job'[v] # NoEntry => job'[v] \in Jobs /\ JobOK(v)'
      BY <2>1, <2>6 DEF JobOK
    <2> QED  BY <2>1, <2>6, <2>7, <2>8, <2>9 DEF LevelOneOK
  <1>7. CASE UNCHANGED cacheVars
    BY <1>7 DEF cacheVars, LevelOneOK, LevelTwoOK, JobOK, InterpretationsAreCurrent
  <1> QED  BY <1>1, <1>2, <1>3, <1>4, <1>5, <1>6, <1>7 DEF KeyNext

\* Whichever roots, runs and processes share the cache, and whatever it loses,
\* a reported interpretation is the one that reading the document in its own
\* root would give: deriveDocumentLayers, corpus_scan.ts.
THEOREM InterpretationsStayCurrent ==
    KeySpec => []InterpretationsAreCurrent
  <1>1. CacheInv => InterpretationsAreCurrent
    BY DEF CacheInv
  <1> QED  BY <1>1, CacheInitOK, CacheStepOK, PTL DEF KeySpec

-----------------------------------------------------------------------------
(* What an inventory knows of an entry.  Everything is said of a kind and  *)
(* an entry of that kind, so that it can be said before and after a step.  *)

Kinds == {"text", "plain", "archive", "folder"}
EntryRecords ==
    [body : Bodies, header : CarrierRecords \cup {Absent}, member : MemberRecords \cup {Absent},
     sidecar : CarrierRecords \cup {Absent}, mtime : Nat]
ObservedRecords == [hash : Digests \cup {Absent}, modified : Nat]
AnnotationPhases == {"harvest", "observe", "member", "reobserve", "write"}

Shaped(k, x) ==
    /\ x \in EntryRecords
    /\ k # "text" => x.header = Absent
    /\ k # "archive" => x.member = Absent

\* HarvestExistingMeta, BuildRecord and Digest, of an entry that need not be in the tree.
Reads(k, x) ==
    IF k = "folder" THEN Layer(x.sidecar)
    ELSE MergeHarvested(MergeHarvested(Layer(x.member), Layer(x.sidecar)), Layer(x.header))
BytesOf(k, x) ==
    CASE k = "folder"  -> Absent
      [] k = "archive" -> <<x.body, x.member>>
      [] OTHER         -> <<x.body>>
Observed(k, x) == [hash |-> BytesOf(k, x), modified |-> x.mtime]
FinalMeta(k, x, now) == MetaOf(Observed(k, x), Reads(k, x), now)

\* A hash and a clock go together, and were true together once.
TellsTrue(carrier, pairs, e, edited) ==
    /\ carrier.hash = Absent <=> carrier.modified = Absent
    /\ carrier.hash # Absent => <<carrier.hash, carrier.modified>> \in pairs \/ e \in edited

\* Where the tool moved a file's clock, the header it wrote there remembers.
HistoryTrue(k, x, pairs, e, edited) ==
    k # "folder" =>
        /\ TellsTrue(Layer(x.header), pairs, e, edited)
        /\ TellsTrue(Layer(x.sidecar), pairs, e, edited)
        /\ \/ e \in edited
           \/ <<BytesOf(k, x), x.mtime>> \in pairs
           \/ k = "text" /\ x.header # Absent /\ x.header.hash = BytesOf(k, x)

SameLayer(a, b) == a.hash = b.hash /\ a.modified = b.modified /\ a.note = b.note

\* A record and a harvest say of an entry what it holds.
Told(k, x, r, h) ==
    /\ SameLayer(h, Reads(k, x))
    /\ r.hash = BytesOf(k, x)
    /\ k # "folder" => r.modified = x.mtime

\* The entry holds what a run of that time would write there.
IsFinal(k, x, now) ==
    /\ k = "text" => x.header = FinalMeta(k, x, now)
    /\ k = "archive" => x.member = Embedded(FinalMeta(k, x, now))
    /\ k # "text" =>
         /\ x.sidecar # Absent
         /\ x.sidecar.tool =>
              IF k = "folder" THEN WithoutClock(x.sidecar) = WithoutClock(FinalMeta(k, x, now))
              ELSE x.sidecar = FinalMeta(k, x, now)

-----------------------------------------------------------------------------
(* The inductive invariant                                                 *)

RunShape ==
    /\ run = [now |-> run.now, queue |-> run.queue, phase |-> run.phase,
              harvest |-> run.harvest, record |-> run.record]
    /\ run.now \in Nows /\ run.queue \in Seq(Entries) /\ run.phase \in AnnotationPhases
    /\ run.harvest \in CarrierRecords
    /\ run.record \in ObservedRecords \cup {Absent}
    /\ run.phase # "harvest" => run.queue # <<>>
    /\ run.phase \in {"member", "reobserve"} => KindOf[Here] = "archive"
    /\ run.phase \in {"member", "write"} =>
         /\ run.record \in ObservedRecords
         /\ KindOf[Here] # "folder" => run.record.hash # Absent

AnnotationTypeOK ==
    /\ tree = [e \in Entries |-> tree[e]] /\ time \in Nat
    /\ \A e \in Entries : Shaped(KindOf[e], tree[e])
    /\ Idle \/ RunShape
    /\ settled \in Nows \cup {Absent} /\ disturbed \in BOOLEAN
    /\ born = [e \in Entries |-> born[e]]

TreeTellsTrue == \A e \in Entries : HistoryTrue(KindOf[e], tree[e], born[e], e, torn)

Undisturbed == ~disturbed \/ settled # Absent

\* What the run has in hand of the entry it is at.
LookIsTrue ==
    ~Idle /\ run.phase # "harvest" =>
        /\ KindOf[Here] # "folder" => TellsTrue(run.harvest, born[Here], Here, torn)
        /\ Undisturbed \/ Here \notin torn =>
             /\ SameLayer(run.harvest, Reads(KindOf[Here], tree[Here]))
             /\ run.phase \in {"member", "write"} =>
                  Told(KindOf[Here], tree[Here], run.record, run.harvest)
        /\ Undisturbed /\ KindOf[Here] = "archive" /\ run.phase \in {"reobserve", "write"} =>
             tree[Here].member = Embedded(Meta)

Ahead == {run.queue[i] : i \in DOMAIN run.queue}

BehindIsFinal ==
    ~Idle /\ Undisturbed =>
        \A e \in Entries \ Ahead : IsFinal(KindOf[e], tree[e], run.now)
SettledIsFinal ==
    settled # Absent => /\ ~Idle => run.now = settled
                        /\ \A e \in Entries : IsFinal(KindOf[e], tree[e], settled)

AnnotationInv ==
    /\ AnnotationTypeOK /\ TreeTellsTrue /\ LookIsTrue /\ BehindIsFinal /\ SettledIsFinal

-----------------------------------------------------------------------------
(* Carriers                                                                *)

LEMMA EmptyCarrier ==
    Carrier \in CarrierRecords
  BY DEF Carrier, CarrierRecords

LEMMA LayersAreCarriers ==
    ASSUME NEW c \in CarrierRecords \cup MemberRecords \cup {Absent}
    PROVE  /\ Layer(c) \in CarrierRecords
           /\ c # Absent => Layer(c) = c
           /\ c = Absent => Layer(c) = Carrier
           /\ c \in CarrierRecords \cup MemberRecords => c # Absent
           /\ c \in MemberRecords \cup {Absent} => Layer(c).hash = Absent /\ Layer(c).modified = Absent
  <1>1. MemberRecords \subseteq CarrierRecords
    BY DEF MemberRecords, CarrierRecords
  <1>2. Absent \notin CarrierRecords
    BY AbsentAssumption
  <1>3. Layer(c) \in CarrierRecords
    BY <1>1, EmptyCarrier DEF Layer
  <1>4. c \in MemberRecords \cup {Absent} => Layer(c).hash = Absent /\ Layer(c).modified = Absent
    BY DEF Layer, MemberRecords, Carrier
  <1> QED  BY <1>1, <1>2, <1>3, <1>4 DEF Layer

LEMMA MergedFields ==
    ASSUME NEW a \in CarrierRecords, NEW b \in CarrierRecords
    PROVE  /\ MergeHarvested(a, b) \in CarrierRecords
           /\ MergeHarvested(a, b).hash = IF b.hash # Absent THEN b.hash ELSE a.hash
           /\ MergeHarvested(a, b).modified = IF b.modified # Absent THEN b.modified ELSE a.modified
           /\ MergeHarvested(a, b).note = IF b.note # Absent THEN b.note ELSE a.note
  <1> DEFINE M == MergeHarvested(a, b)
  <1>1. M = [hash |-> IF b.hash # Absent THEN b.hash ELSE a.hash,
             modified |-> IF b.modified # Absent THEN b.modified ELSE a.modified,
             inspected |-> IF b.inspected # Absent THEN b.inspected ELSE a.inspected,
             note |-> IF b.note # Absent THEN b.note ELSE a.note,
             tool |-> IF b.tool # Absent THEN b.tool ELSE a.tool]
    BY DEF MergeHarvested, Carrier
  <1>2. M \in CarrierRecords
    <2>1. /\ M.hash \in Digests \cup {Absent} /\ M.modified \in Nat \cup {Absent}
          /\ M.inspected \in Nows \cup {Absent} /\ M.note \in Notes \cup {Absent}
      BY <1>1 DEF CarrierRecords
    <2>2. M.tool \in BOOLEAN
      <3>1. a.tool \in BOOLEAN /\ b.tool \in BOOLEAN
        BY DEF CarrierRecords
      <3>2. M.tool = IF b.tool # Absent THEN b.tool ELSE a.tool
        BY <1>1
      <3> QED  BY <3>1, <3>2, Zenon
    <2> QED  BY <1>1, <2>1, <2>2 DEF CarrierRecords
  <1> QED  BY <1>1, <1>2

LEMMA ReadsFields ==
    ASSUME NEW k \in Kinds, NEW x, Shaped(k, x)
    PROVE  /\ Reads(k, x) \in CarrierRecords
           /\ k \in {"folder", "plain"} => SameLayer(Reads(k, x), Layer(x.sidecar))
           /\ k = "archive" =>
                /\ Reads(k, x).hash = Layer(x.sidecar).hash
                /\ Reads(k, x).modified = Layer(x.sidecar).modified
                /\ Reads(k, x).note = IF Layer(x.sidecar).note # Absent THEN Layer(x.sidecar).note
                                      ELSE Layer(x.member).note
           /\ k = "text" =>
                /\ Reads(k, x).hash = IF Layer(x.header).hash # Absent THEN Layer(x.header).hash
                                      ELSE Layer(x.sidecar).hash
                /\ Reads(k, x).modified = IF Layer(x.header).modified # Absent
                                          THEN Layer(x.header).modified
                                          ELSE Layer(x.sidecar).modified
                /\ Reads(k, x).note = IF Layer(x.header).note # Absent THEN Layer(x.header).note
                                      ELSE Layer(x.sidecar).note
  <1> DEFINE m == Layer(x.member)
             s == Layer(x.sidecar)
             h == Layer(x.header)
  <1>1. /\ m \in CarrierRecords /\ s \in CarrierRecords /\ h \in CarrierRecords
        /\ m.hash = Absent /\ m.modified = Absent
        /\ k # "text" => h = Carrier
        /\ k # "archive" => m = Carrier
    BY LayersAreCarriers DEF Shaped, EntryRecords
  <1>2. Carrier.hash = Absent /\ Carrier.modified = Absent /\ Carrier.note = Absent
    BY DEF Carrier
  <1>3. CASE k = "folder"
    BY <1>1, <1>3 DEF Reads, SameLayer
  <1>4. CASE k # "folder"
    <2> DEFINE below == MergeHarvested(m, s)
    <2>1. /\ below \in CarrierRecords
          /\ below.hash = s.hash /\ below.modified = s.modified
          /\ below.note = IF s.note # Absent THEN s.note ELSE m.note
      <3> HIDE DEF m, s
      <3> QED  BY <1>1, MergedFields
    <2>2. Reads(k, x) = MergeHarvested(below, h)
      BY <1>4 DEF Reads
    <2> HIDE DEF below, m, s, h
    <2>3. /\ Reads(k, x) \in CarrierRecords
          /\ Reads(k, x).hash = IF h.hash # Absent THEN h.hash ELSE below.hash
          /\ Reads(k, x).modified = IF h.modified # Absent THEN h.modified ELSE below.modified
          /\ Reads(k, x).note = IF h.note # Absent THEN h.note ELSE below.note
      BY <1>1, <2>1, <2>2, MergedFields
    <2>4. k = "text" \/ k = "plain" \/ k = "archive"
      BY <1>4 DEF Kinds
    <2>5. k = "text" => below.note = s.note
      BY <1>1, <1>2, <2>1
    <2>6. CASE k = "text"
      BY <2>1, <2>3, <2>5, <2>6 DEF h, s, m
    <2>7. CASE k = "archive"
      BY <1>1, <1>2, <2>1, <2>3, <2>7 DEF h, s, m
    <2>8. CASE k = "plain"
      <3>1. below.note = s.note
        BY <1>1, <1>2, <2>1, <2>8
      <3>2. SameLayer(Reads(k, x), s)
        BY <1>1, <1>2, <2>1, <2>3, <2>8, <3>1 DEF SameLayer
      <3> QED  BY <2>3, <2>8, <3>2 DEF s
    <2> QED  BY <2>4, <2>6, <2>7, <2>8
  <1> QED  BY <1>3, <1>4

LEMMA BytesFields ==
    ASSUME NEW k \in Kinds, NEW x, Shaped(k, x)
    PROVE  /\ BytesOf(k, x) \in Digests \cup {Absent}
           /\ k = "folder" <=> BytesOf(k, x) = Absent
  <1>1. x.body \in Bodies /\ x.member \in MemberRecords \cup {Absent}
    BY DEF Shaped, EntryRecords
  <1>2. CASE k = "folder"
    BY <1>2 DEF BytesOf
  <1>3. CASE k = "archive"
    <2>1. BytesOf(k, x) = <<x.body, x.member>>
      BY <1>3 DEF BytesOf
    <2>2. <<x.body, x.member>> \in Digests
      BY <1>1 DEF Digests
    <2> QED  BY <1>3, <2>1, <2>2, AbsentAssumption
  <1>4. CASE k \in {"text", "plain"}
    <2>1. BytesOf(k, x) = <<x.body>>
      BY <1>4 DEF BytesOf
    <2>2. <<x.body>> \in Digests
      BY <1>1 DEF Digests
    <2> QED  BY <1>4, <2>1, <2>2, AbsentAssumption
  <1> QED  BY <1>2, <1>3, <1>4 DEF Kinds

\* What is written depends on what was seen by these fields alone.
LEMMA MetaFields ==
    ASSUME NEW r \in ObservedRecords, NEW h \in CarrierRecords, NEW now \in Nows
    PROVE  /\ MetaOf(r, h, now) \in CarrierRecords
           /\ MetaOf(r, h, now).hash = r.hash
           /\ MetaOf(r, h, now).modified =
                 IF r.hash # Absent /\ h.hash = r.hash /\ h.modified # Absent
                 THEN h.modified ELSE r.modified
           /\ MetaOf(r, h, now).modified \in Nat
           /\ MetaOf(r, h, now).inspected = now
           /\ MetaOf(r, h, now).note = h.note
           /\ MetaOf(r, h, now).tool
  <1> DEFINE clock == IF r.hash # Absent /\ h.hash = r.hash /\ h.modified # Absent
                      THEN h.modified ELSE r.modified
  <1>1. /\ r.hash \in Digests \cup {Absent} /\ r.modified \in Nat
        /\ h.modified \in Nat \cup {Absent} /\ h.note \in Notes \cup {Absent}
    BY DEF ObservedRecords, CarrierRecords
  <1>2. clock \in Nat
    BY <1>1
  <1>3. MetaOf(r, h, now) = [hash |-> r.hash, modified |-> clock, inspected |-> now,
                             note |-> h.note, tool |-> TRUE]
    BY DEF MetaOf, CarrierClock
  <1> HIDE DEF clock
  <1>4. MetaOf(r, h, now) \in CarrierRecords
    BY <1>1, <1>2, <1>3 DEF CarrierRecords
  <1>5. /\ MetaOf(r, h, now).hash = r.hash /\ MetaOf(r, h, now).modified = clock
        /\ MetaOf(r, h, now).inspected = now /\ MetaOf(r, h, now).note = h.note
    BY <1>3
  <1>6. MetaOf(r, h, now).tool
    BY <1>3
  <1> QED  BY <1>2, <1>4, <1>5, <1>6 DEF clock

\* A carrier is its five fields.
Five(m) == [hash |-> m.hash, modified |-> m.modified, inspected |-> m.inspected, note |-> m.note,
            tool |-> m.tool]

LEMMA MetaIsFive ==
    ASSUME NEW r, NEW h, NEW now
    PROVE  MetaOf(r, h, now) = Five(MetaOf(r, h, now))
  BY DEF MetaOf, Five

LEMMA Forgets ==
    ASSUME NEW m, m = Five(m)
    PROVE  /\ WithoutClock(m) = [hash |-> m.hash, modified |-> Absent, inspected |-> m.inspected,
                                 note |-> m.note, tool |-> m.tool]
           /\ Embedded(m) = [hash |-> Absent, modified |-> Absent, inspected |-> m.inspected,
                             note |-> m.note, tool |-> m.tool]
  <1>1. WithoutClock(m) = [hash |-> m.hash, modified |-> Absent, inspected |-> m.inspected,
                           note |-> m.note, tool |-> m.tool]
    BY DEF WithoutClock, Five
  <1>2. [m EXCEPT !.hash = Absent] = [hash |-> Absent, modified |-> m.modified,
                                      inspected |-> m.inspected, note |-> m.note, tool |-> m.tool]
    BY DEF Five
  <1>3. Embedded(m) = [[m EXCEPT !.hash = Absent] EXCEPT !.modified = Absent]
    BY DEF Embedded
  <1> QED  BY <1>1, <1>2, <1>3

LEMMA ForgetsAlike ==
    ASSUME NEW m, NEW n, m = Five(m), n = Five(n),
           m.inspected = n.inspected, m.note = n.note, m.tool = n.tool
    PROVE  /\ m.hash = n.hash => WithoutClock(m) = WithoutClock(n)
           /\ Embedded(m) = Embedded(n)
  BY Forgets

LEMMA MetasForgetAlike ==
    ASSUME NEW r, NEW h, NEW s, NEW g, NEW now, h.note = g.note
    PROVE  /\ r.hash = s.hash =>
                WithoutClock(MetaOf(r, h, now)) = WithoutClock(MetaOf(s, g, now))
           /\ Embedded(MetaOf(r, h, now)) = Embedded(MetaOf(s, g, now))
  <1> DEFINE m == MetaOf(r, h, now)
             n == MetaOf(s, g, now)
  <1>1. /\ m.inspected = n.inspected /\ m.note = n.note /\ m.tool = n.tool
        /\ m.hash = r.hash /\ n.hash = s.hash
    BY DEF MetaOf
  <1>2. m = Five(m) /\ n = Five(n)
    BY MetaIsFive
  <1> HIDE DEF m, n
  <1>3. /\ r.hash = s.hash => WithoutClock(m) = WithoutClock(n)
        /\ Embedded(m) = Embedded(n)
    BY <1>1, <1>2, ForgetsAlike
  <1> QED  BY <1>3 DEF m, n

LEMMA EmbeddedFields ==
    ASSUME NEW r, NEW h \in CarrierRecords, NEW now \in Nows
    PROVE  /\ Embedded(MetaOf(r, h, now)) \in MemberRecords
           /\ Embedded(MetaOf(r, h, now)).note = h.note
  <1> DEFINE m == MetaOf(r, h, now)
  <1>1. m.inspected = now /\ m.note = h.note /\ m.tool = TRUE
    BY DEF MetaOf
  <1>2. m = Five(m)
    BY MetaIsFive
  <1>3. Embedded(m) = [hash |-> Absent, modified |-> Absent, inspected |-> m.inspected,
                       note |-> m.note, tool |-> m.tool]
    <2> HIDE DEF m
    <2> QED  BY <1>2, Forgets
  <1>4. h.note \in Notes \cup {Absent}
    BY DEF CarrierRecords
  <1>5. Embedded(m) = [hash |-> Absent, modified |-> Absent, inspected |-> now,
                       note |-> h.note, tool |-> TRUE]
    BY <1>1, <1>3
  <1> QED  BY <1>4, <1>5 DEF MemberRecords

LEMMA ObservedIs ==
    ASSUME NEW k \in Kinds, NEW x, Shaped(k, x)
    PROVE  Observed(k, x) \in ObservedRecords
  BY BytesFields DEF Observed, ObservedRecords, Shaped, EntryRecords

LEMMA ReadsTrue ==
    ASSUME NEW k \in Kinds \ {"folder"}, NEW x, NEW pairs, NEW e, NEW edited,
           Shaped(k, x), HistoryTrue(k, x, pairs, e, edited)
    PROVE  TellsTrue(Reads(k, x), pairs, e, edited)
  <1>1. /\ TellsTrue(Layer(x.header), pairs, e, edited)
        /\ TellsTrue(Layer(x.sidecar), pairs, e, edited)
    BY DEF HistoryTrue
  <1>2. CASE k = "text"
    BY <1>1, <1>2, ReadsFields DEF TellsTrue
  <1>3. CASE k \in {"plain", "archive"}
    BY <1>1, <1>3, ReadsFields DEF TellsTrue, SameLayer
  <1> QED  BY <1>2, <1>3 DEF Kinds

LEMMA HistoryGrows ==
    ASSUME NEW k, NEW x, NEW e, NEW pairs, NEW morePairs, NEW edited, NEW moreEdited,
           pairs \subseteq morePairs, edited \subseteq moreEdited
    PROVE  /\ HistoryTrue(k, x, pairs, e, edited) => HistoryTrue(k, x, morePairs, e, moreEdited)
           /\ \A c : TellsTrue(c, pairs, e, edited) => TellsTrue(c, morePairs, e, moreEdited)
  BY DEF HistoryTrue, TellsTrue

-----------------------------------------------------------------------------
(* What a write does to what is known of the entry                         *)

\* Two entries that differ in a carrier and in the clock.
SameBut(field, x, y) ==
    /\ y.body = x.body
    /\ field # "header" => y.header = x.header
    /\ field # "member" => y.member = x.member
    /\ field # "sidecar" => y.sidecar = x.sidecar

LEMMA MetaIs ==
    ASSUME NEW r, NEW h, NEW now, NEW s, NEW g,
           MetaOf(r, h, now).hash = MetaOf(s, g, now).hash,
           MetaOf(r, h, now).modified = MetaOf(s, g, now).modified,
           MetaOf(r, h, now).note = MetaOf(s, g, now).note
    PROVE  MetaOf(r, h, now) = MetaOf(s, g, now)
  BY DEF MetaOf

LEMMA ToldMeta ==
    ASSUME NEW k \in Kinds, NEW x, Shaped(k, x), NEW r, NEW h, NEW now, Told(k, x, r, h)
    PROVE  /\ k # "folder" => FinalMeta(k, x, now) = MetaOf(r, h, now)
           /\ WithoutClock(FinalMeta(k, x, now)) = WithoutClock(MetaOf(r, h, now))
           /\ Embedded(FinalMeta(k, x, now)) = Embedded(MetaOf(r, h, now))
  <1>1. k # "folder" => FinalMeta(k, x, now) = MetaOf(r, h, now)
    BY DEF FinalMeta, MetaOf, CarrierClock, Told, SameLayer, Observed
  <1>2. /\ Observed(k, x).hash = r.hash
        /\ Reads(k, x).note = h.note
    BY DEF Told, SameLayer, Observed
  <1>3. /\ WithoutClock(FinalMeta(k, x, now)) = WithoutClock(MetaOf(r, h, now))
        /\ Embedded(FinalMeta(k, x, now)) = Embedded(MetaOf(r, h, now))
    BY <1>2, MetasForgetAlike DEF FinalMeta
  <1> QED  BY <1>1, <1>3

\* What the tool writes of a file that stood still is true of it: the clock it
\* carries is one it harvested, or the file's own.
LEMMA MetaTellsTrue ==
    ASSUME NEW k \in Kinds \ {"folder"}, NEW x, NEW pairs, NEW e, NEW edited,
           Shaped(k, x), HistoryTrue(k, x, pairs, e, edited),
           NEW r \in ObservedRecords, NEW h \in CarrierRecords, NEW now \in Nows,
           r.hash # Absent, TellsTrue(h, pairs, e, edited),
           e \in edited \/ Told(k, x, r, h)
    PROVE  TellsTrue(MetaOf(r, h, now), pairs, e, edited)
  <1> DEFINE m == MetaOf(r, h, now)
  <1>1. /\ m.hash = r.hash /\ m.modified \in Nat
        /\ m.modified = IF r.hash # Absent /\ h.hash = r.hash /\ h.modified # Absent
                        THEN h.modified ELSE r.modified
    BY MetaFields
  <1>2. m.hash # Absent /\ m.modified # Absent
    BY <1>1, AbsentAssumption
  <1>3. SUFFICES ASSUME e \notin edited PROVE <<m.hash, m.modified>> \in pairs
    BY <1>2 DEF TellsTrue
  <1>4. Told(k, x, r, h)
    BY <1>3
  <1>5. CASE h.hash = r.hash /\ h.modified # Absent
    <2>1. <<h.hash, h.modified>> \in pairs
      BY <1>3, <1>5 DEF TellsTrue
    <2> QED  BY <1>1, <1>5, <2>1
  <1>6. CASE ~(h.hash = r.hash /\ h.modified # Absent)
    <2>1. m.modified = x.mtime /\ m.hash = BytesOf(k, x)
      BY <1>1, <1>4, <1>6 DEF Told
    <2>2. \/ <<BytesOf(k, x), x.mtime>> \in pairs
          \/ k = "text" /\ x.header # Absent /\ x.header.hash = BytesOf(k, x)
      BY <1>3 DEF HistoryTrue
    <2>3. CASE k = "text" /\ x.header # Absent /\ x.header.hash = BytesOf(k, x)
      <3>1. Layer(x.header) = x.header
        BY <2>3, LayersAreCarriers DEF Shaped, EntryRecords
      <3>2. x.header.hash = r.hash /\ x.header.modified # Absent
        BY <1>4, <2>3, <3>1 DEF Told, HistoryTrue, TellsTrue
      <3>3. Reads(k, x).hash = r.hash /\ Reads(k, x).modified # Absent
        BY <2>3, <3>1, <3>2, ReadsFields
      <3> QED  BY <1>4, <1>6, <3>3 DEF Told, SameLayer
    <2> QED  BY <2>1, <2>2, <2>3
  <1> QED  BY <1>5, <1>6

LEMMA SameBytes ==
    ASSUME NEW k, NEW x, NEW y, y.body = x.body, y.member = x.member
    PROVE  BytesOf(k, x) = BytesOf(k, y)
  BY DEF BytesOf

LEMMA HeaderWritten ==
    ASSUME NEW x, NEW y, NEW pairs, NEW e, NEW edited,
           Shaped("text", x), HistoryTrue("text", x, pairs, e, edited),
           NEW r \in ObservedRecords, NEW h \in CarrierRecords, NEW now \in Nows,
           r.hash # Absent, TellsTrue(h, pairs, e, edited),
           e \in edited \/ Told("text", x, r, h),
           y \in EntryRecords, SameBut("header", x, y), y.header = MetaOf(r, h, now)
    PROVE  /\ Shaped("text", y)
           /\ HistoryTrue("text", y, pairs, e, edited)
           /\ Told("text", x, r, h) => IsFinal("text", y, now)
  <1> DEFINE m == MetaOf(r, h, now)
  <1>0. "text" \in Kinds
    BY DEF Kinds
  <1>1. Shaped("text", y)
    BY DEF Shaped, SameBut
  <1>2. /\ m \in CarrierRecords /\ m.hash = r.hash /\ m.modified \in Nat /\ m.note = h.note
        /\ m.modified = IF r.hash # Absent /\ h.hash = r.hash /\ h.modified # Absent
                        THEN h.modified ELSE r.modified
    BY MetaFields
  <1>3. BytesOf("text", x) = BytesOf("text", y)
    BY SameBytes DEF SameBut
  <1>4. Layer(y.header) = m /\ y.header # Absent
    BY <1>2, LayersAreCarriers
  <1>5. HistoryTrue("text", y, pairs, e, edited)
    <2>1. TellsTrue(Layer(y.header), pairs, e, edited)
      BY <1>0, <1>4, MetaTellsTrue
    <2>2. TellsTrue(Layer(y.sidecar), pairs, e, edited)
      BY DEF HistoryTrue, SameBut
    <2>3. e \in edited \/ y.header.hash = BytesOf("text", y)
      BY <1>2, <1>3 DEF Told
    <2> QED  BY <1>4, <2>1, <2>2, <2>3 DEF HistoryTrue
  <1>6. ASSUME Told("text", x, r, h) PROVE IsFinal("text", y, now)
    <2> DEFINE final == FinalMeta("text", y, now)
               g == Reads("text", y)
               o == Observed("text", y)
    <2>1. m.modified # Absent
      BY <1>2, AbsentAssumption
    <2>2. /\ g \in CarrierRecords
          /\ g.hash = r.hash /\ g.modified = m.modified
          /\ g.note = IF h.note # Absent THEN h.note ELSE Layer(x.sidecar).note
      BY <1>0, <1>1, <1>2, <1>4, <2>1, ReadsFields DEF SameBut
    <2>3. g.note = h.note
      <3>1. h.note = IF Layer(x.header).note # Absent THEN Layer(x.header).note
                     ELSE Layer(x.sidecar).note
        BY <1>0, <1>6, ReadsFields DEF Told, SameLayer
      <3> QED  BY <2>2, <3>1
    <2>4. o \in ObservedRecords /\ o.hash = r.hash
      BY <1>0, <1>1, <1>3, <1>6, ObservedIs DEF Told, Observed
    <2>5. MetaOf(o, g, now).hash = m.hash /\ MetaOf(o, g, now).modified = m.modified
          /\ MetaOf(o, g, now).note = m.note
      <3> HIDE DEF o, g
      <3> QED  BY <1>2, <2>1, <2>2, <2>3, <2>4, MetaFields
    <2>6. MetaOf(o, g, now) = m
      <3> HIDE DEF o, g
      <3> QED  BY <2>5, MetaIs
    <2> QED  BY <2>6 DEF IsFinal, FinalMeta
  <1> QED  BY <1>1, <1>5, <1>6

LEMMA SidecarWritten ==
    ASSUME NEW k \in Kinds \ {"folder"}, NEW x, NEW y, NEW pairs, NEW e, NEW edited,
           Shaped(k, x), HistoryTrue(k, x, pairs, e, edited),
           NEW r \in ObservedRecords, NEW h \in CarrierRecords, NEW now \in Nows,
           r.hash # Absent, TellsTrue(h, pairs, e, edited),
           e \in edited \/ Told(k, x, r, h),
           y \in EntryRecords, SameBut("sidecar", x, y), y.mtime = x.mtime,
           y.sidecar = MetaOf(r, h, now)
    PROVE  /\ Shaped(k, y)
           /\ HistoryTrue(k, y, pairs, e, edited)
           /\ /\ Told(k, x, r, h)
              /\ k = "archive" => x.member = Embedded(MetaOf(r, h, now))
              /\ k = "text" => IsFinal(k, x, now)
              => IsFinal(k, y, now)
  <1> DEFINE m == MetaOf(r, h, now)
  <1>1. Shaped(k, y)
    BY DEF Shaped, SameBut
  <1>2. /\ m \in CarrierRecords /\ m.hash = r.hash /\ m.modified \in Nat /\ m.note = h.note
        /\ m.modified = IF r.hash # Absent /\ h.hash = r.hash /\ h.modified # Absent
                        THEN h.modified ELSE r.modified
    BY MetaFields
  <1>3. BytesOf(k, x) = BytesOf(k, y)
    BY SameBytes DEF SameBut
  <1>4. Layer(y.sidecar) = m /\ y.sidecar # Absent
    BY <1>2, LayersAreCarriers
  <1>5. HistoryTrue(k, y, pairs, e, edited)
    <2>1. TellsTrue(Layer(y.sidecar), pairs, e, edited)
      BY <1>4, MetaTellsTrue
    <2>2. TellsTrue(Layer(y.header), pairs, e, edited)
      BY DEF HistoryTrue, SameBut
    <2>3. \/ e \in edited
          \/ <<BytesOf(k, y), y.mtime>> \in pairs
          \/ k = "text" /\ y.header # Absent /\ y.header.hash = BytesOf(k, y)
      BY <1>3 DEF HistoryTrue, SameBut
    <2> QED  BY <2>1, <2>2, <2>3 DEF HistoryTrue
  <1> DEFINE final == FinalMeta(k, y, now)
             g == Reads(k, y)
             o == Observed(k, y)
  <1>6. m.modified # Absent
    BY <1>2, AbsentAssumption
  <1>7. o \in ObservedRecords /\ (Told(k, x, r, h) => o.hash = r.hash /\ o.modified = r.modified)
    BY <1>1, <1>3, ObservedIs DEF Told, Observed
  <1>8. g \in CarrierRecords
    BY <1>1, ReadsFields
  <1>9. ASSUME Told(k, x, r, h), k = "archive" => x.member = Embedded(m), k # "text"
        PROVE  IsFinal(k, y, now)
    <2>1. g.hash = m.hash /\ g.modified = m.modified
      BY <1>1, <1>4, <1>9, ReadsFields DEF SameLayer, Kinds
    <2>2. g.note = m.note
      <3>1. CASE k = "plain"
        BY <1>1, <1>4, <3>1, ReadsFields DEF SameLayer
      <3>2. CASE k = "archive"
        <4>1. y.member = Embedded(m) /\ y.member \in MemberRecords /\ y.member.note = h.note
          BY <1>9, <3>2, EmbeddedFields DEF SameBut
        <4>2. Layer(y.member).note = h.note
          BY <4>1, LayersAreCarriers
        <4> QED  BY <1>1, <1>2, <1>4, <3>2, <4>2, ReadsFields
      <3> QED  BY <1>9, <3>1, <3>2 DEF Kinds
    <2>3. final = m
      <3> HIDE DEF g, o
      <3>1. MetaOf(o, g, now).hash = m.hash /\ MetaOf(o, g, now).modified = m.modified
            /\ MetaOf(o, g, now).note = m.note
        BY <1>2, <1>6, <1>7, <1>8, <1>9, <2>1, <2>2, MetaFields
      <3>2. MetaOf(o, g, now) = m
        BY <3>1, MetaIs
      <3> QED  BY <3>2 DEF FinalMeta, g, o
    <2>4. k = "archive" => y.member = Embedded(m)
      BY <1>9 DEF SameBut
    <2> QED  BY <1>4, <1>9, <2>3, <2>4 DEF IsFinal
  <1>10. ASSUME Told(k, x, r, h), k = "text", IsFinal(k, x, now)
         PROVE  IsFinal(k, y, now)
    <2>1. x.header = m
      BY <1>10, ToldMeta DEF IsFinal
    <2>2. y.header = m /\ Layer(y.header) = m
      BY <1>2, <2>1, LayersAreCarriers DEF SameBut
    <2>3. g.hash = m.hash /\ g.modified = m.modified /\ g.note = m.note
      BY <1>1, <1>2, <1>4, <1>6, <1>10, <2>2, ReadsFields
    <2>4. final = m
      <3> HIDE DEF g, o
      <3>1. MetaOf(o, g, now).hash = m.hash /\ MetaOf(o, g, now).modified = m.modified
            /\ MetaOf(o, g, now).note = m.note
        BY <1>2, <1>6, <1>7, <1>8, <1>10, <2>3, MetaFields
      <3>2. MetaOf(o, g, now) = m
        BY <3>1, MetaIs
      <3> QED  BY <3>2 DEF FinalMeta, g, o
    <2> QED  BY <1>10, <2>2, <2>4 DEF IsFinal
  <1> QED  BY <1>1, <1>5, <1>9, <1>10

LEMMA FolderWritten ==
    ASSUME NEW x, NEW y, Shaped("folder", x), y \in EntryRecords, SameBut("sidecar", x, y),
           NEW r \in ObservedRecords, NEW h \in CarrierRecords, NEW now \in Nows,
           \/ y.sidecar = MetaOf(r, h, now)
           \/ /\ y.sidecar = x.sidecar /\ x.sidecar # Absent
              /\ x.sidecar.tool => WithoutClock(x.sidecar) = WithoutClock(MetaOf(r, h, now))
    PROVE  /\ Shaped("folder", y)
           /\ Told("folder", x, r, h) => IsFinal("folder", y, now)
  <1> DEFINE m == MetaOf(r, h, now)
  <1>0. "folder" \in Kinds
    BY DEF Kinds
  <1>1. Shaped("folder", y)
    BY DEF Shaped, SameBut
  <1>2. m \in CarrierRecords /\ m.note = h.note
    BY MetaFields
  <1>3. ASSUME Told("folder", x, r, h) PROVE IsFinal("folder", y, now)
    <2> DEFINE g == Reads("folder", y)
               o == Observed("folder", y)
    <2>1. g = Layer(y.sidecar)
      BY DEF Reads
    <2>2. r.hash = Absent /\ o.hash = Absent
      BY <1>0, <1>1, <1>3, BytesFields DEF Told, Observed
    <2>3. h.note = Layer(x.sidecar).note
      BY <1>3 DEF Told, SameLayer, Reads
    <2>4. g.note = h.note /\ y.sidecar # Absent
      <3>1. CASE y.sidecar = m
        BY <1>2, <2>1, <3>1, LayersAreCarriers
      <3>2. CASE y.sidecar = x.sidecar /\ x.sidecar # Absent
        BY <2>1, <2>3, <3>2
      <3> QED  BY <3>1, <3>2
    <2>5. WithoutClock(MetaOf(o, g, now)) = WithoutClock(m)
      <3> HIDE DEF o, g
      <3> QED  BY <2>2, <2>4, MetasForgetAlike
    <2>6. y.sidecar.tool => WithoutClock(y.sidecar) = WithoutClock(m)
      OBVIOUS
    <2> QED  BY <2>4, <2>5, <2>6 DEF IsFinal, FinalMeta
  <1> QED  BY <1>1, <1>3

LEMMA MemberWritten ==
    ASSUME NEW x, NEW y, NEW pairs, NEW morePairs, NEW e, NEW edited,
           Shaped("archive", x), HistoryTrue("archive", x, pairs, e, edited),
           NEW r, NEW h \in CarrierRecords, NEW now \in Nows,
           y \in EntryRecords, SameBut("member", x, y), y.member = Embedded(MetaOf(r, h, now)),
           pairs \subseteq morePairs, <<<<y.body, y.member>>, y.mtime>> \in morePairs
    PROVE  /\ Shaped("archive", y)
           /\ HistoryTrue("archive", y, morePairs, e, edited)
           /\ SameLayer(h, Reads("archive", x)) => SameLayer(h, Reads("archive", y))
  <1>0. "archive" \in Kinds
    BY DEF Kinds
  <1>1. Shaped("archive", y)
    BY DEF Shaped, SameBut
  <1>2. HistoryTrue("archive", y, morePairs, e, edited)
    <2>1. HistoryTrue("archive", x, morePairs, e, edited)
      BY HistoryGrows
    <2>2. BytesOf("archive", y) = <<y.body, y.member>>
      BY DEF BytesOf
    <2> QED  BY <2>1, <2>2 DEF HistoryTrue, SameBut
  <1>3. ASSUME SameLayer(h, Reads("archive", x)) PROVE SameLayer(h, Reads("archive", y))
    <2>1. y.member \in MemberRecords /\ y.member.note = h.note
      BY EmbeddedFields
    <2>2. Layer(y.member).note = h.note /\ y.sidecar = x.sidecar
      BY <2>1, LayersAreCarriers DEF SameBut
    <2> DEFINE s == Layer(x.sidecar)
    <2>3. /\ h.hash = s.hash /\ h.modified = s.modified
          /\ h.note = IF s.note # Absent THEN s.note ELSE Layer(x.member).note
      BY <1>0, <1>3, ReadsFields DEF SameLayer
    <2>4. /\ Reads("archive", y).hash = s.hash /\ Reads("archive", y).modified = s.modified
          /\ Reads("archive", y).note = IF s.note # Absent THEN s.note ELSE h.note
      BY <1>0, <1>1, <2>2, ReadsFields
    <2> QED  BY <2>3, <2>4 DEF SameLayer
  <1> QED  BY <1>1, <1>2, <1>3

\* The clock of a folder moves, and nothing else.
LEMMA FolderTicks ==
    ASSUME NEW x, NEW n \in Nat, Shaped("folder", x)
    PROVE  LET y == [x EXCEPT !.mtime = n]
           IN  /\ Shaped("folder", y)
               /\ Reads("folder", y) = Reads("folder", x)
               /\ BytesOf("folder", y) = BytesOf("folder", x)
               /\ \A now : IsFinal("folder", x, now) => IsFinal("folder", y, now)
  <1> DEFINE y == [x EXCEPT !.mtime = n]
  <1>1. /\ y \in EntryRecords /\ y.sidecar = x.sidecar
        /\ y.header = x.header /\ y.member = x.member
    BY DEF Shaped, EntryRecords
  <1> HIDE DEF y
  <1>2. Shaped("folder", y)
    BY <1>1 DEF Shaped
  <1>3. Reads("folder", y) = Reads("folder", x) /\ BytesOf("folder", y) = BytesOf("folder", x)
    BY <1>1 DEF Reads, BytesOf
  <1>4. ASSUME NEW now, IsFinal("folder", x, now) PROVE IsFinal("folder", y, now)
    <2>1. Observed("folder", x).hash = Observed("folder", y).hash
      BY <1>3 DEF Observed
    <2>2. WithoutClock(FinalMeta("folder", x, now)) = WithoutClock(FinalMeta("folder", y, now))
      BY <1>3, <2>1, MetasForgetAlike DEF FinalMeta
    <2> QED  BY <1>1, <1>4, <2>2 DEF IsFinal
  <1> QED  BY <1>2, <1>3, <1>4 DEF y

-----------------------------------------------------------------------------
(* What a step does to the tree                                            *)

LEMMA ModelReads ==
    ASSUME NEW e \in Entries
    PROVE  /\ HarvestExistingMeta(e) = Reads(KindOf[e], tree[e])
           /\ Digest(e) = BytesOf(KindOf[e], tree[e])
           /\ BuildRecord(e) = Observed(KindOf[e], tree[e])
           /\ Digest(e)' = BytesOf(KindOf[e], tree'[e])
           /\ KindOf[e] \in Kinds
  <1>1. HarvestExistingMeta(e) = Reads(KindOf[e], tree[e])
    BY DEF HarvestExistingMeta, Reads
  <1>2. Digest(e) = BytesOf(KindOf[e], tree[e]) /\ Digest(e)' = BytesOf(KindOf[e], tree'[e])
    BY DEF Digest, BytesOf
  <1>3. BuildRecord(e) = Observed(KindOf[e], tree[e])
    BY <1>2 DEF BuildRecord, Observed
  <1>4. KindOf[e] \in Kinds
    BY WalkAssumption DEF Kinds
  <1> QED  BY <1>1, <1>2, <1>3, <1>4

\* Only e is written; the folders around it may notice.
OthersStand(e) ==
    /\ time' \in Nat /\ tree' = [f \in Entries |-> tree'[f]]
    /\ \A f \in Entries \ {e} :
          \/ tree'[f] = tree[f]
          \/ KindOf[f] = "folder" /\ tree'[f] = [tree[f] EXCEPT !.mtime = time']

LEMMA PutOne ==
    ASSUME AnnotationTypeOK, NEW e \in Entries, NEW y, Put(e, y)
    PROVE  OthersStand(e) /\ tree'[e] = y /\ time' = time + 1
  BY DEF AnnotationTypeOK, Put, OthersStand

LEMMA KeepAll ==
    ASSUME AnnotationTypeOK, NEW e \in Entries, Keep
    PROVE  OthersStand(e) /\ tree'[e] = tree[e]
  BY DEF AnnotationTypeOK, Keep, OthersStand

LEMMA OthersKeep ==
    ASSUME AnnotationTypeOK, NEW e \in Entries, OthersStand(e), NEW f \in Entries \ {e}
    PROVE  /\ Shaped(KindOf[f], tree'[f])
           /\ Reads(KindOf[f], tree'[f]) = Reads(KindOf[f], tree[f])
           /\ BytesOf(KindOf[f], tree'[f]) = BytesOf(KindOf[f], tree[f])
           /\ KindOf[f] # "folder" => tree'[f] = tree[f]
           /\ \A now : IsFinal(KindOf[f], tree[f], now) => IsFinal(KindOf[f], tree'[f], now)
  <1>1. Shaped(KindOf[f], tree[f])
    BY DEF AnnotationTypeOK
  <1>2. CASE tree'[f] = tree[f]
    BY <1>1, <1>2
  <1>3. CASE KindOf[f] = "folder" /\ tree'[f] = [tree[f] EXCEPT !.mtime = time']
    <2>1. time' \in Nat
      BY DEF OthersStand
    <2> QED  BY <1>1, <1>3, <2>1, FolderTicks
  <1> QED  BY <1>2, <1>3 DEF OthersStand

LEMMA TreeAfter ==
    ASSUME AnnotationTypeOK, TreeTellsTrue, NEW e \in Entries, OthersStand(e),
           Shaped(KindOf[e], tree'[e]), torn \subseteq torn',
           \A f \in Entries : born[f] \subseteq born'[f],
           HistoryTrue(KindOf[e], tree'[e], born'[e], e, torn')
    PROVE  /\ \A f \in Entries : Shaped(KindOf[f], tree'[f])
           /\ TreeTellsTrue'
  <1>1. \A f \in Entries : Shaped(KindOf[f], tree'[f])
    BY OthersKeep
  <1>2. ASSUME NEW f \in Entries PROVE HistoryTrue(KindOf[f], tree'[f], born'[f], f, torn')
    <2>1. HistoryTrue(KindOf[f], tree[f], born'[f], f, torn')
      BY HistoryGrows DEF TreeTellsTrue
    <2>2. CASE f # e
      BY <2>1, <2>2, OthersKeep DEF HistoryTrue
    <2> QED  BY <2>2
  <1> QED  BY <1>1, <1>2 DEF TreeTellsTrue

LEMMA RewrittenIs ==
    ASSUME AnnotationTypeOK, NEW e \in Entries
    PROVE  /\ \A c \in CarrierRecords :
                 LET y == Rewritten(e, "header", c)
                 IN  y \in EntryRecords /\ SameBut("header", tree[e], y) /\ y.header = c
                     /\ y.mtime = time + 1
           /\ \A c \in MemberRecords :
                 LET y == Rewritten(e, "member", c)
                 IN  y \in EntryRecords /\ SameBut("member", tree[e], y) /\ y.member = c
                     /\ y.mtime = time + 1
           /\ \A c \in CarrierRecords :
                 LET y == Rewritten(e, "sidecar", c)
                 IN  y \in EntryRecords /\ SameBut("sidecar", tree[e], y) /\ y.sidecar = c
                     /\ (KindOf[e] # "folder" => y.mtime = tree[e].mtime)
  <1>1. tree[e] \in EntryRecords /\ time + 1 \in Nat
    BY DEF AnnotationTypeOK, Shaped
  <1>2. ASSUME NEW c \in CarrierRecords
        PROVE LET y == Rewritten(e, "header", c)
              IN  y \in EntryRecords /\ SameBut("header", tree[e], y) /\ y.header = c
                  /\ y.mtime = time + 1
    BY <1>1 DEF Rewritten, EntryRecords, SameBut
  <1>3. ASSUME NEW c \in MemberRecords
        PROVE LET y == Rewritten(e, "member", c)
              IN  y \in EntryRecords /\ SameBut("member", tree[e], y) /\ y.member = c
                  /\ y.mtime = time + 1
    BY <1>1 DEF Rewritten, EntryRecords, SameBut
  <1>4. ASSUME NEW c \in CarrierRecords
        PROVE LET y == Rewritten(e, "sidecar", c)
              IN  y \in EntryRecords /\ SameBut("sidecar", tree[e], y) /\ y.sidecar = c
                  /\ (KindOf[e] # "folder" => y.mtime = tree[e].mtime)
    BY <1>1 DEF Rewritten, EntryRecords, SameBut
  <1> QED  BY <1>2, <1>3, <1>4

LEMMA Looked ==
    ASSUME AnnotationInv, At("write") \/ At("member")
    PROVE  /\ Here \in Entries /\ KindOf[Here] \in Kinds /\ RunShape
           /\ Shaped(KindOf[Here], tree[Here])
           /\ HistoryTrue(KindOf[Here], tree[Here], born[Here], Here, torn)
           /\ run.record \in ObservedRecords /\ run.harvest \in CarrierRecords /\ run.now \in Nows
           /\ KindOf[Here] # "folder" =>
                /\ run.record.hash # Absent
                /\ TellsTrue(run.harvest, born[Here], Here, torn)
           /\ Undisturbed \/ Here \notin torn =>
                Told(KindOf[Here], tree[Here], run.record, run.harvest)
           /\ Meta = MetaOf(run.record, run.harvest, run.now) /\ Meta \in CarrierRecords
  <1>1. ~Idle /\ RunShape /\ run.phase \in {"write", "member"}
    BY DEF AnnotationInv, AnnotationTypeOK, At
  <1>2. Here \in Entries
    BY <1>1 DEF RunShape, Here
  <1>3. run.record \in ObservedRecords /\ run.harvest \in CarrierRecords /\ run.now \in Nows
    BY <1>1 DEF RunShape
  <1>4. Meta = MetaOf(run.record, run.harvest, run.now) /\ Meta \in CarrierRecords
    BY <1>3, MetaFields DEF Meta
  <1>5. /\ KindOf[Here] # "folder" =>
             run.record.hash # Absent /\ TellsTrue(run.harvest, born[Here], Here, torn)
        /\ Undisturbed \/ Here \notin torn =>
             Told(KindOf[Here], tree[Here], run.record, run.harvest)
    BY <1>1 DEF AnnotationInv, LookIsTrue, RunShape
  <1>6. KindOf[Here] \in Kinds
    BY <1>2, ModelReads
  <1>7. /\ Shaped(KindOf[Here], tree[Here])
        /\ HistoryTrue(KindOf[Here], tree[Here], born[Here], Here, torn)
    BY <1>2 DEF AnnotationInv, AnnotationTypeOK, TreeTellsTrue
  <1> QED  BY <1>1, <1>2, <1>3, <1>4, <1>5, <1>6, <1>7

\* What the run does at an entry, and what it leaves there.
Leaves(e, y) ==
    /\ OthersStand(e) /\ tree'[e] = y
    /\ Shaped(KindOf[e], y)
    /\ HistoryTrue(KindOf[e], y, born[e], e, torn)

LEMMA SidecarStep ==
    ASSUME AnnotationInv, At("write"), KindOf[Here] # "folder", WriteSidecar(Here, Meta)
    PROVE  /\ Leaves(Here, tree'[Here])
           /\ /\ Undisturbed
              /\ KindOf[Here] = "text" => IsFinal(KindOf[Here], tree[Here], run.now)
              => IsFinal(KindOf[Here], tree'[Here], run.now)
           /\ Undisturbed /\ KindOf[Here] # "text" /\ IsFinal(KindOf[Here], tree[Here], run.now)
                => tree' = tree
           /\ Held(Here) => tree' = tree
  <1> DEFINE e == Here
             x == tree[Here]
             k == KindOf[Here]
  <1>1. /\ e \in Entries /\ k \in Kinds \ {"folder"} /\ Shaped(k, x)
        /\ HistoryTrue(k, x, born[e], e, torn)
        /\ run.record \in ObservedRecords /\ run.harvest \in CarrierRecords /\ run.now \in Nows
        /\ run.record.hash # Absent
        /\ TellsTrue(run.harvest, born[e], e, torn)
        /\ Undisturbed \/ e \notin torn => Told(k, x, run.record, run.harvest)
        /\ Meta = MetaOf(run.record, run.harvest, run.now) /\ Meta \in CarrierRecords
    BY Looked
  <1>2. AnnotationTypeOK
    BY DEF AnnotationInv
  <1>3. Undisturbed /\ k = "archive" => x.member = Embedded(Meta)
    BY DEF AnnotationInv, LookIsTrue, At
  <1>4. x \in EntryRecords /\ Undisturbed => Told(k, x, run.record, run.harvest)
    BY <1>1
  <1>5. CASE Held(e)
    <2>1. Keep
      BY <1>5 DEF WriteSidecar
    <2>2. OthersStand(e) /\ tree'[e] = x /\ tree' = tree
      BY <1>1, <1>2, <2>1, KeepAll DEF Keep
    <2>3. x.sidecar # Absent /\ ~x.sidecar.tool
      BY <1>5 DEF Held
    <2>4. Undisturbed => Embedded(FinalMeta(k, x, run.now)) = Embedded(Meta)
      BY <1>1, ToldMeta
    <2>5. /\ Undisturbed
          /\ k = "text" => IsFinal(k, x, run.now)
          => IsFinal(k, x, run.now)
      BY <1>3, <2>3, <2>4 DEF IsFinal
    <2> QED  BY <1>1, <2>2, <2>5 DEF Leaves
  <1>6. CASE ~Held(e) /\ x.sidecar = Meta
    <2>1. Keep
      BY <1>6 DEF WriteSidecar
    <2>2. OthersStand(e) /\ tree'[e] = x /\ tree' = tree
      BY <1>1, <1>2, <2>1, KeepAll DEF Keep
    <2>3. x \in EntryRecords /\ SameBut("sidecar", x, x)
      BY <1>1 DEF Shaped, SameBut
    <2>4. /\ Undisturbed
          /\ k = "text" => IsFinal(k, x, run.now)
          => IsFinal(k, x, run.now)
      BY <1>1, <1>3, <1>6, <2>3, SidecarWritten
    <2> QED  BY <1>1, <1>6, <2>2, <2>4 DEF Leaves
  <1>7. CASE ~Held(e) /\ x.sidecar # Meta
    <2> DEFINE y == Rewritten(e, "sidecar", Meta)
    <2>1. Put(e, y)
      BY <1>7 DEF WriteSidecar
    <2>2. /\ y \in EntryRecords /\ SameBut("sidecar", x, y) /\ y.sidecar = Meta
          /\ y.mtime = x.mtime
      BY <1>1, <1>2, RewrittenIs
    <2> HIDE DEF y
    <2>3. OthersStand(e) /\ tree'[e] = y
      BY <1>1, <1>2, <2>1, PutOne
    <2>4. /\ Shaped(k, y)
          /\ HistoryTrue(k, y, born[e], e, torn)
          /\ /\ Undisturbed
             /\ k = "text" => IsFinal(k, x, run.now)
             => IsFinal(k, y, run.now)
      BY <1>1, <1>3, <2>2, SidecarWritten
    <2>5. ~(Undisturbed /\ k # "text" /\ IsFinal(k, x, run.now))
      <3>1. Undisturbed => FinalMeta(k, x, run.now) = Meta
        BY <1>1, ToldMeta
      <3> QED  BY <1>1, <1>7, <3>1 DEF IsFinal, Held
    <2> QED  BY <1>7, <2>3, <2>4, <2>5 DEF Leaves
  <1> QED  BY <1>5, <1>6, <1>7

LEMMA HeaderStep ==
    ASSUME AnnotationInv, At("write"), KindOf[Here] = "text",
           IF tree[Here].header = Meta THEN Keep
           ELSE Put(Here, Rewritten(Here, "header", Meta))
    PROVE  /\ Leaves(Here, tree'[Here])
           /\ Undisturbed => IsFinal("text", tree'[Here], run.now)
           /\ Undisturbed /\ IsFinal("text", tree[Here], run.now) => tree' = tree
           /\ tree'[Here].sidecar = tree[Here].sidecar
  <1> DEFINE e == Here
             x == tree[Here]
  <1>1. /\ e \in Entries /\ "text" \in Kinds /\ Shaped("text", x)
        /\ HistoryTrue("text", x, born[e], e, torn)
        /\ run.record \in ObservedRecords /\ run.harvest \in CarrierRecords /\ run.now \in Nows
        /\ run.record.hash # Absent
        /\ TellsTrue(run.harvest, born[e], e, torn)
        /\ Undisturbed \/ e \notin torn => Told("text", x, run.record, run.harvest)
        /\ Meta = MetaOf(run.record, run.harvest, run.now) /\ Meta \in CarrierRecords
    BY Looked
  <1>2. AnnotationTypeOK
    BY DEF AnnotationInv
  <1>3. CASE x.header = Meta
    <2>1. OthersStand(e) /\ tree'[e] = x /\ tree' = tree
      BY <1>1, <1>2, <1>3, KeepAll DEF Keep
    <2>2. x \in EntryRecords /\ SameBut("header", x, x)
      BY <1>1 DEF Shaped, SameBut
    <2>3. Undisturbed => IsFinal("text", x, run.now)
      BY <1>1, <1>3, <2>2, HeaderWritten
    <2> QED  BY <1>1, <2>1, <2>3 DEF Leaves
  <1>4. CASE x.header # Meta
    <2> DEFINE y == Rewritten(e, "header", Meta)
    <2>1. Put(e, y)
      BY <1>4
    <2>2. y \in EntryRecords /\ SameBut("header", x, y) /\ y.header = Meta
      BY <1>1, <1>2, RewrittenIs
    <2> HIDE DEF y
    <2>3. OthersStand(e) /\ tree'[e] = y
      BY <1>1, <1>2, <2>1, PutOne
    <2>4. /\ Shaped("text", y)
          /\ HistoryTrue("text", y, born[e], e, torn)
          /\ Undisturbed => IsFinal("text", y, run.now)
      BY <1>1, <2>2, HeaderWritten
    <2>5. ~(Undisturbed /\ IsFinal("text", x, run.now))
      <3>1. Undisturbed => FinalMeta("text", x, run.now) = Meta
        BY <1>1, ToldMeta
      <3> QED  BY <1>4, <3>1 DEF IsFinal
    <2>6. y.sidecar = x.sidecar
      BY <2>2 DEF SameBut
    <2> QED  BY <2>3, <2>4, <2>5, <2>6 DEF Leaves
  <1> QED  BY <1>3, <1>4

LEMMA FolderStep ==
    ASSUME AnnotationInv, At("write"), KindOf[Here] = "folder", WriteFolderSidecar(Here, Meta)
    PROVE  /\ Leaves(Here, tree'[Here])
           /\ Undisturbed => IsFinal("folder", tree'[Here], run.now)
           /\ Undisturbed /\ IsFinal("folder", tree[Here], run.now) => tree' = tree
           /\ Held(Here) => tree' = tree
  <1> DEFINE e == Here
             x == tree[Here]
             same == WithoutClock(x.sidecar) = WithoutClock(Meta)
  <1>1. /\ e \in Entries /\ "folder" \in Kinds /\ Shaped("folder", x)
        /\ run.record \in ObservedRecords /\ run.harvest \in CarrierRecords /\ run.now \in Nows
        /\ Undisturbed \/ e \notin torn => Told("folder", x, run.record, run.harvest)
        /\ Meta = MetaOf(run.record, run.harvest, run.now) /\ Meta \in CarrierRecords
    BY Looked
  <1>2. AnnotationTypeOK
    BY DEF AnnotationInv
  <1>3. CASE x.sidecar # Absent /\ (Held(e) \/ same)
    <2>1. Keep
      BY <1>3 DEF WriteFolderSidecar, WriteSidecar
    <2>2. OthersStand(e) /\ tree'[e] = x /\ tree' = tree
      BY <1>1, <1>2, <2>1, KeepAll DEF Keep
    <2>3. x \in EntryRecords /\ SameBut("sidecar", x, x)
      BY <1>1 DEF Shaped, SameBut
    <2>4. x.sidecar.tool => same
      BY <1>3 DEF Held
    <2>5. Undisturbed => IsFinal("folder", x, run.now)
      BY <1>1, <1>3, <2>3, <2>4, FolderWritten
    <2>6. HistoryTrue("folder", x, born[e], e, torn)
      BY DEF HistoryTrue
    <2> QED  BY <1>1, <2>2, <2>5, <2>6 DEF Leaves
  <1>4. CASE ~(x.sidecar # Absent /\ (Held(e) \/ same))
    <2>1. WriteSidecar(e, Meta) /\ ~Held(e)
      BY <1>4 DEF WriteFolderSidecar, Held
    <2>2. x.sidecar # Meta
      BY <1>1, <1>4, LayersAreCarriers
    <2> DEFINE y == Rewritten(e, "sidecar", Meta)
    <2>3. Put(e, y)
      BY <2>1, <2>2 DEF WriteSidecar
    <2>4. y \in EntryRecords /\ SameBut("sidecar", x, y) /\ y.sidecar = Meta
      BY <1>1, <1>2, RewrittenIs
    <2> HIDE DEF y
    <2>5. OthersStand(e) /\ tree'[e] = y
      BY <1>1, <1>2, <2>3, PutOne
    <2>6. Shaped("folder", y) /\ (Undisturbed => IsFinal("folder", y, run.now))
      BY <1>1, <2>4, FolderWritten
    <2>7. HistoryTrue("folder", y, born[e], e, torn)
      BY DEF HistoryTrue
    <2>8. ~(Undisturbed /\ IsFinal("folder", x, run.now))
      <3>1. Undisturbed => WithoutClock(FinalMeta("folder", x, run.now)) = WithoutClock(Meta)
        BY <1>1, ToldMeta
      <3> QED  BY <1>4, <3>1 DEF IsFinal, Held
    <2> QED  BY <2>1, <2>5, <2>6, <2>7, <2>8 DEF Leaves
  <1> QED  BY <1>3, <1>4

\* What a run's last act at an entry does.
LEMMA WriteCarrierLeaves ==
    ASSUME AnnotationInv, WriteCarrier
    PROVE  /\ Leaves(Here, tree'[Here])
           /\ Undisturbed => IsFinal(KindOf[Here], tree'[Here], run.now)
           /\ settled # Absent => tree' = tree
           /\ \A e \in Entries : Held(e) => tree'[e].sidecar = tree[e].sidecar
  <1>1. At("write") /\ Here \in Entries /\ KindOf[Here] \in Kinds
    BY Looked DEF WriteCarrier
  <1>2. settled # Absent => Undisturbed /\ IsFinal(KindOf[Here], tree[Here], run.now)
    BY <1>1 DEF AnnotationInv, SettledIsFinal, At, Undisturbed
  <1>3. /\ Leaves(Here, tree'[Here])
        /\ Undisturbed => IsFinal(KindOf[Here], tree'[Here], run.now)
        /\ Undisturbed /\ IsFinal(KindOf[Here], tree[Here], run.now) => tree' = tree
        /\ Held(Here) => tree'[Here].sidecar = tree[Here].sidecar
    <2>1. CASE KindOf[Here] = "folder"
      BY <1>1, <2>1, FolderStep DEF WriteCarrier
    <2>2. CASE KindOf[Here] = "text"
      BY <1>1, <2>2, HeaderStep DEF WriteCarrier
    <2>3. CASE KindOf[Here] \in {"plain", "archive"}
      BY <1>1, <2>3, SidecarStep DEF WriteCarrier
    <2> QED  BY <1>1, <2>1, <2>2, <2>3 DEF Kinds
  <1>4. ASSUME NEW e \in Entries, Held(e) PROVE tree'[e].sidecar = tree[e].sidecar
    <2>1. CASE e = Here
      BY <1>3, <1>4, <2>1
    <2>2. CASE e # Here
      <3>1. OthersStand(Here) /\ tree[e] \in EntryRecords
        BY <1>3 DEF Leaves, AnnotationInv, AnnotationTypeOK, Shaped
      <3> QED  BY <2>2, <3>1 DEF OthersStand, EntryRecords
    <2> QED  BY <2>1, <2>2
  <1> QED  BY <1>2, <1>3, <1>4

LEMMA TurnIs ==
    ASSUME RunShape, run.queue # <<>>, Turn
    PROVE  /\ RunShape' /\ run'.now = run.now /\ run'.phase = "harvest"
           /\ Ahead \subseteq {Here} \cup Ahead'
  <1>1. run' = [now |-> run.now, queue |-> Tail(run.queue), phase |-> "harvest",
                harvest |-> Carrier, record |-> Absent]
    BY DEF Turn, RunShape
  <1>2. Tail(run.queue) \in Seq(Entries)
    BY DEF RunShape
  <1>3. RunShape'
    BY <1>1, <1>2, EmptyCarrier DEF RunShape, AnnotationPhases
  <1>4. Ahead \subseteq {Here} \cup Ahead'
    <2>1. SUFFICES ASSUME NEW i \in DOMAIN run.queue, i # 1
                   PROVE  run.queue[i] \in Ahead'
      BY DEF Ahead, Here, RunShape
    <2>2. i - 1 \in DOMAIN Tail(run.queue) /\ Tail(run.queue)[i - 1] = run.queue[i]
      BY <2>1 DEF RunShape
    <2> QED  BY <1>1, <2>2 DEF Ahead
  <1> QED  BY <1>1, <1>3, <1>4

\* A step of the tool at an entry, after which the run turns to the next.
LEMMA LeavesAndTurns ==
    ASSUME AnnotationInv, At("write"), Turn, Leaves(Here, tree'[Here]),
           UNCHANGED <<settled, born, torn>>, disturbed' \in BOOLEAN,
           Undisturbed' => Undisturbed /\ IsFinal(KindOf[Here], tree'[Here], run.now)
    PROVE  AnnotationInv'
  <1>1. /\ ~Idle /\ RunShape /\ run.phase = "write" /\ run.queue # <<>> /\ Here \in Entries
        /\ AnnotationTypeOK
    BY Looked DEF At, AnnotationInv, RunShape
  <1>2. /\ RunShape' /\ run'.now = run.now /\ run'.phase = "harvest"
        /\ Ahead \subseteq {Here} \cup Ahead'
    BY <1>1, TurnIs
  <1>3. (\A f \in Entries : Shaped(KindOf[f], tree'[f])) /\ TreeTellsTrue'
    BY <1>1, TreeAfter DEF Leaves, AnnotationInv
  <1>4. AnnotationTypeOK'
    BY <1>1, <1>2, <1>3 DEF AnnotationTypeOK, Leaves, OthersStand
  <1>5. LookIsTrue'
    BY <1>2 DEF LookIsTrue
  <1>6. BehindIsFinal'
    <2>1. SUFFICES ASSUME Undisturbed', NEW e \in Entries \ Ahead'
                   PROVE  IsFinal(KindOf[e], tree'[e], run.now)
      BY <1>2 DEF BehindIsFinal
    <2>2. CASE e = Here
      BY <2>1, <2>2
    <2>3. CASE e # Here
      <3>1. IsFinal(KindOf[e], tree[e], run.now)
        BY <1>1, <1>2, <2>1, <2>3 DEF AnnotationInv, BehindIsFinal
      <3> QED  BY <1>1, <2>3, <3>1, OthersKeep DEF Leaves
    <2> QED  BY <2>2, <2>3
  <1>7. SettledIsFinal'
    <2>1. SUFFICES ASSUME settled # Absent
                   PROVE  /\ run'.now = settled
                          /\ \A e \in Entries : IsFinal(KindOf[e], tree'[e], settled)
      BY DEF SettledIsFinal
    <2>2. run.now = settled /\ \A e \in Entries : IsFinal(KindOf[e], tree[e], settled)
      BY <1>1, <2>1 DEF AnnotationInv, SettledIsFinal
    <2>3. IsFinal(KindOf[Here], tree'[Here], settled)
      BY <2>1, <2>2 DEF Undisturbed
    <2> QED  BY <1>1, <1>2, <2>2, <2>3, OthersKeep DEF Leaves
  <1> QED  BY <1>3, <1>4, <1>5, <1>6, <1>7 DEF AnnotationInv

LEMMA WriteCarrierOK ==
    ASSUME AnnotationInv, WriteCarrier PROVE AnnotationInv'
  <1>1. /\ At("write") /\ Turn /\ UNCHANGED <<settled, born, torn>> /\ disturbed' = disturbed
    BY DEF WriteCarrier, Still
  <1>2. disturbed' \in BOOLEAN /\ (Undisturbed' => Undisturbed)
    BY <1>1 DEF AnnotationInv, AnnotationTypeOK, Undisturbed
  <1> QED  BY <1>1, <1>2, WriteCarrierLeaves, LeavesAndTurns

-----------------------------------------------------------------------------
(* The other steps of a run                                                *)

LEMMA StartOK ==
    ASSUME AnnotationInv, NEW now \in Nows, StartAnnotation(now) PROVE AnnotationInv'
  <1>1. run' = [now |-> now, queue |-> WalkOrder, phase |-> "harvest",
                harvest |-> Carrier, record |-> Absent]
    BY DEF StartAnnotation
  <1>2. RunShape' /\ run'.phase = "harvest" /\ run'.now = now
    BY <1>1, WalkAssumption, EmptyCarrier DEF RunShape, AnnotationPhases
  <1>3. UNCHANGED <<tree, time, born, torn>> /\ disturbed' = FALSE
        /\ settled' = IF now = settled THEN settled ELSE Absent
    BY DEF StartAnnotation
  <1>4. AnnotationTypeOK' /\ TreeTellsTrue'
    BY <1>2, <1>3 DEF AnnotationInv, AnnotationTypeOK, TreeTellsTrue
  <1>5. LookIsTrue'
    BY <1>2 DEF LookIsTrue
  <1>6. BehindIsFinal'
    <2>1. Ahead' = Entries
      BY <1>1 DEF Ahead, Entries
    <2> QED  BY <2>1 DEF BehindIsFinal
  <1>7. SettledIsFinal'
    BY <1>2, <1>3 DEF AnnotationInv, SettledIsFinal
  <1> QED  BY <1>4, <1>5, <1>6, <1>7 DEF AnnotationInv

\* A step that only looks.
LEMMA LooksOK ==
    ASSUME AnnotationInv, ~Idle, RunShape', LookIsTrue', Keep, Still,
           run'.now = run.now, run'.queue = run.queue
    PROVE  AnnotationInv'
  <1>1. UNCHANGED <<tree, time, settled, disturbed, born, torn>>
    BY DEF Keep, Still
  <1>2. AnnotationTypeOK' /\ TreeTellsTrue'
    BY <1>1 DEF AnnotationInv, AnnotationTypeOK, TreeTellsTrue
  <1>3. BehindIsFinal'
    BY <1>1 DEF AnnotationInv, BehindIsFinal, Ahead, Undisturbed
  <1>4. SettledIsFinal'
    BY <1>1 DEF AnnotationInv, SettledIsFinal
  <1> QED  BY <1>2, <1>3, <1>4 DEF AnnotationInv

LEMMA HarvestOK ==
    ASSUME AnnotationInv, Harvest PROVE AnnotationInv'
  <1>1. ~Idle /\ RunShape /\ run.phase = "harvest" /\ run.queue # <<>> /\ Keep /\ Still
    BY DEF Harvest, At, AnnotationInv, AnnotationTypeOK
  <1>2. Here \in Entries
    BY <1>1 DEF RunShape, Here
  <1> DEFINE e == Here
             k == KindOf[Here]
             x == tree[Here]
  <1>3. /\ k \in Kinds /\ Shaped(k, x) /\ HistoryTrue(k, x, born[e], e, torn)
        /\ HarvestExistingMeta(e) = Reads(k, x)
    BY <1>2, ModelReads DEF AnnotationInv, AnnotationTypeOK, TreeTellsTrue
  <1>4. Reads(k, x) \in CarrierRecords /\ (k # "folder" => TellsTrue(Reads(k, x), born[e], e, torn))
    BY <1>3, ReadsFields, ReadsTrue
  <1>5. run' = [now |-> run.now, queue |-> run.queue, phase |-> "observe",
                harvest |-> Reads(k, x), record |-> run.record]
    BY <1>1, <1>3 DEF Harvest, RunShape
  <1>6. RunShape'
    BY <1>1, <1>4, <1>5 DEF RunShape, AnnotationPhases
  <1>7. Here' = Here /\ UNCHANGED <<tree, born, torn>>
    BY <1>1, <1>5 DEF Here, Keep, Still
  <1>8. LookIsTrue'
    BY <1>4, <1>5, <1>7 DEF LookIsTrue, SameLayer
  <1> QED  BY <1>1, <1>5, <1>6, <1>8, LooksOK

LEMMA ObserveOK ==
    ASSUME AnnotationInv, ObserveEntry PROVE AnnotationInv'
  <1>1. ~Idle /\ RunShape /\ run.phase = "observe" /\ run.queue # <<>> /\ Keep /\ Still
    BY DEF ObserveEntry, At, AnnotationInv, AnnotationTypeOK, RunShape
  <1>2. Here \in Entries
    BY <1>1 DEF RunShape, Here
  <1> DEFINE e == Here
             k == KindOf[Here]
             x == tree[Here]
             o == Observed(k, x)
  <1>3. k \in Kinds /\ Shaped(k, x) /\ BuildRecord(e) = o
    BY <1>2, ModelReads DEF AnnotationInv, AnnotationTypeOK
  <1>4. /\ o \in ObservedRecords /\ o.hash = BytesOf(k, x) /\ o.modified = x.mtime
        /\ k # "folder" => o.hash # Absent
    BY <1>3, ObservedIs, BytesFields DEF Observed
  <1>5. run' = [now |-> run.now, queue |-> run.queue,
                phase |-> IF k = "archive" THEN "member" ELSE "write",
                harvest |-> run.harvest, record |-> o]
    BY <1>1, <1>3 DEF ObserveEntry, RunShape
  <1>6. Here' = Here /\ UNCHANGED <<tree, born, torn, settled, disturbed>>
    BY <1>1, <1>5 DEF Here, Keep, Still
  <1> HIDE DEF o
  <1>8. RunShape'
    BY <1>1, <1>4, <1>5, <1>6 DEF RunShape, AnnotationPhases
  <1>9. LookIsTrue'
    <2>1. /\ k # "folder" => TellsTrue(run.harvest, born[e], e, torn)
          /\ Undisturbed \/ e \notin torn => SameLayer(run.harvest, Reads(k, x))
      BY <1>1 DEF AnnotationInv, LookIsTrue
    <2>2. Undisturbed \/ e \notin torn => Told(k, x, o, run.harvest)
      BY <1>4, <2>1 DEF Told
    <2>3. Undisturbed' = Undisturbed
      BY <1>6 DEF Undisturbed
    <2>4. /\ run'.harvest = run.harvest /\ run'.record = o /\ run'.phase # "reobserve"
          /\ run'.phase = "write" => k # "archive"
      BY <1>5
    <2> QED  BY <1>6, <2>1, <2>2, <2>3, <2>4 DEF LookIsTrue
  <1> QED  BY <1>1, <1>5, <1>8, <1>9, LooksOK

LEMMA UpsertOK ==
    ASSUME AnnotationInv, UpsertMember PROVE AnnotationInv'
  <1> DEFINE e == Here
             x == tree[Here]
  <1>1. /\ At("member") /\ ~Idle /\ RunShape /\ run.phase = "member" /\ run.queue # <<>>
        /\ KindOf[e] = "archive" /\ AnnotationTypeOK
    BY DEF UpsertMember, At, AnnotationInv, AnnotationTypeOK, RunShape
  <1>2. /\ e \in Entries /\ "archive" \in Kinds /\ Shaped("archive", x)
        /\ HistoryTrue("archive", x, born[e], e, torn)
        /\ run.record \in ObservedRecords /\ run.harvest \in CarrierRecords /\ run.now \in Nows
        /\ run.record.hash # Absent
        /\ TellsTrue(run.harvest, born[e], e, torn)
        /\ Undisturbed \/ e \notin torn => Told("archive", x, run.record, run.harvest)
        /\ Meta = MetaOf(run.record, run.harvest, run.now)
    BY <1>1, Looked
  <1>3. CASE x.member = Embedded(Meta)
    <2>1. /\ run' = [now |-> run.now, queue |-> run.queue, phase |-> "write",
                     harvest |-> run.harvest, record |-> run.record]
          /\ Keep /\ Still
      BY <1>1, <1>3 DEF UpsertMember, RunShape, Still
    <2>2. RunShape' /\ Here' = Here /\ UNCHANGED <<tree, born, torn, settled, disturbed>>
      BY <1>1, <1>2, <2>1 DEF RunShape, AnnotationPhases, Here, Keep, Still
    <2>3. Meta' = Meta
      BY <2>1 DEF Meta
    <2>4. Embedded(Meta)' = Embedded(Meta) /\ Undisturbed' = Undisturbed
      BY <2>2, <2>3 DEF Embedded, Undisturbed
    <2>5. LookIsTrue'
      BY <1>1, <1>2, <1>3, <2>1, <2>2, <2>4 DEF LookIsTrue, Told
    <2> QED  BY <1>1, <2>1, <2>2, <2>5, LooksOK
  <1>4. CASE x.member # Embedded(Meta)
    <2> DEFINE m == Embedded(Meta)
               y == Rewritten(e, "member", Embedded(Meta))
    <2>1. /\ Put(e, y) /\ UNCHANGED <<settled, disturbed, torn>>
          /\ run' = [now |-> run.now, queue |-> run.queue, phase |-> "reobserve",
                     harvest |-> run.harvest, record |-> run.record]
          /\ born' = [born EXCEPT ![e] = @ \cup {<<<<x.body, m>>, time + 1>>}]
      BY <1>1, <1>4 DEF UpsertMember, RunShape
    <2>2. m \in MemberRecords
      BY <1>2, EmbeddedFields
    <2>3. /\ y \in EntryRecords /\ SameBut("member", x, y) /\ y.member = m
          /\ y.mtime = time + 1
      BY <1>1, <1>2, <2>2, RewrittenIs
    <2>4. OthersStand(e) /\ tree'[e] = y
      BY <1>1, <1>2, <2>1, PutOne
    <2> HIDE DEF y
    <2>5. /\ born' = [f \in Entries |-> born'[f]]
          /\ \A f \in Entries : born[f] \subseteq born'[f]
          /\ <<<<y.body, y.member>>, y.mtime>> \in born'[e]
      BY <1>1, <1>2, <2>1, <2>3 DEF AnnotationTypeOK, SameBut
    <2>6. /\ Shaped("archive", y) /\ HistoryTrue("archive", y, born'[e], e, torn)
          /\ SameLayer(run.harvest, Reads("archive", x)) =>
                SameLayer(run.harvest, Reads("archive", y))
      <3> DEFINE pairs == born[e]
                 morePairs == born'[e]
                 r == run.record
                 h == run.harvest
                 now == run.now
      <3>1. /\ pairs \subseteq morePairs /\ <<<<y.body, y.member>>, y.mtime>> \in morePairs
            /\ HistoryTrue("archive", x, pairs, e, torn)
            /\ y.member = Embedded(MetaOf(r, h, now))
            /\ h \in CarrierRecords /\ now \in Nows
        BY <1>2, <2>3, <2>5
      <3> HIDE DEF pairs, morePairs, r, h, now, x, e
      <3>2. /\ Shaped("archive", y) /\ HistoryTrue("archive", y, morePairs, e, torn)
            /\ SameLayer(h, Reads("archive", x)) => SameLayer(h, Reads("archive", y))
        BY <1>2, <2>3, <3>1, MemberWritten
      <3> QED  BY <3>2 DEF morePairs, h
    <2>7. (\A f \in Entries : Shaped(KindOf[f], tree'[f])) /\ TreeTellsTrue'
      BY <1>1, <1>2, <2>1, <2>4, <2>5, <2>6, TreeAfter DEF AnnotationInv
    <2>8. RunShape' /\ Here' = Here
      BY <1>1, <2>1 DEF RunShape, AnnotationPhases, Here
    <2>9. AnnotationTypeOK'
      BY <1>1, <2>1, <2>4, <2>5, <2>7, <2>8 DEF AnnotationTypeOK, OthersStand
    <2>10. Embedded(Meta)' = m
      BY <2>1 DEF Meta, Embedded
    <2>11. LookIsTrue'
      <3>1. TellsTrue(run.harvest, born'[e], e, torn)
        BY <1>2, <2>5, HistoryGrows
      <3>2. Undisturbed \/ e \notin torn => SameLayer(run.harvest, Reads("archive", y))
        BY <1>2, <2>6 DEF Told
      <3>3. Undisturbed' = Undisturbed
        BY <2>1 DEF Undisturbed
      <3>4. run'.harvest = run.harvest /\ run'.phase = "reobserve"
        BY <2>1
      <3> QED  BY <1>1, <2>1, <2>3, <2>4, <2>8, <2>10, <3>1, <3>2, <3>3, <3>4 DEF LookIsTrue
    <2>12. settled = Absent
      <3>1. SUFFICES ASSUME settled # Absent PROVE FALSE
        OBVIOUS
      <3>2. run.now = settled /\ IsFinal("archive", x, run.now) /\ Undisturbed
        BY <1>1, <1>2, <3>1 DEF AnnotationInv, SettledIsFinal, Undisturbed
      <3>3. Embedded(FinalMeta("archive", x, run.now)) = Embedded(Meta)
        BY <1>2, <3>2, ToldMeta
      <3> QED  BY <1>4, <3>2, <3>3 DEF IsFinal
    <2>13. BehindIsFinal'
      <3>1. SUFFICES ASSUME Undisturbed', NEW f \in Entries \ Ahead'
                     PROVE  IsFinal(KindOf[f], tree'[f], run.now)
        BY <2>1 DEF BehindIsFinal
      <3>2. Undisturbed /\ f \notin Ahead
        BY <2>1, <3>1 DEF Undisturbed, Ahead
      <3>3. IsFinal(KindOf[f], tree[f], run.now)
        BY <1>1, <3>2 DEF AnnotationInv, BehindIsFinal
      <3>4. e \in Ahead
        BY <1>1 DEF Ahead, Here, RunShape
      <3> QED  BY <1>1, <1>2, <2>4, <3>2, <3>3, <3>4, OthersKeep
    <2>14. SettledIsFinal'
      BY <2>1, <2>12 DEF SettledIsFinal
    <2> QED  BY <2>7, <2>9, <2>11, <2>13, <2>14 DEF AnnotationInv
  <1> QED  BY <1>3, <1>4

LEMMA ReobserveOK ==
    ASSUME AnnotationInv, Reobserve PROVE AnnotationInv'
  <1> DEFINE e == Here
             x == tree[Here]
             o == Observed("archive", tree[Here])
  <1>1. /\ ~Idle /\ RunShape /\ run.phase = "reobserve" /\ run.queue # <<>> /\ Keep /\ Still
        /\ KindOf[e] = "archive" /\ "archive" \in Kinds
    BY DEF Reobserve, At, AnnotationInv, AnnotationTypeOK, RunShape, Kinds
  <1>2. e \in Entries
    BY <1>1 DEF RunShape, Here
  <1>3. Shaped("archive", x) /\ Reobserved = o
    BY <1>1, <1>2, ModelReads DEF AnnotationInv, AnnotationTypeOK, Reobserved
  <1>4. /\ o \in ObservedRecords /\ o.hash = BytesOf("archive", x) /\ o.modified = x.mtime
        /\ o.hash # Absent
    BY <1>1, <1>3, ObservedIs, BytesFields DEF Observed
  <1>5. run' = [now |-> run.now, queue |-> run.queue, phase |-> "write",
                harvest |-> run.harvest, record |-> o]
    BY <1>1, <1>3 DEF Reobserve, RunShape
  <1>6. Here' = Here /\ UNCHANGED <<tree, born, torn, settled, disturbed>>
    BY <1>1, <1>5 DEF Here, Keep, Still
  <1>7. /\ Embedded(Meta) = Embedded(MetaOf(run.record, run.harvest, run.now))
        /\ Embedded(Meta)' = Embedded(MetaOf(o, run.harvest, run.now))
    BY <1>5, <1>6 DEF Meta, MetaOf, CarrierClock, Embedded
  <1> HIDE DEF o
  <1>8. Embedded(Meta)' = Embedded(Meta)
    BY <1>7, MetasForgetAlike
  <1>9. RunShape'
    BY <1>1, <1>4, <1>5, <1>6 DEF RunShape, AnnotationPhases
  <1>10. LookIsTrue'
    <2>1. /\ TellsTrue(run.harvest, born[e], e, torn)
          /\ Undisturbed \/ e \notin torn => SameLayer(run.harvest, Reads("archive", x))
          /\ Undisturbed => x.member = Embedded(Meta)
      BY <1>1 DEF AnnotationInv, LookIsTrue
    <2>2. Undisturbed \/ e \notin torn => Told("archive", x, o, run.harvest)
      BY <1>4, <2>1 DEF Told
    <2>3. Undisturbed' = Undisturbed
      BY <1>6 DEF Undisturbed
    <2>4. run'.harvest = run.harvest /\ run'.record = o /\ run'.phase = "write"
      BY <1>5
    <2> QED  BY <1>1, <1>6, <1>8, <2>1, <2>2, <2>3, <2>4 DEF LookIsTrue
  <1> QED  BY <1>1, <1>5, <1>9, <1>10, LooksOK

LEMMA WriteFailsOK ==
    ASSUME AnnotationInv, WriteFails PROVE AnnotationInv'
  <1>1. disturbed' = TRUE /\ UNCHANGED <<settled, born, torn>>
    BY DEF WriteFails
  <1>2. Undisturbed' => settled # Absent
    BY <1>1 DEF Undisturbed
  <1>3. CASE At("write")
    <2>1. /\ ~Idle /\ Here \in Entries /\ KindOf[Here] \in Kinds /\ Turn
          /\ IF KindOf[Here] = "text" THEN WriteSidecar(Here, Meta) ELSE Keep
          /\ AnnotationTypeOK
      BY <1>3, Looked DEF WriteFails, At, AnnotationInv
    <2>2. settled # Absent =>
             Undisturbed /\ run.now = settled /\ IsFinal(KindOf[Here], tree[Here], run.now)
      BY <2>1 DEF AnnotationInv, SettledIsFinal, Undisturbed
    <2>3. CASE KindOf[Here] = "text"
      BY <1>1, <1>2, <1>3, <2>1, <2>2, <2>3, SidecarStep, LeavesAndTurns
    <2>4. CASE KindOf[Here] # "text"
      <3>1. OthersStand(Here) /\ tree'[Here] = tree[Here]
        BY <2>1, <2>4, KeepAll
      <3>2. Leaves(Here, tree'[Here])
        BY <1>3, <3>1, Looked DEF Leaves
      <3> QED  BY <1>1, <1>2, <1>3, <2>1, <2>2, <3>1, <3>2, LeavesAndTurns
    <2> QED  BY <2>3, <2>4
  <1>4. CASE At("member")
    <2> DEFINE e == Here
               x == tree[Here]
    <2>1. /\ ~Idle /\ RunShape /\ run.phase = "member" /\ KindOf[e] = "archive" /\ Keep
          /\ AnnotationTypeOK
          /\ run' = [now |-> run.now, queue |-> run.queue, phase |-> "write",
                     harvest |-> run.harvest, record |-> run.record]
      BY <1>4 DEF WriteFails, At, AnnotationInv, AnnotationTypeOK, RunShape
    <2>2. /\ e \in Entries /\ "archive" \in Kinds /\ Shaped("archive", x)
          /\ run.record \in ObservedRecords /\ run.record.hash # Absent
          /\ TellsTrue(run.harvest, born[e], e, torn)
          /\ Undisturbed \/ e \notin torn => Told("archive", x, run.record, run.harvest)
          /\ Meta = MetaOf(run.record, run.harvest, run.now)
      BY <1>4, <2>1, Looked
    <2>3. RunShape' /\ Here' = Here /\ UNCHANGED <<tree, time>>
      BY <2>1, <2>2 DEF RunShape, AnnotationPhases, Here, Keep
    <2>4. AnnotationTypeOK' /\ TreeTellsTrue'
      BY <1>1, <2>1, <2>3 DEF AnnotationInv, AnnotationTypeOK, TreeTellsTrue
    <2>5. settled # Absent =>
             /\ Undisturbed /\ run.now = settled
             /\ \A f \in Entries : IsFinal(KindOf[f], tree[f], settled)
      BY <2>1 DEF AnnotationInv, SettledIsFinal, Undisturbed
    <2>6. settled # Absent => x.member = Embedded(Meta)
      <3>1. settled # Absent => Embedded(FinalMeta("archive", x, run.now)) = Embedded(Meta)
        BY <2>2, <2>5, ToldMeta
      <3> QED  BY <2>1, <2>2, <2>5, <3>1 DEF IsFinal
    <2>7. Embedded(Meta)' = Embedded(Meta)
      BY <2>1 DEF Meta, Embedded
    <2>8. LookIsTrue'
      <3>1. run'.harvest = run.harvest /\ run'.record = run.record /\ run'.phase = "write"
        BY <2>1
      <3>2. Undisturbed' => Undisturbed
        BY <1>2, <2>5
      <3>3. Undisturbed \/ e \notin torn => SameLayer(run.harvest, Reads("archive", x))
        BY <2>2 DEF Told
      <3> QED  BY <1>1, <1>2, <2>1, <2>2, <2>3, <2>6, <2>7, <3>1, <3>2, <3>3 DEF LookIsTrue
    <2>9. BehindIsFinal' /\ SettledIsFinal'
      BY <1>1, <1>2, <2>1, <2>3, <2>5 DEF BehindIsFinal, SettledIsFinal
    <2> QED  BY <2>4, <2>8, <2>9 DEF AnnotationInv
  <1> QED  BY <1>3, <1>4 DEF WriteFails

LEMMA DiesOK ==
    ASSUME AnnotationInv, Dies PROVE AnnotationInv'
  BY DEF Dies, AnnotationInv, AnnotationTypeOK, TreeTellsTrue, LookIsTrue, BehindIsFinal,
         SettledIsFinal, Idle

LEMMA EndOK ==
    ASSUME AnnotationInv, EndAnnotation PROVE AnnotationInv'
  <1>1. /\ ~Idle /\ RunShape /\ run.queue = <<>> /\ run' = Absent
        /\ UNCHANGED <<tree, time, disturbed, born, torn>>
        /\ settled' = IF disturbed THEN Absent ELSE run.now
    BY DEF EndAnnotation, At, AnnotationInv, AnnotationTypeOK
  <1>2. AnnotationTypeOK' /\ TreeTellsTrue' /\ LookIsTrue' /\ BehindIsFinal'
    BY <1>1 DEF AnnotationInv, AnnotationTypeOK, TreeTellsTrue, LookIsTrue, BehindIsFinal, Idle,
                RunShape
  <1>3. SettledIsFinal'
    <2>1. Ahead = {}
      BY <1>1 DEF Ahead
    <2>2. ~disturbed => \A e \in Entries : IsFinal(KindOf[e], tree[e], run.now)
      BY <1>1, <2>1 DEF AnnotationInv, BehindIsFinal, Undisturbed
    <2> QED  BY <1>1, <2>2 DEF SettledIsFinal, Idle
  <1> QED  BY <1>2, <1>3 DEF AnnotationInv

-----------------------------------------------------------------------------
(* People                                                                  *)

\* An edit that leaves a true history behind: a run under way that had looked
\* at the entry already knows it for torn.
LEMMA EditOK ==
    ASSUME AnnotationInv, NEW e \in Entries, OthersStand(e),
           settled' = Absent, disturbed' = TRUE, run' = run,
           torn' = IF ~Idle /\ run.phase # "harvest" /\ Here = e THEN torn \cup {e} ELSE torn,
           born' = [f \in Entries |-> born'[f]], \A f \in Entries : born[f] \subseteq born'[f],
           Shaped(KindOf[e], tree'[e]),
           HistoryTrue(KindOf[e], tree'[e], born'[e], e, torn)
    PROVE  AnnotationInv'
  <1>1. AnnotationTypeOK /\ torn \subseteq torn'
    BY DEF AnnotationInv
  <1>2. HistoryTrue(KindOf[e], tree'[e], born'[e], e, torn')
    BY <1>1, HistoryGrows
  <1>3. (\A f \in Entries : Shaped(KindOf[f], tree'[f])) /\ TreeTellsTrue'
    BY <1>1, <1>2, TreeAfter DEF AnnotationInv
  <1>4. RunShape' = RunShape /\ Idle' = Idle /\ Here' = Here
    BY DEF RunShape, Idle, Here
  <1>5. AnnotationTypeOK'
    BY <1>1, <1>3, <1>4 DEF AnnotationTypeOK, OthersStand
  <1>6. BehindIsFinal' /\ SettledIsFinal' /\ ~Undisturbed'
    BY DEF BehindIsFinal, SettledIsFinal, Undisturbed
  <1>7. LookIsTrue'
    <2>1. SUFFICES ASSUME ~Idle, run.phase # "harvest"
                   PROVE  /\ KindOf[Here] # "folder" =>
                               TellsTrue(run.harvest, born'[Here], Here, torn')
                          /\ Here \notin torn' =>
                               /\ SameLayer(run.harvest, Reads(KindOf[Here], tree'[Here]))
                               /\ run.phase \in {"member", "write"} =>
                                    Told(KindOf[Here], tree'[Here], run.record, run.harvest)
      BY <1>4, <1>6 DEF LookIsTrue
    <2>2. Here \in Entries
      BY <1>1, <2>1 DEF AnnotationTypeOK, RunShape, Here
    <2>3. KindOf[Here] # "folder" => TellsTrue(run.harvest, born'[Here], Here, torn')
      <3>1. KindOf[Here] # "folder" => TellsTrue(run.harvest, born[Here], Here, torn)
        BY <2>1 DEF AnnotationInv, LookIsTrue
      <3> QED  BY <1>1, <2>2, <3>1, HistoryGrows
    <2>4. ASSUME Here \notin torn'
          PROVE  /\ SameLayer(run.harvest, Reads(KindOf[Here], tree'[Here]))
                 /\ run.phase \in {"member", "write"} =>
                      Told(KindOf[Here], tree'[Here], run.record, run.harvest)
      <3>1. Here # e /\ Here \notin torn
        BY <2>1, <2>4
      <3>2. /\ SameLayer(run.harvest, Reads(KindOf[Here], tree[Here]))
            /\ run.phase \in {"member", "write"} =>
                 Told(KindOf[Here], tree[Here], run.record, run.harvest)
        BY <2>1, <3>1 DEF AnnotationInv, LookIsTrue
      <3>3. /\ Reads(KindOf[Here], tree'[Here]) = Reads(KindOf[Here], tree[Here])
            /\ BytesOf(KindOf[Here], tree'[Here]) = BytesOf(KindOf[Here], tree[Here])
            /\ KindOf[Here] # "folder" => tree'[Here] = tree[Here]
        BY <1>1, <2>2, <3>1, OthersKeep
      <3> QED  BY <3>2, <3>3 DEF Told
    <2> QED  BY <2>3, <2>4
  <1> QED  BY <1>3, <1>5, <1>6, <1>7 DEF AnnotationInv

LEMMA RewritesOK ==
    ASSUME AnnotationInv, NEW e \in Entries, NEW b \in Bodies, Rewrites(e, b)
    PROVE  /\ OthersStand(e) /\ Shaped(KindOf[e], tree'[e])
           /\ born' = [f \in Entries |-> born'[f]] /\ \A f \in Entries : born[f] \subseteq born'[f]
           /\ HistoryTrue(KindOf[e], tree'[e], born'[e], e, torn)
  <1> DEFINE x == tree[e]
             k == KindOf[e]
             y == [tree[e] EXCEPT !.body = b, !.member = Absent, !.mtime = time + 1]
  <1>1. /\ AnnotationTypeOK /\ k # "folder" /\ k \in Kinds /\ Shaped(k, x)
        /\ HistoryTrue(k, x, born[e], e, torn)
    BY ModelReads DEF AnnotationInv, AnnotationTypeOK, TreeTellsTrue, Rewrites
  <1>2. OthersStand(e) /\ tree'[e] = y
    BY <1>1, PutOne DEF Rewrites
  <1>3. /\ y \in EntryRecords /\ y.header = x.header /\ y.sidecar = x.sidecar
        /\ y.member = Absent /\ y.mtime = time + 1
    <2>1. x \in EntryRecords /\ time + 1 \in Nat
      BY <1>1 DEF Shaped, AnnotationTypeOK
    <2> QED  BY <2>1 DEF EntryRecords
  <1> HIDE DEF y
  <1>4. Shaped(k, y)
    BY <1>1, <1>3 DEF Shaped
  <1>5. born' = [born EXCEPT ![e] = @ \cup {<<BytesOf(k, y), time + 1>>}]
    BY <1>2, ModelReads DEF Rewrites
  <1>6. /\ born' = [f \in Entries |-> born'[f]] /\ \A f \in Entries : born[f] \subseteq born'[f]
        /\ <<BytesOf(k, y), y.mtime>> \in born'[e]
    BY <1>1, <1>3, <1>5 DEF AnnotationTypeOK
  <1>7. HistoryTrue(k, x, born'[e], e, torn)
    BY <1>1, <1>6, HistoryGrows
  <1>8. HistoryTrue(k, y, born'[e], e, torn)
    BY <1>3, <1>6, <1>7 DEF HistoryTrue
  <1> QED  BY <1>2, <1>4, <1>6, <1>8

LEMMA JotsOK ==
    ASSUME AnnotationInv, NEW e \in Entries, NEW note \in Notes, Jots(e, note)
    PROVE  /\ OthersStand(e) /\ Shaped(KindOf[e], tree'[e])
           /\ born' = [f \in Entries |-> born'[f]] /\ \A f \in Entries : born[f] \subseteq born'[f]
           /\ HistoryTrue(KindOf[e], tree'[e], born'[e], e, torn)
  <1> DEFINE x == tree[e]
             k == KindOf[e]
  <1>1. /\ AnnotationTypeOK /\ k \in Kinds /\ Shaped(k, x)
        /\ HistoryTrue(k, x, born[e], e, torn)
        /\ Layer(x.header) \in CarrierRecords
    BY ModelReads, LayersAreCarriers
    DEF AnnotationInv, AnnotationTypeOK, TreeTellsTrue, Shaped, EntryRecords
  <1>2. CASE /\ k = "text"
             /\ Put(e, Rewritten(e, "header", [Layer(tree[e].header) EXCEPT !.note = note]))
             /\ born' = [born EXCEPT ![e] = @ \cup {<<Digest(e)', time + 1>>}]
    <2> DEFINE c == [Layer(tree[e].header) EXCEPT !.note = note]
               y == Rewritten(e, "header", [Layer(tree[e].header) EXCEPT !.note = note])
    <2>1. /\ c \in CarrierRecords /\ c.hash = Layer(x.header).hash
          /\ c.modified = Layer(x.header).modified
      BY <1>1 DEF CarrierRecords
    <2>2. OthersStand(e) /\ tree'[e] = y
      BY <1>1, <1>2, PutOne
    <2>3. y \in EntryRecords /\ SameBut("header", x, y) /\ y.header = c /\ y.mtime = time + 1
      BY <1>1, <2>1, RewrittenIs
    <2> HIDE DEF c, y
    <2>4. Shaped(k, y)
      BY <1>1, <1>2, <2>3 DEF Shaped, SameBut
    <2>5. born' = [born EXCEPT ![e] = @ \cup {<<BytesOf(k, y), time + 1>>}]
      BY <1>2, <2>2, ModelReads
    <2>6. /\ born' = [f \in Entries |-> born'[f]]
          /\ \A f \in Entries : born[f] \subseteq born'[f]
          /\ <<BytesOf(k, y), y.mtime>> \in born'[e]
      BY <1>1, <2>3, <2>5 DEF AnnotationTypeOK
    <2>7. HistoryTrue(k, x, born'[e], e, torn)
      BY <1>1, <2>6, HistoryGrows
    <2>8. Layer(y.header) = c
      BY <2>1, <2>3, LayersAreCarriers
    <2>9. HistoryTrue(k, y, born'[e], e, torn)
      BY <2>1, <2>3, <2>6, <2>7, <2>8 DEF HistoryTrue, TellsTrue, SameBut
    <2> QED  BY <2>2, <2>4, <2>6, <2>9
  <1>3. CASE Put(e, Rewritten(e, "sidecar", ByHand(note))) /\ UNCHANGED born
    <2> DEFINE c == ByHand(note)
               y == Rewritten(e, "sidecar", ByHand(note))
    <2>1. c \in CarrierRecords /\ c.hash = Absent /\ c.modified = Absent
      BY DEF ByHand, Carrier, CarrierRecords
    <2>2. OthersStand(e) /\ tree'[e] = y
      BY <1>1, <1>3, PutOne
    <2>3. /\ y \in EntryRecords /\ SameBut("sidecar", x, y) /\ y.sidecar = c
          /\ (k # "folder" => y.mtime = x.mtime)
      BY <1>1, <2>1, RewrittenIs
    <2> HIDE DEF c, y
    <2>4. Shaped(k, y) /\ BytesOf(k, x) = BytesOf(k, y)
      BY <1>1, <2>3, SameBytes DEF Shaped, SameBut
    <2>5. Layer(y.sidecar) = c
      BY <2>1, <2>3, LayersAreCarriers
    <2>6. HistoryTrue(k, y, born[e], e, torn)
      BY <1>1, <2>1, <2>3, <2>4, <2>5 DEF HistoryTrue, TellsTrue, SameBut
    <2> QED  BY <1>1, <1>3, <2>2, <2>4, <2>6 DEF AnnotationTypeOK
  <1> QED  BY <1>2, <1>3 DEF Jots

LEMMA PersonOK ==
    ASSUME AnnotationInv, NEW e \in Entries, Person(e) PROVE AnnotationInv'
  <1>1. /\ settled' = Absent /\ disturbed' = TRUE /\ run' = run
        /\ torn' = IF ~Idle /\ run.phase # "harvest" /\ Here = e THEN torn \cup {e} ELSE torn
    BY DEF Person
  <1>2. CASE \E b \in Bodies : Rewrites(e, b)
    <2>1. PICK b \in Bodies : Rewrites(e, b)
      BY <1>2
    <2> QED  BY <1>1, <2>1, RewritesOK, EditOK
  <1>3. CASE \E note \in Notes : Jots(e, note)
    <2>1. PICK note \in Notes : Jots(e, note)
      BY <1>3
    <2> QED  BY <1>1, <2>1, JotsOK, EditOK
  <1> QED  BY <1>2, <1>3 DEF Person

-----------------------------------------------------------------------------
(* The theorems                                                            *)

LEMMA AnnotationInitOK ==
    AnnotationInit => AnnotationInv
  <1> SUFFICES ASSUME AnnotationInit PROVE AnnotationInv
    OBVIOUS
  <1>1. PICK b \in Bodies : tree = [e \in Entries |-> [body |-> b, header |-> Absent,
                                      member |-> Absent, sidecar |-> Absent, mtime |-> 1]]
    BY DEF AnnotationInit
  <1>2. /\ time = 1 /\ run = Absent /\ settled = Absent /\ disturbed = FALSE
        /\ born = [e \in Entries |-> {<<Digest(e), 1>>}] /\ torn = {}
    BY DEF AnnotationInit
  <1>3. \A e \in Entries : Shaped(KindOf[e], tree[e])
    BY <1>1 DEF Shaped, EntryRecords
  <1>4. AnnotationTypeOK
    BY <1>1, <1>2, <1>3 DEF AnnotationTypeOK, Idle
  <1>5. TreeTellsTrue
    <2>1. SUFFICES ASSUME NEW e \in Entries
                   PROVE  HistoryTrue(KindOf[e], tree[e], born[e], e, torn)
      BY DEF TreeTellsTrue
    <2>2. <<BytesOf(KindOf[e], tree[e]), tree[e].mtime>> \in born[e]
      BY <1>1, <1>2, ModelReads
    <2>3. Layer(tree[e].header) = Carrier /\ Layer(tree[e].sidecar) = Carrier
      BY <1>1 DEF Layer
    <2>4. TellsTrue(Carrier, born[e], e, torn)
      BY DEF Carrier, TellsTrue
    <2> QED  BY <2>2, <2>3, <2>4 DEF HistoryTrue
  <1>6. LookIsTrue /\ BehindIsFinal /\ SettledIsFinal
    BY <1>2 DEF LookIsTrue, BehindIsFinal, SettledIsFinal, Idle
  <1> QED  BY <1>4, <1>5, <1>6 DEF AnnotationInv

LEMMA AnnotationNextOK ==
    AnnotationInv /\ [AnnotationNext]_annotationVars => AnnotationInv'
  <1> SUFFICES ASSUME AnnotationInv, [AnnotationNext]_annotationVars PROVE AnnotationInv'
    OBVIOUS
  <1>1. CASE UNCHANGED annotationVars
    BY <1>1 DEF annotationVars, AnnotationInv, AnnotationTypeOK, TreeTellsTrue, LookIsTrue,
                BehindIsFinal, SettledIsFinal, Idle, RunShape, Here, Undisturbed, Ahead, Meta,
                MetaOf, CarrierClock, Embedded
  <1>2. CASE AnnotationNext
    BY <1>2, StartOK, HarvestOK, ObserveOK, UpsertOK, ReobserveOK, WriteCarrierOK, WriteFailsOK,
       DiesOK, EndOK, PersonOK DEF AnnotationNext
  <1> QED  BY <1>1, <1>2

\* What a tool's own carrier says of a settled tree.
LEMMA FinalTells ==
    AnnotationInv => CarriersTellTheTruth
  <1> SUFFICES ASSUME AnnotationInv, settled # Absent, NEW e \in Entries \ Of("folder"),
                      CarrierOf(e) # Absent, CarrierOf(e).tool
               PROVE  /\ CarrierOf(e).hash = Digest(e)
                      /\ <<Digest(e), CarrierOf(e).modified>> \in born[e] \/ e \in torn
    BY DEF CarriersTellTheTruth
  <1> DEFINE x == tree[e]
             k == KindOf[e]
  <1>1. /\ k # "folder" /\ k \in Kinds /\ Shaped(k, x) /\ Digest(e) = BytesOf(k, x)
        /\ HistoryTrue(k, x, born[e], e, torn) /\ IsFinal(k, x, settled) /\ settled \in Nows
    BY ModelReads DEF Of, AnnotationInv, AnnotationTypeOK, TreeTellsTrue, SettledIsFinal
  <1>2. CarrierOf(e) = FinalMeta(k, x, settled)
    BY <1>1 DEF CarrierOf, IsFinal
  <1>3. CarrierOf(e).hash = BytesOf(k, x)
    BY <1>1, <1>2, ObservedIs, ReadsFields, MetaFields DEF FinalMeta, Observed
  <1>4. TellsTrue(CarrierOf(e), born[e], e, torn)
    <2>1. CarrierOf(e) \in CarrierRecords \cup {Absent}
      BY <1>1 DEF CarrierOf, Shaped, EntryRecords
    <2>2. Layer(CarrierOf(e)) = CarrierOf(e)
      BY <2>1, LayersAreCarriers
    <2> QED  BY <1>1, <2>2 DEF HistoryTrue, CarrierOf
  <1>5. BytesOf(k, x) # Absent
    BY <1>1, BytesFields
  <1> QED  BY <1>1, <1>3, <1>4, <1>5 DEF TellsTrue

\* After a run that nothing disturbed, every carrier of the tool's names the
\* bytes beside it and dates them by when they were put there (inventory.ts,
\* inject.ts): for every tree, every edit and every failed write before that run.
THEOREM CarriersAreTrue == AnnotationSpec => []CarriersTellTheTruth
  <1>1. AnnotationSpec => []AnnotationInv
    BY AnnotationInitOK, AnnotationNextOK, PTL DEF AnnotationSpec
  <1> QED  BY <1>1, FinalTells, PTL

TouchesOK == touches \in Nat

LEMMA TouchesAreCounted ==
    AnnotationSpec => []TouchesOK
  <1>1. AnnotationInit => TouchesOK
    BY DEF AnnotationInit, TouchesOK
  <1>2. TouchesOK /\ [AnnotationNext]_annotationVars => TouchesOK'
    BY DEF TouchesOK, AnnotationNext, annotationVars, StartAnnotation, Harvest, ObserveEntry,
           UpsertMember, Reobserve, WriteCarrier, WriteFails, Dies, EndAnnotation, Person, Still
  <1> QED  BY <1>1, <1>2, PTL DEF AnnotationSpec

LEMMA StepSettles ==
    ASSUME AnnotationInv, TouchesOK, [AnnotationNext]_annotationVars
    PROVE  /\ ~Idle /\ run.now = settled /\ touches' = touches => tree' = tree
           /\ \A e \in Entries :
                 Held(e) /\ touches' = touches => tree'[e].sidecar = tree[e].sidecar
  <1>1. SUFFICES ASSUME touches' = touches
                 PROVE  /\ ~Idle /\ run.now = settled => tree' = tree
                        /\ \A e \in Entries : Held(e) => tree'[e].sidecar = tree[e].sidecar
    OBVIOUS
  <1>2. CASE tree' = tree
    BY <1>2
  <1>3. CASE WriteCarrier
    <2>1. ~Idle /\ run.now = settled => settled # Absent
      <3>1. ~Idle => run.now \in Nows
        BY DEF AnnotationInv, AnnotationTypeOK, RunShape
      <3> QED  BY <3>1, AbsentAssumption
    <2> QED  BY <1>3, <2>1, WriteCarrierLeaves
  <1>4. CASE UpsertMember
    <2>1. At("member") /\ Here \in Entries /\ KindOf[Here] = "archive" /\ AnnotationTypeOK
          /\ RunShape /\ ~Idle
      BY <1>4, Looked DEF UpsertMember, AnnotationInv, AnnotationTypeOK, At, RunShape
    <2>2. CASE tree[Here].member = Embedded(Meta)
      BY <1>2, <1>4, <2>2 DEF UpsertMember, Keep
    <2>3. CASE tree[Here].member # Embedded(Meta)
      <3>1. Put(Here, Rewritten(Here, "member", Embedded(Meta)))
        BY <1>4, <2>3 DEF UpsertMember
      <3>2. Embedded(Meta) \in MemberRecords
        BY <2>1, EmbeddedFields, Looked
      <3>3. /\ OthersStand(Here)
            /\ tree'[Here] = Rewritten(Here, "member", Embedded(Meta))
            /\ tree'[Here].sidecar = tree[Here].sidecar
        BY <2>1, <3>1, <3>2, PutOne, RewrittenIs DEF SameBut
      <3>4. \A e \in Entries : tree'[e].sidecar = tree[e].sidecar
        <4>1. \A e \in Entries : tree[e] \in EntryRecords
          BY <2>1 DEF AnnotationTypeOK, Shaped
        <4> QED  BY <3>3, <4>1 DEF OthersStand, EntryRecords
      <3>5. ~(run.now = settled)
        <4>1. SUFFICES ASSUME run.now = settled PROVE FALSE
          OBVIOUS
        <4>2. settled # Absent
          BY <2>1, <4>1, AbsentAssumption DEF RunShape
        <4>3. IsFinal("archive", tree[Here], run.now) /\ Undisturbed
          BY <2>1, <4>1, <4>2 DEF AnnotationInv, SettledIsFinal, Undisturbed
        <4>4. Embedded(FinalMeta("archive", tree[Here], run.now)) = Embedded(Meta)
          BY <2>1, <4>3, Looked, ToldMeta
        <4> QED  BY <2>3, <4>3, <4>4 DEF IsFinal
      <3> QED  BY <3>4, <3>5
    <2> QED  BY <2>2, <2>3
  <1>5. CASE WriteFails \/ Dies \/ \E e \in Entries : Person(e)
    <2>1. touches' = touches + 1
      BY <1>5 DEF WriteFails, Dies, Person
    <2>2. touches \in Nat
      BY DEF TouchesOK
    <2> QED  BY <1>1, <2>1, <2>2
  <1>6. CASE \/ \E now \in Nows : StartAnnotation(now)
             \/ Harvest \/ ObserveEntry \/ Reobserve \/ EndAnnotation
             \/ UNCHANGED annotationVars
    <2>1. tree' = tree
      BY <1>6 DEF StartAnnotation, Harvest, ObserveEntry, Reobserve, EndAnnotation, Keep,
                  annotationVars
    <2> QED  BY <1>2, <2>1
  <1> QED  BY <1>3, <1>4, <1>5, <1>6 DEF AnnotationNext

\* One such run and the tree is at rest, until somebody touches it; and what
\* somebody wrote by hand beside a file or in a folder no run ever replaces
\* (ADR-060).
THEOREM OneRunSettles == AnnotationSpec => RunsSettle
  <1>1. AnnotationSpec => []AnnotationInv
    BY AnnotationInitOK, AnnotationNextOK, PTL DEF AnnotationSpec
  <1>2. AnnotationInv /\ TouchesOK /\ [AnnotationNext]_annotationVars =>
           [/\ ~Idle /\ run.now = settled /\ touches' = touches => tree' = tree
            /\ \A e \in Entries :
                  Held(e) /\ touches' = touches => tree'[e].sidecar = tree[e].sidecar
           ]_annotationVars
    BY StepSettles
  <1> QED  BY <1>1, <1>2, TouchesAreCounted, PTL DEF AnnotationSpec, RunsSettle

-----------------------------------------------------------------------------
(* The comment carriers: where a block is put is where it is looked for,   *)
(* and what is looked for is what was put.                                 *)

\* A text: its lines, and what ends them.
Ending == {"cr", "lf"}
LinesOf(Saying) == [says : Saying, ends : Seq(Ending)]
LineEnds == {<<"lf">>, <<"cr", "lf">>}

\* Only the last line of a text may lack its line feed.
Texts(Saying) ==
    {text \in Seq(LinesOf(Saying)) : \A n \in 1 .. Len(text) - 1 : Terminated(text[n])}

\* What a file type lets stand in front, and the lines that matter for where they stand.
Prologues == {"encoding-cookie", "php-open-tag", "xml-declaration", "css-charset",
              "dockerfile-directives", "none"}
Heralds == {"shebang", "cookie", "php", "xml", "xml opens", "xml and more", "charset",
            "charset and more", "directive", "end"}

\* The delimiters are lines of their own: none passes for one that must come first, and
\* a block ends where it is closed.
Forms(Saying) ==
    {form \in [open : Saying \ Heralds, close : Saying \ Heralds, line : BOOLEAN,
               inside : SUBSET Saying] :
        /\ \A n \in DOMAIN Header : Header[n] # form.close
        /\ form.line => \A n \in DOMAIN Header : Header[n] \in form.inside}

\* A file type tells the forms it was ever written in by how they open.
IsFileType(spec, Saying) ==
    /\ spec.prologue \in Prologues
    /\ spec.forms \in Seq(Forms(Saying)) /\ Len(spec.forms) > 0
    /\ \A j, k \in DOMAIN spec.forms : spec.forms[j].open = spec.forms[k].open => j = k

\* A block line by line, its last line open and ended.
BlockIs(block, ended, form, newline) ==
    /\ Len(block) = Len(Header) + 2 /\ Len(ended) = Len(Header) + 2
    /\ \A n \in 1 .. Len(Header) + 1 : ended[n] = block[n]
    /\ block[1] = Line(form.open, newline)
    /\ \A n \in DOMAIN Header : block[n + 1] = Line(Header[n], newline)
    /\ block[Len(Header) + 2] = Line(form.close, <<>>)
    /\ ended[Len(Header) + 2] = Line(form.close, newline)

LEMMA NewlineEnds ==
    ASSUME NEW nl \in LineEnds
    PROVE  nl \in Seq(Ending) /\ nl # <<>> /\ Last(nl) = "lf" /\ Len(nl) \in 1 .. 2
  <1>1. CASE nl = <<"lf">>
    BY <1>1 DEF Ending, Last
  <1>2. CASE nl = <<"cr", "lf">>
    BY <1>2 DEF Ending, Last
  <1> QED  BY <1>1, <1>2 DEF LineEnds

LEMMA Concatenated ==
    ASSUME NEW S, NEW a \in Seq(S), NEW b \in Seq(S)
    PROVE  /\ a \o b \in Seq(S)
           /\ Len(a \o b) = Len(a) + Len(b)
           /\ \A n \in 1 .. Len(a) : (a \o b)[n] = a[n]
           /\ \A n \in 1 .. Len(b) : (a \o b)[Len(a) + n] = b[n]
  OBVIOUS

LEMMA OtherEnds ==
    ASSUME NEW Saying, NEW line \in LinesOf(Saying), NEW ends
    PROVE  [line EXCEPT !.ends = ends] = [says |-> line.says, ends |-> ends]
  BY DEF LinesOf

LEMMA EndedLine ==
    ASSUME NEW Saying, NEW text \in Seq(LinesOf(Saying)), text # <<>>, NEW nl \in LineEnds
    PROVE  /\ EndedWith(text, nl) \in Seq(LinesOf(Saying))
           /\ Len(EndedWith(text, nl)) = Len(text)
           /\ \A n \in 1 .. Len(text) - 1 : EndedWith(text, nl)[n] = text[n]
           /\ EndedWith(text, nl)[Len(text)]
                = Line(text[Len(text)].says, text[Len(text)].ends \o nl)
           /\ Terminated(EndedWith(text, nl)[Len(text)])
  <1> DEFINE z == Len(text)
             ends == text[z].ends \o nl
  <1>1. nl \in Seq(Ending) /\ nl # <<>> /\ Last(nl) = "lf" /\ Len(nl) \in 1 .. 2
    BY NewlineEnds
  <1>2. z \in Nat \ {0} /\ text[z] \in LinesOf(Saying)
    OBVIOUS
  <1>3. text[z].ends \in Seq(Ending) /\ text[z].says \in Saying
        /\ text[z] = [says |-> text[z].says, ends |-> text[z].ends]
    BY <1>2 DEF LinesOf
  <1>4. ends \in Seq(Ending) /\ Len(ends) = Len(text[z].ends) + Len(nl)
        /\ ends[Len(ends)] = nl[Len(nl)]
    BY <1>1, <1>3
  <1>5. ends # <<>> /\ Last(ends) = "lf"
    BY <1>1, <1>3, <1>4 DEF Last
  <1>9. [text[z] EXCEPT !.ends = ends] = [says |-> text[z].says, ends |-> ends]
    BY <1>2, OtherEnds
  <1>6. EndedWith(text, nl) = [text EXCEPT ![z] = [says |-> text[z].says, ends |-> ends]]
    <2>1. EndedWith(text, nl) = [text EXCEPT ![z] = [text[z] EXCEPT !.ends = ends]]
      BY DEF EndedWith
    <2> QED  BY <2>1, <1>9
  <1>7. [says |-> text[z].says, ends |-> ends] \in LinesOf(Saying)
    BY <1>3, <1>4 DEF LinesOf
  <1> HIDE DEF ends
  <1> QED
    <2> DEFINE line == [says |-> text[z].says, ends |-> ends]
    <2>1. line.ends # <<>> /\ Last(line.ends) = "lf"
      BY <1>5
    <2>2. Terminated(line)
      BY <2>1 DEF Terminated
    <2>3. line \in LinesOf(Saying)
      BY <1>7
    <2>4. line = Line(text[z].says, text[z].ends \o nl)
      BY DEF Line, ends
    <2> HIDE DEF line
    <2> DEFINE e == EndedWith(text, nl)
    <2>5. e = [text EXCEPT ![z] = line]
      BY <1>6 DEF line
    <2> HIDE DEF e
    <2>6. e \in Seq(LinesOf(Saying)) /\ Len(e) = z
      BY <1>2, <2>3, <2>5
    <2>7. \A n \in 1 .. z - 1 : e[n] = text[n]
      BY <1>2, <2>5
    <2>8. e[z] = line
      BY <1>2, <2>5
    <2> QED  BY <2>2, <2>4, <2>6, <2>7, <2>8 DEF e

LEMMA BlockLines ==
    ASSUME NEW Saying, Header \in Seq(Saying), NEW form \in Forms(Saying), NEW nl \in LineEnds
    PROVE  /\ Block(form, nl) \in Seq(LinesOf(Saying))
           /\ EndedWith(Block(form, nl), nl) \in Seq(LinesOf(Saying))
           /\ BlockIs(Block(form, nl), EndedWith(Block(form, nl), nl), form, nl)
  <1> DEFINE H == Len(Header)
             first == <<Line(form.open, nl)>>
             middle == [n \in DOMAIN Header |-> Line(Header[n], nl)]
             last == <<Line(form.close, <<>>)>>
             b == Block(form, nl)
  <1>1. nl \in Seq(Ending) /\ form.open \in Saying /\ form.close \in Saying
    BY NewlineEnds DEF Forms
  <1>2. first \in Seq(LinesOf(Saying)) /\ last \in Seq(LinesOf(Saying))
        /\ Len(first) = 1 /\ Len(last) = 1
        /\ first[1] = Line(form.open, nl) /\ last[1] = Line(form.close, <<>>)
    BY <1>1 DEF LinesOf, Line
  <1>3. middle \in Seq(LinesOf(Saying)) /\ Len(middle) = H
        /\ \A n \in DOMAIN Header : middle[n] = Line(Header[n], nl)
    <2>1. DOMAIN Header = 1 .. H /\ H \in Nat
      OBVIOUS
    <2>2. \A n \in DOMAIN Header : Line(Header[n], nl) \in LinesOf(Saying)
      BY <1>1 DEF LinesOf, Line
    <2> QED  BY <2>1, <2>2
  <1>4. b = first \o middle \o last
    BY DEF Block
  <1> HIDE DEF first, middle, last, b
  <1> DEFINE front == first \o middle
             S == LinesOf(Saying)
  <1>0. H \in Nat /\ DOMAIN Header = 1 .. H
    OBVIOUS
  <1> HIDE DEF S, H
  <1>10. front \in Seq(S) /\ Len(front) = 1 + H
        /\ (\A n \in 1 .. 1 : front[n] = first[n])
        /\ \A n \in 1 .. H : front[1 + n] = middle[n]
    <2>1. first \in Seq(S) /\ middle \in Seq(S)
      BY <1>2, <1>3 DEF S
    <2>2. Len(first) = 1 /\ Len(middle) = H
      BY <1>2, <1>3
    <2>3. /\ front \in Seq(S) /\ Len(front) = Len(first) + Len(middle)
          /\ \A n \in 1 .. Len(first) : front[n] = first[n]
          /\ \A n \in 1 .. Len(middle) : front[Len(first) + n] = middle[n]
      BY <2>1, Concatenated
    <2> HIDE DEF front
    <2> QED  BY <2>2, <2>3
  <1> HIDE DEF front
  <1>11. b \in Seq(S) /\ Len(b) = 1 + H + 1
        /\ (\A n \in 1 .. 1 + H : b[n] = front[n])
        /\ \A n \in 1 .. 1 : b[1 + H + n] = last[n]
    <2>0. Len(front) = 1 + H /\ Len(last) = 1
      BY <1>2, <1>10
    <2>1. front \in Seq(S) /\ last \in Seq(S)
      BY <1>2, <1>10 DEF S
    <2>2. b = front \o last
      BY <1>4 DEF front
    <2>3. 1 + H \in Nat /\ Len(front) = 1 + H
      BY <1>0, <1>10
    <2>4. /\ front \o last \in Seq(S)
          /\ Len(front \o last) = Len(front) + Len(last)
          /\ \A n \in 1 .. Len(front) : (front \o last)[n] = front[n]
          /\ \A n \in 1 .. Len(last) : (front \o last)[Len(front) + n] = last[n]
      BY <2>1
    <2> QED  BY <2>0, <2>1, <2>2, <2>4, <1>0
  <1>5. b \in Seq(LinesOf(Saying)) /\ Len(b) = H + 2
    BY <1>0, <1>11 DEF S
  <1>6. b[1] = Line(form.open, nl) /\ b[H + 2] = Line(form.close, <<>>)
    <2>1. 1 \in 1 .. 1 /\ 1 \in 1 .. 1 + H /\ 1 + H + 1 = H + 2
      BY <1>0
    <2>2. b[1] = front[1] /\ front[1] = first[1] /\ b[1 + H + 1] = last[1]
      BY <2>1, <1>10, <1>11
    <2> QED  BY <2>1, <2>2, <1>2
  <1>7. ASSUME NEW n \in DOMAIN Header PROVE b[n + 1] = Line(Header[n], nl)
    <2>1. n \in 1 .. H /\ n + 1 \in 1 .. 1 + H /\ n + 1 = 1 + n
      BY <1>0
    <2>2. b[n + 1] = front[n + 1] /\ front[1 + n] = middle[n]
      BY <2>1, <1>10, <1>11
    <2> QED  BY <2>1, <2>2, <1>3
  <1>8. EndedWith(b, nl) \in Seq(LinesOf(Saying)) /\ Len(EndedWith(b, nl)) = H + 2
        /\ (\A n \in 1 .. H + 1 : EndedWith(b, nl)[n] = b[n])
        /\ EndedWith(b, nl)[H + 2] = Line(b[H + 2].says, b[H + 2].ends \o nl)
    <2>0. Len(b) = H + 2 /\ Len(b) - 1 = H + 1
      BY <1>0, <1>5
    <2>1. b \in Seq(LinesOf(Saying)) /\ b # <<>>
      BY <1>0, <1>5
    <2>2. /\ EndedWith(b, nl) \in Seq(LinesOf(Saying))
          /\ Len(EndedWith(b, nl)) = Len(b)
          /\ \A n \in 1 .. Len(b) - 1 : EndedWith(b, nl)[n] = b[n]
          /\ EndedWith(b, nl)[Len(b)] = Line(b[Len(b)].says, b[Len(b)].ends \o nl)
      BY <2>1, EndedLine
    <2> QED  BY <2>0, <2>2
  <1>9. b[H + 2].says = form.close /\ b[H + 2].ends \o nl = nl
    BY <1>6, <1>1 DEF Line
  <1> QED
    <2> SUFFICES /\ b \in Seq(LinesOf(Saying))
                 /\ EndedWith(b, nl) \in Seq(LinesOf(Saying))
                 /\ BlockIs(b, EndedWith(b, nl), form, nl)
      BY DEF b
    <2> QED  BY <1>5, <1>6, <1>7, <1>8, <1>9 DEF BlockIs, H

\* As many lines as a block has.
Size == Len(Header) + 2

\* A text with a block behind its first p lines: what came before says what it said,
\* and only the line a block follows may have been ended for it.
Laid(clean, text, p, form) ==
    /\ Len(text) = Len(clean) + Size /\ DOMAIN text = 1 .. Len(text)
    /\ \A n \in 1 .. p : /\ text[n].says = clean[n].says
                         /\ Exact(clean[n]) => Exact(text[n])
    /\ \A n \in 1 .. p - 1 : text[n] = clean[n]
    /\ p > 0 => Terminated(text[p])
    /\ text[p + 1].says = form.open /\ Terminated(text[p + 1])
    /\ \A n \in DOMAIN Header : text[p + 1 + n].says = Header[n]
    /\ text[p + Size].says = form.close

LEMMA TextLines ==
    ASSUME NEW Saying, NEW text \in Texts(Saying)
    PROVE  /\ text \in Seq(LinesOf(Saying)) /\ Len(text) \in Nat /\ DOMAIN text = 1 .. Len(text)
           /\ \A n \in 1 .. Len(text) : text[n] \in LinesOf(Saying)
           /\ \A n \in 1 .. Len(text) - 1 : Terminated(text[n])
  BY DEF Texts

LEMMA NewlineIs ==
    ASSUME NEW text
    PROVE  Newline(text) \in LineEnds
  BY DEF Newline, LineEnds

LEMMA TerminatedBy ==
    ASSUME NEW says, NEW nl \in LineEnds
    PROVE  Terminated(Line(says, nl))
  BY NewlineEnds DEF Terminated, Line

LEMMA EndingExactly ==
    ASSUME NEW Saying, NEW line \in LinesOf(Saying), NEW nl \in LineEnds,
           Exact(line), ~Terminated(line)
    PROVE  Exact(Line(line.says, line.ends \o nl))
  <1>1. line.ends = <<>>
    <2>1. Last(<<"lf">>) = "lf" /\ Last(<<"cr", "lf">>) = "lf"
      BY DEF Last
    <2>2. line.ends \in {<<>>, <<"lf">>, <<"cr", "lf">>}
      BY DEF Exact
    <2> QED  BY <2>1, <2>2 DEF Terminated
  <1>2. nl \in Seq(Ending)
    BY NewlineEnds
  <1>3. line.ends \o nl = nl
    BY <1>1, <1>2
  <1> QED  BY <1>3 DEF Exact, Line, LineEnds

\* Where a block is laid behind lines that it may end.
\* Written behind a last line that had no end of its own.
LEMMA BehindLaid ==
    ASSUME NEW Saying, Header \in Seq(Saying), NEW form \in Forms(Saying), NEW nl \in LineEnds,
           NEW clean \in Texts(Saying), Len(clean) > 0, ~Terminated(clean[Len(clean)])
    PROVE  /\ Laid(clean, EndedWith(clean, nl) \o Block(form, nl), Len(clean), form)
           /\ EndedWith(clean, nl) \o Block(form, nl) \in Seq(LinesOf(Saying))
           /\ \A n \in 1 .. Len(clean) :
                 (EndedWith(clean, nl) \o Block(form, nl))[n] = EndedWith(clean, nl)[n]
           /\ ~Terminated((EndedWith(clean, nl) \o Block(form, nl))[Len(clean) + Size])
  <1> DEFINE p == Len(clean)
             a == EndedWith(clean, nl)
             b == Block(form, nl)
             text == a \o b
  <1>1. clean \in Seq(LinesOf(Saying)) /\ p \in Nat /\ clean # <<>>
        /\ clean[p] \in LinesOf(Saying)
    BY TextLines
  <1>2. /\ a \in Seq(LinesOf(Saying)) /\ Len(a) = p
        /\ \A n \in 1 .. p - 1 : a[n] = clean[n]
        /\ a[p] = Line(clean[p].says, clean[p].ends \o nl)
        /\ Terminated(a[p])
    BY <1>1, EndedLine
  <1>3. b \in Seq(LinesOf(Saying)) /\ BlockIs(b, EndedWith(b, nl), form, nl)
    BY BlockLines
  <1>4. Exact(clean[p]) => Exact(a[p])
    BY <1>1, <1>2, EndingExactly
  <1>5. Len(Header) \in Nat /\ DOMAIN Header = 1 .. Len(Header)
    OBVIOUS
  <1> HIDE DEF a, b, p
  <1>6. /\ text \in Seq(LinesOf(Saying))
        /\ Len(text) = p + Len(b)
        /\ \A n \in 1 .. p : text[n] = a[n]
        /\ \A n \in 1 .. Len(b) : text[p + n] = b[n]
    <2>1. a \in Seq(LinesOf(Saying)) /\ b \in Seq(LinesOf(Saying))
      BY <1>2, <1>3
    <2>2. /\ a \o b \in Seq(LinesOf(Saying))
          /\ Len(a \o b) = Len(a) + Len(b)
          /\ \A n \in 1 .. Len(a) : (a \o b)[n] = a[n]
          /\ \A n \in 1 .. Len(b) : (a \o b)[Len(a) + n] = b[n]
      BY <2>1, Concatenated
    <2>3. Len(a) = p
      BY <1>2
    <2> QED  BY <2>2, <2>3
  <1>7. DOMAIN text = 1 .. Len(text)
    BY <1>6
  <1> HIDE DEF text
  <1>8. Len(b) = Size /\ Size \in Nat /\ Size = Len(Header) + 2
    BY <1>3, <1>5 DEF BlockIs, Size
  <1>9. \A n \in 1 .. p : /\ text[n].says = clean[n].says
                          /\ Exact(clean[n]) => Exact(text[n])
    <2> TAKE n \in 1 .. p
    <2>1. text[n] = a[n]
      BY <1>6
    <2>2. CASE n = p
      BY <2>1, <2>2, <1>2, <1>4 DEF Line
    <2>3. CASE n # p
      <3>1. n \in 1 .. p - 1
        BY <2>3, <1>1
      <3> QED  BY <2>1, <3>1, <1>2
    <2> QED  BY <2>2, <2>3
  <1>10. \A n \in 1 .. p - 1 : text[n] = clean[n]
    BY <1>1, <1>2, <1>6
  <1>11. Terminated(text[p])
    <2>1. p \in 1 .. p
      BY <1>1 DEF p
    <2> QED  BY <2>1, <1>2, <1>6
  <1>12. text[p + 1].says = form.open /\ Terminated(text[p + 1])
    <2>1. 1 \in 1 .. Len(b)
      BY <1>5, <1>8
    <2>2. text[p + 1] = Line(form.open, nl)
      BY <2>1, <1>3, <1>6 DEF BlockIs
    <2> QED  BY <2>2, TerminatedBy DEF Line
  <1>13. \A n \in DOMAIN Header : text[p + 1 + n].says = Header[n]
    <2> TAKE n \in DOMAIN Header
    <2>1. n + 1 \in 1 .. Len(b) /\ p + 1 + n = p + (n + 1)
      BY <1>1, <1>5, <1>8
    <2>2. text[p + 1 + n] = Line(Header[n], nl)
      BY <2>1, <1>3, <1>6 DEF BlockIs
    <2> QED  BY <2>2 DEF Line
  <1>14. text[p + Size].says = form.close /\ ~Terminated(text[p + Size])
    <2>1. Size \in 1 .. Len(b)
      BY <1>5, <1>8
    <2>2. text[p + Size] = Line(form.close, <<>>)
      BY <2>1, <1>3, <1>6, <1>8 DEF BlockIs
    <2> QED  BY <2>2 DEF Line, Terminated
  <1> SUFFICES /\ Laid(clean, text, p, form) /\ text \in Seq(LinesOf(Saying))
               /\ \A n \in 1 .. p : text[n] = a[n]
               /\ ~Terminated(text[p + Size])
    BY DEF text, a, b, p
  <1>15. Laid(clean, text, p, form)
    BY <1>6, <1>7, <1>8, <1>9, <1>10, <1>11, <1>12, <1>13, <1>14 DEF Laid, p
  <1> QED  BY <1>6, <1>14, <1>15

Between(clean, p, form, nl) ==
    SubSeq(clean, 1, p) \o EndedWith(Block(form, nl), nl) \o SubSeq(clean, p + 1, Len(clean))

\* Where it is laid between two halves, each line of which is ended.
\* Written between two lines, or in front of everything.
LEMMA BetweenLaid ==
    ASSUME NEW Saying, Header \in Seq(Saying), NEW form \in Forms(Saying), NEW nl \in LineEnds,
           NEW clean \in Texts(Saying), NEW p \in 0 .. Len(clean),
           p > 0 => Terminated(clean[p]),
           NEW text, text = Between(clean, p, form, nl)
    PROVE  /\ Laid(clean, text, p, form)
           /\ text \in Seq(LinesOf(Saying))
           /\ \A n \in 1 .. p : text[n] = clean[n]
           /\ \A n \in p + 1 .. Len(clean) : text[n + Size] = clean[n]
           /\ Terminated(text[p + Size])
  <1> DEFINE a == SubSeq(clean, 1, p)
             b == EndedWith(Block(form, nl), nl)
             c == SubSeq(clean, p + 1, Len(clean))
             S == LinesOf(Saying)
             ab == a \o b
  <1>1. clean \in Seq(S) /\ Len(clean) \in Nat /\ p \in Nat
    BY TextLines
  <1>2. b \in Seq(S) /\ BlockIs(Block(form, nl), b, form, nl)
    BY BlockLines
  <1>3. Len(Header) \in Nat /\ DOMAIN Header = 1 .. Len(Header)
    OBVIOUS
  <1>4. Len(b) = Size /\ Size \in Nat /\ Size = Len(Header) + 2
    BY <1>2, <1>3 DEF BlockIs, Size
  <1>5. a \in Seq(S) /\ Len(a) = p /\ \A n \in 1 .. p : a[n] = clean[n]
    BY <1>1
  <1>6. c \in Seq(S) /\ Len(c) = Len(clean) - p
        /\ \A n \in 1 .. Len(clean) - p : c[n] = clean[p + n]
    BY <1>1
  <1>0. Len(clean) \in Nat /\ p \in Nat /\ p <= Len(clean)
    BY <1>1
  <1> HIDE DEF a, b, c, S
  <1>7. /\ ab \in Seq(S)
        /\ Len(ab) = p + Size
        /\ \A n \in 1 .. p : ab[n] = a[n]
        /\ \A n \in 1 .. Size : ab[p + n] = b[n]
    <2>1. a \in Seq(S) /\ b \in Seq(S)
      BY <1>2, <1>5
    <2>2. /\ a \o b \in Seq(S)
          /\ Len(a \o b) = Len(a) + Len(b)
          /\ \A n \in 1 .. Len(a) : (a \o b)[n] = a[n]
          /\ \A n \in 1 .. Len(b) : (a \o b)[Len(a) + n] = b[n]
      BY <2>1, Concatenated
    <2> QED  BY <2>2, <1>4, <1>5
  <1> HIDE DEF ab
  <1>8. text = ab \o c
    BY DEF a, b, c, ab, Between
  <1>9. /\ text \in Seq(S)
        /\ Len(text) = p + Size + (Len(clean) - p)
        /\ \A n \in 1 .. p + Size : text[n] = ab[n]
        /\ \A n \in 1 .. Len(clean) - p : text[p + Size + n] = c[n]
    <2>1. ab \in Seq(S) /\ c \in Seq(S)
      BY <1>6, <1>7
    <2>2. /\ ab \o c \in Seq(S)
          /\ Len(ab \o c) = Len(ab) + Len(c)
          /\ \A n \in 1 .. Len(ab) : (ab \o c)[n] = ab[n]
          /\ \A n \in 1 .. Len(c) : (ab \o c)[Len(ab) + n] = c[n]
      BY <2>1, Concatenated
    <2> QED  BY <2>2, <1>6, <1>7, <1>8
  <1>10. DOMAIN text = 1 .. Len(text)
    BY <1>9
  <1>11. Len(text) = Len(clean) + Size
    <2>1. Len(text) = p + Size + (Len(clean) - p)
      BY <1>9
    <2>2. \A l, q, z \in Nat : q + z + (l - q) = l + z
      OBVIOUS
    <2>3. p + Size + (Len(clean) - p) = Len(clean) + Size
      BY <2>2, <1>0, <1>4
    <2> QED  BY <2>1, <2>3
  <1>12. \A n \in 1 .. p : text[n] = clean[n]
    <2> TAKE n \in 1 .. p
    <2>1. n \in 1 .. p + Size
      BY <1>1, <1>4
    <2> QED  BY <2>1, <1>5, <1>7, <1>9
  <1>13. \A n \in 1 .. Size : text[p + n] = b[n]
    <2> TAKE n \in 1 .. Size
    <2>1. p + n \in 1 .. p + Size
      BY <1>1, <1>4
    <2> QED  BY <2>1, <1>7, <1>9
  <1>14. \A n \in p + 1 .. Len(clean) : text[n + Size] = clean[n]
    <2> TAKE n \in p + 1 .. Len(clean)
    <2>1. n - p \in 1 .. Len(clean) - p /\ p + Size + (n - p) = n + Size /\ p + (n - p) = n
      BY <1>1, <1>4
    <2> QED  BY <2>1, <1>6, <1>9
  <1>15. text[p + 1].says = form.open /\ Terminated(text[p + 1])
    <2>1. 1 \in 1 .. Size /\ 1 \in 1 .. Len(Header) + 1
      BY <1>3, <1>4
    <2>2. text[p + 1] = Line(form.open, nl)
      BY <2>1, <1>2, <1>13 DEF BlockIs
    <2>3. Terminated(Line(form.open, nl)) /\ Line(form.open, nl).says = form.open
      BY TerminatedBy DEF Line
    <2> QED  BY <2>2, <2>3
  <1>16. \A n \in DOMAIN Header : text[p + 1 + n].says = Header[n]
    <2> TAKE n \in DOMAIN Header
    <2>1. n + 1 \in 1 .. Size /\ n + 1 \in 1 .. Len(Header) + 1 /\ p + 1 + n = p + (n + 1)
      BY <1>1, <1>3, <1>4
    <2>2. text[p + 1 + n] = Line(Header[n], nl)
      BY <2>1, <1>2, <1>13 DEF BlockIs
    <2>3. Line(Header[n], nl).says = Header[n]
      BY DEF Line
    <2> QED  BY <2>2, <2>3
  <1>17. text[p + Size].says = form.close /\ Terminated(text[p + Size])
    <2>1. Size \in 1 .. Size
      BY <1>3, <1>4
    <2>2. text[p + Size] = Line(form.close, nl)
      BY <2>1, <1>2, <1>13, <1>4 DEF BlockIs
    <2>3. Terminated(Line(form.close, nl)) /\ Line(form.close, nl).says = form.close
      BY TerminatedBy DEF Line
    <2> QED  BY <2>2, <2>3
  <1>18. \A n \in 1 .. p - 1 : text[n] = clean[n]
    <2> TAKE n \in 1 .. p - 1
    <2>1. n \in 1 .. p
      BY <1>0
    <2> QED  BY <2>1, <1>12
  <1>19. p > 0 => Terminated(text[p])
    <2>1. ASSUME p > 0 PROVE text[p] = clean[p]
      <3>1. p \in 1 .. p
        BY <2>1, <1>0
      <3> QED  BY <3>1, <1>12
    <2> QED  BY <2>1
  <1>20. Laid(clean, text, p, form)
    BY <1>10, <1>11, <1>12, <1>15, <1>16, <1>17, <1>18, <1>19 DEF Laid
  <1> QED  BY <1>9, <1>12, <1>14, <1>17, <1>20 DEF S

LEMMA LeastIs ==
    ASSUME NEW S \in SUBSET Nat, NEW x \in S, \A y \in S : x <= y
    PROVE  Min(S) = x
  <1>1. Min(S) \in S /\ \A y \in S : Min(S) <= y
    BY DEF Min
  <1>2. Min(S) <= x /\ x <= Min(S)
    BY <1>1
  <1>3. Min(S) \in Nat /\ x \in Nat
    BY <1>1
  <1> QED  BY <1>2, <1>3

LEMMA LeastOf ==
    ASSUME NEW S \in SUBSET Nat, S # {}
    PROVE  Min(S) \in S /\ \A y \in S : Min(S) <= y
  BY LeastNatural DEF Min

\* The m-th line closes the block behind p lines, for all that comes before it.
Closes(text, p, form, m) ==
    /\ text[m].says = form.close
    /\ \A i \in p + 2 .. m - 1 : form.line => text[i].says \in form.inside

\* A block that is laid is found where it is, by its own form.
\* A block that was laid is found, and no line of the metadata closes it.
LEMMA BlockFound ==
    ASSUME NEW Saying, Header \in Seq(Saying), NEW form \in Forms(Saying),
           NEW clean, NEW text, NEW p \in Nat, Len(clean) \in Nat, p <= Len(clean),
           Laid(clean, text, p, form)
    PROVE  /\ BlockEnd(text, p, form) = p + Size
           /\ Says(text, p + 1) = form.open
           /\ p + Size \in Nat
  <1> DEFINE closes == {m \in p + 2 .. Len(text) : Closes(text, p, form, m)}
  <1>1. Len(Header) \in Nat /\ DOMAIN Header = 1 .. Len(Header) /\ Size = Len(Header) + 2
    BY DEF Size
  <1>2. Len(text) = Len(clean) + Size /\ DOMAIN text = 1 .. Len(text)
    BY DEF Laid
  <1>3. text[p + 1].says = form.open /\ Terminated(text[p + 1])
    BY DEF Laid
  <1>4. \A i \in p + 2 .. (p + Size) - 1 : /\ i - p - 1 \in DOMAIN Header
                                         /\ text[i].says = Header[i - p - 1]
    <2> TAKE i \in p + 2 .. (p + Size) - 1
    <2>1. i - p - 1 \in DOMAIN Header /\ p + 1 + (i - p - 1) = i
      BY <1>1
    <2> QED  BY <2>1 DEF Laid
  <1>5. \A n \in DOMAIN Header : /\ Header[n] # form.close
                                 /\ form.line => Header[n] \in form.inside
    BY DEF Forms
  <1>6. p + Size \in p + 2 .. Len(text) /\ p + Size \in Nat /\ p + 1 \in 1 .. Len(text)
    BY <1>1, <1>2
  <1>7. p + Size \in closes
    <2>1. text[p + Size].says = form.close
      BY DEF Laid
    <2>2. \A i \in p + 2 .. (p + Size) - 1 : form.line => text[i].says \in form.inside
      BY <1>4, <1>5
    <2>3. p + Size \in p + 2 .. Len(text)
      BY <1>6
    <2>4. Closes(text, p, form, p + Size)
      BY <2>1, <2>2 DEF Closes
    <2> QED  BY <2>3, <2>4
  <1>8. \A m \in closes : p + Size <= m
    <2> SUFFICES ASSUME NEW m \in p + 2 .. Len(text), text[m].says = form.close
                 PROVE  p + Size <= m
      BY DEF Closes
    <2>1. m \notin p + 2 .. (p + Size) - 1
      BY <1>4, <1>5
    <2>2. m \in Int /\ m >= p + 2
      BY <1>1, <1>2
    <2> QED  BY <2>1, <2>2, <1>1
  <1>9. closes \in SUBSET Nat
    BY <1>1, <1>2
  <1> HIDE DEF closes
  <1>10. Min(closes) = p + Size
    BY <1>7, <1>8, <1>9, LeastIs
  <1>11. Says(text, p + 1) = form.open
    BY <1>2, <1>3, <1>6 DEF Says
  <1>12. BlockEnd(text, p, form) = IF Says(text, p + 1) = form.open /\ Terminated(text[p + 1])
                                      /\ closes # {}
                                   THEN Min(closes) ELSE Nowhere
    BY DEF BlockEnd, closes, Closes
  <1> QED  BY <1>3, <1>6, <1>7, <1>10, <1>11, <1>12

\* A form that opens otherwise finds nothing.
LEMMA OtherOpens ==
    ASSUME NEW text, NEW p, NEW form, Says(text, p + 1) # form.open
    PROVE  BlockEnd(text, p, form) = Nowhere
  BY DEF BlockEnd

\* FindHeadBlock takes the first span that is a block.
LEMMA FirstHit ==
    ASSUME NEW R, NEW spans \in Seq(R), NEW n \in DOMAIN spans, spans[n].to # Nowhere,
           \A m \in DOMAIN spans : m < n => spans[m].to = Nowhere
    PROVE  /\ {m \in DOMAIN spans : spans[m].to # Nowhere} # {}
           /\ Min({m \in DOMAIN spans : spans[m].to # Nowhere}) = n
  <1> DEFINE hits == {m \in DOMAIN spans : spans[m].to # Nowhere}
  <1>1. hits \in SUBSET Nat /\ n \in hits
    OBVIOUS
  <1>2. \A m \in hits : n <= m
    OBVIOUS
  <1> HIDE DEF hits
  <1>3. Min(hits) = n
    BY <1>1, <1>2, LeastIs
  <1> QED  BY <1>1, <1>3 DEF hits

\* What FindHeadBlock looks through, in its order.
SpansOf(text, start, forms) ==
    [k \in DOMAIN forms |-> [from |-> start, to |-> BlockEnd(text, start, forms[k])]]

Behind(text, spec) ==
    LET p == CarrierPosition(text, spec)
    IN  IF p # Nowhere /\ p > 0 /\ Terminated(text[p]) THEN SpansOf(text, p, spec.forms) ELSE <<>>

AllSpans(text, spec) == Behind(text, spec) \o SpansOf(text, 0, spec.forms)

LEMMA SpansAreSpans ==
    ASSUME NEW F, NEW forms \in Seq(F), NEW text, NEW start
    PROVE  /\ SpansOf(text, start, forms) \in Seq(Range(SpansOf(text, start, forms)))
           /\ Len(SpansOf(text, start, forms)) = Len(forms)
           /\ DOMAIN SpansOf(text, start, forms) = 1 .. Len(forms)
           /\ \A k \in 1 .. Len(forms) :
                 SpansOf(text, start, forms)[k]
                    = [from |-> start, to |-> BlockEnd(text, start, forms[k])]
  <1> DEFINE s == SpansOf(text, start, forms)
  <1>1. DOMAIN forms = 1 .. Len(forms) /\ Len(forms) \in Nat
    OBVIOUS
  <1>2. s = [k \in 1 .. Len(forms) |-> [from |-> start, to |-> BlockEnd(text, start, forms[k])]]
    BY <1>1 DEF SpansOf
  <1>3. \A k \in 1 .. Len(forms) : s[k] \in Range(s)
    BY <1>2 DEF Range
  <1>4. s \in [1 .. Len(forms) -> Range(s)]
    <2> HIDE DEF s
    <2> QED  BY <1>2, <1>3
  <1> HIDE DEF s
  <1>5. s \in Seq(Range(s)) /\ Len(s) = Len(forms)
    BY <1>1, <1>4
  <1> QED  BY <1>2, <1>5 DEF s

\* FindHeadBlock looks here before it looks anywhere else.
LooksFirst(text, spec, start) ==
    \/ /\ start = CarrierPosition(text, spec)
       /\ start # Nowhere /\ start > 0 /\ Terminated(text[start])
    \/ start = 0 /\ Behind(text, spec) = <<>>

\* The first block found, form by form, behind the prologue and then at the start.
LEMMA HeadIsFirstHit ==
    ASSUME NEW F, NEW spec, spec.forms \in Seq(F), NEW text, NEW start,
           NEW k \in 1 .. Len(spec.forms), NEW e \in Nat,
           BlockEnd(text, start, spec.forms[k]) = e,
           \A j \in 1 .. k - 1 : BlockEnd(text, start, spec.forms[j]) = Nowhere,
           LooksFirst(text, spec, start)
    PROVE  FindHeadBlock(text, spec) = [from |-> start, to |-> e]
  <1> DEFINE zero == SpansOf(text, 0, spec.forms)
             behind == Behind(text, spec)
             spans == AllSpans(text, spec)
             here == SpansOf(text, start, spec.forms)
             R == Range(zero) \cup Range(here)
  <1>1. /\ here \in Seq(Range(here)) /\ Len(here) = Len(spec.forms)
        /\ DOMAIN here = 1 .. Len(spec.forms)
        /\ \A j \in 1 .. Len(spec.forms) :
              here[j] = [from |-> start, to |-> BlockEnd(text, start, spec.forms[j])]
    BY SpansAreSpans
  <1>2. zero \in Seq(Range(zero))
    BY SpansAreSpans
  <1>3. Len(spec.forms) \in Nat
    OBVIOUS
  <1>4. FindHeadBlock(text, spec)
          = IF {m \in DOMAIN spans : spans[m].to # Nowhere} = {} THEN Nowhere
            ELSE spans[Min({m \in DOMAIN spans : spans[m].to # Nowhere})]
    BY DEF FindHeadBlock, AllSpans, Behind, SpansOf
  <1>5. \/ behind = here
        \/ behind = <<>> /\ here = zero
    BY DEF Behind, LooksFirst
  <1>6. spans = behind \o zero
    BY DEF AllSpans
  <1> HIDE DEF zero, behind, here, spans
  <1>7. here \in Seq(R) /\ zero \in Seq(R)
    BY <1>1, <1>2
  <1> HIDE DEF R
  <1>8. /\ spans \in Seq(R) /\ k \in DOMAIN spans
        /\ \A j \in 1 .. k : spans[j] = here[j]
    <2>1. k \in Nat /\ k <= Len(spec.forms)
      BY <1>3
    <2>2. CASE behind = here
      BY <1>1, <1>6, <1>7, <2>1, <2>2
    <2>3. CASE behind = <<>> /\ here = zero
      <3>1. spans = here
        BY <1>6, <1>7, <2>3
      <3> QED  BY <3>1, <1>1, <1>7, <2>1
    <2> QED  BY <1>5, <2>2, <2>3
  <1>9. spans[k] = [from |-> start, to |-> e]
    <2>1. k \in 1 .. k
      BY <1>3
    <2> QED  BY <2>1, <1>1, <1>8
  <1>10. \A m \in DOMAIN spans : m < k => spans[m].to = Nowhere
    <2> SUFFICES ASSUME NEW m \in DOMAIN spans, m < k PROVE spans[m].to = Nowhere
      OBVIOUS
    <2>1. DOMAIN spans = 1 .. Len(spans)
      BY <1>8
    <2>2. m \in 1 .. k - 1 /\ m \in 1 .. k /\ m \in 1 .. Len(spec.forms)
      BY <2>1, <1>3
    <2>3. spans[m] = [from |-> start, to |-> BlockEnd(text, start, spec.forms[m])]
      BY <2>2, <1>1, <1>8
    <2> QED  BY <2>2, <2>3
  <1>11. spans[k].to # Nowhere
    BY <1>9, NowhereAssumption
  <1>12. /\ {m \in DOMAIN spans : spans[m].to # Nowhere} # {}
         /\ Min({m \in DOMAIN spans : spans[m].to # Nowhere}) = k
    BY <1>8, <1>10, <1>11, FirstHit
  <1> QED  BY <1>4, <1>9, <1>12

\* The first line of the metadata is no cookie.
HeaderFits(Saying) ==
    Header \in Seq(Saying) /\ (Header # <<>> => Header[1] # "cookie")

\* A text that begins as another does, and goes on with what no rule asks for.
BeginsAs(text, clean, p) ==
    /\ \A n \in 1 .. p : /\ n \in DOMAIN text /\ n \in DOMAIN clean
                         /\ text[n].says = clean[n].says
                         /\ Exact(clean[n]) => Exact(text[n])
    /\ \A n \in 1 .. p - 1 : text[n] = clean[n]
    /\ Says(text, p + 1) \notin Heralds
    /\ Says(text, p + 2) # "cookie"

\* The words themselves, for the proofs to cite.
LEMMA HeraldsAre ==
    /\ "shebang" \in Heralds /\ "cookie" \in Heralds /\ "php" \in Heralds /\ "xml" \in Heralds
    /\ "xml opens" \in Heralds /\ "xml and more" \in Heralds /\ "charset" \in Heralds
    /\ "charset and more" \in Heralds /\ "directive" \in Heralds
  BY DEF Heralds

LEMMA ShebangIs ==
    ASSUME NEW text
    PROVE  /\ Shebang(text) = 0 \/ Shebang(text) = 1
           /\ Shebang(text) = 1 => Says(text, 1) = "shebang"
           /\ Says(text, 1) = "shebang" => Shebang(text) = 1
           /\ Says(text, 1) \notin Heralds => Shebang(text) = 0
  <1>1. CASE Says(text, 1) = "shebang"
    <2>1. Shebang(text) = 1
      BY <1>1 DEF Shebang
    <2>2. Says(text, 1) \in Heralds
      BY <1>1, HeraldsAre
    <2> QED  BY <1>1, <2>1, <2>2
  <1>2. CASE Says(text, 1) # "shebang"
    <2>1. Shebang(text) = 0
      BY <1>2 DEF Shebang
    <2> QED  BY <1>2, <2>1
  <1> QED  BY <1>1, <1>2

\* To the rules about beginnings, a text with a block in it begins as it did without.
LEMMA LaidBegins ==
    ASSUME NEW Saying, HeaderFits(Saying), NEW form \in Forms(Saying),
           NEW clean, NEW text, NEW p \in Nat, Len(clean) \in Nat, p <= Len(clean),
           DOMAIN clean = 1 .. Len(clean), Laid(clean, text, p, form)
    PROVE  BeginsAs(text, clean, p)
  <1>1. Len(Header) \in Nat /\ DOMAIN Header = 1 .. Len(Header) /\ Size = Len(Header) + 2
    BY DEF Size, HeaderFits
  <1>2. Len(text) = Len(clean) + Size /\ DOMAIN text = 1 .. Len(clean) + Size
    BY DEF Laid
  <1>3. \A n \in 1 .. p : n \in DOMAIN text /\ n \in DOMAIN clean
    BY <1>1, <1>2
  <1>5. p + 1 \in DOMAIN text /\ p + 2 \in DOMAIN text
    BY <1>1, <1>2
  <1>6. Says(text, p + 1) \notin Heralds
    <2>1. Says(text, p + 1) = form.open
      BY <1>5 DEF Says, Laid
    <2>2. form.open \in Saying \ Heralds
      BY DEF Forms
    <2> QED  BY <2>1, <2>2
  <1>7. Says(text, p + 2) # "cookie"
    <2>1. CASE Header = <<>>
      <3>1. p + 2 = p + Size
        BY <2>1, <1>1
      <3>2. text[p + 2].says = form.close
        BY <3>1 DEF Laid
      <3>3. form.close # "cookie"
        BY DEF Forms, Heralds
      <3> QED  BY <1>5, <3>2, <3>3 DEF Says
    <2>2. CASE Header # <<>>
      <3>1. 1 \in DOMAIN Header /\ p + 1 + 1 = p + 2
        BY <2>2, <1>1 DEF HeaderFits
      <3>2. text[p + 1 + 1].says = Header[1]
        BY <3>1 DEF Laid
      <3>3. Header[1] # "cookie"
        BY <2>2 DEF HeaderFits
      <3> QED  BY <1>5, <3>1, <3>2, <3>3 DEF Says
    <2> QED  BY <2>1, <2>2
  <1>8. \A n \in 1 .. p : /\ text[n].says = clean[n].says
                          /\ Exact(clean[n]) => Exact(text[n])
    BY DEF Laid
  <1>9. \A n \in 1 .. p - 1 : text[n] = clean[n]
    BY DEF Laid
  <1> QED  BY <1>3, <1>6, <1>7, <1>8, <1>9 DEF BeginsAs

\* What its first lines say.
LEMMA Beginnings ==
    ASSUME NEW clean, NEW text, NEW p \in Nat, BeginsAs(text, clean, p)
    PROVE  /\ \A n \in 1 .. p : Says(text, n) = Says(clean, n)
           /\ p # 0 => Shebang(text) = Shebang(clean)
           /\ p = 0 => Shebang(text) = 0
           /\ p = 0 => Says(text, 1) \notin Heralds
           /\ p = 0 => Says(text, 2) # "cookie"
           /\ p = 1 => Says(text, 2) \notin Heralds
           /\ p = 1 => Says(text, 1) = Says(clean, 1)
           /\ p = 2 => Says(text, 2) = Says(clean, 2)
           /\ p = 2 => Says(text, 1) = Says(clean, 1)
  <1>1. \A n \in 1 .. p : Says(text, n) = Says(clean, n)
    BY DEF BeginsAs, Says
  <1>2. p # 0 => Says(text, 1) = Says(clean, 1)
    BY <1>1
  <1>3. p # 0 => Shebang(text) = Shebang(clean)
    BY <1>2 DEF Shebang
  <1>4. p = 0 => Says(text, 1) \notin Heralds
    BY DEF BeginsAs
  <1>5. p = 0 => Shebang(text) = 0
    BY <1>4, ShebangIs
  <1>6. p = 0 => Says(text, 2) # "cookie"
    BY DEF BeginsAs
  <1>7. p = 1 => Says(text, 2) \notin Heralds
    BY DEF BeginsAs
  <1>8. p = 2 => Says(text, 2) = Says(clean, 2)
    BY <1>1
  <1> QED  BY <1>1, <1>2, <1>3, <1>4, <1>5, <1>6, <1>7, <1>8

\* PEP 263's second line.
SecondIsCookie(lines, comments) ==
    /\ Shebang(lines) = 0 /\ Says(lines, 2) = "cookie"
    /\ lines[1].says \in comments \cup {"blank"} /\ Exact(lines[1])

LEMMA CookieIs ==
    ASSUME NEW lines, NEW comments
    PROVE  LET n == Shebang(lines)
           IN  /\ Says(lines, n + 1) = "cookie" => BehindCookie(lines, comments) = n + 1
               /\ Says(lines, n + 1) # "cookie" /\ SecondIsCookie(lines, comments)
                    => BehindCookie(lines, comments) = 2
               /\ Says(lines, n + 1) # "cookie" /\ ~SecondIsCookie(lines, comments)
                    => BehindCookie(lines, comments) = n
  BY DEF BehindCookie, SecondIsCookie

\* The cookie's rule finds the same lines in front, with the block and without.
LEMMA CookieKept ==
    ASSUME NEW clean, NEW text, NEW p \in Nat, BeginsAs(text, clean, p),
           NEW comments, BehindCookie(clean, comments) = p
    PROVE  BehindCookie(text, comments) = p
  <1>1. CASE Shebang(clean) = 0 /\ Says(clean, 1) = "cookie"
    <2>1. p = 1
      BY <1>1, CookieIs
    <2>2. Shebang(text) = 0 /\ Says(text, 1) = "cookie"
      BY <1>1, <2>1, Beginnings
    <2> QED  BY <2>1, <2>2, CookieIs
  <1>2. CASE Shebang(clean) = 1 /\ Says(clean, 2) = "cookie"
    <2>1. p = 2
      BY <1>2, CookieIs
    <2>2. Shebang(text) = 1 /\ Says(text, 2) = "cookie"
      BY <1>2, <2>1, Beginnings
    <2> QED  BY <2>1, <2>2, CookieIs
  <1>3. CASE Shebang(clean) = 0 /\ Says(clean, 1) # "cookie" /\ SecondIsCookie(clean, comments)
    <2>1. p = 2
      BY <1>3, CookieIs
    <2>2. Shebang(text) = 0 /\ Says(text, 2) = Says(clean, 2) /\ Says(text, 1) = Says(clean, 1)
      BY <1>3, <2>1, Beginnings
    <2>3. text[1] = clean[1]
      <3>1. 1 \in 1 .. p - 1
        BY <2>1
      <3> QED  BY <3>1 DEF BeginsAs
    <2>4. SecondIsCookie(text, comments)
      BY <1>3, <2>2, <2>3 DEF SecondIsCookie
    <2> QED  BY <1>3, <2>1, <2>2, <2>4, CookieIs
  <1>4. CASE Shebang(clean) = 0 /\ Says(clean, 1) # "cookie" /\ ~SecondIsCookie(clean, comments)
    <2>1. p = 0
      BY <1>4, CookieIs
    <2>2. Shebang(text) = 0 /\ Says(text, 1) # "cookie" /\ Says(text, 2) # "cookie"
      BY <2>1, Beginnings, HeraldsAre
    <2>3. ~SecondIsCookie(text, comments)
      BY <2>2 DEF SecondIsCookie
    <2> QED  BY <2>1, <2>2, <2>3, CookieIs
  <1>5. CASE Shebang(clean) = 1 /\ Says(clean, 2) # "cookie"
    <2>1. ~SecondIsCookie(clean, comments)
      BY <1>5 DEF SecondIsCookie
    <2>2. p = 1
      BY <1>5, <2>1, CookieIs
    <2>3. Shebang(text) = 1 /\ Says(text, 2) # "cookie"
      BY <1>5, <2>2, Beginnings, HeraldsAre
    <2>4. ~SecondIsCookie(text, comments)
      BY <2>3 DEF SecondIsCookie
    <2> QED  BY <2>2, <2>3, <2>4, CookieIs
  <1> QED  BY <1>1, <1>2, <1>3, <1>4, <1>5, ShebangIs

LEMMA PhpTagIs ==
    ASSUME NEW lines, NEW n, n = Shebang(lines) + 1
    PROVE  /\ Says(lines, n) = "php" /\ Exact(lines[n]) => BehindPhpTag(lines) = n
           /\ ~(Says(lines, n) = "php" /\ Exact(lines[n])) => BehindPhpTag(lines) = Nowhere
  BY DEF BehindPhpTag

\* So does the opening tag's rule.
LEMMA PhpTagKept ==
    ASSUME NEW clean, NEW text, NEW p \in Nat, BeginsAs(text, clean, p), BehindPhpTag(clean) = p
    PROVE  BehindPhpTag(text) = p
  <1>1. p # Nowhere
    BY NowhereAssumption
  <1>2. PICK n : n = Shebang(clean) + 1
    OBVIOUS
  <1>3. Says(clean, n) = "php" /\ Exact(clean[n]) /\ p = n
    BY <1>1, <1>2, PhpTagIs
  <1>4. p # 0 /\ p \in 1 .. p
    BY <1>2, <1>3, ShebangIs
  <1>5. Says(text, p) = Says(clean, p) /\ Shebang(text) = Shebang(clean)
    BY <1>4, Beginnings
  <1>6. Exact(text[p])
    BY <1>3, <1>4 DEF BeginsAs
  <1> QED  BY <1>2, <1>3, <1>5, <1>6, PhpTagIs

LEMMA CharsetIs ==
    ASSUME NEW lines
    PROVE  /\ Says(lines, 1) \notin {"charset", "charset and more"}
                => BehindCharset(lines) = Shebang(lines)
           /\ Says(lines, 1) = "charset" /\ Exact(lines[1]) => BehindCharset(lines) = 1
           /\ Says(lines, 1) = "charset" /\ ~Exact(lines[1]) => BehindCharset(lines) = Nowhere
           /\ Says(lines, 1) = "charset and more" => BehindCharset(lines) = Nowhere
           /\ Says(lines, 1) \notin Heralds => BehindCharset(lines) = 0
  <1>1. Says(lines, 1) \notin {"charset", "charset and more"}
          => BehindCharset(lines) = Shebang(lines)
    BY DEF BehindCharset
  <1>2. Says(lines, 1) \notin Heralds => BehindCharset(lines) = 0
    BY <1>1, HeraldsAre, ShebangIs
  <1>3. ASSUME Says(lines, 1) = "charset" \/ Says(lines, 1) = "charset and more"
        PROVE  Says(lines, 1) = lines[1].says
    BY <1>3 DEF Says
  <1>4. Says(lines, 1) = "charset" /\ Exact(lines[1]) => BehindCharset(lines) = 1
    BY <1>3 DEF BehindCharset
  <1>5. Says(lines, 1) = "charset" /\ ~Exact(lines[1]) => BehindCharset(lines) = Nowhere
    BY <1>3 DEF BehindCharset
  <1>6. Says(lines, 1) = "charset and more" => BehindCharset(lines) = Nowhere
    BY <1>3 DEF BehindCharset
  <1> QED  BY <1>1, <1>2, <1>4, <1>5, <1>6

\* So does the charset's rule.
LEMMA CharsetKept ==
    ASSUME NEW clean, NEW text, NEW p \in Nat, BeginsAs(text, clean, p), BehindCharset(clean) = p
    PROVE  BehindCharset(text) = p
  <1>1. p # Nowhere
    BY NowhereAssumption
  <1>2. CASE Says(clean, 1) \notin {"charset", "charset and more"}
    <2>1. p = Shebang(clean)
      BY <1>2, CharsetIs
    <2>2. CASE p = 0
      <3>1. Says(text, 1) \notin Heralds
        BY <2>2, Beginnings
      <3> QED  BY <2>2, <3>1, CharsetIs
    <2>3. CASE p = 1
      <3>1. Says(text, 1) = Says(clean, 1) /\ Shebang(text) = Shebang(clean)
        BY <2>3, Beginnings
      <3> QED  BY <2>1, <2>3, <3>1, <1>2, CharsetIs
    <2> QED  BY <2>1, <2>2, <2>3, ShebangIs
  <1>3. CASE Says(clean, 1) = "charset" \/ Says(clean, 1) = "charset and more"
    <2>1. Says(clean, 1) = "charset" /\ Exact(clean[1])
      BY <1>1, <1>3, CharsetIs
    <2>2. p = 1
      BY <2>1, CharsetIs
    <2>3. Says(text, 1) = "charset"
      BY <2>1, <2>2, Beginnings
    <2>4. Exact(text[1])
      <3>1. 1 \in 1 .. p
        BY <2>2
      <3> QED  BY <2>1, <3>1 DEF BeginsAs
    <2> QED  BY <2>2, <2>3, <2>4, CharsetIs
  <1> QED  BY <1>2, <1>3

LEMMA GreatestOf ==
    ASSUME NEW l \in Nat, NEW S \in SUBSET (0 .. l + 1), S # {}
    PROVE  Max(S) \in S /\ \A y \in S : y <= Max(S)
  <1> DEFINE below == {l + 1 - x : x \in S}
  <1>1. below \in SUBSET Nat /\ below # {}
    <2>1. \A x \in S : l + 1 - x \in Nat
      OBVIOUS
    <2>2. \A y \in below : y \in Nat
      BY <2>1
    <2>3. below # {}
      OBVIOUS
    <2> HIDE DEF below
    <2> QED  BY <2>2, <2>3
  <1>2. PICK b \in below : \A c \in below : b <= c
    <2> HIDE DEF below
    <2> QED  BY <1>1, LeastNatural
  <1>3. PICK x \in S : b = l + 1 - x
    BY <1>2
  <1>4. ASSUME NEW y \in S
        PROVE  x >= y
    <2>1. l + 1 - y \in below /\ x \in 0 .. l + 1 /\ y \in 0 .. l + 1
      OBVIOUS
    <2>2. l + 1 - x <= l + 1 - y
      <3> HIDE DEF below
      <3> QED  BY <1>2, <1>3, <2>1
    <2> QED  BY <2>1, <2>2
  <1>5. Max(S) \in S /\ \A y \in S : Max(S) >= y
    BY <1>3, <1>4 DEF Max
  <1> QED  BY <1>5

\* The first line that closes a declaration, if any.
ClosedAt(lines) == {n \in DOMAIN lines : lines[n].says \in {"xml", "?>", "xml and more"}}
Declared(lines) == Says(lines, 1) \in {"xml", "xml opens", "xml and more"}

LEMMA DeclarationIs ==
    ASSUME NEW lines
    PROVE  /\ ~Declared(lines) => BehindXmlDeclaration(lines) = Shebang(lines)
           /\ Declared(lines) /\ ClosedAt(lines) # {}
                /\ lines[Min(ClosedAt(lines))].says # "xml and more"
                /\ Exact(lines[Min(ClosedAt(lines))])
                => BehindXmlDeclaration(lines) = Min(ClosedAt(lines))
           /\ Declared(lines) /\ ~(/\ ClosedAt(lines) # {}
                                   /\ lines[Min(ClosedAt(lines))].says # "xml and more"
                                   /\ Exact(lines[Min(ClosedAt(lines))]))
                => BehindXmlDeclaration(lines) = Nowhere
  BY DEF BehindXmlDeclaration, Declared, ClosedAt

LEMMA NotDeclared ==
    ASSUME NEW lines, Says(lines, 1) \notin Heralds
    PROVE  ~Declared(lines)
  BY HeraldsAre DEF Declared

\* So does the XML declaration's rule.
LEMMA XmlDeclarationKept ==
    ASSUME NEW clean, NEW text, NEW p \in Nat, BeginsAs(text, clean, p),
           BehindXmlDeclaration(clean) = p,
           DOMAIN clean \in SUBSET (Nat \ {0}), DOMAIN text \in SUBSET (Nat \ {0})
    PROVE  BehindXmlDeclaration(text) = p
  <1>1. p # Nowhere
    BY NowhereAssumption
  <1>2. CASE ~Declared(clean)
    <2>1. p = Shebang(clean)
      BY <1>2, DeclarationIs
    <2>2. CASE p = 0
      <3>1. Shebang(text) = 0 /\ ~Declared(text)
        BY <2>2, Beginnings, NotDeclared
      <3> QED  BY <2>2, <3>1, DeclarationIs
    <2>3. CASE p = 1
      <3>1. Says(text, 1) = Says(clean, 1) /\ Shebang(text) = Shebang(clean)
        BY <2>3, Beginnings
      <3>2. ~Declared(text)
        BY <1>2, <3>1 DEF Declared
      <3> QED  BY <2>1, <2>3, <3>1, <3>2, DeclarationIs
    <2> QED  BY <2>1, <2>2, <2>3, ShebangIs
  <1>3. CASE Declared(clean)
    <2>1. /\ ClosedAt(clean) # {} /\ p = Min(ClosedAt(clean))
          /\ clean[p].says # "xml and more" /\ Exact(clean[p])
      BY <1>1, <1>3, DeclarationIs
    <2>2. ClosedAt(clean) \in SUBSET Nat
      BY DEF ClosedAt
    <2>3. p \in ClosedAt(clean) /\ \A n \in ClosedAt(clean) : p <= n
      BY <2>1, <2>2, LeastOf
    <2>4. p \in DOMAIN clean /\ p # 0 /\ p \in 1 .. p
      <3>1. p \in DOMAIN clean
        BY <2>3 DEF ClosedAt
      <3>2. p \in Nat \ {0}
        BY <3>1
      <3> QED  BY <3>1, <3>2
    <2>5. /\ \A n \in 1 .. p : n \in DOMAIN text /\ n \in DOMAIN clean /\ text[n].says = clean[n].says
          /\ Exact(clean[p]) => Exact(text[p])
      BY <2>4 DEF BeginsAs
    <2>6. p \in ClosedAt(text)
      BY <2>3, <2>4, <2>5 DEF ClosedAt
    <2>7. ASSUME NEW n \in ClosedAt(text) PROVE p <= n
      <3>1. n \in Nat \ {0} /\ n \in DOMAIN text
        BY DEF ClosedAt
      <3>2. ASSUME n < p PROVE FALSE
        <4>1. n \in 1 .. p
          BY <3>1, <3>2
        <4>2. n \in ClosedAt(clean)
          BY <2>5, <4>1 DEF ClosedAt
        <4>3. p <= n
          BY <2>3, <4>2
        <4> QED  BY <3>1, <3>2, <4>3
      <3> QED  BY <3>1, <3>2
    <2>8. ClosedAt(text) \in SUBSET Nat
      BY DEF ClosedAt
    <2>9. Min(ClosedAt(text)) = p
      BY <2>6, <2>7, <2>8, LeastIs
    <2>10. Declared(text)
      <3>1. 1 \in 1 .. p
        BY <2>4
      <3>2. Says(text, 1) = Says(clean, 1)
        BY <3>1, Beginnings
      <3> QED  BY <1>3, <3>2 DEF Declared
    <2>11. text[p].says # "xml and more" /\ Exact(text[p])
      BY <2>1, <2>4, <2>5
    <2> QED  BY <2>6, <2>9, <2>10, <2>11, DeclarationIs
  <1> QED  BY <1>2, <1>3

\* As far as the directives reach.
\* The directives are the longest run of them at the start.
LEMMA DirectivesEnd ==
    ASSUME NEW lines, NEW l \in Nat, DOMAIN lines = 1 .. l, NEW p \in Nat,
           NEW n, n = Shebang(lines)
    PROVE  /\ BehindDirectives(lines) = p
                <=> /\ n <= p /\ (p = n \/ p <= l)
                    /\ \A i \in n + 1 .. p : lines[i].says = "directive"
                    /\ p + 1 \in DOMAIN lines /\ p + 1 > n => lines[p + 1].says # "directive"
           /\ BehindDirectives(lines) \in Nat
           /\ BehindDirectives(lines) = n \/ BehindDirectives(lines) <= l
  <1> DEFINE Led(m) == \A i \in n + 1 .. m : lines[i].says = "directive"
             reached == {n} \cup {m \in DOMAIN lines : Led(m)}
             top == Max(reached)
  <1>1. n \in Nat /\ n <= 1
    BY ShebangIs
  <1>2. BehindDirectives(lines) = top
    BY DEF BehindDirectives
  <1>3. reached \in SUBSET (0 .. l + 1) /\ n \in reached
    BY <1>1
  <1>4. top \in reached /\ \A m \in reached : m <= top
    <2> HIDE DEF reached
    <2> QED  BY <1>3, GreatestOf
  <1>5. top \in Nat /\ Led(top) /\ n <= top /\ (top = n \/ top <= l)
    <2>1. n <= top
      <3> HIDE DEF top, reached
      <3> QED  BY <1>3, <1>4
    <2>2. CASE top = n
      <3>1. Led(n)
        BY <1>1
      <3> QED  BY <1>1, <2>1, <2>2, <3>1
    <2>3. CASE top # n
      <3>1. top \in DOMAIN lines /\ Led(top)
        <4> HIDE DEF top
        <4> QED  BY <1>4, <2>3
      <3> HIDE DEF top, reached, Led
      <3> QED  BY <3>1, <2>1
    <2> HIDE DEF top, reached
    <2> QED  BY <2>2, <2>3
  <1>6. \A m \in DOMAIN lines : Led(m) => m <= top
    BY <1>4
  <1> HIDE DEF reached, top
  <1>7. ASSUME top + 1 \in DOMAIN lines, lines[top + 1].says = "directive"
        PROVE  FALSE
    <2>1. Led(top + 1)
      BY <1>1, <1>5, <1>7
    <2>2. top + 1 <= top
      BY <1>6, <1>7, <2>1
    <2> QED  BY <1>5, <2>2
  <1>8. ASSUME top = p
        PROVE  /\ n <= p /\ (p = n \/ p <= l) /\ Led(p)
               /\ p + 1 \in DOMAIN lines /\ p + 1 > n => lines[p + 1].says # "directive"
    BY <1>5, <1>7, <1>8
  <1>9. ASSUME n <= p, p = n \/ p <= l, Led(p),
               p + 1 \in DOMAIN lines /\ p + 1 > n => lines[p + 1].says # "directive"
        PROVE  top = p
    <2>1. p <= top
      <3>1. CASE p = n
        BY <3>1, <1>5
      <3>2. CASE p # n
        <4>1. p \in DOMAIN lines
          BY <1>1, <1>9, <3>2
        <4> QED  BY <4>1, <1>6, <1>9
      <3> QED  BY <3>1, <3>2
    <2>2. ASSUME p < top PROVE FALSE
      <3>1. top <= l /\ p + 1 \in n + 1 .. top /\ p + 1 \in DOMAIN lines /\ p + 1 > n
        BY <1>1, <1>5, <1>9, <2>2
      <3>2. lines[p + 1].says = "directive"
        BY <3>1, <1>5
      <3> QED  BY <3>1, <3>2, <1>9
    <2> QED  BY <2>1, <2>2, <1>5
  <1> QED  BY <1>2, <1>5, <1>8, <1>9

\* So does the directives' rule.
LEMMA DirectivesKept ==
    ASSUME NEW clean, NEW text, NEW p \in Nat, BeginsAs(text, clean, p),
           BehindDirectives(clean) = p,
           NEW l \in Nat, DOMAIN clean = 1 .. l, p <= l,
           NEW m \in Nat, DOMAIN text = 1 .. m, p + 1 <= m
    PROVE  BehindDirectives(text) = p
  <1>1. PICK n : n = Shebang(clean)
    OBVIOUS
  <1>2. PICK k : k = Shebang(text)
    OBVIOUS
  <1>3. /\ n <= p /\ (p = n \/ p <= l)
        /\ \A i \in n + 1 .. p : clean[i].says = "directive"
    BY <1>1, DirectivesEnd
  <1>4. n \in Nat /\ k \in Nat /\ k <= p /\ (p > 0 => k = n)
    <2>1. CASE p = 0
      BY <1>1, <1>2, <2>1, Beginnings, ShebangIs
    <2>2. CASE p # 0
      BY <1>1, <1>2, <1>3, <2>2, Beginnings, ShebangIs
    <2> QED  BY <2>1, <2>2
  <1>5. \A i \in k + 1 .. p : text[i].says = "directive"
    <2> TAKE i \in k + 1 .. p
    <2>1. i \in 1 .. p /\ i \in n + 1 .. p
      BY <1>4
    <2>2. text[i].says = clean[i].says
      BY <2>1 DEF BeginsAs
    <2> QED  BY <1>3, <2>1, <2>2
  <1>6. text[p + 1].says # "directive"
    <2>1. p + 1 \in DOMAIN text
      OBVIOUS
    <2>2. text[p + 1].says = Says(text, p + 1)
      BY <2>1 DEF Says
    <2>3. Says(text, p + 1) \notin Heralds
      BY DEF BeginsAs
    <2> QED  BY <2>2, <2>3, HeraldsAre
  <1>7. p <= m
    OBVIOUS
  <1> QED  BY <1>2, <1>4, <1>5, <1>6, <1>7, DirectivesEnd

LEMMA PositionIs ==
    ASSUME NEW lines, NEW spec
    PROVE  /\ spec.prologue = "encoding-cookie"
                => CarrierPosition(lines, spec) = BehindCookie(lines, spec.forms[1].inside)
           /\ spec.prologue = "php-open-tag" => CarrierPosition(lines, spec) = BehindPhpTag(lines)
           /\ spec.prologue = "xml-declaration"
                => CarrierPosition(lines, spec) = BehindXmlDeclaration(lines)
           /\ spec.prologue = "css-charset" => CarrierPosition(lines, spec) = BehindCharset(lines)
           /\ spec.prologue = "dockerfile-directives"
                => CarrierPosition(lines, spec) = BehindDirectives(lines)
           /\ spec.prologue = "none" => CarrierPosition(lines, spec) = Shebang(lines)
  BY DEF CarrierPosition

\* Where the block goes is where it is looked for again.
LEMMA PositionKept ==
    ASSUME NEW clean, NEW text, NEW p \in Nat, BeginsAs(text, clean, p),
           NEW l \in Nat, DOMAIN clean = 1 .. l, p <= l,
           NEW m \in Nat, DOMAIN text = 1 .. m, p + 1 <= m,
           NEW spec, spec.prologue \in Prologues, CarrierPosition(clean, spec) = p
    PROVE  CarrierPosition(text, spec) = p
  <1>1. CASE spec.prologue = "encoding-cookie"
    BY <1>1, PositionIs, CookieKept
  <1>2. CASE spec.prologue = "php-open-tag"
    BY <1>2, PositionIs, PhpTagKept
  <1>3. CASE spec.prologue = "xml-declaration"
    <2>1. DOMAIN clean \in SUBSET (Nat \ {0}) /\ DOMAIN text \in SUBSET (Nat \ {0})
      OBVIOUS
    <2>2. BehindXmlDeclaration(clean) = p
      BY <1>3, PositionIs
    <2>3. BehindXmlDeclaration(text) = p
      BY <2>1, <2>2, XmlDeclarationKept
    <2> QED  BY <1>3, <2>3, PositionIs
  <1>4. CASE spec.prologue = "css-charset"
    BY <1>4, PositionIs, CharsetKept
  <1>5. CASE spec.prologue = "dockerfile-directives"
    <2>1. BehindDirectives(clean) = p
      BY <1>5, PositionIs
    <2>2. BehindDirectives(text) = p
      BY <2>1, DirectivesKept
    <2> QED  BY <1>5, <2>2, PositionIs
  <1>6. CASE spec.prologue = "none"
    <2>1. p = Shebang(clean)
      BY <1>6, PositionIs
    <2>2. Shebang(text) = p
      <3>1. CASE p = 0
        BY <3>1, Beginnings
      <3>2. CASE p # 0
        BY <3>2, <2>1, Beginnings
      <3> QED  BY <3>1, <3>2
    <2> QED  BY <1>6, <2>2, PositionIs
  <1> QED  BY <1>1, <1>2, <1>3, <1>4, <1>5, <1>6 DEF Prologues

\* Before a block that starts a text there is nothing to skip.
LEMMA NothingBefore ==
    ASSUME NEW text, NEW l \in Nat, DOMAIN text = 1 .. l,
           Says(text, 1) \notin Heralds, Says(text, 2) # "cookie",
           NEW spec, spec.prologue \in Prologues
    PROVE  CarrierPosition(text, spec) = 0 \/ CarrierPosition(text, spec) = Nowhere
  <1>1. Shebang(text) = 0 /\ ~Declared(text) /\ Says(text, 1) # "cookie" /\ Says(text, 1) # "php"
    BY ShebangIs, NotDeclared, HeraldsAre
  <1>2. CASE spec.prologue = "encoding-cookie"
    <2>1. ~SecondIsCookie(text, spec.forms[1].inside)
      BY DEF SecondIsCookie
    <2> QED  BY <1>1, <1>2, <2>1, PositionIs, CookieIs
  <1>3. CASE spec.prologue = "php-open-tag"
    BY <1>1, <1>3, PositionIs, PhpTagIs
  <1>4. CASE spec.prologue = "xml-declaration"
    BY <1>1, <1>4, PositionIs, DeclarationIs
  <1>5. CASE spec.prologue = "css-charset"
    BY <1>5, PositionIs, CharsetIs
  <1>6. CASE spec.prologue = "dockerfile-directives"
    <2>1. 0 + 1 \in DOMAIN text => text[0 + 1].says # "directive"
      <3>1. 0 + 1 = 1
        OBVIOUS
      <3>2. Says(text, 1) # "directive"
        BY HeraldsAre
      <3> QED  BY <3>1, <3>2 DEF Says
    <2>2. BehindDirectives(text) = 0
      <3>1. \A i \in 0 + 1 .. 0 : text[i].says = "directive"
        OBVIOUS
      <3>2. 0 \in Nat /\ 0 <= 0
        OBVIOUS
      <3>3. ASSUME NEW n, n = Shebang(text)
            PROVE  BehindDirectives(text) = 0
                     <=> /\ n <= 0 /\ (0 = n \/ 0 <= l)
                         /\ \A i \in n + 1 .. 0 : text[i].says = "directive"
                         /\ 0 + 1 \in DOMAIN text /\ 0 + 1 > n => text[0 + 1].says # "directive"
        BY <3>2, <3>3, DirectivesEnd
      <3>4. BehindDirectives(text) = 0
              <=> /\ 0 <= 0 /\ (0 = 0 \/ 0 <= l)
                  /\ \A i \in 0 + 1 .. 0 : text[i].says = "directive"
                  /\ 0 + 1 \in DOMAIN text /\ 0 + 1 > 0 => text[0 + 1].says # "directive"
        BY <1>1, <3>3
      <3> QED  BY <2>1, <3>1, <3>2, <3>4
    <2> QED  BY <1>6, <2>2, PositionIs
  <1>7. CASE spec.prologue = "none"
    BY <1>1, <1>7, PositionIs
  <1> QED  BY <1>2, <1>3, <1>4, <1>5, <1>6, <1>7 DEF Prologues

\* What must stay first is part of the text.
LEMMA PositionInside ==
    ASSUME NEW text, NEW l \in Nat, DOMAIN text = 1 .. l, NEW spec, spec.prologue \in Prologues
    PROVE  CarrierPosition(text, spec) \in 0 .. l \/ CarrierPosition(text, spec) = Nowhere
  <1> SUFFICES ASSUME NEW p, p = CarrierPosition(text, spec)
               PROVE  p \in 0 .. l \/ p = Nowhere
    OBVIOUS
  <1>1. \A n \in Nat : Says(text, n) # "end" => n \in 1 .. l
    BY DEF Says
  <1>2. Shebang(text) = 0 \/ (Shebang(text) = 1 /\ 1 <= l)
    <2>1. Says(text, 1) = "shebang" => 1 \in 1 .. l
      BY <1>1
    <2> QED  BY <2>1, ShebangIs
  <1>3. CASE spec.prologue = "encoding-cookie"
    <2>1. PICK c : c = spec.forms[1].inside
      OBVIOUS
    <2>2. p = BehindCookie(text, c)
      BY <1>3, <2>1, PositionIs
    <2>3. Says(text, 1) = "cookie" => 1 \in 1 .. l
      BY <1>1
    <2>4. Says(text, 2) = "cookie" => 2 \in 1 .. l
      BY <1>1
    <2>5. p = 0 \/ (p = 1 /\ 1 \in 1 .. l) \/ (p = 2 /\ 2 \in 1 .. l)
      <3>1. SecondIsCookie(text, c) => Says(text, 2) = "cookie"
        BY DEF SecondIsCookie
      <3>2. CASE Shebang(text) = 0
        BY <3>1, <3>2, <2>2, <2>3, <2>4, CookieIs
      <3>3. CASE Shebang(text) = 1 /\ 1 <= l
        <4>1. ~SecondIsCookie(text, c)
          BY <3>3 DEF SecondIsCookie
        <4> QED  BY <3>3, <4>1, <2>2, <2>4, CookieIs
      <3> QED  BY <3>2, <3>3, <1>2
    <2> QED  BY <2>5
  <1>4. CASE spec.prologue = "php-open-tag"
    <2>1. p = BehindPhpTag(text)
      BY <1>4, PositionIs
    <2>2. PICK n : n = Shebang(text) + 1
      OBVIOUS
    <2>3. n \in Nat
      BY <1>2, <2>2
    <2>4. Says(text, n) = "php" => n \in 1 .. l
      BY <1>1, <2>3
    <2>5. (p = n /\ n \in 1 .. l) \/ p = Nowhere
      BY <2>1, <2>2, <2>4, PhpTagIs
    <2> QED  BY <2>5
  <1>5. CASE spec.prologue = "xml-declaration"
    <2>1. p = BehindXmlDeclaration(text)
      BY <1>5, PositionIs
    <2>2. CASE ~Declared(text)
      <3>1. p = Shebang(text)
        BY <2>1, <2>2, DeclarationIs
      <3> QED  BY <3>1, <1>2
    <2>3. CASE Declared(text)
      <3>1. p = Nowhere \/ (ClosedAt(text) # {} /\ p = Min(ClosedAt(text)))
        BY <2>1, <2>3, DeclarationIs
      <3>0. ClosedAt(text) \subseteq DOMAIN text
        BY DEF ClosedAt
      <3>2. ClosedAt(text) \in SUBSET Nat
        BY <3>0
      <3>3. ClosedAt(text) # {} => Min(ClosedAt(text)) \in ClosedAt(text)
        BY <3>2, LeastOf
      <3>4. ClosedAt(text) \subseteq 0 .. l
        BY <3>0
      <3> QED  BY <3>1, <3>3, <3>4
    <2> QED  BY <2>2, <2>3
  <1>6. CASE spec.prologue = "css-charset"
    <2>1. p = BehindCharset(text)
      BY <1>6, PositionIs
    <2>2. CASE Says(text, 1) \notin {"charset", "charset and more"}
      <3>1. p = Shebang(text)
        BY <2>1, <2>2, CharsetIs
      <3> QED  BY <3>1, <1>2
    <2>3. CASE Says(text, 1) = "charset" \/ Says(text, 1) = "charset and more"
      <3>1. 1 \in 1 .. l
        BY <1>1, <2>3
      <3>2. p = 1 \/ p = Nowhere
        BY <2>1, <2>3, CharsetIs
      <3> QED  BY <3>1, <3>2
    <2> QED  BY <2>2, <2>3
  <1>7. CASE spec.prologue = "dockerfile-directives"
    <2>1. p = BehindDirectives(text)
      BY <1>7, PositionIs
    <2>2. p \in Nat /\ (p = Shebang(text) \/ p <= l)
      BY <2>1, DirectivesEnd
    <2> QED  BY <1>2, <2>2
  <1>8. CASE spec.prologue = "none"
    BY <1>2, <1>8, PositionIs
  <1> QED  BY <1>3, <1>4, <1>5, <1>6, <1>7, <1>8 DEF Prologues

\* A word that must come first stands first only where it is one.
FirstWords(lines, prologue) ==
    /\ Says(lines, 1) = "xml" \/ Says(lines, 1) = "xml opens" => prologue = "xml-declaration"
    /\ Says(lines, 1) = "charset" => prologue = "css-charset"
    /\ Says(lines, 1) = "php" => prologue = "php-open-tag"
    /\ Shebang(lines) = 1 /\ Says(lines, 2) = "php" => prologue = "php-open-tag"
    /\ Says(lines, 1) = "directive" => prologue = "dockerfile-directives"
    /\ Shebang(lines) = 1 /\ Says(lines, 2) = "directive" => prologue = "dockerfile-directives"

LEMMA FirstWordsKept ==
    ASSUME NEW clean, NEW text, NEW p \in Nat, BeginsAs(text, clean, p),
           NEW prologue, FirstWords(clean, prologue)
    PROVE  FirstWords(text, prologue)
  <1>1. CASE p = 0
    <2>1. Shebang(text) = 0 /\ Says(text, 1) \notin Heralds
      BY <1>1, Beginnings
    <2> QED  BY <1>1, <2>1, HeraldsAre DEF FirstWords
  <1>2. CASE p = 1
    <2>1. /\ Shebang(text) = Shebang(clean) /\ Says(text, 1) = Says(clean, 1)
          /\ Says(text, 2) \notin Heralds
      BY <1>2, Beginnings
    <2> QED  BY <2>1, HeraldsAre DEF FirstWords
  <1>3. CASE p # 0 /\ p # 1
    <2>1. 1 \in 1 .. p /\ 2 \in 1 .. p
      BY <1>3
    <2>2. /\ Shebang(text) = Shebang(clean) /\ Says(text, 1) = Says(clean, 1)
          /\ Says(text, 2) = Says(clean, 2)
      BY <1>3, <2>1, Beginnings
    <2> QED  BY <2>2 DEF FirstWords
  <1> QED  BY <1>1, <1>2, <1>3

LEMMA ShebangBefore ==
    ASSUME NEW lines, NEW l \in Nat, DOMAIN lines = 1 .. l, NEW spec, spec.prologue \in Prologues,
           NEW p \in Nat, CarrierPosition(lines, spec) = p, Says(lines, 1) = "shebang"
    PROVE  p >= 1
  <1>1. Shebang(lines) = 1 /\ p # Nowhere /\ Says(lines, 1) \in Heralds
    BY ShebangIs, NowhereAssumption, HeraldsAre
  <1>2. CASE spec.prologue = "encoding-cookie"
    <2>1. PICK c : c = spec.forms[1].inside
      OBVIOUS
    <2>2. p = BehindCookie(lines, c)
      BY <1>2, <2>1, PositionIs
    <2>3. p = 1 \/ p = 2
      BY <1>1, <2>2, CookieIs
    <2> QED  BY <2>3
  <1>3. CASE spec.prologue = "php-open-tag"
    <2>1. p = BehindPhpTag(lines)
      BY <1>3, PositionIs
    <2>2. PICK n : n = Shebang(lines) + 1
      OBVIOUS
    <2>3. p = n
      BY <1>1, <2>1, <2>2, PhpTagIs
    <2> QED  BY <1>1, <2>2, <2>3
  <1>4. CASE spec.prologue = "xml-declaration"
    <2>1. ~Declared(lines)
      BY DEF Declared
    <2>2. p = 1
      BY <1>1, <1>4, <2>1, PositionIs, DeclarationIs
    <2> QED  BY <2>2
  <1>5. CASE spec.prologue = "css-charset"
    <2>1. Says(lines, 1) \notin {"charset", "charset and more"}
      OBVIOUS
    <2>2. p = 1
      BY <1>1, <1>5, <2>1, PositionIs, CharsetIs
    <2> QED  BY <2>2
  <1>6. CASE spec.prologue = "dockerfile-directives"
    <2>1. BehindDirectives(lines) = p
      BY <1>6, PositionIs
    <2>2. PICK n : n = Shebang(lines)
      OBVIOUS
    <2>3. n <= p
      BY <2>1, <2>2, DirectivesEnd
    <2> QED  BY <1>1, <2>2, <2>3
  <1>7. CASE spec.prologue = "none"
    <2>1. p = 1
      BY <1>1, <1>7, PositionIs
    <2> QED  BY <2>1
  <1> QED  BY <1>2, <1>3, <1>4, <1>5, <1>6, <1>7 DEF Prologues

\* No host looks for anything behind the lines that must stay first.
\* What a host reads for where it stands is in front of the position.
LEMMA CountsWithin ==
    ASSUME NEW lines, NEW l \in Nat, DOMAIN lines = 1 .. l, NEW spec, spec.prologue \in Prologues,
           FirstWords(lines, spec.prologue),
           NEW p \in Nat, CarrierPosition(lines, spec) = p,
           NEW m \in 1 .. l, Counts(lines, m, spec)
    PROVE  m <= p
  <1>0. p # Nowhere
    BY NowhereAssumption
  <1>1. Says(lines, m) = lines[m].says
    BY DEF Says
  <1> DEFINE says == lines[m].says
             comment == spec.forms[1].inside \cup {"blank", "shebang"}
             leads == {n \in 1 .. m : lines[n].says = "directive" \/ Shebang(lines) = n}
  <1>2. CASE says = "shebang" /\ m = 1
    BY <1>1, <1>2, ShebangBefore
  <1>3. CASE (says = "xml" \/ says = "xml opens") /\ m = 1
    <2>1. spec.prologue = "xml-declaration" /\ Declared(lines)
      BY <1>1, <1>3 DEF FirstWords, Declared
    <2>2. ClosedAt(lines) # {} /\ p = Min(ClosedAt(lines))
      BY <1>0, <2>1, PositionIs, DeclarationIs
    <2>3. ClosedAt(lines) \subseteq 1 .. l
      BY DEF ClosedAt
    <2>4. ClosedAt(lines) \in SUBSET Nat
      BY <2>3
    <2>5. p \in ClosedAt(lines)
      BY <2>2, <2>4, LeastOf
    <2>6. p >= 1
      BY <2>3, <2>5
    <2> QED  BY <1>3, <2>6
  <1>4. CASE says = "charset" /\ m = 1
    <2>1. spec.prologue = "css-charset" /\ Says(lines, 1) = "charset"
      BY <1>1, <1>4 DEF FirstWords
    <2>2. p = 1
      BY <1>0, <2>1, PositionIs, CharsetIs
    <2> QED  BY <1>4, <2>2
  <1>5. CASE says = "php" /\ (m = 1 \/ (m = 2 /\ Shebang(lines) = 1))
    <2>1. spec.prologue = "php-open-tag"
      <3>1. CASE m = 1
        BY <1>1, <1>5, <3>1 DEF FirstWords
      <3>2. CASE m = 2 /\ Shebang(lines) = 1
        BY <1>1, <1>5, <3>2 DEF FirstWords
      <3> QED  BY <1>5, <3>1, <3>2
    <2>2. PICK n : n = Shebang(lines) + 1
      OBVIOUS
    <2>3. p = n
      BY <1>0, <2>1, <2>2, PositionIs, PhpTagIs
    <2>4. Shebang(lines) = 0 \/ Shebang(lines) = 1
      BY ShebangIs
    <2> QED  BY <1>5, <2>2, <2>3, <2>4
  <1>6. CASE says = "cookie" /\ spec.prologue = "encoding-cookie" /\ m = 1
    <2>1. Says(lines, 1) = "cookie" /\ Says(lines, 1) # "shebang"
      BY <1>1, <1>6
    <2>2. Shebang(lines) = 0
      BY <2>1, ShebangIs
    <2>3. PICK c : c = spec.forms[1].inside
      OBVIOUS
    <2>4. p = BehindCookie(lines, c)
      BY <1>6, <2>3, PositionIs
    <2>5. p = 1
      BY <2>1, <2>2, <2>4, CookieIs
    <2> QED  BY <1>6, <2>5
  <1>7. CASE /\ says = "cookie" /\ spec.prologue = "encoding-cookie" /\ m = 2
             /\ lines[1].says \in comment \ {"cookie"} /\ Exact(lines[1])
    <2>1. Says(lines, 2) = "cookie"
      BY <1>1, <1>7
    <2>2. Says(lines, 1) = lines[1].says
      <3>1. 1 \in DOMAIN lines
        BY <1>7
      <3> QED  BY <3>1 DEF Says
    <2>3. PICK c : c = spec.forms[1].inside
      OBVIOUS
    <2>4. p = BehindCookie(lines, c)
      BY <1>7, <2>3, PositionIs
    <2>5. CASE Shebang(lines) = 1
      <3>1. p = 2
        BY <2>1, <2>4, <2>5, CookieIs
      <3> QED  BY <1>7, <3>1
    <2>6. CASE Shebang(lines) = 0
      <3>1. lines[1].says # "shebang" /\ lines[1].says # "cookie"
        BY <1>7, <2>2, <2>6, ShebangIs
      <3>2. SecondIsCookie(lines, c)
        BY <1>7, <2>1, <2>3, <2>6, <3>1 DEF SecondIsCookie
      <3>3. p = 2
        BY <2>2, <2>4, <2>6, <3>1, <3>2, CookieIs
      <3> QED  BY <1>7, <3>3
    <2> QED  BY <2>5, <2>6, ShebangIs
  <1>8. CASE says = "directive" /\ leads = 1 .. m
    <2>1. PICK n : n = Shebang(lines)
      OBVIOUS
    <2>2. n = 0 \/ n = 1
      BY <2>1, ShebangIs
    <2>3. \A i \in 1 .. m : lines[i].says = "directive" \/ n = i
      BY <1>8, <2>1
    <2>4. n # m
      <3>1. ASSUME n = m PROVE FALSE
        <4>1. n = 1
          BY <2>2, <3>1
        <4>2. Says(lines, 1) = "shebang"
          BY <2>1, <4>1, ShebangIs
        <4> QED  BY <1>1, <1>8, <3>1, <4>1, <4>2
      <3> QED  BY <3>1
    <2>5. n + 1 \in 1 .. m /\ n + 1 \in 1 .. l
      BY <2>2, <2>4
    <2>6. Says(lines, n + 1) = "directive"
      <3>1. lines[n + 1].says = "directive"
        BY <2>2, <2>3, <2>5
      <3> QED  BY <2>5, <3>1 DEF Says
    <2>7. spec.prologue = "dockerfile-directives"
      <3>1. CASE n = 0
        <4>1. Says(lines, 1) = "directive"
          BY <2>6, <3>1
        <4> QED  BY <4>1 DEF FirstWords
      <3>2. CASE n = 1
        <4>1. Says(lines, 2) = "directive" /\ Shebang(lines) = 1
          BY <2>1, <2>6, <3>2
        <4> QED  BY <4>1 DEF FirstWords
      <3> QED  BY <2>2, <3>1, <3>2
    <2>8. BehindDirectives(lines) = p
      BY <2>7, PositionIs
    <2>9. /\ n <= p
          /\ p + 1 \in DOMAIN lines /\ p + 1 > n => lines[p + 1].says # "directive"
      BY <2>1, <2>8, DirectivesEnd
    <2>10. ASSUME p < m PROVE FALSE
      <3>1. p + 1 \in DOMAIN lines /\ p + 1 > n /\ p + 1 \in 1 .. m
        BY <2>2, <2>9, <2>10
      <3>2. lines[p + 1].says = "directive"
        BY <2>2, <2>3, <3>1
      <3> QED  BY <2>9, <3>1, <3>2
    <2> QED  BY <2>10
  <1>9. \/ says = "shebang" /\ m = 1
        \/ (says = "xml" \/ says = "xml opens") /\ m = 1
        \/ says = "charset" /\ m = 1
        \/ says = "php" /\ (m = 1 \/ (m = 2 /\ Shebang(lines) = 1))
        \/ says = "cookie" /\ spec.prologue = "encoding-cookie" /\ m = 1
        \/ /\ says = "cookie" /\ spec.prologue = "encoding-cookie" /\ m = 2
           /\ lines[1].says \in comment \ {"cookie"} /\ Exact(lines[1])
        \/ says = "directive" /\ leads = 1 .. m
    BY DEF Counts
  <1> QED  BY <1>2, <1>3, <1>4, <1>5, <1>6, <1>7, <1>8, <1>9

LEMMA CountsAlike ==
    ASSUME NEW clean, NEW text, NEW p \in Nat, BeginsAs(text, clean, p), NEW spec,
           NEW m \in 1 .. p
    PROVE  /\ text[m].says = clean[m].says
           /\ Counts(text, m, spec) <=> Counts(clean, m, spec)
  <1>1. \A n \in 1 .. p : text[n].says = clean[n].says
    BY DEF BeginsAs
  <1>2. Shebang(text) = Shebang(clean)
    BY Beginnings
  <1>3. m = 2 => text[1] = clean[1]
    <2>1. m = 2 => 1 \in 1 .. p - 1
      OBVIOUS
    <2> QED  BY <2>1 DEF BeginsAs
  <1>4. {n \in 1 .. m : text[n].says = "directive" \/ Shebang(text) = n}
          = {n \in 1 .. m : clean[n].says = "directive" \/ Shebang(clean) = n}
    <2>1. 1 .. m \subseteq 1 .. p
      OBVIOUS
    <2> QED  BY <2>1, <1>1, <1>2
  <1>5. text[m].says = clean[m].says
    BY <1>1
  <1> QED
    <2> DEFINE L(lines) == {n \in 1 .. m : lines[n].says = "directive" \/ Shebang(lines) = n}
    <2>1. L(text) = L(clean)
      BY <1>4
    <2>2. \A lines : Counts(lines, m, spec) <=>
            \/ lines[m].says \in {"shebang", "xml", "xml opens", "charset", "php"} /\ m = 1
            \/ lines[m].says = "php" /\ m = 2 /\ Shebang(lines) = 1
            \/ lines[m].says = "cookie" /\ spec.prologue = "encoding-cookie" /\ m = 1
            \/ lines[m].says = "cookie" /\ spec.prologue = "encoding-cookie" /\ m = 2
                  /\ lines[1].says \in (spec.forms[1].inside \cup {"blank", "shebang"}) \ {"cookie"}
                  /\ Exact(lines[1])
            \/ lines[m].says = "directive" /\ L(lines) = 1 .. m
      BY DEF Counts
    <2> HIDE DEF L
    <2> QED  BY <2>1, <2>2, <1>2, <1>3, <1>5

\* So a host reads the same, whatever is written.
\* So a host reads with the block what it read without.
LEMMA HostsReadTheSame ==
    ASSUME NEW clean, NEW text, NEW p \in Nat, BeginsAs(text, clean, p),
           NEW l \in Nat, DOMAIN clean = 1 .. l, p <= l,
           NEW m \in Nat, DOMAIN text = 1 .. m, p + 1 <= m,
           NEW spec, spec.prologue \in Prologues, FirstWords(clean, spec.prologue),
           CarrierPosition(clean, spec) = p
    PROVE  HostReads(text, spec) = HostReads(clean, spec)
  <1>1. CarrierPosition(text, spec) = p
    BY PositionKept
  <1>2. FirstWords(text, spec.prologue)
    BY FirstWordsKept
  <1>3. \A n \in DOMAIN clean : Counts(clean, n, spec) => n \in 1 .. p
    <2> SUFFICES ASSUME NEW n \in 1 .. l, Counts(clean, n, spec) PROVE n \in 1 .. p
      OBVIOUS
    <2>1. n <= p
      BY CountsWithin
    <2> QED  BY <2>1
  <1>4. \A n \in DOMAIN text : Counts(text, n, spec) => n \in 1 .. p
    <2> SUFFICES ASSUME NEW n \in 1 .. m, Counts(text, n, spec) PROVE n \in 1 .. p
      OBVIOUS
    <2>1. n <= p
      BY <1>1, <1>2, CountsWithin
    <2> QED  BY <2>1
  <1>5. \A n \in 1 .. p : /\ n \in DOMAIN text /\ n \in DOMAIN clean
                          /\ text[n].says = clean[n].says
                          /\ Counts(text, n, spec) <=> Counts(clean, n, spec)
    BY CountsAlike DEF BeginsAs
  <1> QED  BY <1>3, <1>4, <1>5 DEF HostReads

LEMMA SameSequence ==
    ASSUME NEW S, NEW a \in Seq(S), NEW b \in Seq(S), Len(a) = Len(b),
           \A n \in 1 .. Len(a) : a[n] = b[n]
    PROVE  a = b
  OBVIOUS

\* The block taken out leaves the text.
LEMMA CutOut ==
    ASSUME NEW S, NEW clean \in Seq(S), NEW text \in Seq(S), NEW p \in 0 .. Len(clean), NEW z \in Nat,
           Len(text) = Len(clean) + z,
           \A n \in 1 .. p : text[n] = clean[n],
           \A n \in p + 1 .. Len(clean) : text[n + z] = clean[n]
    PROVE  SubSeq(text, 1, p) \o SubSeq(text, p + z + 1, Len(text)) = clean
  <1> DEFINE a == SubSeq(text, 1, p)
             c == SubSeq(text, p + z + 1, Len(text))
  <1>1. a \in Seq(S) /\ Len(a) = p /\ \A n \in 1 .. p : a[n] = text[n]
    OBVIOUS
  <1>2. /\ c \in Seq(S) /\ Len(c) = Len(clean) - p
        /\ \A n \in 1 .. Len(clean) - p : c[n] = text[p + z + n]
    OBVIOUS
  <1> HIDE DEF a, c
  <1>3. /\ a \o c \in Seq(S) /\ Len(a \o c) = Len(clean)
        /\ \A n \in 1 .. p : (a \o c)[n] = a[n]
        /\ \A n \in 1 .. Len(clean) - p : (a \o c)[p + n] = c[n]
    BY <1>1, <1>2
  <1>4. \A n \in 1 .. Len(clean) : (a \o c)[n] = clean[n]
    <2> TAKE n \in 1 .. Len(clean)
    <2>1. CASE n \in 1 .. p
      BY <2>1, <1>1, <1>3
    <2>2. CASE n \notin 1 .. p
      <3>1. n - p \in 1 .. Len(clean) - p /\ p + (n - p) = n /\ p + z + (n - p) = n + z
            /\ n \in p + 1 .. Len(clean)
        BY <2>2
      <3>2. (a \o c)[n] = c[n - p]
        BY <3>1, <1>3
      <3>3. c[n - p] = text[n + z]
        BY <3>1, <1>2
      <3> QED  BY <3>1, <3>2, <3>3
    <2> QED  BY <2>1, <2>2
  <1> SUFFICES a \o c = clean
    BY DEF a, c
  <1>5. PICK b : b = a \o c
    OBVIOUS
  <1>6. b \in Seq(S) /\ Len(b) = Len(clean) /\ \A n \in 1 .. Len(b) : b[n] = clean[n]
    BY <1>3, <1>4, <1>5
  <1>7. b = clean
    BY <1>6, SameSequence
  <1> QED  BY <1>5, <1>7

LEMMA NewlineOfFirst ==
    ASSUME NEW a, NEW b, a # <<>>, b # <<>>, a[1] = b[1]
    PROVE  Newline(a) = Newline(b)
  BY DEF Newline

\* The end supplied to a last line is what is taken back.
LEMMA SupplyTakenBack ==
    ASSUME NEW Saying, NEW clean \in Seq(LinesOf(Saying)), clean # <<>>,
           ~Terminated(clean[Len(clean)])
    PROVE  Unsupplied(EndedWith(clean, Newline(clean))) = clean
  <1> DEFINE z == Len(clean)
             nl == Newline(clean)
             a == EndedWith(clean, nl)
             e == clean[z].ends
             crlf == Len(Last(a).ends) > 1 /\ Len(a) > 1 /\ Newline(a) = <<"cr", "lf">>
  <1>1. z \in Nat \ {0} /\ clean[z] \in LinesOf(Saying)
    OBVIOUS
  <1>2. e \in Seq(Ending) /\ nl \in LineEnds
    BY <1>1, NewlineIs DEF LinesOf
  <1>3. /\ a \in Seq(LinesOf(Saying)) /\ Len(a) = z
        /\ \A n \in 1 .. z - 1 : a[n] = clean[n]
        /\ a[z] = Line(clean[z].says, e \o nl)
    BY <1>2, EndedLine
  <1>4. nl \in Seq(Ending) /\ Len(nl) \in 1 .. 2
    BY <1>2, NewlineEnds
  <1>5. Last(a) = a[z] /\ Last(a).ends = e \o nl
    BY <1>3 DEF Last, Line
  <1>6. Len(e \o nl) = Len(e) + Len(nl) /\ Len(e) \in Nat
    BY <1>2, <1>4
  <1>7. (IF crlf THEN 2 ELSE 1) = Len(nl)
    <2>1. CASE z = 1
      <3>1. nl = <<"lf">>
        BY <2>1 DEF Newline
      <3>2. Len(nl) = 1
        BY <3>1
      <3>3. ~crlf
        BY <2>1, <1>3
      <3> QED  BY <3>2, <3>3
    <2>2. CASE z # 1
      <3>1. 1 \in 1 .. z - 1 /\ z > 1
        <4>1. z \in Nat \ {0}
          BY <1>1
        <4> HIDE DEF z
        <4> QED  BY <4>1, <2>2
      <3>2. a[1] = clean[1] /\ a # <<>>
        BY <3>1, <1>3
      <3>3. Newline(a) = nl
        BY <3>2, NewlineOfFirst
      <3>4. CASE nl = <<"cr", "lf">>
        <4>1. Len(nl) = 2
          BY <3>4
        <4>2. crlf
          BY <3>1, <3>3, <3>4, <4>1, <1>3, <1>5, <1>6
        <4> QED  BY <4>1, <4>2
      <3>5. CASE nl = <<"lf">>
        <4>1. Len(nl) = 1 /\ Len(<<"cr", "lf">>) = 2
          BY <3>5
        <4>2. ~crlf
          BY <3>3, <4>1
        <4> QED  BY <4>1, <4>2
      <3> QED  BY <3>4, <3>5, <1>2 DEF LineEnds
    <2> QED  BY <2>1, <2>2
  <1>8. SubSeq(e \o nl, 1, Len(e \o nl) - Len(nl)) = e
    <2>1. Len(e \o nl) - Len(nl) = Len(e)
      BY <1>4, <1>6
    <2>2. SubSeq(e \o nl, 1, Len(e)) = e
      BY <1>2, <1>4
    <2> QED  BY <2>1, <2>2
  <1>9. Unsupplied(a) = [a EXCEPT ![Len(a)].ends =
                            SubSeq(Last(a).ends, 1, Len(Last(a).ends) - (IF crlf THEN 2 ELSE 1))]
    BY DEF Unsupplied
  <1> HIDE DEF crlf, nl, a, e
  <1>10. Unsupplied(a) = [a EXCEPT ![z] = [a[z] EXCEPT !.ends = e]]
    BY <1>3, <1>5, <1>7, <1>8, <1>9
  <1>11. [a[z] EXCEPT !.ends = e] = clean[z]
    <2>1. a[z] = [says |-> clean[z].says, ends |-> e \o nl]
      BY <1>3 DEF Line
    <2>2. clean[z] = [says |-> clean[z].says, ends |-> e]
      BY <1>1 DEF LinesOf, e
    <2> QED  BY <2>1, <2>2
  <1>12. Unsupplied(a) = [a EXCEPT ![z] = clean[z]]
    BY <1>10, <1>11
  <1>13. [a EXCEPT ![z] = clean[z]] \in Seq(LinesOf(Saying))
         /\ Len([a EXCEPT ![z] = clean[z]]) = z
    BY <1>1, <1>3
  <1>14. \A n \in 1 .. z : [a EXCEPT ![z] = clean[z]][n] = clean[n]
    <2> TAKE n \in 1 .. z
    <2>1. n = z \/ n \in 1 .. z - 1
      BY <1>1
    <2> QED  BY <2>1, <1>1, <1>3
  <1> DEFINE b == [a EXCEPT ![z] = clean[z]]
  <1> SUFFICES b = clean
    BY <1>12 DEF a, nl
  <1>15. b \in Seq(LinesOf(Saying)) /\ Len(b) = z /\ \A n \in 1 .. z : b[n] = clean[n]
    BY <1>13, <1>14
  <1> HIDE DEF b
  <1> QED  BY <1>15

\* What is written can be found: at the position, by the form of today.
LEMMA WrittenIsLaid ==
    ASSUME NEW Saying, HeaderFits(Saying), NEW spec, IsFileType(spec, Saying),
           NEW clean \in Texts(Saying), NEW p \in 0 .. Len(clean), CarrierPosition(clean, spec) = p
    PROVE  /\ Laid(clean, ApplyCommentInjection(clean, spec), p, spec.forms[1])
           /\ Without(ApplyCommentInjection(clean, spec), [from |-> p, to |-> p + Size]) = clean
  <1> DEFINE text == ApplyCommentInjection(clean, spec)
             form == spec.forms[1]
             nl == Newline(clean)
             head == [from |-> p, to |-> p + Size]
             S == LinesOf(Saying)
  <1>1. clean \in Seq(S) /\ Len(clean) \in Nat
    BY TextLines
  <1>2. Header \in Seq(Saying) /\ form \in Forms(Saying) /\ nl \in LineEnds
    BY NewlineIs DEF HeaderFits, IsFileType
  <1>3. p \in Nat /\ p <= Len(clean)
    BY <1>1
  <1>4. Size \in Nat /\ Size >= 2
    BY <1>2 DEF Size
  <1>5. head # Nowhere
    <2>1. head \in [from : Nat, to : Nat]
      BY <1>3, <1>4
    <2> QED  BY <2>1, NowhereAssumption
  <1>6. \A lines : Without(lines, head)
          = IF p > 0 /\ p + Size = Len(lines) /\ ~Terminated(lines[p + Size])
            THEN Unsupplied(SubSeq(lines, 1, p))
            ELSE SubSeq(lines, 1, p) \o SubSeq(lines, p + Size + 1, Len(lines))
    BY <1>5 DEF Without
  <1> HIDE DEF head
  <1>7. CASE p > 0 /\ ~Terminated(clean[p])
    <2>1. p = Len(clean)
      <3>1. ASSUME p # Len(clean) PROVE FALSE
        <4>1. p \in 1 .. Len(clean) - 1
          BY <1>1, <1>7, <3>1
        <4> QED  BY <4>1, <1>7, TextLines
      <3> QED  BY <3>1
    <2>2. text = EndedWith(clean, nl) \o Block(form, nl)
      BY <1>7 DEF ApplyCommentInjection
    <2> HIDE DEF nl, form
    <2>3. /\ Laid(clean, text, Len(clean), form)
          /\ text \in Seq(S)
          /\ \A n \in 1 .. Len(clean) : text[n] = EndedWith(clean, nl)[n]
          /\ ~Terminated(text[Len(clean) + Size])
      <3>1. Len(clean) > 0 /\ ~Terminated(clean[Len(clean)])
        BY <1>7, <2>1
      <3>2. Header \in Seq(Saying)
        BY <1>2
      <3>3. form \in Forms(Saying) /\ nl \in LineEnds
        BY <1>2
      <3> HIDE DEF text
      <3> QED  BY <2>2, <3>1, <3>2, <3>3, BehindLaid
    <2>4. clean # <<>>
      BY <1>7, <2>1
    <2>5. EndedWith(clean, nl) \in Seq(S) /\ Len(EndedWith(clean, nl)) = Len(clean)
      BY <1>1, <1>2, <2>4, EndedLine
    <2>6. Len(text) = Len(clean) + Size
      BY <2>3 DEF Laid
    <2> HIDE DEF text
    <2>7. SubSeq(text, 1, p) = EndedWith(clean, nl)
      <3>1. PICK a : a = SubSeq(text, 1, p)
        OBVIOUS
      <3>2. PICK b : b = EndedWith(clean, nl)
        OBVIOUS
      <3>3. a \in Seq(S) /\ Len(a) = p /\ \A n \in 1 .. p : a[n] = text[n]
        BY <1>3, <1>4, <2>1, <2>3, <2>6, <3>1
      <3>4. b \in Seq(S) /\ Len(b) = p
        BY <2>1, <2>5, <3>2
      <3>5. \A n \in 1 .. p : text[n] = b[n]
        BY <2>1, <2>3, <3>2
      <3>6. a = b
        BY <3>3, <3>4, <3>5, SameSequence
      <3> QED  BY <3>1, <3>2, <3>6
    <2>8. Unsupplied(EndedWith(clean, nl)) = clean
      BY <1>1, <1>7, <2>1, <2>4, SupplyTakenBack DEF nl
    <2>9. Without(text, head) = clean
      BY <1>6, <1>7, <2>1, <2>3, <2>6, <2>7, <2>8
    <2> QED  BY <2>1, <2>3, <2>9 DEF text, head, form
  <1>8. CASE ~(p > 0 /\ ~Terminated(clean[p]))
    <2>1. text = Between(clean, p, form, nl)
      BY <1>8 DEF ApplyCommentInjection, Between
    <2> HIDE DEF nl, form, text
    <2>2. /\ Laid(clean, text, p, form)
          /\ text \in Seq(S)
          /\ \A n \in 1 .. p : text[n] = clean[n]
          /\ \A n \in p + 1 .. Len(clean) : text[n + Size] = clean[n]
          /\ Terminated(text[p + Size])
      <3>1. p > 0 => Terminated(clean[p])
        BY <1>8
      <3>2. Header \in Seq(Saying)
        BY <1>2
      <3>3. form \in Forms(Saying) /\ nl \in LineEnds
        BY <1>2
      <3>4. p \in 0 .. Len(clean)
        OBVIOUS
      <3>5. ASSUME NEW t, t = Between(clean, p, form, nl)
            PROVE  /\ Laid(clean, t, p, form)
                   /\ t \in Seq(LinesOf(Saying))
                   /\ \A n \in 1 .. p : t[n] = clean[n]
                   /\ \A n \in p + 1 .. Len(clean) : t[n + Size] = clean[n]
                   /\ Terminated(t[p + Size])
        BY <3>1, <3>2, <3>3, <3>4, <3>5, BetweenLaid
      <3> QED  BY <2>1, <3>5
    <2>3. Len(text) = Len(clean) + Size
      BY <2>2 DEF Laid
    <2>4. SubSeq(text, 1, p) \o SubSeq(text, p + Size + 1, Len(text)) = clean
      BY <1>1, <1>4, <2>2, <2>3, CutOut
    <2>5. Without(text, head) = clean
      BY <1>6, <2>2, <2>4
    <2> QED  BY <2>2, <2>5 DEF text, head, form
  <1> QED  BY <1>7, <1>8

LEMMA LaidFacts ==
    ASSUME NEW Saying, HeaderFits(Saying), NEW form \in Forms(Saying),
           NEW clean \in Texts(Saying), NEW text, NEW p \in 0 .. Len(clean),
           Laid(clean, text, p, form)
    PROVE  /\ Len(clean) \in Nat /\ p \in Nat /\ p <= Len(clean)
           /\ DOMAIN clean = 1 .. Len(clean) /\ DOMAIN text = 1 .. Len(clean) + Size
           /\ Len(clean) + Size \in Nat /\ p + 1 <= Len(clean) + Size /\ p + Size \in Nat
           /\ BeginsAs(text, clean, p)
           /\ BlockEnd(text, p, form) = p + Size
           /\ Says(text, p + 1) = form.open
  <1>1. Len(clean) \in Nat /\ p \in Nat /\ p <= Len(clean) /\ DOMAIN clean = 1 .. Len(clean)
    BY TextLines
  <1>2. Header \in Seq(Saying) /\ Size \in Nat /\ Size >= 2
    BY DEF HeaderFits, Size
  <1>3. DOMAIN text = 1 .. Len(clean) + Size
    BY DEF Laid
  <1>4. BeginsAs(text, clean, p)
    BY <1>1, LaidBegins
  <1>5. BlockEnd(text, p, form) = p + Size /\ Says(text, p + 1) = form.open
    BY <1>1, <1>2, BlockFound
  <1> QED  BY <1>1, <1>2, <1>3, <1>4, <1>5

\* What is written is found, taken out, and read back.
LEMMA WrittenRoundTrips ==
    ASSUME NEW Saying, HeaderFits(Saying), NEW spec, IsFileType(spec, Saying),
           NEW clean \in Texts(Saying), FirstWords(clean, spec.prologue),
           NEW p \in 0 .. Len(clean), CarrierPosition(clean, spec) = p,
           NEW text, text = ApplyCommentInjection(clean, spec)
    PROVE  /\ StripInjectedBlock(text, spec) = clean
           /\ ExtractInjected(text, spec) = Header
           /\ HostReads(text, spec) = HostReads(clean, spec)
  <1> DEFINE form == spec.forms[1]
             head == [from |-> p, to |-> p + Size]
  <1>1. Laid(clean, text, p, form) /\ Without(text, head) = clean
    BY WrittenIsLaid
  <1>2. form \in Forms(Saying) /\ spec.forms \in Seq(Forms(Saying)) /\ 1 \in 1 .. Len(spec.forms)
        /\ spec.prologue \in Prologues
    BY DEF IsFileType
  <1>3. /\ Len(clean) \in Nat /\ p \in Nat /\ p <= Len(clean)
        /\ DOMAIN clean = 1 .. Len(clean) /\ DOMAIN text = 1 .. Len(clean) + Size
        /\ Len(clean) + Size \in Nat /\ p + 1 <= Len(clean) + Size /\ p + Size \in Nat
        /\ BeginsAs(text, clean, p)
        /\ BlockEnd(text, p, form) = p + Size
    BY <1>1, <1>2, LaidFacts
  <1>4. CarrierPosition(text, spec) = p
    BY <1>2, <1>3, PositionKept
  <1>5. HostReads(text, spec) = HostReads(clean, spec)
    BY <1>2, <1>3, HostsReadTheSame
  <1>6. FindHeadBlock(text, spec) = head
    <2>2. LooksFirst(text, spec, p)
      <3>1. CASE p = 0
        BY <1>4, <3>1 DEF Behind, LooksFirst
      <3>2. CASE p # 0
        BY <1>1, <1>3, <1>4, <3>2, NowhereAssumption DEF Laid, LooksFirst
      <3> QED  BY <3>1, <3>2
    <2>3. FindHeadBlock(text, spec) = [from |-> p, to |-> p + Size]
      <3>1. PICK k : k = 1
        OBVIOUS
      <3>2. PICK e : e = p + Size
        OBVIOUS
      <3>3. spec.forms \in Seq(Forms(Saying))
        BY <1>2
      <3>4. k \in 1 .. Len(spec.forms) /\ e \in Nat
        BY <1>2, <1>3, <3>1, <3>2
      <3>5. BlockEnd(text, p, spec.forms[k]) = e
        BY <1>3, <3>1, <3>2
      <3>6. \A j \in 1 .. k - 1 : BlockEnd(text, p, spec.forms[j]) = Nowhere
        BY <3>1
      <3>7. FindHeadBlock(text, spec) = [from |-> p, to |-> e]
        BY <2>2, <3>3, <3>4, <3>5, <3>6, HeadIsFirstHit
      <3> QED  BY <3>2, <3>7
    <2> QED  BY <2>3
  <1>7. StripInjectedBlock(text, spec) = clean
    BY <1>1, <1>6 DEF StripInjectedBlock
  <1>8. ExtractInjected(text, spec) = Header
    <2>1. Header \in Seq(Saying) /\ DOMAIN Header = 1 .. Len(Header) /\ Len(Header) \in Nat
      BY DEF HeaderFits
    <2>2. (p + Size) - p - 2 = Len(Header)
      BY <1>3, <2>1 DEF Size
    <2>3. ExtractInjected(text, spec) = [n \in 1 .. Len(Header) |-> text[p + 1 + n].says]
      BY <1>6, <2>2 DEF ExtractInjected
    <2>4. \A n \in 1 .. Len(Header) : text[p + 1 + n].says = Header[n]
      BY <1>1, <2>1 DEF Laid
    <2>5. Header = [n \in 1 .. Len(Header) |-> Header[n]]
      BY <2>1
    <2> QED  BY <2>3, <2>4, <2>5
  <1> QED  BY <1>5, <1>7, <1>8

\* What an earlier version put in front of everything is taken out, too.
LEMMA OldRoundTrips ==
    ASSUME NEW Saying, HeaderFits(Saying), NEW spec, IsFileType(spec, Saying),
           NEW clean \in Texts(Saying), NEW k \in 1 .. Len(spec.forms), NEW nl \in LineEnds
    PROVE  StripInjectedBlock(EndedWith(Block(spec.forms[k], nl), nl) \o clean, spec) = clean
  <1> DEFINE form == spec.forms[k]
             old == EndedWith(Block(form, nl), nl)
             S == LinesOf(Saying)
  <1>1. PICK text : text = old \o clean
    OBVIOUS
  <1>2. /\ spec.forms \in Seq(Forms(Saying)) /\ k \in 1 .. Len(spec.forms) /\ k \in Nat
        /\ form \in Forms(Saying) /\ spec.prologue \in Prologues
    BY DEF IsFileType
  <1>3. Header \in Seq(Saying) /\ Size \in Nat
    BY DEF HeaderFits, Size
  <1>4. old \in Seq(S) /\ clean \in Seq(S) /\ Len(clean) \in Nat /\ 0 \in 0 .. Len(clean)
    BY <1>2, <1>3, BlockLines, TextLines
  <1>5. text = Between(clean, 0, form, nl)
    <2>1. PICK o : o = old
      OBVIOUS
    <2>2. o \in Seq(S) /\ clean \in Seq(S)
      BY <1>4, <2>1
    <2>3. SubSeq(clean, 1, 0) = <<>> /\ SubSeq(clean, 0 + 1, Len(clean)) = clean
      BY <1>4
    <2>4. o \o clean = SubSeq(clean, 1, 0) \o o \o SubSeq(clean, 0 + 1, Len(clean))
      BY <2>2, <2>3
    <2> QED  BY <1>1, <2>1, <2>4 DEF Between
  <1>6. PICK p : p = 0
    OBVIOUS
  <1> HIDE DEF form, old, S
  <1>7. /\ Laid(clean, text, p, form)
        /\ text \in Seq(LinesOf(Saying))
        /\ \A n \in 1 .. p : text[n] = clean[n]
        /\ \A n \in p + 1 .. Len(clean) : text[n + Size] = clean[n]
        /\ Terminated(text[p + Size])
    <2>1. p \in 0 .. Len(clean) /\ (p > 0 => Terminated(clean[p]))
      BY <1>4, <1>6
    <2>2. text = Between(clean, p, form, nl)
      BY <1>5, <1>6
    <2>3. Header \in Seq(Saying)
      BY <1>3
    <2>4. form \in Forms(Saying)
      BY <1>2
    <2> QED  BY <2>1, <2>2, <2>3, <2>4, BetweenLaid
  <1>8. /\ DOMAIN text = 1 .. Len(clean) + Size /\ Len(clean) + Size \in Nat
        /\ BeginsAs(text, clean, p)
        /\ BlockEnd(text, p, form) = p + Size /\ p + Size \in Nat
        /\ Says(text, p + 1) = form.open
    <2>1. p \in 0 .. Len(clean)
      BY <1>4, <1>6
    <2> QED  BY <2>1, <1>2, <1>7, LaidFacts
  <1>9. Behind(text, spec) = <<>>
    <2>1. Says(text, 1) \notin Heralds /\ Says(text, 2) # "cookie"
      BY <1>6, <1>8, Beginnings
    <2>2. CarrierPosition(text, spec) = 0 \/ CarrierPosition(text, spec) = Nowhere
      BY <1>2, <1>8, <2>1, NothingBefore
    <2> QED  BY <2>2 DEF Behind
  <1>10. FindHeadBlock(text, spec) = [from |-> p, to |-> p + Size]
    <2>1. PICK e : e = p + Size
      OBVIOUS
    <2>2. \A j \in 1 .. k - 1 : BlockEnd(text, p, spec.forms[j]) = Nowhere
      <3> TAKE j \in 1 .. k - 1
      <3>1. j # k /\ j \in DOMAIN spec.forms /\ k \in DOMAIN spec.forms
        BY <1>2
      <3>2. spec.forms[j].open # spec.forms[k].open
        BY <3>1 DEF IsFileType
      <3>3. Says(text, p + 1) # spec.forms[j].open
        BY <1>8, <3>2 DEF form
      <3> QED  BY <3>3, OtherOpens
    <2>3. e \in Nat /\ BlockEnd(text, p, spec.forms[k]) = e
      BY <1>8, <2>1 DEF form
    <2>4. LooksFirst(text, spec, p)
      BY <1>6, <1>9 DEF LooksFirst
    <2>6. spec.forms \in Seq(Forms(Saying))
      BY <1>2
    <2>7. k \in 1 .. Len(spec.forms) /\ e \in Nat
      BY <1>2, <2>3
    <2>8. BlockEnd(text, p, spec.forms[k]) = e
      BY <2>3
    <2>5. FindHeadBlock(text, spec) = [from |-> p, to |-> e]
      BY <2>2, <2>4, <2>6, <2>7, <2>8, HeadIsFirstHit
    <2> QED  BY <2>1, <2>5
  <1>11. PICK head : head = [from |-> p, to |-> p + Size]
    OBVIOUS
  <1>12. Without(text, head) = clean
    <2>1. [from |-> p, to |-> p + Size] \in [from : Nat, to : Nat]
      BY <1>6, <1>8
    <2>2. head # Nowhere
      BY <1>11, <2>1, NowhereAssumption
    <2>6. head.from = p /\ head.to = p + Size /\ ~(p > 0)
      BY <1>6, <1>11
    <2>3. Without(text, head) = SubSeq(text, 1, p) \o SubSeq(text, p + Size + 1, Len(text))
      BY <2>2, <2>6 DEF Without
    <2>4. Len(text) = Len(clean) + Size
      BY <1>7 DEF Laid
    <2>5. SubSeq(text, 1, p) \o SubSeq(text, p + Size + 1, Len(text)) = clean
      <3>1. p \in 0 .. Len(clean) /\ clean \in Seq(LinesOf(Saying))
        BY <1>4, <1>6 DEF S
      <3> QED  BY <1>3, <1>7, <2>4, <3>1, CutOut
    <2> QED  BY <2>3, <2>5
  <1> QED  BY <1>1, <1>10, <1>11, <1>12 DEF StripInjectedBlock, old, form

\* The type of a length, for the proofs to cite.
LEMMA LengthIs ==
    ASSUME NEW S, NEW lines \in Seq(S)
    PROVE  Len(lines) \in Nat
  OBVIOUS

\* A block ends within the text.
LEMMA BlockEndInside ==
    ASSUME NEW S, NEW lines \in Seq(S), NEW s \in Nat, NEW form,
           BlockEnd(lines, s, form) # Nowhere
    PROVE  BlockEnd(lines, s, form) \in s + 2 .. Len(lines)
  <1> DEFINE closes == {m \in s + 2 .. Len(lines) : Closes(lines, s, form, m)}
  <1>1. BlockEnd(lines, s, form) = Min(closes) /\ closes # {}
    BY DEF BlockEnd, Closes
  <1>2. closes \in SUBSET Nat /\ closes \subseteq s + 2 .. Len(lines)
    OBVIOUS
  <1> HIDE DEF closes
  <1>3. Min(closes) \in closes
    BY <1>1, <1>2, LeastOf
  <1> QED  BY <1>1, <1>2, <1>3

\* A block that is found is one: behind the lines that must stay first, or at the start.
HeadIn(lines, head) ==
    \E s \in 0 .. Len(lines) : \E e \in s + 2 .. Len(lines) :
        head = [from |-> s, to |-> e] /\ (s > 0 => Terminated(lines[s]))

LEMMA HeadIs ==
    ASSUME NEW S, NEW lines \in Seq(S), NEW F, NEW spec, spec.forms \in Seq(F),
           CarrierPosition(lines, spec) \in 0 .. Len(lines) \/ CarrierPosition(lines, spec) = Nowhere,
           FindHeadBlock(lines, spec) # Nowhere
    PROVE  HeadIn(lines, FindHeadBlock(lines, spec))
  <1>1. Len(lines) \in Nat
    BY LengthIs
  <1> DEFINE p == CarrierPosition(lines, spec)
             spans == AllSpans(lines, spec)
             zero == SpansOf(lines, 0, spec.forms)
             front == Behind(lines, spec)
             hits == {m \in DOMAIN spans : spans[m].to # Nowhere}
             Is(span) == \E s \in 0 .. Len(lines) : \E form :
                            /\ span = [from |-> s, to |-> BlockEnd(lines, s, form)]
                            /\ s > 0 => Terminated(lines[s])
             R == Range(zero) \cup Range(front)
  <1>2. FindHeadBlock(lines, spec) = IF hits = {} THEN Nowhere ELSE spans[Min(hits)]
    BY DEF FindHeadBlock, AllSpans, Behind, SpansOf
  <1>3. zero \in Seq(Range(zero)) /\ \A j \in DOMAIN zero : Is(zero[j])
    <2>1. /\ zero \in Seq(Range(zero)) /\ DOMAIN zero = 1 .. Len(spec.forms)
          /\ \A j \in 1 .. Len(spec.forms) :
                zero[j] = [from |-> 0, to |-> BlockEnd(lines, 0, spec.forms[j])]
      BY SpansAreSpans
    <2> HIDE DEF zero
    <2> QED  BY <1>1, <2>1
  <1>4. front \in Seq(Range(front)) /\ \A j \in DOMAIN front : Is(front[j])
    <2>1. CASE p # Nowhere /\ p > 0 /\ Terminated(lines[p])
      <3>1. front = SpansOf(lines, p, spec.forms)
        BY <2>1 DEF Behind
      <3>2. /\ front \in Seq(Range(front)) /\ DOMAIN front = 1 .. Len(spec.forms)
            /\ \A j \in 1 .. Len(spec.forms) :
                  front[j] = [from |-> p, to |-> BlockEnd(lines, p, spec.forms[j])]
        BY <3>1, SpansAreSpans
      <3>3. p \in 0 .. Len(lines)
        BY <2>1
      <3> HIDE DEF front, p
      <3> QED  BY <2>1, <3>2, <3>3
    <2>2. CASE ~(p # Nowhere /\ p > 0 /\ Terminated(lines[p]))
      <3>1. front = <<>>
        BY <2>2 DEF Behind
      <3> QED  BY <3>1
    <2> QED  BY <2>1, <2>2
  <1>5. spans = front \o zero
    BY DEF AllSpans
  <1> HIDE DEF p, spans, zero, front, Is
  <1>6. front \in Seq(R) /\ zero \in Seq(R)
    BY <1>3, <1>4
  <1> HIDE DEF R
  <1>7. spans \in Seq(R) /\ \A n \in DOMAIN spans : Is(spans[n])
    <2>1. spans \in Seq(R) /\ Len(spans) = Len(front) + Len(zero) /\ DOMAIN spans = 1 .. Len(spans)
          /\ Len(front) \in Nat /\ Len(zero) \in Nat
          /\ DOMAIN front = 1 .. Len(front) /\ DOMAIN zero = 1 .. Len(zero)
      BY <1>5, <1>6
    <2>2. /\ \A n \in 1 .. Len(front) : spans[n] = front[n]
          /\ \A n \in 1 .. Len(zero) : spans[Len(front) + n] = zero[n]
      BY <1>5, <1>6
    <2>3. ASSUME NEW n \in DOMAIN spans PROVE Is(spans[n])
      <3>1. CASE n \in 1 .. Len(front)
        BY <1>4, <2>1, <2>2, <3>1
      <3>2. CASE n \notin 1 .. Len(front)
        <4>1. n - Len(front) \in 1 .. Len(zero) /\ Len(front) + (n - Len(front)) = n
          BY <2>1, <3>2
        <4>2. spans[n] = zero[n - Len(front)]
          BY <2>2, <4>1
        <4> QED  BY <1>3, <2>1, <4>1, <4>2
      <3> QED  BY <3>1, <3>2
    <2> QED  BY <2>1, <2>3
  <1>8. hits \in SUBSET Nat /\ hits # {}
    <2>1. hits \subseteq DOMAIN spans /\ DOMAIN spans \subseteq Nat
      BY <1>7
    <2> QED  BY <1>2, <2>1
  <1>9. Min(hits) \in hits
    <2> HIDE DEF hits
    <2> QED  BY <1>8, LeastOf
  <1>10. PICK n \in DOMAIN spans : spans[n] = FindHeadBlock(lines, spec) /\ spans[n].to # Nowhere
    BY <1>2, <1>8, <1>9
  <1>11. Is(spans[n])
    BY <1>7
  <1>12. PICK s \in 0 .. Len(lines) : \E form :
            /\ spans[n] = [from |-> s, to |-> BlockEnd(lines, s, form)]
            /\ s > 0 => Terminated(lines[s])
    BY <1>11 DEF Is
  <1>15. PICK form :
            /\ spans[n] = [from |-> s, to |-> BlockEnd(lines, s, form)]
            /\ s > 0 => Terminated(lines[s])
    BY <1>12
  <1>13. BlockEnd(lines, s, form) # Nowhere
    BY <1>10, <1>15
  <1>16. s \in Nat
    BY <1>1
  <1>14. BlockEnd(lines, s, form) \in s + 2 .. Len(lines)
    BY <1>13, <1>16, BlockEndInside
  <1> QED  BY <1>10, <1>14, <1>15 DEF HeadIn

\* A text of no other words than those of `lines`.
LinesFrom(text, lines) ==
    \A n \in 1 .. Len(text) : \E i \in 1 .. Len(lines) : text[n].says = lines[i].says

\* Taking an end back changes no word.
LEMMA UnsuppliedIsAText ==
    ASSUME NEW Saying, NEW text \in Texts(Saying), Len(text) > 0, Terminated(text[Len(text)])
    PROVE  /\ Unsupplied(text) \in Texts(Saying)
           /\ Len(Unsupplied(text)) = Len(text)
           /\ \A n \in 1 .. Len(text) : Unsupplied(text)[n].says = text[n].says
  <1> DEFINE z == Len(text)
             ends == Last(text).ends
             crlf == Len(ends) > 1 /\ Len(text) > 1 /\ Newline(text) = <<"cr", "lf">>
             less == IF crlf THEN 2 ELSE 1
             kept == SubSeq(ends, 1, Len(ends) - less)
  <1>1. /\ text \in Seq(LinesOf(Saying)) /\ z \in Nat \ {0} /\ text[z] \in LinesOf(Saying)
        /\ \A n \in 1 .. z - 1 : Terminated(text[n])
        /\ \A n \in 1 .. z : text[n] \in LinesOf(Saying)
    BY TextLines
  <1>2. ends = text[z].ends /\ ends \in Seq(Ending) /\ ends # <<>>
    BY <1>1 DEF Last, LinesOf, Terminated
  <1>3. kept \in Seq(Ending)
    <2>1. Len(ends) \in Nat /\ Len(ends) - less \in 0 .. Len(ends)
      <3>1. Len(ends) \in Nat /\ Len(ends) >= 1
        BY <1>2
      <3> HIDE DEF ends
      <3> QED  BY <3>1
    <2> HIDE DEF less, ends
    <2> QED  BY <1>2, <2>1
  <1>4. Unsupplied(text) = [text EXCEPT ![z] = [text[z] EXCEPT !.ends = kept]]
    BY DEF Unsupplied
  <1> HIDE DEF kept
  <1> DEFINE line == [says |-> text[z].says, ends |-> kept]
  <1>5. [text[z] EXCEPT !.ends = kept] = line
    BY <1>1, OtherEnds
  <1>6. line \in LinesOf(Saying) /\ line.says = text[z].says
    BY <1>1, <1>3 DEF LinesOf
  <1> HIDE DEF line
  <1>11. \A n \in 1 .. z : n = z \/ n \in 1 .. z - 1
    BY <1>1
  <1> SUFFICES ASSUME NEW u, u = [text EXCEPT ![z] = line]
               PROVE  /\ u \in Texts(Saying) /\ Len(u) = Len(text)
                      /\ \A n \in 1 .. Len(text) : u[n].says = text[n].says
    BY <1>4, <1>5
  <1>7. u \in Seq(LinesOf(Saying)) /\ Len(u) = z
    BY <1>1, <1>6
  <1>8. /\ \A n \in 1 .. z - 1 : u[n] = text[n]
        /\ u[z] = line
    BY <1>1
  <1>9. \A n \in 1 .. z : u[n].says = text[n].says
    <2> TAKE n \in 1 .. z
    <2>1. n = z \/ n \in 1 .. z - 1
      BY <1>11
    <2> QED  BY <2>1, <1>6, <1>8
  <1>10. \A n \in 1 .. Len(u) - 1 : Terminated(u[n])
    BY <1>1, <1>7, <1>8
  <1> QED  BY <1>7, <1>9, <1>10 DEF Texts

LEMMA PrefixIsAText ==
    ASSUME NEW Saying, NEW text \in Texts(Saying), NEW s \in 0 .. Len(text)
    PROVE  /\ SubSeq(text, 1, s) \in Texts(Saying) /\ Len(SubSeq(text, 1, s)) = s
           /\ \A n \in 1 .. s : SubSeq(text, 1, s)[n] = text[n]
  <1>1. text \in Seq(LinesOf(Saying)) /\ \A n \in 1 .. Len(text) - 1 : Terminated(text[n])
    BY TextLines
  <1> SUFFICES ASSUME NEW a, a = SubSeq(text, 1, s)
               PROVE  a \in Texts(Saying) /\ Len(a) = s /\ \A n \in 1 .. s : a[n] = text[n]
    OBVIOUS
  <1>2. a \in Seq(LinesOf(Saying)) /\ Len(a) = s /\ \A n \in 1 .. s : a[n] = text[n]
    BY <1>1
  <1>3. \A n \in 1 .. Len(a) - 1 : Terminated(a[n])
    BY <1>1, <1>2
  <1> QED  BY <1>2, <1>3 DEF Texts

LEMMA CutIsAText ==
    ASSUME NEW Saying, NEW text \in Texts(Saying), NEW s \in 0 .. Len(text), NEW e \in s .. Len(text),
           s > 0 => Terminated(text[s])
    PROVE  /\ SubSeq(text, 1, s) \o SubSeq(text, e + 1, Len(text)) \in Texts(Saying)
           /\ LinesFrom(SubSeq(text, 1, s) \o SubSeq(text, e + 1, Len(text)), text)
  <1>1. text \in Seq(LinesOf(Saying)) /\ \A n \in 1 .. Len(text) - 1 : Terminated(text[n])
    BY TextLines
  <1>2. PICK z : z = Len(text)
    OBVIOUS
  <1>3. z \in Nat /\ s \in Nat /\ e \in Nat /\ s <= e /\ e <= z
    BY <1>1, <1>2
  <1>4. PICK a : a = SubSeq(text, 1, s)
    OBVIOUS
  <1>5. PICK b : b = SubSeq(text, e + 1, z)
    OBVIOUS
  <1>6. a \in Seq(LinesOf(Saying)) /\ Len(a) = s /\ \A n \in 1 .. s : a[n] = text[n]
    BY <1>1, <1>2, <1>4
  <1>7. /\ b \in Seq(LinesOf(Saying)) /\ Len(b) = z - e
        /\ \A n \in 1 .. z - e : b[n] = text[e + n]
    BY <1>1, <1>2, <1>3, <1>5
  <1>8. PICK c : c = a \o b
    OBVIOUS
  <1>9. /\ c \in Seq(LinesOf(Saying)) /\ Len(c) = s + (z - e)
        /\ \A n \in 1 .. s : c[n] = text[n]
        /\ \A n \in 1 .. z - e : c[s + n] = text[e + n]
    <2>1. a \in Seq(LinesOf(Saying)) /\ b \in Seq(LinesOf(Saying))
      BY <1>6, <1>7
    <2>2. /\ a \o b \in Seq(LinesOf(Saying)) /\ Len(a \o b) = Len(a) + Len(b)
          /\ \A n \in 1 .. Len(a) : (a \o b)[n] = a[n]
          /\ \A n \in 1 .. Len(b) : (a \o b)[Len(a) + n] = b[n]
      BY <2>1, Concatenated
    <2>3. Len(a) = s /\ Len(b) = z - e
      BY <1>6, <1>7
    <2> QED  BY <1>6, <1>7, <1>8, <2>2, <2>3
  <1>10. \A n \in 1 .. Len(c) - 1 : Terminated(c[n])
    <2> TAKE n \in 1 .. Len(c) - 1
    <2>1. CASE n \in 1 .. s - 1
      <3>1. n \in 1 .. s /\ n \in 1 .. z - 1
        BY <2>1, <1>3
      <3> QED  BY <3>1, <1>1, <1>2, <1>9
    <2>2. CASE n = s
      <3>1. s > 0 /\ n \in 1 .. s
        BY <2>2, <1>3, <1>9
      <3> QED  BY <2>2, <3>1, <1>9
    <2>3. CASE n > s
      <3>1. n - s \in 1 .. z - e /\ s + (n - s) = n /\ e + (n - s) \in 1 .. z - 1
        BY <2>3, <1>3, <1>9
      <3>2. c[n] = text[e + (n - s)]
        BY <3>1, <1>9
      <3> QED  BY <3>1, <3>2, <1>1, <1>2
    <2>4. n \in 1 .. s - 1 \/ n = s \/ n > s
      BY <1>3, <1>9
    <2> QED  BY <2>1, <2>2, <2>3, <2>4
  <1>11. LinesFrom(c, text)
    <2> SUFFICES ASSUME NEW n \in 1 .. Len(c)
                 PROVE  \E i \in 1 .. Len(text) : c[n].says = text[i].says
      BY DEF LinesFrom
    <2>1. CASE n \in 1 .. s
      <3>1. n \in 1 .. z /\ c[n] = text[n]
        BY <2>1, <1>3, <1>9
      <3> QED  BY <3>1, <1>2
    <2>2. CASE n \notin 1 .. s
      <3>1. n - s \in 1 .. z - e /\ s + (n - s) = n /\ e + (n - s) \in 1 .. z
        BY <2>2, <1>3, <1>9
      <3>2. c[n] = text[e + (n - s)]
        BY <3>1, <1>9
      <3> QED  BY <3>1, <3>2, <1>2
    <2> QED  BY <2>1, <2>2
  <1>12. c \in Texts(Saying)
    BY <1>9, <1>10 DEF Texts
  <1> QED  BY <1>2, <1>4, <1>5, <1>8, <1>11, <1>12

\* Without its block, whichever that is, a text is a text of its own words.
LEMMA StripIsAText ==
    ASSUME NEW Saying, NEW spec, IsFileType(spec, Saying), NEW text \in Texts(Saying)
    PROVE  /\ StripInjectedBlock(text, spec) \in Texts(Saying)
           /\ LinesFrom(StripInjectedBlock(text, spec), text)
  <1>1. PICK head : head = FindHeadBlock(text, spec)
    OBVIOUS
  <1>2. StripInjectedBlock(text, spec) = Without(text, head)
    BY <1>1 DEF StripInjectedBlock
  <1>3. text \in Seq(LinesOf(Saying)) /\ DOMAIN text = 1 .. Len(text) /\ Len(text) \in Nat
    BY TextLines
  <1>4. CASE head = Nowhere
    <2>1. Without(text, head) = text
      BY <1>4 DEF Without
    <2> QED  BY <1>2, <2>1 DEF LinesFrom
  <1>5. CASE head # Nowhere
    <2>1. spec.forms \in Seq(Forms(Saying)) /\ spec.prologue \in Prologues
      BY DEF IsFileType
    <2>2. CarrierPosition(text, spec) \in 0 .. Len(text) \/ CarrierPosition(text, spec) = Nowhere
      BY <1>3, <2>1, PositionInside
    <2>3. HeadIn(text, head)
      BY <1>1, <1>3, <1>5, <2>1, <2>2, HeadIs
    <2>4. PICK s \in 0 .. Len(text) : \E e \in s + 2 .. Len(text) :
              head = [from |-> s, to |-> e] /\ (s > 0 => Terminated(text[s]))
      BY <2>3 DEF HeadIn
    <2>5. PICK e \in s + 2 .. Len(text) :
              head = [from |-> s, to |-> e] /\ (s > 0 => Terminated(text[s]))
      BY <2>4
    <2>6. head.from = s /\ head.to = e
      BY <2>5
    <2>7. /\ SubSeq(text, 1, s) \in Texts(Saying) /\ Len(SubSeq(text, 1, s)) = s
          /\ \A n \in 1 .. s : SubSeq(text, 1, s)[n] = text[n]
      BY PrefixIsAText
    <2>8. CASE s > 0 /\ e = Len(text) /\ ~Terminated(text[e])
      <3>1. Without(text, head) = Unsupplied(SubSeq(text, 1, s))
        BY <1>5, <2>6, <2>8 DEF Without
      <3>2. PICK b : b = SubSeq(text, 1, s)
        OBVIOUS
      <3>3. b \in Texts(Saying) /\ Len(b) = s /\ \A n \in 1 .. s : b[n] = text[n]
        BY <2>7, <3>2
      <3>4. s \in 1 .. Len(text) /\ s \in 1 .. s
        BY <1>3, <2>8
      <3>5. Len(b) > 0 /\ Terminated(b[Len(b)])
        BY <2>5, <2>8, <3>3, <3>4
      <3>6. /\ Unsupplied(b) \in Texts(Saying) /\ Len(Unsupplied(b)) = s
            /\ \A n \in 1 .. s : Unsupplied(b)[n].says = b[n].says
        BY <3>3, <3>5, UnsuppliedIsAText
      <3>7. LinesFrom(Unsupplied(b), text)
        <4> SUFFICES ASSUME NEW n \in 1 .. s
                     PROVE  \E i \in 1 .. Len(text) : Unsupplied(b)[n].says = text[i].says
          BY <3>6 DEF LinesFrom
        <4>1. n \in 1 .. Len(text)
          BY <1>3, <3>4
        <4> QED  BY <3>3, <3>6, <4>1
      <3> QED  BY <1>2, <3>1, <3>2, <3>6, <3>7
    <2>9. CASE ~(s > 0 /\ e = Len(text) /\ ~Terminated(text[e]))
      <3>1. Without(text, head) = SubSeq(text, 1, s) \o SubSeq(text, e + 1, Len(text))
        BY <1>5, <2>6, <2>9 DEF Without
      <3>2. e \in s .. Len(text)
        BY <1>3
      <3> QED  BY <1>2, <2>5, <3>1, <3>2, CutIsAText
    <2> QED  BY <2>8, <2>9
  <1> QED  BY <1>4, <1>5

\* The words a language knows are found in that language's files.
OwnWords(lines, prologue) ==
    \A n \in DOMAIN lines :
        /\ lines[n].says \in {"xml", "xml opens"} => prologue = "xml-declaration"
        /\ lines[n].says = "charset" => prologue = "css-charset"
        /\ lines[n].says = "php" => prologue = "php-open-tag"
        /\ lines[n].says = "directive" => prologue = "dockerfile-directives"

LEMMA OwnWordsFirst ==
    ASSUME NEW lines, NEW prologue, OwnWords(lines, prologue)
    PROVE  FirstWords(lines, prologue)
  <1>1. ASSUME NEW n, Says(lines, n) # "end"
        PROVE  n \in DOMAIN lines /\ Says(lines, n) = lines[n].says
    BY <1>1 DEF Says
  <1>2. ASSUME NEW n
        PROVE  /\ Says(lines, n) = "xml" => prologue = "xml-declaration"
               /\ Says(lines, n) = "xml opens" => prologue = "xml-declaration"
               /\ Says(lines, n) = "charset" => prologue = "css-charset"
               /\ Says(lines, n) = "php" => prologue = "php-open-tag"
               /\ Says(lines, n) = "directive" => prologue = "dockerfile-directives"
    BY <1>1 DEF OwnWords
  <1> QED  BY <1>2 DEF FirstWords

\* Whatever the file: what is written is taken out again to the byte and read back, the
\* host goes on reading what it read, and what an earlier version wrote in front of
\* everything is taken out, too (comment.ts: blockAt, carrierPosition; inject.ts).
THEOREM EveryCarrierRoundTrips ==
    ASSUME NEW Saying, HeaderFits(Saying), NEW spec, IsFileType(spec, Saying),
           NEW lines \in Texts(Saying), OwnWords(lines, spec.prologue)
    PROVE  CarriersRoundTrip(lines, spec)
  <1> SUFFICES ASSUME CarriesItself(lines, spec),
                      NEW clean, clean = StripInjectedBlock(lines, spec)
               PROVE  RoundTrips(clean, ApplyCommentInjection(clean, spec), spec)
    BY DEF CarriersRoundTrip
  <1>1. clean \in Texts(Saying) /\ LinesFrom(clean, lines)
    BY StripIsAText
  <1>2. DOMAIN clean = 1 .. Len(clean) /\ Len(clean) \in Nat /\ DOMAIN lines = 1 .. Len(lines)
    BY <1>1, TextLines
  <1>3. OwnWords(clean, spec.prologue)
    <2> SUFFICES ASSUME NEW n \in 1 .. Len(clean)
                 PROVE  /\ clean[n].says \in {"xml", "xml opens"}
                              => spec.prologue = "xml-declaration"
                        /\ clean[n].says = "charset" => spec.prologue = "css-charset"
                        /\ clean[n].says = "php" => spec.prologue = "php-open-tag"
                        /\ clean[n].says = "directive" => spec.prologue = "dockerfile-directives"
      BY <1>2 DEF OwnWords
    <2>1. PICK i \in 1 .. Len(lines) : clean[n].says = lines[i].says
      BY <1>1 DEF LinesFrom
    <2> QED  BY <1>2, <2>1 DEF OwnWords
  <1>4. FirstWords(clean, spec.prologue)
    BY <1>3, OwnWordsFirst
  <1>5. spec.prologue \in Prologues /\ DOMAIN spec.forms = 1 .. Len(spec.forms)
    BY DEF IsFileType
  <1>6. PICK p : p = CarrierPosition(clean, spec)
    OBVIOUS
  <1>7. p \in 0 .. Len(clean)
    <2>1. p # Nowhere
      BY <1>6 DEF CarriesItself
    <2> QED  BY <1>2, <1>5, <1>6, <2>1, PositionInside
  <1>8. PICK text : text = ApplyCommentInjection(clean, spec)
    OBVIOUS
  <1>9. /\ StripInjectedBlock(text, spec) = clean
        /\ ExtractInjected(text, spec) = Header
        /\ HostReads(text, spec) = HostReads(clean, spec)
    BY <1>1, <1>4, <1>6, <1>7, <1>8, WrittenRoundTrips
  <1>10. ASSUME NEW k \in DOMAIN spec.forms
         PROVE  LET old == EndedWith(Block(spec.forms[k], Newline(clean)), Newline(clean))
                IN  StripInjectedBlock(old \o clean, spec) = clean
    <2>1. Newline(clean) \in LineEnds
      BY NewlineIs
    <2>2. k \in 1 .. Len(spec.forms)
      BY <1>5
    <2> QED  BY <1>1, <2>1, <2>2, OldRoundTrips
  <1> QED  BY <1>8, <1>9, <1>10 DEF RoundTrips

-----------------------------------------------------------------------------
(* Front matter: a header as the lines it is laid out in, what becomes of  *)
(* each of them in a patch, and what that is when it is read again.        *)

\* The partial results of a concatenation.
IsWalk(w, f, N, S) ==
    /\ w \in [0 .. N -> Seq(S)]
    /\ w[0] = <<>>
    /\ \A n \in 1 .. N : w[n] = w[n - 1] \o f[n]

LEMMA LeastFailure ==
    ASSUME NEW N \in Nat, NEW P, 0 \notin P, \A n \in 1 .. N : n - 1 \notin P => n \notin P
    PROVE  \A n \in 0 .. N : n \notin P
  <1> SUFFICES ASSUME P \cap (0 .. N) # {} PROVE FALSE
    OBVIOUS
  <1> DEFINE Q == P \cap (0 .. N)
  <1>0. Q \in SUBSET Nat /\ Q # {}
    OBVIOUS
  <1>1. PICK n \in Q : \A m \in Q : n <= m
    <2> HIDE DEF Q
    <2> QED  BY <1>0, LeastNatural
  <1>2. n \in 1 .. N /\ n - 1 \in 0 .. N
    BY <1>1
  <1>3. n - 1 \notin P
    BY <1>1, <1>2
  <1> QED  BY <1>1, <1>2, <1>3

LEMMA WalkExists ==
    ASSUME NEW S, NEW N \in Nat, NEW f, \A n \in 1 .. N : f[n] \in Seq(S)
    PROVE  \E w : IsWalk(w, f, N, S)
  <1> DEFINE Upto(w, n) == /\ w[0] = <<>>
                           /\ \A m \in 1 .. N : m <= n => w[m] = w[m - 1] \o f[m]
             Bad == {n \in 0 .. N : ~\E w \in [0 .. N -> Seq(S)] : Upto(w, n)}
  <1>1. 0 \notin Bad
    <2>1. [n \in 0 .. N |-> <<>>] \in [0 .. N -> Seq(S)]
      OBVIOUS
    <2>2. Upto([n \in 0 .. N |-> <<>>], 0)
      <3>1. [n \in 0 .. N |-> <<>>][0] = <<>>
        OBVIOUS
      <3>2. \A m \in 1 .. N : ~(m <= 0)
        OBVIOUS
      <3> QED  BY <3>1, <3>2
    <2> QED  BY <2>1, <2>2
  <1>2. ASSUME NEW n \in 1 .. N, n - 1 \notin Bad PROVE n \notin Bad
    <2>1. n - 1 \in 0 .. N /\ n \in 0 .. N /\ n \in Nat
      OBVIOUS
    <2>2. PICK w \in [0 .. N -> Seq(S)] : Upto(w, n - 1)
      BY <1>2, <2>1
    <2> DEFINE v == [w EXCEPT ![n] = w[n - 1] \o f[n]]
    <2>3. v \in [0 .. N -> Seq(S)]
      <3>1. w[n - 1] \o f[n] \in Seq(S)
        BY <2>1, <2>2
      <3> QED  BY <2>1, <2>2, <3>1
    <2>4. Upto(v, n)
      <3>1. v[0] = <<>>
        BY <2>1, <2>2
      <3>2. ASSUME NEW m \in 1 .. N, m <= n PROVE v[m] = v[m - 1] \o f[m]
        <4>1. m - 1 \in 0 .. N /\ m - 1 # n /\ m \in 0 .. N
          BY <3>2
        <4>2. v[m - 1] = w[m - 1]
          BY <4>1
        <4>3. CASE m = n
          BY <2>1, <4>2, <4>3
        <4>4. CASE m # n
          <5>1. m <= n - 1 /\ v[m] = w[m]
            BY <3>2, <4>1, <4>4
          <5> QED  BY <2>2, <4>2, <5>1
        <4> QED  BY <4>3, <4>4
      <3> QED  BY <3>1, <3>2
    <2> HIDE DEF v, Upto
    <2> QED  BY <2>1, <2>3, <2>4
  <1>3. \A n \in 0 .. N : n \notin Bad
    <2> HIDE DEF Bad
    <2> QED  BY <1>1, <1>2, LeastFailure
  <1>4. PICK w \in [0 .. N -> Seq(S)] : Upto(w, N)
    <2>1. N \in 0 .. N
      OBVIOUS
    <2>2. N \notin Bad
      BY <1>3, <2>1
    <2> HIDE DEF Upto
    <2> QED  BY <2>1, <2>2
  <1>5. IsWalk(w, f, N, S)
    <2>1. \A m \in 1 .. N : m <= N
      OBVIOUS
    <2> QED  BY <1>4, <2>1 DEF IsWalk
  <1> QED  BY <1>5

LEMMA FlattenIsWalk ==
    ASSUME NEW S, NEW N \in Nat, NEW f, f \in [1 .. N -> Seq(S)], NEW w, IsWalk(w, f, N, S)
    PROVE  FlattenSeq(f) = w[N]
  <1>1. f \in Seq(Seq(S)) /\ Len(f) = N /\ DOMAIN f = 1 .. N
    OBVIOUS
  <1>2. CASE N = 0
    <2>1. FlattenSeq(f) = f
      BY <1>1, <1>2 DEF FlattenSeq
    <2>2. f = <<>>
      BY <1>1, <1>2
    <2> QED  BY <1>2, <2>1, <2>2 DEF IsWalk
  <1>3. CASE N # 0
    <2> DEFINE Eq(g) == g = [i \in 1 .. N |-> IF i = 1 THEN f[i] ELSE g[i - 1] \o f[i]]
               flat == CHOOSE g : Eq(g)
    <2>1. FlattenSeq(f) = flat[N]
      BY <1>1, <1>3 DEF FlattenSeq
    <2>2. Eq([n \in 1 .. N |-> w[n]])
      <3> DEFINE v == [n \in 1 .. N |-> w[n]]
      <3>1. ASSUME NEW i \in 1 .. N PROVE v[i] = IF i = 1 THEN f[i] ELSE v[i - 1] \o f[i]
        <4>1. w[i] = w[i - 1] \o f[i] /\ v[i] = w[i] /\ f[i] \in Seq(S)
          BY DEF IsWalk
        <4>2. CASE i = 1
          <5>1. w[i - 1] = <<>>
            BY <4>2 DEF IsWalk
          <5> QED  BY <4>1, <4>2, <5>1
        <4>3. CASE i # 1
          <5>1. i - 1 \in 1 .. N
            BY <4>3
          <5> QED  BY <4>1, <4>3, <5>1
        <4> QED  BY <4>2, <4>3
      <3>2. v = [i \in 1 .. N |-> v[i]]
        OBVIOUS
      <3>3. [i \in 1 .. N |-> v[i]] = [i \in 1 .. N |-> IF i = 1 THEN f[i] ELSE v[i - 1] \o f[i]]
        <4> HIDE DEF v
        <4> QED  BY <3>1
      <3> QED  BY <3>2, <3>3
    <2>3. Eq(flat)
      <3> HIDE DEF Eq
      <3> QED  BY <2>2
    <2> HIDE DEF flat
    <2> DEFINE Bad == {n \in 1 .. N : flat[n] # w[n]}
    <2>4. 0 \notin Bad
      OBVIOUS
    <2>5. ASSUME NEW n \in 1 .. N, n - 1 \notin Bad PROVE n \notin Bad
      <3>1. w[n] = w[n - 1] \o f[n] /\ f[n] \in Seq(S)
        BY DEF IsWalk
      <3>2. flat[n] = IF n = 1 THEN f[n] ELSE flat[n - 1] \o f[n]
        BY <2>3
      <3>3. CASE n = 1
        <4>1. w[n - 1] = <<>>
          BY <3>3 DEF IsWalk
        <4> QED  BY <3>1, <3>2, <3>3, <4>1
      <3>4. CASE n # 1
        <4>1. n - 1 \in 1 .. N
          BY <3>4
        <4>2. flat[n - 1] = w[n - 1]
          BY <2>5, <4>1
        <4> QED  BY <3>1, <3>2, <3>4, <4>2
      <3> QED  BY <3>3, <3>4
    <2>6. \A n \in 0 .. N : n \notin Bad
      <3> HIDE DEF Bad
      <3> QED  BY <2>4, <2>5, LeastFailure
    <2>7. flat[N] = w[N]
      BY <1>3, <2>6
    <2> QED  BY <2>1, <2>7
  <1> QED  BY <1>2, <1>3

-----------------------------------------------------------------------------
\* Where the parts of a concatenation lie in it.
WalksOver(w, f, N, S) ==
    /\ \A n \in 0 .. N : w[n] \in Seq(S) /\ Len(w[n]) \in Nat
    /\ Len(w[0]) = 0
    /\ \A n \in 1 .. N : /\ Len(w[n]) = Len(w[n - 1]) + Len(f[n])
                         /\ Len(f[n]) \in Nat
                         /\ \A j \in 1 .. Len(w[n - 1]) : w[n][j] = w[n - 1][j]
                         /\ \A j \in 1 .. Len(f[n]) : w[n][Len(w[n - 1]) + j] = f[n][j]

LEMMA WalkSteps ==
    ASSUME NEW S, NEW N \in Nat, NEW f, NEW w, IsWalk(w, f, N, S),
           \A n \in 1 .. N : f[n] \in Seq(S)
    PROVE  WalksOver(w, f, N, S)
  <1>1. \A n \in 0 .. N : w[n] \in Seq(S) /\ Len(w[n]) \in Nat
    BY DEF IsWalk
  <1>2. Len(w[0]) = 0
    BY DEF IsWalk
  <1>3. ASSUME NEW n \in 1 .. N
        PROVE  /\ Len(w[n]) = Len(w[n - 1]) + Len(f[n])
               /\ Len(f[n]) \in Nat
               /\ \A j \in 1 .. Len(w[n - 1]) : w[n][j] = w[n - 1][j]
               /\ \A j \in 1 .. Len(f[n]) : w[n][Len(w[n - 1]) + j] = f[n][j]
    <2>1. n - 1 \in 0 .. N
      OBVIOUS
    <2>2. PICK a \in Seq(S) : a = w[n - 1]
      BY <1>1, <2>1
    <2>3. PICK b \in Seq(S) : b = f[n]
      OBVIOUS
    <2>4. w[n] = a \o b
      BY <2>2, <2>3 DEF IsWalk
    <2>5. /\ Len(a \o b) = Len(a) + Len(b) /\ Len(b) \in Nat
          /\ \A j \in 1 .. Len(a) : (a \o b)[j] = a[j]
          /\ \A j \in 1 .. Len(b) : (a \o b)[Len(a) + j] = b[j]
      OBVIOUS
    <2> QED  BY <2>2, <2>3, <2>4, <2>5
  <1> QED  BY <1>1, <1>2, <1>3 DEF WalksOver

\* Naturals that never fall from one to the next.
LEMMA Climbs ==
    ASSUME NEW a \in Nat, NEW b \in Nat, NEW u, \A n \in a .. b : u[n] \in Nat,
           \A n \in a + 1 .. b : u[n - 1] <= u[n]
    PROVE  \A m, n \in a .. b : m <= n => u[m] <= u[n]
  <1> SUFFICES ASSUME NEW m \in a .. b
               PROVE  \A n \in a .. b : m <= n => u[m] <= u[n]
    OBVIOUS
  <1> DEFINE N == b - m
             Bad == {i \in 0 .. N : ~(u[m] <= u[m + i])}
  <1>1. N \in Nat /\ m \in Nat
    OBVIOUS
  <1>2. 0 \notin Bad
    BY <1>1
  <1>3. ASSUME NEW i \in 1 .. N, i - 1 \notin Bad PROVE i \notin Bad
    <2>1. i - 1 \in 0 .. N /\ m + i \in a + 1 .. b /\ m + i - 1 \in a .. b /\ m + (i - 1) = m + i - 1
          /\ m + i \in a .. b
      BY <1>1
    <2>2. u[m] <= u[m + i - 1]
      BY <1>3, <2>1
    <2>3. u[m + i - 1] <= u[m + i] /\ u[m + i - 1] \in Nat /\ u[m + i] \in Nat /\ u[m] \in Nat
      BY <2>1
    <2> QED  BY <2>2, <2>3
  <1>4. \A i \in 0 .. N : i \notin Bad
    <2> HIDE DEF Bad, N
    <2> QED  BY <1>1, <1>2, <1>3, LeastFailure
  <1>5. ASSUME NEW n \in a .. b, m <= n PROVE u[m] <= u[n]
    <2>1. n - m \in 0 .. N /\ m + (n - m) = n
      BY <1>5
    <2> QED  BY <2>1, <1>4
  <1> QED  BY <1>5

\* What each step leaves alone is left alone.
LEMMA Stays ==
    ASSUME NEW a \in Nat, NEW b \in Nat, a <= b, NEW u, \A n \in a + 1 .. b : u[n] = u[n - 1]
    PROVE  u[b] = u[a]
  <1> DEFINE N == b - a
             Bad == {i \in 0 .. N : u[a + i] # u[a]}
  <1>1. N \in Nat
    OBVIOUS
  <1>2. 0 \notin Bad
    OBVIOUS
  <1>3. ASSUME NEW i \in 1 .. N, i - 1 \notin Bad PROVE i \notin Bad
    <2>1. i - 1 \in 0 .. N /\ a + i \in a + 1 .. b /\ a + (i - 1) = a + i - 1
      OBVIOUS
    <2>2. u[a + i] = u[a + i - 1]
      BY <2>1
    <2> QED  BY <1>3, <2>1, <2>2
  <1>4. \A i \in 0 .. N : i \notin Bad
    <2> HIDE DEF Bad, N
    <2> QED  BY <1>1, <1>2, <1>3, LeastFailure
  <1>5. N \in 0 .. N /\ a + N = b
    OBVIOUS
  <1> QED  BY <1>4, <1>5

\* A concatenation and where its parts end in it.
IsLaidOut(flat, f, N, ends) ==
    /\ \A n \in 0 .. N : ends[n] \in Nat
    /\ ends[0] = 0 /\ Len(flat) = ends[N] /\ DOMAIN flat = 1 .. ends[N]
    /\ \A n \in 1 .. N : ends[n] = ends[n - 1] + Len(f[n])
    /\ \A n \in 1 .. N : \A j \in 1 .. Len(f[n]) : flat[ends[n - 1] + j] = f[n][j]

LEMMA LaidOutClimbs ==
    ASSUME NEW S, NEW N \in Nat, NEW f, \A n \in 1 .. N : f[n] \in Seq(S),
           NEW flat, NEW ends, IsLaidOut(flat, f, N, ends)
    PROVE  /\ \A m, n \in 0 .. N : m <= n => ends[m] <= ends[n]
           /\ \A n \in 1 .. N : Len(f[n]) \in Nat
  <1>1. \A n \in 1 .. N : Len(f[n]) \in Nat
    OBVIOUS
  <1>2. \A n \in 0 .. N : ends[n] \in Nat
    BY DEF IsLaidOut
  <1>3. \A n \in 0 + 1 .. N : ends[n - 1] <= ends[n]
    <2> TAKE n \in 0 + 1 .. N
    <2>1. n \in 1 .. N /\ n - 1 \in 0 .. N
      OBVIOUS
    <2>2. ends[n] = ends[n - 1] + Len(f[n])
      BY <2>1 DEF IsLaidOut
    <2> QED  BY <1>1, <1>2, <2>1, <2>2
  <1>4. 0 \in Nat
    OBVIOUS
  <1>5. \A m, n \in 0 .. N : m <= n => ends[m] <= ends[n]
    BY <1>2, <1>3, <1>4, Climbs
  <1> QED  BY <1>1, <1>5

LEMMA Covered ==
    ASSUME NEW S, NEW N \in Nat, NEW f, \A n \in 1 .. N : f[n] \in Seq(S),
           NEW flat, NEW ends, IsLaidOut(flat, f, N, ends), NEW p \in 1 .. ends[N]
    PROVE  \E n \in 1 .. N : ends[n - 1] < p /\ p <= ends[n]
  <1> DEFINE Q == {n \in 0 .. N : p <= ends[n]}
  <1>1. /\ \A n \in 0 .. N : ends[n] \in Nat
        /\ ends[0] = 0
    BY DEF IsLaidOut
  <1>2. Q \in SUBSET Nat /\ N \in Q /\ p \in Nat
    BY <1>1
  <1>3. PICK n \in Q : \A m \in Q : n <= m
    <2> HIDE DEF Q
    <2> QED  BY <1>2, LeastNatural
  <1>4. n \in 1 .. N /\ n - 1 \in 0 .. N
    BY <1>1, <1>3
  <1>5. n - 1 \notin Q
    <2>1. ~(n <= n - 1)
      BY <1>4
    <2> QED  BY <1>3, <2>1
  <1>6. ends[n - 1] < p
    BY <1>1, <1>4, <1>5
  <1> QED  BY <1>3, <1>4, <1>6

LEMMA FlattenIsLaidOut ==
    ASSUME NEW S, NEW N \in Nat, NEW f \in [1 .. N -> Seq(S)]
    PROVE  /\ FlattenSeq(f) \in Seq(S)
           /\ \E ends : IsLaidOut(FlattenSeq(f), f, N, ends)
  <1>1. \A n \in 1 .. N : f[n] \in Seq(S)
    OBVIOUS
  <1>2. PICK w : IsWalk(w, f, N, S)
    BY <1>1, WalkExists
  <1>3. FlattenSeq(f) = w[N]
    BY <1>2, FlattenIsWalk
  <1>4. /\ \A n \in 0 .. N : w[n] \in Seq(S) /\ Len(w[n]) \in Nat
        /\ Len(w[0]) = 0
        /\ \A n \in 1 .. N : /\ Len(w[n]) = Len(w[n - 1]) + Len(f[n])
                             /\ Len(f[n]) \in Nat
                             /\ \A j \in 1 .. Len(w[n - 1]) : w[n][j] = w[n - 1][j]
                             /\ \A j \in 1 .. Len(f[n]) : w[n][Len(w[n - 1]) + j] = f[n][j]
    <2>1. WalksOver(w, f, N, S)
      BY <1>1, <1>2, WalkSteps
    <2> QED  BY <2>1 DEF WalksOver
  <1> DEFINE ends == [n \in 0 .. N |-> Len(w[n])]
  <1>5. /\ \A n \in 0 .. N : ends[n] = Len(w[n]) /\ ends[n] \in Nat
        /\ ends[0] = 0
    BY <1>4
  <1> HIDE DEF ends
  <1>6. \A n \in 1 .. N : ends[n] = ends[n - 1] + Len(f[n]) /\ n - 1 \in 0 .. N /\ n \in 0 .. N
    <2> TAKE n \in 1 .. N
    <2>1. n - 1 \in 0 .. N /\ n \in 0 .. N
      OBVIOUS
    <2> QED  BY <1>4, <1>5, <2>1
  <1>7. \A m, n \in 0 .. N : m <= n => ends[m] <= ends[n]
    <2>1. \A n \in 0 + 1 .. N : ends[n - 1] <= ends[n]
      <3> TAKE n \in 0 + 1 .. N
      <3>1. n \in 1 .. N
        OBVIOUS
      <3>2. Len(f[n]) \in Nat /\ ends[n - 1] \in Nat /\ ends[n] = ends[n - 1] + Len(f[n])
        BY <3>1, <1>4, <1>5, <1>6
      <3> QED  BY <3>2
    <2>2. \A n \in 0 .. N : ends[n] \in Nat
      BY <1>5
    <2>3. 0 \in Nat
      OBVIOUS
    <2> QED  BY <2>1, <2>2, <2>3, Climbs
  <1>8. ASSUME NEW j \in Nat \ {0}, NEW m \in 0 .. N, j <= ends[m]
        PROVE  w[N][j] = w[m][j]
    <2> DEFINE u == [n \in 0 .. N |-> w[n][j]]
    <2>1. \A n \in m + 1 .. N : u[n] = u[n - 1]
      <3> TAKE n \in m + 1 .. N
      <3>1. n \in 1 .. N /\ n - 1 \in 0 .. N /\ n \in 0 .. N /\ m <= n - 1
        OBVIOUS
      <3>2. ends[m] <= ends[n - 1]
        BY <1>7, <3>1
      <3>3. j \in 1 .. Len(w[n - 1])
        BY <1>5, <1>8, <3>1, <3>2
      <3>4. w[n][j] = w[n - 1][j]
        BY <1>4, <3>1, <3>3
      <3> QED  BY <3>1, <3>4
    <2>2. m \in Nat /\ m <= N /\ N \in 0 .. N
      OBVIOUS
    <2> HIDE DEF u
    <2>3. u[N] = u[m]
      BY <2>1, <2>2, Stays
    <2> QED  BY <2>2, <2>3 DEF u
  <1>9. \A n \in 1 .. N : \A j \in 1 .. Len(f[n]) : w[N][ends[n - 1] + j] = f[n][j]
    <2> TAKE n \in 1 .. N
    <2> TAKE j \in 1 .. Len(f[n])
    <2>1. n - 1 \in 0 .. N /\ n \in 0 .. N /\ ends[n] = ends[n - 1] + Len(f[n])
          /\ ends[n - 1] \in Nat /\ Len(f[n]) \in Nat
      BY <1>4, <1>5, <1>6
    <2>2. ends[n - 1] + j \in Nat \ {0} /\ ends[n - 1] + j <= ends[n]
      BY <2>1
    <2>3. w[N][ends[n - 1] + j] = w[n][ends[n - 1] + j]
      BY <1>8, <2>1, <2>2
    <2>4. w[n][Len(w[n - 1]) + j] = f[n][j]
      BY <1>4
    <2> QED  BY <1>5, <2>1, <2>3, <2>4
  <1>10. w[N] \in Seq(S) /\ Len(w[N]) = ends[N] /\ DOMAIN w[N] = 1 .. ends[N]
    <2>1. N \in 0 .. N
      OBVIOUS
    <2> QED  BY <1>4, <1>5, <2>1
  <1>11. IsLaidOut(w[N], f, N, ends)
    BY <1>5, <1>6, <1>9, <1>10 DEF IsLaidOut
  <1> QED  BY <1>3, <1>10, <1>11

\* Whatever is laid out like it is the concatenation.
LEMMA FlattenIs ==
    ASSUME NEW S, NEW N \in Nat, NEW f \in [1 .. N -> Seq(S)], NEW text \in Seq(S),
           NEW u, IsLaidOut(text, f, N, u)
    PROVE  FlattenSeq(f) = text
  <1>1. PICK flat \in Seq(S) : flat = FlattenSeq(f)
    BY FlattenIsLaidOut
  <1>2. PICK ends : IsLaidOut(flat, f, N, ends)
    BY <1>1, FlattenIsLaidOut
  <1>3. \A n \in 1 .. N : f[n] \in Seq(S) /\ Len(f[n]) \in Nat
    OBVIOUS
  <1> DEFINE Bad == {n \in 0 .. N : ends[n] # u[n]}
  <1>4. 0 \notin Bad
    BY <1>2 DEF IsLaidOut
  <1>5. ASSUME NEW n \in 1 .. N, n - 1 \notin Bad PROVE n \notin Bad
    <2>1. n - 1 \in 0 .. N
      OBVIOUS
    <2>2. ends[n - 1] = u[n - 1]
      BY <1>5, <2>1
    <2> QED  BY <1>2, <2>2 DEF IsLaidOut
  <1>6. \A n \in 0 .. N : n \notin Bad
    <2> HIDE DEF Bad
    <2> QED  BY <1>4, <1>5, LeastFailure
  <1>7. \A n \in 0 .. N : ends[n] = u[n]
    BY <1>6
  <1>8. Len(flat) = Len(text) /\ Len(flat) = ends[N] /\ ends[N] \in Nat
    <2>1. N \in 0 .. N
      OBVIOUS
    <2> QED  BY <1>2, <1>7, <2>1 DEF IsLaidOut
  <1>9. ASSUME NEW p \in 1 .. ends[N] PROVE flat[p] = text[p]
    <2>1. \A n \in 1 .. N : f[n] \in Seq(S)
      BY <1>3
    <2>2. PICK n \in 1 .. N : ends[n - 1] < p /\ p <= ends[n]
      BY <1>2, <2>1, Covered
    <2>3. n - 1 \in 0 .. N /\ n \in 0 .. N
      OBVIOUS
    <2>4. ends[n - 1] \in Nat /\ ends[n] = ends[n - 1] + Len(f[n]) /\ u[n - 1] = ends[n - 1]
      BY <1>2, <1>7, <2>3 DEF IsLaidOut
    <2>5. p - ends[n - 1] \in 1 .. Len(f[n]) /\ ends[n - 1] + (p - ends[n - 1]) = p
      BY <1>3, <1>8, <2>2, <2>4
    <2>6. flat[ends[n - 1] + (p - ends[n - 1])] = f[n][p - ends[n - 1]]
      BY <1>2, <2>5 DEF IsLaidOut
    <2>7. text[u[n - 1] + (p - ends[n - 1])] = f[n][p - ends[n - 1]]
      BY <2>5 DEF IsLaidOut
    <2> QED  BY <2>4, <2>5, <2>6, <2>7
  <1>10. flat = text
    BY <1>8, <1>9, SameSequence
  <1> QED  BY <1>1, <1>10

NoText == ""
Ends   == {NoText, "lf", "crlf"}
LineKinds  == {"fence", "skewed", "blank", "remark", "indented remark", "item", "nested", "odd",
           "prose", "scalar", "inline", "opaque", "list"}
ValuesOf(Scalars) == [list : BOOLEAN, of : Seq(Scalars)]
MarkdownLine(Keys, Scalars, Remarks) ==
    [says : LineKinds, key : Keys, value : ValuesOf(Scalars), note : Remarks, ends : Ends]

\* What a patch writes is lines again: a field set twice is the field set once, and a
\* list's items are its value.
WrittenItems(v, e, S) ==
    /\ NewItems(v, e) \in Seq(S) /\ Len(NewItems(v, e)) = Len(v.of) /\ Len(v.of) \in Nat
    /\ \A j \in 1 .. Len(v.of) :
          /\ NewItems(v, e)[j].says = "item" /\ NewItems(v, e)[j].ends = e
          /\ NewItems(v, e)[j].value.of[1] = v.of[j]
    /\ v.list => v = List([j \in 1 .. Len(v.of) |-> v.of[j]])
Writes(S, V, Keys) ==
    /\ \A l \in S : l.ends \in Ends /\ l.says \in LineKinds
    /\ \A l \in S : \A v \in V :
          /\ Rendered(l, v) \in S /\ Rendered(l, v).key = l.key /\ Rendered(l, v).note = l.note
          /\ Rendered(l, v).ends = l.ends /\ Rendered(l, v).value = v
          /\ l.says \in Valued => Rendered(l, v).says \in Valued
          /\ Rendered(Rendered(l, v), v) = Rendered(l, v)
    /\ \A k \in Keys : \A v \in V : \A e \in Ends :
          /\ NewField(k, v, e) \in S /\ NewField(k, v, e).key = k /\ NewField(k, v, e).ends = e
          /\ NewField(k, v, e).says \in Valued /\ NewField(k, v, e).value = v
          /\ Rendered(NewField(k, v, e), v) = NewField(k, v, e)
    /\ \A v \in V : \A e \in Ends : WrittenItems(v, e, S)

LEMMA PlainIs ==
    ASSUME NEW Keys, NEW Scalars, NEW Remarks, NoText \in Keys, NoText \in Remarks,
           NEW says \in LineKinds, NEW ends \in Ends
    PROVE  /\ Plain(says, ends) \in MarkdownLine(Keys, Scalars, Remarks)
           /\ Plain(says, ends) = [says |-> says, key |-> NoText, value |-> Silence,
                                   note |-> NoText, ends |-> ends]
  <1>1. Plain(says, ends) = [says |-> says, key |-> NoText, value |-> Silence,
                             note |-> NoText, ends |-> ends]
    BY Zenon DEF NoText, Plain
  <1>2. Silence \in ValuesOf(Scalars)
    <2>1. <<>> \in Seq(Scalars)
      OBVIOUS
    <2> QED  BY <2>1 DEF Silence, List, ValuesOf
  <1> QED  BY <1>1, <1>2 DEF MarkdownLine

LEMMA RenderedIs ==
    ASSUME NEW Keys, NEW Scalars, NEW Remarks,
           NEW l \in MarkdownLine(Keys, Scalars, Remarks), NEW v \in ValuesOf(Scalars)
    PROVE  /\ Rendered(l, v) \in MarkdownLine(Keys, Scalars, Remarks)
           /\ Rendered(l, v).key = l.key /\ Rendered(l, v).note = l.note
           /\ Rendered(l, v).ends = l.ends /\ Rendered(l, v).value = v
           /\ Rendered(l, v).says = IF l.says = "opaque" /\ v = l.value THEN l.says
                                    ELSE IF v.list THEN "inline" ELSE "scalar"
           /\ Rendered(Rendered(l, v), v) = Rendered(l, v)
  <1>1. CASE l.says = "opaque" /\ v = l.value
    BY <1>1 DEF Rendered
  <1>2. CASE ~(l.says = "opaque" /\ v = l.value)
    <2> DEFINE says == IF v.list THEN "inline" ELSE "scalar"
               r    == [says |-> says, key |-> l.key, value |-> v, note |-> l.note,
                        ends |-> l.ends]
    <2>1. Rendered(l, v) = r
      BY <1>2 DEF Rendered, MarkdownLine
    <2>2. says \in LineKinds /\ says # "opaque"
      BY DEF LineKinds
    <2>3. r \in MarkdownLine(Keys, Scalars, Remarks)
      BY <2>2 DEF MarkdownLine
    <2>4. r.says # "opaque"
      BY <2>2
    <2>5. Rendered(r, v) = r
      BY <2>4 DEF Rendered
    <2> QED  BY <1>2, <2>1, <2>3, <2>5
  <1> QED  BY <1>1, <1>2

LEMMA NewItemsAre ==
    ASSUME NEW Keys, NEW Scalars, NEW Remarks, NoText \in Keys, NoText \in Remarks,
           NEW v \in ValuesOf(Scalars), NEW e \in Ends
    PROVE  WrittenItems(v, e, MarkdownLine(Keys, Scalars, Remarks))
  <1>1. v.of \in Seq(Scalars) /\ Len(v.of) \in Nat /\ DOMAIN v.of = 1 .. Len(v.of)
    BY DEF ValuesOf
  <1>2. v.list => v = List([j \in 1 .. Len(v.of) |-> v.of[j]])
    <2>1. v = [list |-> v.list, of |-> v.of] /\ v.list \in BOOLEAN
      BY DEF ValuesOf
    <2>2. v.of = [j \in 1 .. Len(v.of) |-> v.of[j]]
      BY <1>1
    <2> QED  BY <2>1, <2>2 DEF List
  <1> DEFINE S == MarkdownLine(Keys, Scalars, Remarks)
             item(t) == [Plain("item", e) EXCEPT !.value = Scalar(t)]
  <1>3. ASSUME NEW t \in Scalars
        PROVE  /\ item(t) \in S /\ item(t).says = "item" /\ item(t).ends = e
               /\ item(t).value.of[1] = t
    <2>1. "item" \in LineKinds
      BY DEF LineKinds
    <2>2. item(t) = [says |-> "item", key |-> NoText, value |-> Scalar(t),
                     note |-> NoText, ends |-> e]
      BY <2>1, PlainIs
    <2>3. Scalar(t) \in ValuesOf(Scalars) /\ Scalar(t).of[1] = t
      BY DEF Scalar, ValuesOf
    <2> QED  BY <2>1, <2>2, <2>3 DEF MarkdownLine
  <1>4. NewItems(v, e) = [j \in 1 .. Len(v.of) |-> item(v.of[j])]
    BY <1>1 DEF NewItems
  <1> HIDE DEF S, item
  <1>5. \A j \in 1 .. Len(v.of) : v.of[j] \in Scalars
    BY <1>1
  <1>6. NewItems(v, e) \in Seq(S) /\ Len(NewItems(v, e)) = Len(v.of)
    BY <1>1, <1>3, <1>4, <1>5
  <1>7. \A j \in 1 .. Len(v.of) : NewItems(v, e)[j] = item(v.of[j])
    BY <1>4
  <1> QED  BY <1>1, <1>2, <1>3, <1>5, <1>6, <1>7 DEF S, WrittenItems

LEMMA MarkdownWrites ==
    ASSUME NEW Keys, NEW Scalars, NEW Remarks, NoText \in Keys, NoText \in Remarks
    PROVE  Writes(MarkdownLine(Keys, Scalars, Remarks), ValuesOf(Scalars), Keys)
  <1> DEFINE S == MarkdownLine(Keys, Scalars, Remarks)
             V == ValuesOf(Scalars)
  <1>0. \A l \in S : l.ends \in Ends /\ l.says \in LineKinds
    BY DEF MarkdownLine
  <1>1. ASSUME NEW l \in S, NEW v \in V
        PROVE
          /\ Rendered(l, v) \in S /\ Rendered(l, v).key = l.key /\ Rendered(l, v).note = l.note
          /\ Rendered(l, v).ends = l.ends /\ Rendered(l, v).value = v
          /\ l.says \in Valued => Rendered(l, v).says \in Valued
          /\ Rendered(Rendered(l, v), v) = Rendered(l, v)
    <2>2. /\ Rendered(l, v) \in S /\ Rendered(l, v).key = l.key /\ Rendered(l, v).note = l.note
          /\ Rendered(l, v).ends = l.ends /\ Rendered(l, v).value = v
          /\ Rendered(Rendered(l, v), v) = Rendered(l, v)
      BY RenderedIs
    <2>3. Rendered(l, v).says = IF l.says = "opaque" /\ v = l.value THEN l.says
                                ELSE IF v.list THEN "inline" ELSE "scalar"
      BY RenderedIs
    <2>4. l.says \in Valued => Rendered(l, v).says \in Valued
      BY <2>3 DEF Valued
    <2> QED  BY <2>2, <2>4
  <1>2. ASSUME NEW k \in Keys, NEW v \in V, NEW e \in Ends
        PROVE
          /\ NewField(k, v, e) \in S /\ NewField(k, v, e).key = k /\ NewField(k, v, e).ends = e
          /\ NewField(k, v, e).says \in Valued /\ NewField(k, v, e).value = v
          /\ Rendered(NewField(k, v, e), v) = NewField(k, v, e)
    <2> DEFINE l == [says |-> "scalar", key |-> k, value |-> Silence, note |-> NoText, ends |-> e]
    <2>1. "scalar" \in LineKinds
      BY DEF LineKinds
    <2>2. [Plain("scalar", e) EXCEPT !.key = k] = l
      BY <2>1, PlainIs
    <2>3. l \in S
      <3>1. Plain("scalar", e) \in S
        BY <2>1, PlainIs
      <3> QED  BY <2>1, <2>2, <3>1 DEF MarkdownLine
    <2>4. NewField(k, v, e) = Rendered(l, v)
      BY <2>2 DEF NewField
    <2>5. l.key = k /\ l.ends = e /\ l.says \in Valued
      BY DEF Valued
    <2> HIDE DEF l
    <2> QED  BY <1>1, <2>3, <2>4, <2>5
  <1>3. ASSUME NEW v \in V, NEW e \in Ends
        PROVE  WrittenItems(v, e, S)
    BY NewItemsAre
  <1> HIDE DEF S, V
  <1>4. Writes(S, V, Keys)
    BY <1>0, <1>1, <1>2, <1>3 DEF Writes
  <1> QED  BY <1>4 DEF S, V

LEMMA IntervalIs ==
    ASSUME NEW a \in Nat \ {0}, NEW b \in Nat, a <= b
    PROVE  Min(a .. b) = a /\ Max(a .. b) = b /\ Cardinality(a .. b) = b - a + 1
  <1>1. a .. b \in SUBSET Nat /\ a \in a .. b /\ \A y \in a .. b : a <= y
    OBVIOUS
  <1>2. Min(a .. b) = a
    BY <1>1, LeastIs
  <1>3. b \in a .. b /\ \A y \in a .. b : b >= y
    OBVIOUS
  <1>4. Max(a .. b) \in a .. b /\ \A y \in a .. b : Max(a .. b) >= y
    BY <1>3 DEF Max
  <1>5. Max(a .. b) >= b /\ Max(a .. b) <= b
    BY <1>3, <1>4
  <1>6. Max(a .. b) = b
    BY <1>4, <1>5
  <1>7. Cardinality(a .. b) = b - a + 1
    BY FS_Interval
  <1> QED  BY <1>2, <1>6, <1>7

\* A header from the first line to its closing fence c.
IsHeader(lines, c) ==
    /\ c \in 2 .. Len(lines)
    /\ lines[1].says = "fence" /\ lines[c].says = "fence"
    /\ \A n \in 2 .. c - 1 : lines[n].says # "fence"

LEMMA ClosingFound ==
    ASSUME NEW S, NEW lines \in Seq(S), HasHeader(lines), Fences(lines, 1) # {}
    PROVE  IsHeader(lines, Closing(lines))
  <1> DEFINE c == Closing(lines)
  <1>1. DOMAIN lines = 1 .. Len(lines) /\ Len(lines) \in Nat
    OBVIOUS
  <1>2. Fences(lines, 1) \in SUBSET Nat
    BY <1>1 DEF Fences
  <1>3. c \in Fences(lines, 1) /\ \A m \in Fences(lines, 1) : c <= m
    BY <1>2, LeastOf DEF Closing
  <1> HIDE DEF c
  <1>4. c \in 2 .. Len(lines) /\ lines[c].says = "fence"
    BY <1>1, <1>3 DEF Fences
  <1>5. ASSUME NEW n \in 2 .. c - 1 PROVE lines[n].says # "fence"
    <2>1. n \in DOMAIN lines /\ n > 1 /\ ~(c <= n)
      BY <1>1, <1>4
    <2> QED  BY <1>3, <2>1 DEF Fences
  <1>6. IsHeader(lines, c)
    BY <1>4, <1>5 DEF IsHeader, HasHeader
  <1> QED  BY <1>6 DEF c

LEMMA HeaderIs ==
    ASSUME NEW S, NEW lines \in Seq(S), NEW c, IsHeader(lines, c)
    PROVE  /\ HasHeader(lines) /\ Fences(lines, 1) # {} /\ Closing(lines) = c
           /\ Inner(lines) = 2 .. c - 1
           /\ Body(lines) = SubSeq(lines, c + 1, Len(lines))
  <1>1. DOMAIN lines = 1 .. Len(lines) /\ Len(lines) \in Nat /\ c \in 2 .. Len(lines)
    BY DEF IsHeader
  <1>2. Fences(lines, 1) \in SUBSET Nat /\ c \in Fences(lines, 1)
    BY <1>1 DEF Fences, IsHeader
  <1>3. ASSUME NEW m \in Fences(lines, 1) PROVE c <= m
    <2>1. m \in 2 .. Len(lines) /\ lines[m].says = "fence"
      BY <1>1 DEF Fences
    <2>2. m \notin 2 .. c - 1
      BY <2>1 DEF IsHeader
    <2> QED  BY <1>1, <2>1, <2>2
  <1>4. Min(Fences(lines, 1)) = c
    BY <1>2, <1>3, LeastIs
  <1>5. Closing(lines) = c
    BY <1>4 DEF Closing
  <1>6. lines # <<>>
    BY <1>1
  <1>7. HasHeader(lines)
    BY <1>6 DEF HasHeader, IsHeader
  <1> QED  BY <1>2, <1>5, <1>7 DEF Inner, Body

\* How a line ends, without naming the end that is none.
EndsAre(lines, c, nl) ==
    /\ nl \in Ends \ {NoText} /\ lines[1].ends = nl
    /\ \A n \in 1 .. c : lines[n].ends \in {nl, NoText}

LEMMA NewlinesByEnd ==
    ASSUME NEW lines
    PROVE  Newlines(lines) = {lines[n].ends : n \in 1 .. Closing(lines)} \ {NoText}
  BY Zenon DEF Newlines, NoText

LEMMA EndsFound ==
    ASSUME NEW S, NEW V, NEW Keys, Writes(S, V, Keys), NEW lines \in Seq(S),
           NEW c, IsHeader(lines, c), lines[1].ends # NoText, Cardinality(Newlines(lines)) = 1
    PROVE  \E nl : EndsAre(lines, c, nl)
  <1>1. Closing(lines) = c /\ c \in 2 .. Len(lines) /\ DOMAIN lines = 1 .. Len(lines)
        /\ Len(lines) \in Nat
    BY HeaderIs DEF IsHeader
  <1>2. \A n \in 1 .. c : lines[n].ends \in Ends
    <2>1. \A n \in 1 .. c : lines[n] \in S
      BY <1>1
    <2> QED  BY <2>1 DEF Writes
  <1>3. Newlines(lines) = {lines[n].ends : n \in 1 .. c} \ {NoText}
    BY <1>1, NewlinesByEnd
  <1>4. IsFiniteSet(Ends)
    <2>1. Ends = {NoText} \cup {"lf"} \cup {"crlf"}
      BY DEF Ends
    <2>2. IsFiniteSet({NoText}) /\ IsFiniteSet({"lf"}) /\ IsFiniteSet({"crlf"})
      BY FS_Singleton
    <2>3. IsFiniteSet({NoText} \cup {"lf"})
      BY <2>2, FS_Union
    <2> QED  BY <2>1, <2>2, <2>3, FS_Union
  <1>5. Newlines(lines) \in SUBSET Ends
    BY <1>2, <1>3
  <1>6. IsFiniteSet(Newlines(lines))
    BY <1>4, <1>5, FS_Subset
  <1>7. PICK nl : Newlines(lines) = {nl}
    BY <1>6, FS_Singleton
  <1>8. \A n \in 1 .. c : lines[n].ends \in {nl, NoText}
    BY <1>3, <1>7
  <1>9. nl \in Ends \ {NoText}
    BY <1>3, <1>5, <1>7
  <1>10. 1 \in 1 .. c
    BY <1>1
  <1> QED  BY <1>8, <1>9, <1>10 DEF EndsAre

LEMMA EndsGive ==
    ASSUME NEW S, NEW lines \in Seq(S), NEW c, IsHeader(lines, c), NEW nl, EndsAre(lines, c, nl)
    PROVE  /\ Newlines(lines) = {nl} /\ Cardinality(Newlines(lines)) = 1
           /\ lines[1].ends # NoText /\ (CHOOSE e \in Newlines(lines) : TRUE) = nl
  <1>1. Closing(lines) = c /\ c \in 2 .. Len(lines)
    BY HeaderIs DEF IsHeader
  <1>2. 1 \in 1 .. c
    BY <1>1
  <1>3. Newlines(lines) = {nl}
    BY <1>1, <1>2, NewlinesByEnd DEF EndsAre
  <1>4. Cardinality({nl}) = 1
    BY FS_Singleton
  <1> QED  BY <1>3, <1>4 DEF EndsAre

LEMMA SafeIs ==
    ASSUME NEW lines, HasHeader(lines)
    PROVE  Safe(lines) <=> /\ lines[1].ends # NoText /\ Fences(lines, 1) # {}
                           /\ Cardinality(Newlines(lines)) = 1
                           /\ ~LooksLikeDuplicateBlock(Body(lines))
                           /\ ReadsAsFields(lines)
  <1>1. lines[1].says # "skewed"
    BY DEF HasHeader
  <1> QED  BY <1>1, Zenon DEF Safe, NoText

\* A block list at f: its items are a .. b, among lines of its own up to u.
RunsTo(lines, c, f, u) ==
    /\ f \in 2 .. c - 1 /\ lines[f].says = "list" /\ u \in f .. c - 1
    /\ \A i \in f + 1 .. u : lines[i].says \in Below
    /\ lines[u + 1].says \notin Below
Holds(lines, f, a, b, u) ==
    /\ a \in Nat /\ b \in Nat /\ f < a /\ a <= b + 1 /\ b <= u
    /\ \A i \in f + 1 .. u : (lines[i].says = "item" <=> i \in a .. b)
IsList(lines, c, f, a, b, u) ==
    /\ RunsTo(lines, c, f, u) /\ Holds(lines, f, a, b, u) /\ a <= b
    /\ \A i \in f + 1 .. u : lines[i].says # "nested"

LEMMA LargestIsAbove ==
    ASSUME NEW n \in Nat, NEW s \in SUBSET (1 .. n), s # {}
    PROVE  \A y \in s : Max(s) >= y
  <1> DEFINE below == {n - x : x \in s}
  <1>1. below \in SUBSET Nat /\ below # {}
    <2>1. PICK z \in s : TRUE
      OBVIOUS
    <2>2. n - z \in below
      BY <2>1
    <2>3. \A y \in s : n - y \in Nat
      OBVIOUS
    <2> QED  BY <2>2, <2>3
  <1>2. PICK d \in below : \A e \in below : d <= e
    <2> HIDE DEF below
    <2> QED  BY <1>1, LeastNatural
  <1>3. PICK x \in s : d = n - x
    BY <1>2
  <1>4. ASSUME NEW y \in s PROVE x >= y
    <2>1. n - y \in below /\ x \in 1 .. n /\ y \in 1 .. n
      OBVIOUS
    <2>2. n - x <= n - y
      <3> HIDE DEF below
      <3> QED  BY <1>2, <1>3, <2>1
    <2> QED  BY <2>1, <2>2
  <1> QED  BY <1>3, <1>4 DEF Max

LEMMA ReachIs ==
    ASSUME NEW S, NEW lines \in Seq(S), NEW c, IsHeader(lines, c), NEW f, NEW u,
           RunsTo(lines, c, f, u)
    PROVE  Under(lines, f) = f + 1 .. u
  <1>1. c \in 2 .. Len(lines) /\ Len(lines) \in Nat /\ Inner(lines) = 2 .. c - 1
    BY HeaderIs DEF IsHeader
  <1>2. f \in 2 .. c - 1 /\ u \in f .. c - 1 /\ lines[f].says = "list"
    BY DEF RunsTo
  <1>3. ASSUME NEW m \in Under(lines, f) PROVE m \in f + 1 .. u
    <2>1. m \in 2 .. c - 1 /\ m > f /\ \A i \in f + 1 .. m : lines[i].says \in Below
      BY <1>1 DEF Under
    <2>2. CASE m > u
      <3>1. u + 1 \in f + 1 .. m
        BY <1>2, <2>1, <2>2
      <3> QED  BY <2>1, <3>1 DEF RunsTo
    <2> QED  BY <1>2, <2>1, <2>2
  <1>4. ASSUME NEW m \in f + 1 .. u PROVE m \in Under(lines, f)
    <2>1. m \in 2 .. c - 1 /\ m > f
      BY <1>1, <1>2
    <2>2. \A i \in f + 1 .. m : i \in f + 1 .. u
      BY <1>2
    <2>3. \A i \in f + 1 .. m : lines[i].says \in Below
      BY <2>2 DEF RunsTo
    <2> QED  BY <1>1, <1>2, <2>1, <2>3 DEF Under
  <1> QED  BY <1>3, <1>4

LEMMA HoldIs ==
    ASSUME NEW S, NEW lines \in Seq(S), NEW c, IsHeader(lines, c), NEW f, NEW u,
           RunsTo(lines, c, f, u), NEW a, NEW b, Holds(lines, f, a, b, u)
    PROVE  Items(lines, f) = a .. b
  <1>1. Under(lines, f) = f + 1 .. u
    BY ReachIs
  <1>2. f \in 2 .. c - 1 /\ u \in f .. c - 1
    BY DEF RunsTo
  <1>3. a \in Nat /\ b \in Nat /\ f < a /\ b <= u
    BY DEF Holds
  <1>4. \A i \in f + 1 .. u : (lines[i].says = "item" <=> i \in a .. b)
    BY DEF Holds
  <1>5. c \in Nat
    BY DEF IsHeader
  <1>6. \A i \in a .. b : i \in f + 1 .. u
    BY <1>2, <1>3, <1>5
  <1> QED  BY <1>1, <1>4, <1>6 DEF Items

LEMMA ListIs ==
    ASSUME NEW S, NEW lines \in Seq(S), NEW c, IsHeader(lines, c), NEW f, NEW u,
           NEW a, NEW b, IsList(lines, c, f, a, b, u)
    PROVE  /\ Under(lines, f) = f + 1 .. u /\ Items(lines, f) = a .. b
           /\ ReadsAsList(lines, f)
  <1>1. Under(lines, f) = f + 1 .. u
    BY ReachIs DEF IsList
  <1>2. Items(lines, f) = a .. b
    BY HoldIs DEF IsList
  <1>3. a \in Nat \ {0} /\ b \in Nat /\ a <= b
    <2>1. f \in 2 .. c - 1 /\ c \in Nat
      BY DEF IsList, RunsTo, IsHeader
    <2> QED  BY <2>1 DEF IsList, Holds
  <1>4. Min(a .. b) = a /\ Max(a .. b) = b
    BY <1>3, IntervalIs
  <1>5. Items(lines, f) # {}
    <2>1. a \in a .. b
      BY <1>3
    <2> QED  BY <1>2, <2>1
  <1>6. \A m \in Under(lines, f) : lines[m].says # "nested"
    BY <1>1 DEF IsList
  <1>7. \A m \in Min(Items(lines, f)) .. Max(Items(lines, f)) : m \in Items(lines, f)
    BY <1>2, <1>4
  <1> QED  BY <1>1, <1>2, <1>5, <1>6, <1>7 DEF ReadsAsList

LEMMA ReachFound ==
    ASSUME NEW S, NEW lines \in Seq(S), NEW c, IsHeader(lines, c), NEW f \in 2 .. c - 1,
           lines[f].says = "list"
    PROVE  \E u : RunsTo(lines, c, f, u)
  <1> DEFINE Q == {m \in f + 1 .. c : lines[m].says \notin Below}
  <1>1. c \in 2 .. Len(lines) /\ Len(lines) \in Nat
    BY DEF IsHeader
  <1>2. Q \in SUBSET Nat
    BY <1>1
  <1>3. c \in Q
    <2>1. "fence" \notin Below
      BY DEF Below
    <2> QED  BY <1>1, <2>1 DEF IsHeader
  <1>4. PICK m \in Q : \A n \in Q : m <= n
    <2> HIDE DEF Q
    <2> QED  BY <1>2, <1>3, LeastNatural
  <1>5. m - 1 \in f .. c - 1 /\ (m - 1) + 1 = m
    BY <1>1, <1>4
  <1>6. ASSUME NEW i \in f + 1 .. m - 1 PROVE lines[i].says \in Below
    <2>1. i \in f + 1 .. c /\ ~(m <= i)
      BY <1>1, <1>4
    <2> QED  BY <1>4, <2>1
  <1>7. lines[(m - 1) + 1].says \notin Below
    BY <1>4, <1>5
  <1>8. RunsTo(lines, c, f, m - 1)
    BY <1>5, <1>6, <1>7 DEF RunsTo
  <1> QED  BY <1>8

LEMMA ListFound ==
    ASSUME NEW S, NEW lines \in Seq(S), NEW c, IsHeader(lines, c), NEW f \in 2 .. c - 1,
           lines[f].says = "list", ReadsAsList(lines, f)
    PROVE  \E a, b, u : IsList(lines, c, f, a, b, u)
  <1>1. PICK u : RunsTo(lines, c, f, u)
    BY ReachFound
  <1>2. Under(lines, f) = f + 1 .. u
    BY <1>1, ReachIs
  <1>3. c \in 2 .. Len(lines) /\ u \in f .. c - 1 /\ Len(lines) \in Nat
    BY <1>1 DEF IsHeader, RunsTo
  <1>4. /\ Items(lines, f) # {}
        /\ \A m \in Under(lines, f) : lines[m].says # "nested"
        /\ \A m \in Min(Items(lines, f)) .. Max(Items(lines, f)) : m \in Items(lines, f)
    BY DEF ReadsAsList
  <1> DEFINE a == Min(Items(lines, f))
             b == Max(Items(lines, f))
  <1>5. Items(lines, f) \in SUBSET (f + 1 .. u)
    BY <1>2 DEF Items
  <1>6. a \in Items(lines, f) /\ \A y \in Items(lines, f) : a <= y
    <2>1. Items(lines, f) \in SUBSET Nat
      BY <1>3, <1>5
    <2> QED  BY <1>4, <2>1, LeastOf
  <1>7. b \in Items(lines, f) /\ \A y \in Items(lines, f) : b >= y
    <2>1. u \in Nat /\ Items(lines, f) \in SUBSET (1 .. u)
      BY <1>3, <1>5
    <2>2. PICK s : s = Items(lines, f)
      OBVIOUS
    <2>3. s \in SUBSET (1 .. u) /\ s # {}
      BY <1>4, <2>1, <2>2
    <2>4. Max(s) \in s
      BY <2>1, <2>3, LargestExists
    <2>5. \A y \in s : Max(s) >= y
      BY <2>1, <2>3, LargestIsAbove
    <2> QED  BY <2>2, <2>4, <2>5
  <1> HIDE DEF a, b
  <1>8. a \in Nat /\ b \in Nat /\ f < a /\ a <= b /\ b <= u /\ a <= b + 1
    BY <1>3, <1>5, <1>6, <1>7
  <1>9. ASSUME NEW i \in f + 1 .. u PROVE lines[i].says = "item" <=> i \in a .. b
    <2>1. lines[i].says = "item" <=> i \in Items(lines, f)
      BY <1>2 DEF Items
    <2>2. i \in Items(lines, f) => a <= i /\ i <= b
      BY <1>3, <1>5, <1>6, <1>7, <1>8
    <2>3. i \in a .. b => i \in Items(lines, f)
      BY <1>4 DEF a, b
    <2> QED  BY <1>3, <1>8, <2>1, <2>2, <2>3
  <1>10. \A i \in f + 1 .. u : lines[i].says # "nested"
    BY <1>2, <1>4
  <1>11. IsList(lines, c, f, a, b, u)
    BY <1>1, <1>8, <1>9, <1>10 DEF IsList, Holds
  <1> QED  BY <1>11

\* How a header reads.
IsRead(lines, c) ==
    /\ \A n \in 2 .. c - 1 : lines[n].says \notin {"odd", "prose", "skewed", "nested"}
    /\ \A n \in 2 .. c - 1 : lines[n].says = "item" =>
          \E f \in 2 .. c - 1 : lines[f].says = "list" /\ n \in Items(lines, f)
    /\ \A f \in 2 .. c - 1 : lines[f].says = "list" => \E a, b, u : IsList(lines, c, f, a, b, u)
    /\ \A f \in 2 .. c - 1 : \A g \in 2 .. c - 1 :
          lines[f].says \in Keyed /\ lines[g].says \in Keyed /\ lines[f].key = lines[g].key
          => f = g

LEMMA ReadIs ==
    ASSUME NEW S, NEW lines \in Seq(S), NEW c, IsHeader(lines, c), IsRead(lines, c)
    PROVE  ReadsAsFields(lines)
  <1>1. Inner(lines) = 2 .. c - 1
    BY HeaderIs
  <1> DEFINE fields == {n \in Inner(lines) : lines[n].says \in Keyed}
  <1>2. ASSUME NEW n \in Inner(lines)
        PROVE  /\ lines[n].says \notin {"odd", "prose", "skewed"}
               /\ lines[n].says \in {"item", "nested"} => \E f \in fields : n \in Under(lines, f)
    <2>1. lines[n].says \notin {"odd", "prose", "skewed", "nested"}
      BY <1>1 DEF IsRead
    <2>2. CASE lines[n].says = "item"
      <3>1. PICK f \in 2 .. c - 1 : lines[f].says = "list" /\ n \in Items(lines, f)
        BY <1>1, <2>2 DEF IsRead
      <3>2. f \in fields /\ n \in Under(lines, f)
        BY <1>1, <3>1 DEF Keyed, Items
      <3> QED  BY <2>1, <3>2
    <2> QED  BY <2>1, <2>2
  <1>3. ASSUME NEW f \in fields, lines[f].says = "list" PROVE ReadsAsList(lines, f)
    <2>1. f \in 2 .. c - 1
      BY <1>1
    <2>2. PICK a, b, u : IsList(lines, c, f, a, b, u)
      BY <1>3, <2>1 DEF IsRead
    <2> QED  BY <2>2, ListIs
  <1>4. \A f, g \in fields : lines[f].key = lines[g].key => f = g
    BY <1>1 DEF IsRead
  <1> QED  BY <1>2, <1>3, <1>4 DEF ReadsAsFields

LEMMA ReadFound ==
    ASSUME NEW S, NEW lines \in Seq(S), NEW c, IsHeader(lines, c), ReadsAsFields(lines)
    PROVE  IsRead(lines, c)
  <1>1. Inner(lines) = 2 .. c - 1
    BY HeaderIs
  <1> DEFINE fields == {n \in Inner(lines) : lines[n].says \in Keyed}
  <1>2. /\ \A n \in Inner(lines) :
              /\ lines[n].says \notin {"odd", "prose", "skewed"}
              /\ lines[n].says \in {"item", "nested"} => \E f \in fields : n \in Under(lines, f)
        /\ \A f \in fields : lines[f].says = "list" => ReadsAsList(lines, f)
        /\ \A f, g \in fields : lines[f].key = lines[g].key => f = g
    BY DEF ReadsAsFields
  <1>3. ASSUME NEW n \in 2 .. c - 1, NEW f \in fields, n \in Under(lines, f)
        PROVE  lines[f].says = "list" /\ lines[n].says # "nested"
    <2>1. lines[f].says = "list"
      BY <1>3 DEF Under
    <2>2. ReadsAsList(lines, f)
      BY <1>2, <2>1
    <2> QED  BY <1>3, <2>1, <2>2 DEF ReadsAsList
  <1>4. ASSUME NEW n \in 2 .. c - 1
        PROVE  lines[n].says \notin {"odd", "prose", "skewed", "nested"}
    BY <1>1, <1>2, <1>3
  <1>5. ASSUME NEW n \in 2 .. c - 1, lines[n].says = "item"
        PROVE  \E f \in 2 .. c - 1 : lines[f].says = "list" /\ n \in Items(lines, f)
    <2>1. PICK f \in fields : n \in Under(lines, f)
      BY <1>1, <1>2, <1>5
    <2>2. lines[f].says = "list" /\ f \in 2 .. c - 1
      BY <1>1, <1>3, <2>1
    <2>3. n \in Items(lines, f)
      BY <1>5, <2>1 DEF Items
    <2> QED  BY <2>2, <2>3
  <1>6. ASSUME NEW f \in 2 .. c - 1, lines[f].says = "list"
        PROVE  \E a, b, u : IsList(lines, c, f, a, b, u)
    <2>1. f \in fields
      BY <1>1, <1>6 DEF Keyed
    <2>2. ReadsAsList(lines, f)
      BY <1>2, <1>6, <2>1
    <2> QED  BY <1>6, <2>2, ListFound
  <1>7. \A f \in 2 .. c - 1 : \A g \in 2 .. c - 1 :
          lines[f].says \in Keyed /\ lines[g].says \in Keyed /\ lines[f].key = lines[g].key
          => f = g
    BY <1>1, <1>2
  <1> QED  BY <1>4, <1>5, <1>6, <1>7 DEF IsRead

\* What a patch asks for, and its order.
Asks(managed, V, Keys) ==
    /\ \A k \in DOMAIN managed : k \in Keys /\ managed[k] \in V
    /\ KeyOrder \in Seq(Keys)
    /\ \A i \in DOMAIN KeyOrder : \A j \in DOMAIN KeyOrder : KeyOrder[i] = KeyOrder[j] => i = j
    /\ \A k \in DOMAIN managed : \E i \in DOMAIN KeyOrder : KeyOrder[i] = k

IsSet(lines, managed, n) == lines[n].says \in Valued /\ lines[n].key \in DOMAIN managed
Owns(lines, managed, c, f, n) ==
    /\ f \in 2 .. c - 1 /\ lines[f].says = "list" /\ lines[f].key \in DOMAIN managed
    /\ n \in Items(lines, f)
Stands(lines, managed, c, n) ==
    ~IsSet(lines, managed, n) /\ \A f \in 2 .. c - 1 : ~Owns(lines, managed, c, f, n)

LEMMA ItemIs ==
    ASSUME NEW lines, NEW f, NEW n, n \in Items(lines, f)
    PROVE  lines[n].says = "item" /\ lines[n].says \notin Keyed /\ lines[n].says \notin Valued
           /\ n \in Inner(lines) /\ n > f /\ lines[f].says = "list"
  BY DEF Items, Under, Keyed, Valued

LEMMA OneOwner ==
    ASSUME NEW lines, NEW c \in Nat, Inner(lines) = 2 .. c - 1,
           NEW f \in 2 .. c - 1, NEW g \in 2 .. c - 1, NEW n, n \in Items(lines, f),
           n \in Items(lines, g)
    PROVE  f = g
  <1>1. /\ n \in 2 .. c - 1 /\ n > f /\ n > g /\ lines[f].says = "list" /\ lines[g].says = "list"
        /\ \A i \in f + 1 .. n : lines[i].says \in Below
        /\ \A i \in g + 1 .. n : lines[i].says \in Below
    BY DEF Items, Under
  <1>2. "list" \notin Below
    BY DEF Below
  <1>3. CASE f < g
    <2>1. g \in f + 1 .. n
      BY <1>1, <1>3
    <2> QED  BY <1>1, <1>2, <2>1
  <1>4. CASE g < f
    <2>1. f \in g + 1 .. n
      BY <1>1, <1>4
    <2> QED  BY <1>1, <1>2, <2>1
  <1> QED  BY <1>3, <1>4

LEMMA BecomesItself ==
    ASSUME NEW lines, NEW managed, NEW c, Inner(lines) = 2 .. c - 1, NEW n, NEW nl,
           Stands(lines, managed, c, n)
    PROVE  Becomes(lines, managed, n, nl) = <<lines[n]>>
  BY DEF Stands, Owns, IsSet, Becomes

LEMMA BecomesSet ==
    ASSUME NEW lines, NEW managed, NEW n, NEW nl, IsSet(lines, managed, n)
    PROVE  Becomes(lines, managed, n, nl) = <<Rendered(lines[n], managed[lines[n].key])>>
  BY DEF IsSet, Becomes

LEMMA BecomesItems ==
    ASSUME NEW lines, NEW managed, NEW c \in Nat, Inner(lines) = 2 .. c - 1, NEW n, NEW nl,
           NEW f, Owns(lines, managed, c, f, n)
    PROVE  /\ n = Min(Items(lines, f)) =>
                 Becomes(lines, managed, n, nl) = NewItems(managed[lines[f].key], nl)
           /\ n # Min(Items(lines, f)) => Becomes(lines, managed, n, nl) = <<>>
  <1>1. f \in 2 .. c - 1 /\ n \in Items(lines, f)
    BY DEF Owns
  <1>2. ~IsSet(lines, managed, n)
    BY <1>1, ItemIs DEF IsSet
  <1> DEFINE lists == {g \in Inner(lines) : lines[g].says = "list"
                                 /\ lines[g].key \in DOMAIN managed /\ n \in Items(lines, g)}
  <1>3. f \in lists
    BY DEF Owns
  <1>4. \A g \in lists : g = f
    BY <1>1, OneOwner
  <1>5. (CHOOSE g \in lists : TRUE) = f
    BY <1>3, <1>4
  <1> QED  BY <1>2, <1>3, <1>5 DEF IsSet, Becomes

LEMMA BecomesLines ==
    ASSUME NEW S, NEW V, NEW Keys, Writes(S, V, Keys), NEW lines \in Seq(S), NEW managed,
           Asks(managed, V, Keys), NEW c, IsHeader(lines, c), NEW n \in 2 .. c - 1,
           NEW nl \in Ends
    PROVE  Becomes(lines, managed, n, nl) \in Seq(S) /\ Len(Becomes(lines, managed, n, nl)) \in Nat
  <1>1. Inner(lines) = 2 .. c - 1 /\ c \in 2 .. Len(lines) /\ Len(lines) \in Nat /\ c \in Nat
    BY HeaderIs DEF IsHeader
  <1>2. lines[n] \in S
    BY <1>1
  <1>3. Becomes(lines, managed, n, nl) \in Seq(S)
    <2>1. CASE Stands(lines, managed, c, n)
      <3>1. Becomes(lines, managed, n, nl) = <<lines[n]>>
        BY <1>1, <2>1, BecomesItself
      <3> QED  BY <1>2, <3>1
    <2>2. CASE IsSet(lines, managed, n)
      <3>1. managed[lines[n].key] \in V
        BY <2>2 DEF IsSet, Asks
      <3>2. Rendered(lines[n], managed[lines[n].key]) \in S
        BY <1>2, <3>1 DEF Writes
      <3>3. Becomes(lines, managed, n, nl) = <<Rendered(lines[n], managed[lines[n].key])>>
        BY <2>2, BecomesSet
      <3> QED  BY <3>2, <3>3
    <2>3. ASSUME NEW f, Owns(lines, managed, c, f, n)
          PROVE  Becomes(lines, managed, n, nl) \in Seq(S)
      <3>1. managed[lines[f].key] \in V
        BY <2>3 DEF Owns, Asks
      <3>2. NewItems(managed[lines[f].key], nl) \in Seq(S)
        BY <3>1 DEF Writes, WrittenItems
      <3>3. /\ n = Min(Items(lines, f)) =>
                  Becomes(lines, managed, n, nl) = NewItems(managed[lines[f].key], nl)
            /\ n # Min(Items(lines, f)) => Becomes(lines, managed, n, nl) = <<>>
        BY <1>1, <2>3, BecomesItems
      <3>4. <<>> \in Seq(S)
        OBVIOUS
      <3>5. CASE n = Min(Items(lines, f))
        BY <3>2, <3>3, <3>5, Zenon
      <3>6. CASE n # Min(Items(lines, f))
        BY <3>3, <3>4, <3>6, Zenon
      <3> QED  BY <3>5, <3>6
    <2> QED  BY <2>1, <2>2, <2>3 DEF Stands
  <1> QED  BY <1>3

LEMMA Joined ==
    ASSUME NEW S, NEW p \in Seq(S), NEW b \in Seq(S)
    PROVE  /\ p \o b \in Seq(S) /\ Len(p \o b) = Len(p) + Len(b)
           /\ \A j \in 1 .. Len(p) : (p \o b)[j] = p[j]
           /\ \A j \in 1 .. Len(b) : (p \o b)[Len(p) + j] = b[j]
  OBVIOUS

LEMMA FourParts ==
    ASSUME NEW S, NEW x \in S, NEW a \in Seq(S), NEW b \in Seq(S), NEW d \in Seq(S),
           NEW t, t = <<x>> \o a \o b \o d
    PROVE  /\ t \in Seq(S) /\ Len(t) = 1 + Len(a) + Len(b) + Len(d) /\ t[1] = x
           /\ \A j \in 1 .. Len(a) : t[1 + j] = a[j]
           /\ \A j \in 1 .. Len(b) : t[1 + Len(a) + j] = b[j]
           /\ \A j \in 1 .. Len(d) : t[1 + Len(a) + Len(b) + j] = d[j]
  <1>1. PICK p : p = <<x>> \o a
    OBVIOUS
  <1>2. /\ p \in Seq(S) /\ Len(p) = 1 + Len(a) /\ p[1] = x
        /\ \A j \in 1 .. Len(a) : p[1 + j] = a[j]
    <2>1. <<x>> \in Seq(S)
      OBVIOUS
    <2> QED  BY <1>1, <2>1
  <1>3. PICK q : q = p \o b
    OBVIOUS
  <1>4. /\ q \in Seq(S) /\ Len(q) = Len(p) + Len(b)
        /\ \A j \in 1 .. Len(p) : q[j] = p[j]
        /\ \A j \in 1 .. Len(b) : q[Len(p) + j] = b[j]
    <2>1. p \in Seq(S)
      BY <1>2
    <2>2. /\ p \o b \in Seq(S) /\ Len(p \o b) = Len(p) + Len(b)
          /\ \A j \in 1 .. Len(p) : (p \o b)[j] = p[j]
          /\ \A j \in 1 .. Len(b) : (p \o b)[Len(p) + j] = b[j]
      BY <2>1, Joined
    <2> QED  BY <1>3, <2>2, Zenon
  <1>5. t = q \o d
    BY <1>1, <1>3
  <1>6. /\ t \in Seq(S) /\ Len(t) = Len(q) + Len(d)
        /\ \A j \in 1 .. Len(q) : t[j] = q[j]
        /\ \A j \in 1 .. Len(d) : t[Len(q) + j] = d[j]
    <2>1. q \in Seq(S)
      BY <1>4
    <2>2. /\ q \o d \in Seq(S) /\ Len(q \o d) = Len(q) + Len(d)
          /\ \A j \in 1 .. Len(q) : (q \o d)[j] = q[j]
          /\ \A j \in 1 .. Len(d) : (q \o d)[Len(q) + j] = d[j]
      BY <2>1, Joined
    <2> QED  BY <1>5, <2>2, Zenon
  <1>7. Len(a) \in Nat /\ Len(b) \in Nat /\ Len(d) \in Nat
    OBVIOUS
  <1>8. Len(p) = 1 + Len(a) /\ Len(q) = 1 + Len(a) + Len(b)
        /\ Len(t) = 1 + Len(a) + Len(b) + Len(d)
    BY <1>2, <1>4, <1>6
  <1>9. t[1] = x
    <2>1. 1 \in 1 .. Len(p) /\ 1 \in 1 .. Len(q)
      BY <1>7, <1>8
    <2> QED  BY <1>2, <1>4, <1>6, <2>1
  <1>10. ASSUME NEW j \in 1 .. Len(a) PROVE t[1 + j] = a[j]
    <2>1. 1 + j \in 1 .. Len(p) /\ 1 + j \in 1 .. Len(q)
      BY <1>7, <1>8
    <2>2. t[1 + j] = q[1 + j]
      BY <1>6, <2>1
    <2>3. q[1 + j] = p[1 + j]
      BY <1>4, <2>1
    <2>4. p[1 + j] = a[j]
      BY <1>2
    <2> QED  BY <2>2, <2>3, <2>4
  <1>11. ASSUME NEW j \in 1 .. Len(b) PROVE t[1 + Len(a) + j] = b[j]
    <2>1. 1 + Len(a) + j \in 1 .. Len(q) /\ Len(p) + j = 1 + Len(a) + j
      BY <1>7, <1>8
    <2>2. q[Len(p) + j] = b[j]
      BY <1>4
    <2>3. t[1 + Len(a) + j] = q[1 + Len(a) + j]
      BY <1>6, <2>1
    <2> QED  BY <2>1, <2>2, <2>3
  <1>12. ASSUME NEW j \in 1 .. Len(d) PROVE t[1 + Len(a) + Len(b) + j] = d[j]
    <2>1. t[Len(q) + j] = d[j]
      BY <1>6
    <2> QED  BY <1>8, <2>1
  <1> QED  BY <1>6, <1>8, <1>9, <1>10, <1>11, <1>12

\* Where a header's lines stand in what it becomes: what becomes of line n, from at[n] on.
Moved(lines, managed, nl, c, after, at) ==
    /\ at[2] = 2
    /\ \A n \in 2 .. c : at[n] \in Nat /\ at[n] >= 2
    /\ \A n \in 2 .. c - 1 : at[n + 1] = at[n] + Len(Becomes(lines, managed, n, nl))
    /\ \A m \in 2 .. c : \A n \in 2 .. c : m <= n => at[m] <= at[n]
    /\ \A n \in 2 .. c - 1 : \A j \in 1 .. Len(Becomes(lines, managed, n, nl)) :
          after[at[n] + (j - 1)] = Becomes(lines, managed, n, nl)[j]
    /\ \A p \in 2 .. at[c] - 1 : \E n \in 2 .. c - 1 : at[n] <= p /\ p < at[n + 1]

\* The fields a header missed, from a on, up to its closing fence e.
Added(lines, managed, nl, after, a, e) ==
    /\ a \in Nat /\ e \in Nat /\ a <= e
    /\ \A p \in a .. e - 1 : \E k \in Missing(lines, managed) :
          after[p] = NewField(k, managed[k], nl)
    /\ \A k \in Missing(lines, managed) : \E p \in a .. e - 1 :
          after[p] = NewField(k, managed[k], nl)
    /\ \A p \in a .. e - 1 : \A q \in a .. e - 1 : after[p].key = after[q].key => p = q

\* And the rest, from the closing fence on.
Kept(lines, c, after, e) ==
    /\ after[1] = lines[1]
    /\ Len(after) = e + (Len(lines) - c)
    /\ \A i \in 0 .. Len(lines) - c : after[e + i] = lines[c + i]

LEMMA FieldsAreLaidOut ==
    ASSUME NEW S, NEW V, NEW Keys, Writes(S, V, Keys), NEW lines, NEW managed,
           Asks(managed, V, Keys), NEW nl \in Ends
    PROVE  LET new == NewFields(Missing(lines, managed), managed, nl)
           IN  /\ new \in Seq(S)
               /\ \A i \in 1 .. Len(new) : \E k \in Missing(lines, managed) :
                     new[i] = NewField(k, managed[k], nl)
               /\ \A k \in Missing(lines, managed) : \E i \in 1 .. Len(new) :
                     new[i] = NewField(k, managed[k], nl)
               /\ \A i \in 1 .. Len(new) : \A j \in 1 .. Len(new) :
                     new[i].key = new[j].key => i = j
  <1> DEFINE N == Len(KeyOrder)
             M == Missing(lines, managed)
             f == [i \in DOMAIN KeyOrder |->
                     IF KeyOrder[i] \in M
                     THEN <<NewField(KeyOrder[i], managed[KeyOrder[i]], nl)>> ELSE <<>>]
             new == NewFields(M, managed, nl)
  <1>1. N \in Nat /\ DOMAIN KeyOrder = 1 .. N
    BY DEF Asks
  <1>2. new = FlattenSeq(f)
    BY DEF NewFields
  <1>3. \A k \in M : k \in DOMAIN managed /\ k \in Keys /\ managed[k] \in V
    BY DEF Missing, Asks
  <1> DEFINE field(k) == NewField(k, managed[k], nl)
  <1>4. \A k \in M : field(k) \in S /\ field(k).key = k
    BY <1>3 DEF Writes
  <1>5. \A i \in 1 .. N : f[i] = IF KeyOrder[i] \in M THEN <<field(KeyOrder[i])>> ELSE <<>>
    BY <1>1
  <1>6. \A i \in 1 .. N :
           /\ f[i] \in Seq(S)
           /\ KeyOrder[i] \in M => Len(f[i]) = 1 /\ f[i][1] = field(KeyOrder[i])
           /\ KeyOrder[i] \notin M => Len(f[i]) = 0
    <2> HIDE DEF f, field, M
    <2> TAKE i \in 1 .. N
    <2>1. CASE KeyOrder[i] \in M
      <3>1. PICK x \in S : x = field(KeyOrder[i])
        BY <1>4, <2>1
      <3>2. f[i] = <<x>>
        BY <1>5, <2>1, <3>1
      <3>3. <<x>> \in Seq(S) /\ Len(<<x>>) = 1 /\ <<x>>[1] = x
        OBVIOUS
      <3> QED  BY <2>1, <3>1, <3>2, <3>3
    <2>2. CASE KeyOrder[i] \notin M
      <3>1. f[i] = <<>>
        BY <1>5, <2>2
      <3>2. <<>> \in Seq(S) /\ Len(<<>>) = 0
        OBVIOUS
      <3> QED  BY <2>2, <3>1, <3>2
    <2> QED  BY <2>1, <2>2
  <1>7. f \in [1 .. N -> Seq(S)]
    <2>1. DOMAIN f = 1 .. N /\ f = [i \in 1 .. N |-> f[i]]
      BY <1>1
    <2> HIDE DEF f
    <2> QED  BY <1>6, <2>1
  <1> HIDE DEF f, new, M, field
  <1>8. new \in Seq(S) /\ \E ends : IsLaidOut(new, f, N, ends)
    BY <1>1, <1>2, <1>7, FlattenIsLaidOut
  <1>9. PICK ends : IsLaidOut(new, f, N, ends)
    BY <1>8
  <1>10. /\ \A n \in 0 .. N : ends[n] \in Nat
         /\ Len(new) = ends[N]
         /\ \A n \in 1 .. N : ends[n] = ends[n - 1] + Len(f[n])
         /\ \A n \in 1 .. N : \A j \in 1 .. Len(f[n]) : new[ends[n - 1] + j] = f[n][j]
    BY <1>9 DEF IsLaidOut
  <1>11. \A n \in 1 .. N : f[n] \in Seq(S)
    BY <1>6
  <1>12. \A m, n \in 0 .. N : m <= n => ends[m] <= ends[n]
    BY <1>1, <1>9, <1>11, LaidOutClimbs
  <1>13. ASSUME NEW i \in 1 .. Len(new)
         PROVE  \E n \in 1 .. N : KeyOrder[n] \in M /\ i = ends[n] /\ new[i] = field(KeyOrder[n])
                                  /\ ends[n - 1] + 1 = i
    <2>1. i \in 1 .. ends[N]
      BY <1>10
    <2>2. PICK n \in 1 .. N : ends[n - 1] < i /\ i <= ends[n]
      BY <1>1, <1>9, <1>11, <2>1, Covered
    <2>3. n - 1 \in 0 .. N /\ n \in 0 .. N
      BY <1>1
    <2>9. ends[n] = ends[n - 1] + Len(f[n]) /\ ends[n] \in Nat /\ ends[n - 1] \in Nat
      BY <1>10, <2>3
    <2>8. KeyOrder[n] \in M
      <3>1. ASSUME KeyOrder[n] \notin M PROVE FALSE
        <4>1. Len(f[n]) = 0
          BY <1>6, <3>1
        <4> QED  BY <2>2, <2>9, <4>1
      <3> QED  BY <3>1
    <2>7. Len(f[n]) = 1 /\ f[n][1] = field(KeyOrder[n])
      BY <1>6, <2>8
    <2>4. Len(f[n]) = 1 /\ KeyOrder[n] \in M /\ ends[n - 1] + 1 = i /\ ends[n] = i
      BY <2>2, <2>7, <2>8, <2>9
    <2>5. 1 \in 1 .. Len(f[n])
      BY <2>4
    <2>6. new[ends[n - 1] + 1] = f[n][1]
      BY <1>10, <2>5
    <2> QED  BY <2>4, <2>6, <2>7
  <1>14. ASSUME NEW k \in M PROVE \E i \in 1 .. Len(new) : new[i] = field(k)
    <2>1. PICK n \in 1 .. N : KeyOrder[n] = k
      BY <1>1, <1>3 DEF Asks
    <2>2. Len(f[n]) = 1 /\ f[n][1] = field(k)
      BY <1>6, <2>1
    <2>3. n - 1 \in 0 .. N /\ n \in 0 .. N /\ N \in 0 .. N /\ n <= N
      BY <1>1
    <2>4. ends[n] <= ends[N] /\ ends[n] = ends[n - 1] + 1 /\ ends[n - 1] \in Nat /\ ends[N] \in Nat
      BY <1>10, <1>12, <2>2, <2>3
    <2>5. ends[n - 1] + 1 \in 1 .. Len(new)
      BY <1>10, <2>4
    <2>6. 1 \in 1 .. Len(f[n])
      BY <2>2
    <2>7. new[ends[n - 1] + 1] = f[n][1]
      BY <1>10, <2>6
    <2> QED  BY <2>2, <2>5, <2>7
  <1>15. ASSUME NEW i \in 1 .. Len(new), NEW j \in 1 .. Len(new), new[i].key = new[j].key
         PROVE  i = j
    <2>1. PICK m \in 1 .. N : KeyOrder[m] \in M /\ i = ends[m] /\ new[i] = field(KeyOrder[m])
      BY <1>13
    <2>2. PICK n \in 1 .. N : KeyOrder[n] \in M /\ j = ends[n] /\ new[j] = field(KeyOrder[n])
      BY <1>13
    <2>3. KeyOrder[m] = KeyOrder[n]
      BY <1>4, <1>15, <2>1, <2>2
    <2>4. m = n
      BY <1>1, <2>3 DEF Asks
    <2> QED  BY <2>1, <2>2, <2>4
  <1>16. \A i \in 1 .. Len(new) : \E k \in M : new[i] = field(k)
    BY <1>13
  <1> QED  BY <1>8, <1>14, <1>15, <1>16 DEF new, M, field

Placed(lines, managed, nl, c, S, after, at, e) ==
    /\ after \in Seq(S)
    /\ Moved(lines, managed, nl, c, after, at)
    /\ Added(lines, managed, nl, after, at[c], e)
    /\ Kept(lines, c, after, e)

\* What becomes of each line between the fences.
Becoming(lines, managed, nl, c, f, S) ==
    \A i \in 1 .. c - 2 : f[i] = Becomes(lines, managed, i + 1, nl) /\ f[i] \in Seq(S)

\* A text that has another from behind its first n lines on.
Has(after, n, text) == \A j \in 1 .. Len(text) : after[n + j] = text[j]

LEMMA MovedBy ==
    ASSUME NEW S, NEW lines, NEW managed, NEW nl, NEW c \in Nat, c >= 2, NEW f,
           Becoming(lines, managed, nl, c, f, S),
           NEW kept, NEW ends, IsLaidOut(kept, f, c - 2, ends),
           NEW after, Has(after, 1, kept)
    PROVE  \E at : Moved(lines, managed, nl, c, after, at) /\ at[c] = 2 + Len(kept)
  <1> DEFINE N == c - 2
             at == [n \in 2 .. c |-> 2 + ends[n - 2]]
             B(n) == Becomes(lines, managed, n, nl)
  <1>1. N \in Nat
    OBVIOUS
  <1>2. \A i \in 1 .. N : f[i] \in Seq(S)
    BY DEF Becoming
  <1>3. /\ \A i \in 0 .. N : ends[i] \in Nat
        /\ ends[0] = 0 /\ Len(kept) = ends[N]
        /\ \A i \in 1 .. N : ends[i] = ends[i - 1] + Len(f[i])
        /\ \A i \in 1 .. N : \A j \in 1 .. Len(f[i]) : kept[ends[i - 1] + j] = f[i][j]
    BY DEF IsLaidOut
  <1>4. /\ \A i, k \in 0 .. N : i <= k => ends[i] <= ends[k]
        /\ \A i \in 1 .. N : Len(f[i]) \in Nat
    <2> HIDE DEF N
    <2> QED  BY <1>1, <1>2, LaidOutClimbs DEF N
  <1>5. \A n \in 2 .. c : n - 2 \in 0 .. N /\ at[n] = 2 + ends[n - 2] /\ at[n] \in Nat /\ at[n] >= 2
    BY <1>3
  <1>6. ASSUME NEW n \in 2 .. c - 1
        PROVE  /\ at[n + 1] = at[n] + Len(B(n)) /\ Len(B(n)) \in Nat
               /\ \A j \in 1 .. Len(B(n)) : after[at[n] + (j - 1)] = B(n)[j]
    <2>1. n - 1 \in 1 .. N /\ (n - 1) - 1 = n - 2 /\ (n - 1) + 1 = n /\ n \in 2 .. c
          /\ n + 1 \in 2 .. c /\ (n + 1) - 2 = n - 1 /\ n - 1 \in 0 .. N /\ n - 2 \in 0 .. N
          /\ N \in 0 .. N
      OBVIOUS
    <2>2. f[n - 1] = B(n)
      BY <2>1 DEF Becoming
    <2>3. ends[n - 1] = ends[n - 2] + Len(f[n - 1]) /\ Len(f[n - 1]) \in Nat
      BY <1>3, <1>4, <2>1
    <2>4. at[n + 1] = 2 + ends[n - 1] /\ at[n] = 2 + ends[n - 2] /\ ends[n - 2] \in Nat
      BY <1>3, <1>5, <2>1
    <2>5. ASSUME NEW j \in 1 .. Len(f[n - 1]) PROVE after[at[n] + (j - 1)] = f[n - 1][j]
      <3>1. kept[ends[n - 2] + j] = f[n - 1][j]
        BY <1>3, <2>1
      <3>2. ends[n - 1] <= ends[N] /\ ends[N] \in Nat
        BY <1>3, <1>4, <2>1
      <3>3. ends[n - 2] + j \in 1 .. Len(kept)
        <4>1. PICK x, y, z, l : x = ends[n - 2] /\ y = ends[n - 1] /\ z = Len(kept)
                                /\ l = Len(f[n - 1])
          OBVIOUS
        <4>2. x \in Nat /\ y = x + l /\ l \in Nat /\ y <= z /\ z \in Nat /\ j \in 1 .. l
          BY <1>3, <2>3, <2>4, <3>2, <4>1
        <4>3. x + j \in 1 .. z
          BY <4>2
        <4> QED  BY <4>1, <4>3
      <3>4. after[1 + (ends[n - 2] + j)] = kept[ends[n - 2] + j]
        BY <3>3 DEF Has
      <3>5. at[n] + (j - 1) = 1 + (ends[n - 2] + j)
        BY <2>4
      <3> QED  BY <3>1, <3>4, <3>5
    <2> HIDE DEF at, N
    <2>6. at[n + 1] = at[n] + Len(f[n - 1])
      <3>1. PICK x, y, l : x = ends[n - 2] /\ y = ends[n - 1] /\ l = Len(f[n - 1])
        OBVIOUS
      <3>2. x \in Nat /\ l \in Nat /\ y = x + l /\ at[n + 1] = 2 + y /\ at[n] = 2 + x
        BY <2>3, <2>4, <3>1
      <3>3. at[n + 1] = at[n] + l
        BY <3>2
      <3> QED  BY <3>1, <3>3
    <2> QED  BY <2>2, <2>3, <2>5, <2>6
  <1>7. ASSUME NEW m \in 2 .. c, NEW n \in 2 .. c, m <= n PROVE at[m] <= at[n]
    <2>1. m - 2 \in 0 .. N /\ n - 2 \in 0 .. N /\ m - 2 <= n - 2
      BY <1>7
    <2>2. ends[m - 2] <= ends[n - 2] /\ ends[m - 2] \in Nat /\ ends[n - 2] \in Nat
      BY <1>3, <1>4, <2>1
    <2> HIDE DEF at
    <2> QED  BY <1>5, <2>2
  <1>8. at[c] = 2 + Len(kept) /\ at[2] = 2
    <2>1. c \in 2 .. c /\ 2 \in 2 .. c /\ 2 - 2 = 0
      OBVIOUS
    <2>2. at[c] = 2 + ends[N] /\ at[2] = 2 + ends[0]
      BY <2>1
    <2> QED  BY <1>3, <2>2
  <1>9. ASSUME NEW p \in 2 .. at[c] - 1
        PROVE  \E n \in 2 .. c - 1 : at[n] <= p /\ p < at[n + 1]
    <2>1. ends[N] \in Nat /\ at[c] = 2 + ends[N]
      BY <1>1, <1>3, <1>8
    <2> HIDE DEF at, N
    <2>2. p - 1 \in 1 .. ends[N]
      BY <2>1
    <2>3. IsLaidOut(kept, f, N, ends)
      BY DEF N
    <2>4. PICK i \in 1 .. N : ends[i - 1] < p - 1 /\ p - 1 <= ends[i]
      BY <1>1, <1>2, <2>2, <2>3, Covered
    <2>5. i + 1 \in 2 .. c - 1 /\ (i + 1) - 2 = i - 1 /\ ((i + 1) + 1) - 2 = i
          /\ i + 1 \in 2 .. c /\ (i + 1) + 1 \in 2 .. c /\ i \in 0 .. N /\ i - 1 \in 0 .. N
      BY <2>4 DEF N
    <2>6. at[i + 1] = 2 + ends[i - 1] /\ at[(i + 1) + 1] = 2 + ends[i]
      BY <1>5, <2>5
    <2>7. ends[i] \in Nat /\ ends[i - 1] \in Nat
      BY <1>3, <2>5
    <2>8. at[i + 1] <= p /\ p < at[(i + 1) + 1]
      BY <2>4, <2>6, <2>7
    <2> QED  BY <2>5, <2>8
  <1> HIDE DEF at
  <1>10. Moved(lines, managed, nl, c, after, at)
    BY <1>5, <1>6, <1>7, <1>8, <1>9 DEF Moved
  <1> QED  BY <1>8, <1>10

\* A patched header, part by part.
Patch(lines, managed, nl) ==
    <<lines[1]>>
    \o FlattenSeq([i \in 1 .. Closing(lines) - 2 |-> Becomes(lines, managed, i + 1, nl)])
    \o NewFields(Missing(lines, managed), managed, nl)
    \o SubSeq(lines, Closing(lines), Len(lines))

LEMMA PatchOfHeader ==
    ASSUME NEW lines, NEW managed, HasHeader(lines)
    PROVE  Patched(lines, managed) =
              Patch(lines, managed, CHOOSE e \in Newlines(lines) : TRUE)
  <1>1. Patched(lines, managed) =
            LET nl == IF HasHeader(lines) THEN CHOOSE e \in Newlines(lines) : TRUE
                                          ELSE FirstNewline(lines)
            IN  IF HasHeader(lines) THEN Patch(lines, managed, nl)
                ELSE IF managed = <<>> THEN lines
                ELSE <<Plain("fence", nl)>> \o NewFields(Missing(lines, managed), managed, nl)
                     \o <<Plain("fence", nl)>> \o lines
    BY DEF Patched, Patch
  <1> QED  BY <1>1

LEMMA PatchIsPlaced ==
    ASSUME NEW S, NEW V, NEW Keys, Writes(S, V, Keys), NEW lines \in Seq(S), NEW managed,
           Asks(managed, V, Keys), NEW c, IsHeader(lines, c), NEW nl, EndsAre(lines, c, nl),
           NEW after, after = Patched(lines, managed)
    PROVE  \E at, e : Placed(lines, managed, nl, c, S, after, at, e)
  <1> DEFINE f == [i \in 1 .. Closing(lines) - 2 |-> Becomes(lines, managed, i + 1, nl)]
             kept == FlattenSeq(f)
             new == NewFields(Missing(lines, managed), managed, nl)
             rest == SubSeq(lines, c, Len(lines))
  <1>1. /\ HasHeader(lines) /\ Closing(lines) = c /\ Inner(lines) = 2 .. c - 1
        /\ (CHOOSE x \in Newlines(lines) : TRUE) = nl
    BY HeaderIs, EndsGive
  <1>2. c \in 2 .. Len(lines) /\ Len(lines) \in Nat /\ c \in Nat /\ c >= 2 /\ nl \in Ends
    BY DEF IsHeader, EndsAre
  <1>3. after = <<lines[1]>> \o kept \o new \o rest
    <2>1. after = Patch(lines, managed, nl)
      BY <1>1, PatchOfHeader
    <2>2. Patch(lines, managed, nl) = <<lines[1]>> \o kept \o new
                                      \o SubSeq(lines, Closing(lines), Len(lines))
      BY DEF Patch
    <2> HIDE DEF kept, new
    <2> QED  BY <1>1, <2>1, <2>2
  <1>4. ASSUME NEW i \in 1 .. c - 2
        PROVE  f[i] = Becomes(lines, managed, i + 1, nl) /\ f[i] \in Seq(S)
    <2>1. i + 1 \in 2 .. c - 1
      BY <1>2
    <2>2. Becomes(lines, managed, i + 1, nl) \in Seq(S)
      BY <1>2, <2>1, BecomesLines
    <2>3. i \in 1 .. Closing(lines) - 2
      BY <1>1
    <2>4. f[i] = Becomes(lines, managed, i + 1, nl)
      BY <1>1, <2>3
    <2> QED  BY <2>2, <2>4
  <1>5. f \in [1 .. c - 2 -> Seq(S)] /\ c - 2 \in Nat
    <2>1. f = [i \in 1 .. c - 2 |-> f[i]]
      BY <1>1
    <2> HIDE DEF f
    <2> QED  BY <1>2, <1>4, <2>1
  <1> HIDE DEF f
  <1>6. kept \in Seq(S) /\ \E ends : IsLaidOut(kept, f, c - 2, ends)
    BY <1>5, FlattenIsLaidOut
  <1>7. PICK ends : IsLaidOut(kept, f, c - 2, ends)
    BY <1>6
  <1>8. /\ new \in Seq(S)
        /\ \A i \in 1 .. Len(new) : \E k \in Missing(lines, managed) :
              new[i] = NewField(k, managed[k], nl)
        /\ \A k \in Missing(lines, managed) : \E i \in 1 .. Len(new) :
              new[i] = NewField(k, managed[k], nl)
        /\ \A i \in 1 .. Len(new) : \A j \in 1 .. Len(new) :
              new[i].key = new[j].key => i = j
    BY <1>2, FieldsAreLaidOut
  <1>9. rest \in Seq(S) /\ Len(rest) = Len(lines) - c + 1
        /\ \A j \in 1 .. Len(rest) : rest[j] = lines[c + (j - 1)]
    <2>1. rest \in Seq(S)
      BY <1>2
    <2>2. Len(rest) = Len(lines) - c + 1
      BY <1>2
    <2>3. \A j \in 1 .. Len(lines) - c + 1 : rest[j] = lines[c + (j - 1)]
      BY <1>2
    <2> QED  BY <2>1, <2>2, <2>3
  <1>10. lines[1] \in S
    BY <1>2
  <1> HIDE DEF kept, new, rest
  <1>11. /\ after \in Seq(S) /\ Len(after) = 1 + Len(kept) + Len(new) + Len(rest)
         /\ after[1] = lines[1]
         /\ \A j \in 1 .. Len(kept) : after[1 + j] = kept[j]
         /\ \A j \in 1 .. Len(new) : after[1 + Len(kept) + j] = new[j]
         /\ \A j \in 1 .. Len(rest) : after[1 + Len(kept) + Len(new) + j] = rest[j]
    <2>1. kept \in Seq(S)
      BY <1>6
    <2>2. new \in Seq(S)
      BY <1>8
    <2>3. rest \in Seq(S)
      BY <1>9
    <2> QED  BY <1>3, <1>10, <2>1, <2>2, <2>3, FourParts
  <1>12. Len(kept) \in Nat /\ Len(new) \in Nat
    BY <1>6, <1>8
  <1>13. PICK at : Moved(lines, managed, nl, c, after, at) /\ at[c] = 2 + Len(kept)
    <2>1. Becoming(lines, managed, nl, c, f, S)
      BY <1>4 DEF Becoming
    <2>2. Has(after, 1, kept)
      BY <1>11 DEF Has
    <2> QED  BY <1>2, <1>7, <2>1, <2>2, MovedBy
  <1> DEFINE e == at[c] + Len(new)
  <1>14. Added(lines, managed, nl, after, at[c], e)
    <2>1. at[c] \in Nat /\ e \in Nat /\ at[c] <= e
      BY <1>12, <1>13
    <2>2. ASSUME NEW p \in at[c] .. e - 1
          PROVE  p - at[c] + 1 \in 1 .. Len(new) /\ after[p] = new[p - at[c] + 1]
      <3>1. p - at[c] + 1 \in 1 .. Len(new) /\ 1 + Len(kept) + (p - at[c] + 1) = p
        BY <1>12, <1>13
      <3> QED  BY <1>11, <3>1
    <2>3. ASSUME NEW i \in 1 .. Len(new)
          PROVE  at[c] + i - 1 \in at[c] .. e - 1 /\ after[at[c] + i - 1] = new[i]
      <3>1. at[c] + i - 1 \in at[c] .. e - 1 /\ at[c] + i - 1 = 1 + Len(kept) + i
        BY <1>12, <1>13
      <3> QED  BY <1>11, <3>1
    <2> HIDE DEF e
    <2>4. \A p \in at[c] .. e - 1 : \E k \in Missing(lines, managed) :
              after[p] = NewField(k, managed[k], nl)
      BY <1>8, <2>2
    <2>5. \A k \in Missing(lines, managed) : \E p \in at[c] .. e - 1 :
              after[p] = NewField(k, managed[k], nl)
      <3> TAKE k \in Missing(lines, managed)
      <3>1. PICK i \in 1 .. Len(new) : new[i] = NewField(k, managed[k], nl)
        BY <1>8
      <3>2. at[c] + i - 1 \in at[c] .. e - 1 /\ after[at[c] + i - 1] = NewField(k, managed[k], nl)
        BY <2>3, <3>1
      <3> QED  BY <3>2
    <2>6. ASSUME NEW p \in at[c] .. e - 1, NEW q \in at[c] .. e - 1, after[p].key = after[q].key
          PROVE  p = q
      <3>1. p - at[c] + 1 = q - at[c] + 1
        <4>1. p - at[c] + 1 \in 1 .. Len(new) /\ q - at[c] + 1 \in 1 .. Len(new)
          BY <2>2
        <4>2. new[p - at[c] + 1].key = new[q - at[c] + 1].key
          BY <2>2, <2>6
        <4>3. \A i \in 1 .. Len(new) : \A j \in 1 .. Len(new) : new[i].key = new[j].key => i = j
          BY <1>8
        <4> HIDE DEF new
        <4> QED  BY <4>1, <4>2, <4>3
      <3> QED  BY <2>1, <3>1
    <2> QED  BY <2>1, <2>4, <2>5, <2>6 DEF Added
  <1>15. Kept(lines, c, after, e)
    <2>1. Len(after) = e + (Len(lines) - c)
      BY <1>2, <1>9, <1>11, <1>12, <1>13
    <2>2. ASSUME NEW i \in 0 .. Len(lines) - c PROVE after[e + i] = lines[c + i]
      <3>1. i + 1 \in 1 .. Len(rest) /\ (i + 1) - 1 = i
            /\ 1 + Len(kept) + Len(new) + (i + 1) = e + i
        BY <1>2, <1>9, <1>12, <1>13
      <3>2. rest[i + 1] = lines[c + ((i + 1) - 1)]
        BY <1>9, <3>1
      <3>3. after[1 + Len(kept) + Len(new) + (i + 1)] = rest[i + 1]
        BY <1>11, <3>1
      <3> HIDE DEF e
      <3> QED  BY <3>1, <3>2, <3>3
    <2> HIDE DEF e
    <2> QED  BY <1>11, <2>1, <2>2 DEF Kept
  <1> HIDE DEF e
  <1>16. Placed(lines, managed, nl, c, S, after, at, e)
    BY <1>11, <1>13, <1>14, <1>15 DEF Placed
  <1> QED  BY <1>16

\* What moves where, by what it is.
Goes(lines, managed, nl, c, after, at) ==
    /\ \A n \in 2 .. c - 1 : Stands(lines, managed, c, n) =>
          at[n + 1] = at[n] + 1 /\ after[at[n]] = lines[n]
    /\ \A n \in 2 .. c - 1 : IsSet(lines, managed, n) =>
          at[n + 1] = at[n] + 1 /\ after[at[n]] = Rendered(lines[n], managed[lines[n].key])
    /\ \A n \in 2 .. c - 1 : \A f : Owns(lines, managed, c, f, n) /\ n # Min(Items(lines, f)) =>
          at[n + 1] = at[n]
    /\ \A n \in 2 .. c - 1 : \A f : Owns(lines, managed, c, f, n) /\ n = Min(Items(lines, f)) =>
          /\ at[n + 1] = at[n] + Len(managed[lines[f].key].of)
          /\ \A j \in 1 .. Len(managed[lines[f].key].of) :
                after[at[n] + (j - 1)] = NewItems(managed[lines[f].key], nl)[j]
Climbing(c, at) ==
    /\ at[2] = 2
    /\ \A n \in 2 .. c : at[n] \in Nat /\ at[n] >= 2
    /\ \A m \in 2 .. c : \A n \in 2 .. c : m <= n => at[m] <= at[n]
    /\ \A p \in 2 .. at[c] - 1 : \E n \in 2 .. c - 1 : at[n] <= p /\ p < at[n + 1]

LEMMA MovedGoes ==
    ASSUME NEW S, NEW V, NEW Keys, Writes(S, V, Keys), NEW lines \in Seq(S), NEW managed,
           Asks(managed, V, Keys), NEW c, IsHeader(lines, c), NEW nl \in Ends,
           NEW after, NEW at, Moved(lines, managed, nl, c, after, at)
    PROVE  Goes(lines, managed, nl, c, after, at) /\ Climbing(c, at)
  <1>1. Inner(lines) = 2 .. c - 1 /\ c \in 2 .. Len(lines) /\ c \in Nat
    BY HeaderIs DEF IsHeader
  <1>2. Climbing(c, at)
    BY DEF Moved, Climbing
  <1>3. \A n \in 2 .. c : at[n] \in Nat
    BY DEF Moved
  <1>4. ASSUME NEW n \in 2 .. c - 1, NEW x, Becomes(lines, managed, n, nl) = <<x>>
        PROVE  at[n + 1] = at[n] + 1 /\ after[at[n]] = x
    <2>1. Len(<<x>>) = 1 /\ <<x>>[1] = x
      OBVIOUS
    <2>2. at[n + 1] = at[n] + Len(Becomes(lines, managed, n, nl))
      BY DEF Moved
    <2>3. \A j \in 1 .. Len(Becomes(lines, managed, n, nl)) :
             after[at[n] + (j - 1)] = Becomes(lines, managed, n, nl)[j]
      BY DEF Moved
    <2>4. 1 \in 1 .. 1 /\ n \in 2 .. c
      BY <1>1
    <2>5. after[at[n] + (1 - 1)] = x
      BY <1>4, <2>1, <2>3, <2>4
    <2>6. at[n] + (1 - 1) = at[n]
      BY <1>3, <2>4
    <2> QED  BY <1>4, <2>1, <2>2, <2>5, <2>6
  <1>5. ASSUME NEW n \in 2 .. c - 1, Stands(lines, managed, c, n)
        PROVE  at[n + 1] = at[n] + 1 /\ after[at[n]] = lines[n]
    <2>1. Becomes(lines, managed, n, nl) = <<lines[n]>>
      BY <1>1, <1>5, BecomesItself
    <2> QED  BY <1>4, <2>1
  <1>6. ASSUME NEW n \in 2 .. c - 1, IsSet(lines, managed, n)
        PROVE  at[n + 1] = at[n] + 1 /\ after[at[n]] = Rendered(lines[n], managed[lines[n].key])
    <2>1. Becomes(lines, managed, n, nl) = <<Rendered(lines[n], managed[lines[n].key])>>
      BY <1>6, BecomesSet
    <2> QED  BY <1>4, <2>1
  <1>7. ASSUME NEW n \in 2 .. c - 1, NEW f, Owns(lines, managed, c, f, n),
               n # Min(Items(lines, f))
        PROVE  at[n + 1] = at[n]
    <2>1. Becomes(lines, managed, n, nl) = <<>>
      BY <1>1, <1>7, BecomesItems
    <2>2. at[n + 1] = at[n] + Len(Becomes(lines, managed, n, nl)) /\ at[n] \in Nat
      BY <1>1, <1>3 DEF Moved
    <2>3. Len(<<>>) = 0
      OBVIOUS
    <2> QED  BY <2>1, <2>2, <2>3
  <1>8. ASSUME NEW n \in 2 .. c - 1, NEW f, Owns(lines, managed, c, f, n),
               n = Min(Items(lines, f))
        PROVE  /\ at[n + 1] = at[n] + Len(managed[lines[f].key].of)
               /\ \A j \in 1 .. Len(managed[lines[f].key].of) :
                     after[at[n] + (j - 1)] = NewItems(managed[lines[f].key], nl)[j]
    <2>1. Becomes(lines, managed, n, nl) = NewItems(managed[lines[f].key], nl)
      BY <1>1, <1>8, BecomesItems
    <2>2. managed[lines[f].key] \in V
      BY <1>8 DEF Owns, Asks
    <2>3. Len(NewItems(managed[lines[f].key], nl)) = Len(managed[lines[f].key].of)
      BY <2>2 DEF Writes, WrittenItems
    <2>4. at[n + 1] = at[n] + Len(Becomes(lines, managed, n, nl))
      BY DEF Moved
    <2>5. \A j \in 1 .. Len(Becomes(lines, managed, n, nl)) :
             after[at[n] + (j - 1)] = Becomes(lines, managed, n, nl)[j]
      BY DEF Moved
    <2> QED  BY <2>1, <2>3, <2>4, <2>5
  <1>9. Goes(lines, managed, nl, c, after, at)
    BY <1>5, <1>6, <1>7, <1>8 DEF Goes
  <1> QED  BY <1>2, <1>9

\* Where a line of the new header comes from.
FromStanding(lines, managed, c, after, at, p, n) ==
    n \in 2 .. c - 1 /\ Stands(lines, managed, c, n) /\ p = at[n] /\ after[p] = lines[n]
    /\ at[n + 1] = at[n] + 1
FromSet(lines, managed, c, after, at, p, n) ==
    n \in 2 .. c - 1 /\ IsSet(lines, managed, n) /\ p = at[n] /\ at[n + 1] = at[n] + 1
    /\ after[p] = Rendered(lines[n], managed[lines[n].key])
FromItems(lines, managed, nl, c, after, at, p, n, f) ==
    /\ n \in 2 .. c - 1 /\ Owns(lines, managed, c, f, n) /\ n = Min(Items(lines, f))
    /\ at[n + 1] = at[n] + Len(managed[lines[f].key].of)
    /\ p - at[n] + 1 \in 1 .. Len(managed[lines[f].key].of)
    /\ after[p] = NewItems(managed[lines[f].key], nl)[p - at[n] + 1]
FromNowhere(lines, managed, nl, after, a, e, p, k) ==
    p \in a .. e - 1 /\ k \in Missing(lines, managed) /\ after[p] = NewField(k, managed[k], nl)

LEMMA ComesFrom ==
    ASSUME NEW S, NEW V, NEW Keys, Writes(S, V, Keys), NEW lines \in Seq(S), NEW managed,
           Asks(managed, V, Keys), NEW c, IsHeader(lines, c), NEW nl \in Ends,
           NEW after, NEW at, Goes(lines, managed, nl, c, after, at), Climbing(c, at),
           NEW n \in 2 .. c - 1, NEW p \in Nat, at[n] <= p, p < at[n + 1]
    PROVE  \/ FromStanding(lines, managed, c, after, at, p, n)
           \/ FromSet(lines, managed, c, after, at, p, n)
           \/ \E f : FromItems(lines, managed, nl, c, after, at, p, n, f)
  <1>0. c \in Nat /\ n \in 2 .. c /\ n + 1 \in 2 .. c
    BY DEF IsHeader
  <1>1. at[n] \in Nat /\ at[n + 1] \in Nat
    BY <1>0 DEF Climbing
  <1>2. CASE Stands(lines, managed, c, n)
    <2>1. at[n + 1] = at[n] + 1 /\ after[at[n]] = lines[n]
      BY <1>2 DEF Goes
    <2>2. p = at[n]
      BY <1>1, <2>1
    <2> QED  BY <1>2, <2>1, <2>2 DEF FromStanding
  <1>3. CASE IsSet(lines, managed, n)
    <2>1. at[n + 1] = at[n] + 1 /\ after[at[n]] = Rendered(lines[n], managed[lines[n].key])
      BY <1>3 DEF Goes
    <2>2. p = at[n]
      BY <1>1, <2>1
    <2> QED  BY <1>3, <2>1, <2>2 DEF FromSet
  <1>4. ASSUME NEW f, Owns(lines, managed, c, f, n)
        PROVE  FromItems(lines, managed, nl, c, after, at, p, n, f)
    <2>1. n = Min(Items(lines, f))
      <3>1. n # Min(Items(lines, f)) => at[n + 1] = at[n]
        BY <1>4 DEF Goes
      <3> QED  BY <1>1, <3>1
    <2>2. /\ at[n + 1] = at[n] + Len(managed[lines[f].key].of)
          /\ \A j \in 1 .. Len(managed[lines[f].key].of) :
                after[at[n] + (j - 1)] = NewItems(managed[lines[f].key], nl)[j]
      BY <1>4, <2>1 DEF Goes
    <2>3. managed[lines[f].key] \in V
      BY <1>4 DEF Owns, Asks
    <2>4. PICK l \in Nat : l = Len(managed[lines[f].key].of)
      BY <2>3 DEF Writes, WrittenItems
    <2>5. p - at[n] + 1 \in 1 .. l /\ at[n] + ((p - at[n] + 1) - 1) = p
      <3>1. PICK x, y : x = at[n] /\ y = at[n + 1]
        OBVIOUS
      <3>2. x \in Nat /\ y = x + l /\ x <= p /\ p < y
        BY <1>1, <2>2, <2>4, <3>1
      <3>3. p - x + 1 \in 1 .. l /\ x + ((p - x + 1) - 1) = p
        BY <3>2
      <3> QED  BY <3>1, <3>3
    <2> QED  BY <1>4, <2>1, <2>2, <2>4, <2>5 DEF FromItems
  <1> QED  BY <1>2, <1>3, <1>4 DEF Stands

\* A header and what a patch makes of it.
Patching(lines, managed, nl, c, S, V, Keys, after, at, e) ==
    /\ Writes(S, V, Keys) /\ Asks(managed, V, Keys) /\ lines \in Seq(S) /\ after \in Seq(S)
    /\ IsHeader(lines, c) /\ EndsAre(lines, c, nl)
    /\ Goes(lines, managed, nl, c, after, at) /\ Climbing(c, at)
    /\ Added(lines, managed, nl, after, at[c], e) /\ Kept(lines, c, after, e)

LEMMA PatchingIs ==
    ASSUME NEW lines, NEW managed, NEW nl, NEW c, NEW S, NEW V, NEW Keys, NEW after, NEW at,
           NEW e, Patching(lines, managed, nl, c, S, V, Keys, after, at, e)
    PROVE  /\ c \in 2 .. Len(lines) /\ c \in Nat /\ Len(lines) \in Nat
           /\ DOMAIN lines = 1 .. Len(lines) /\ DOMAIN after = 1 .. Len(after)
           /\ Inner(lines) = 2 .. c - 1 /\ nl \in Ends
           /\ at[c] \in Nat /\ at[c] >= 2 /\ e \in Nat /\ at[c] <= e /\ e \in 2 .. Len(after)
           /\ Len(after) = e + (Len(lines) - c)
           /\ after[1] = lines[1] /\ after[e] = lines[c]
  <1>1. lines \in Seq(S) /\ IsHeader(lines, c)
    BY DEF Patching
  <1>2. c \in 2 .. Len(lines) /\ c \in Nat /\ Len(lines) \in Nat /\ DOMAIN lines = 1 .. Len(lines)
        /\ Inner(lines) = 2 .. c - 1
    BY <1>1, HeaderIs DEF IsHeader
  <1>3. nl \in Ends
    BY DEF Patching, EndsAre
  <1>4. c \in 2 .. c
    BY <1>2
  <1>5. at[c] \in Nat /\ at[c] >= 2
    BY <1>4 DEF Patching, Climbing
  <1>6. e \in Nat /\ at[c] <= e
    BY DEF Patching, Added
  <1>7. Kept(lines, c, after, e) /\ after \in Seq(S)
    BY DEF Patching
  <1>8. Len(after) = e + (Len(lines) - c) /\ after[1] = lines[1]
    BY <1>7 DEF Kept
  <1>9. after[e] = lines[c]
    <2>1. 0 \in 0 .. Len(lines) - c
      BY <1>2
    <2>2. after[e + 0] = lines[c + 0]
      BY <1>7, <2>1 DEF Kept
    <2> QED  BY <1>2, <1>6, <2>2
  <1>10. DOMAIN after = 1 .. Len(after)
    BY <1>7
  <1>11. e \in 2 .. Len(after)
    BY <1>2, <1>5, <1>6, <1>8
  <1> QED  BY <1>2, <1>3, <1>5, <1>6, <1>8, <1>9, <1>10, <1>11

LEMMA EveryLine ==
    ASSUME NEW lines, NEW managed, NEW nl, NEW c, NEW S, NEW V, NEW Keys, NEW after, NEW at,
           NEW e, Patching(lines, managed, nl, c, S, V, Keys, after, at, e), NEW p \in 2 .. e - 1
    PROVE  \/ \E n : FromStanding(lines, managed, c, after, at, p, n)
           \/ \E n : FromSet(lines, managed, c, after, at, p, n)
           \/ \E n, f : FromItems(lines, managed, nl, c, after, at, p, n, f)
           \/ \E k : FromNowhere(lines, managed, nl, after, at[c], e, p, k)
  <1>1. at[c] \in Nat /\ e \in Nat /\ p \in Nat /\ nl \in Ends
    BY PatchingIs
  <1>2. CASE p \in 2 .. at[c] - 1
    <2>1. PICK n \in 2 .. c - 1 : at[n] <= p /\ p < at[n + 1]
      BY <1>2 DEF Patching, Climbing
    <2>2. Writes(S, V, Keys) /\ Asks(managed, V, Keys) /\ lines \in Seq(S) /\ IsHeader(lines, c)
          /\ Goes(lines, managed, nl, c, after, at) /\ Climbing(c, at)
      BY DEF Patching
    <2> QED  BY <1>1, <2>1, <2>2, ComesFrom
  <1>3. CASE p \in at[c] .. e - 1
    <2>1. PICK k \in Missing(lines, managed) : after[p] = NewField(k, managed[k], nl)
      BY <1>3 DEF Patching, Added
    <2> QED  BY <1>3, <2>1 DEF FromNowhere
  <1> QED  BY <1>1, <1>2, <1>3

\* What is written is set, is an item, or stood there.
LEMMA WrittenIs ==
    ASSUME NEW lines, NEW managed, NEW nl, NEW c, NEW S, NEW V, NEW Keys, NEW after, NEW at,
           NEW e, Patching(lines, managed, nl, c, S, V, Keys, after, at, e), NEW p
    PROVE  /\ \A n : FromStanding(lines, managed, c, after, at, p, n) => after[p] = lines[n]
           /\ \A n : FromSet(lines, managed, c, after, at, p, n) =>
                 /\ after[p].says \in Valued /\ after[p].ends = lines[n].ends
                 /\ after[p].key = lines[n].key /\ after[p].note = lines[n].note
                 /\ after[p].key \in DOMAIN managed /\ after[p].value = managed[after[p].key]
                 /\ Rendered(after[p], managed[after[p].key]) = after[p]
           /\ \A n, f : FromItems(lines, managed, nl, c, after, at, p, n, f) =>
                 after[p].says = "item" /\ after[p].ends = nl
           /\ \A k : FromNowhere(lines, managed, nl, after, at[c], e, p, k) =>
                 /\ after[p].says \in Valued /\ after[p].ends = nl /\ after[p].key = k
                 /\ k \in DOMAIN managed /\ k \in Missing(lines, managed)
                 /\ after[p].value = managed[k] /\ Rendered(after[p], managed[k]) = after[p]
  <1>1. Writes(S, V, Keys) /\ Asks(managed, V, Keys) /\ nl \in Ends
    BY PatchingIs DEF Patching
  <1>2. ASSUME NEW n, FromStanding(lines, managed, c, after, at, p, n)
        PROVE  after[p] = lines[n]
    BY <1>2 DEF FromStanding
  <1>3. ASSUME NEW n, FromSet(lines, managed, c, after, at, p, n)
        PROVE  /\ after[p].says \in Valued /\ after[p].ends = lines[n].ends
               /\ after[p].key = lines[n].key /\ after[p].note = lines[n].note
               /\ after[p].key \in DOMAIN managed /\ after[p].value = managed[after[p].key]
               /\ Rendered(after[p], managed[after[p].key]) = after[p]
    <2>1. /\ n \in 2 .. c - 1 /\ lines[n].says \in Valued /\ lines[n].key \in DOMAIN managed
          /\ after[p] = Rendered(lines[n], managed[lines[n].key])
      BY <1>3 DEF FromSet, IsSet
    <2>2. lines[n] \in S
      <3>1. lines \in Seq(S)
        BY DEF Patching
      <3>2. n \in 1 .. Len(lines)
        BY <2>1, PatchingIs
      <3> QED  BY <3>1, <3>2
    <2>3. managed[lines[n].key] \in V
      BY <1>1, <2>1 DEF Asks
    <2> QED  BY <1>1, <2>1, <2>2, <2>3 DEF Writes
  <1>4. ASSUME NEW n, NEW f, FromItems(lines, managed, nl, c, after, at, p, n, f)
        PROVE  after[p].says = "item" /\ after[p].ends = nl
    <2>1. managed[lines[f].key] \in V
      BY <1>1, <1>4 DEF FromItems, Owns, Asks
    <2>2. PICK v \in V : v = managed[lines[f].key]
      BY <2>1
    <2>3. PICK j \in 1 .. Len(v.of) : after[p] = NewItems(v, nl)[j]
      BY <1>4, <2>2 DEF FromItems
    <2>4. NewItems(v, nl)[j].says = "item" /\ NewItems(v, nl)[j].ends = nl
      <3>1. WrittenItems(v, nl, S)
        BY <1>1 DEF Writes
      <3> QED  BY <3>1 DEF WrittenItems
    <2> QED  BY <2>3, <2>4
  <1>5. ASSUME NEW k, FromNowhere(lines, managed, nl, after, at[c], e, p, k)
        PROVE  /\ after[p].says \in Valued /\ after[p].ends = nl /\ after[p].key = k
               /\ k \in DOMAIN managed /\ k \in Missing(lines, managed)
               /\ after[p].value = managed[k] /\ Rendered(after[p], managed[k]) = after[p]
    <2>1. k \in Missing(lines, managed) /\ k \in DOMAIN managed
          /\ after[p] = NewField(k, managed[k], nl)
      BY <1>5 DEF FromNowhere, Missing
    <2>2. k \in Keys /\ managed[k] \in V
      BY <1>1, <2>1 DEF Asks
    <2> QED  BY <1>1, <2>1, <2>2 DEF Writes
  <1> QED  BY <1>2, <1>3, <1>4, <1>5

LEMMA HeaderStays ==
    ASSUME NEW lines, NEW managed, NEW nl, NEW c, NEW S, NEW V, NEW Keys, NEW after, NEW at,
           NEW e, Patching(lines, managed, nl, c, S, V, Keys, after, at, e)
    PROVE  IsHeader(after, e) /\ EndsAre(after, e, nl) /\ Body(after) = Body(lines)
  <1>1. /\ c \in 2 .. Len(lines) /\ c \in Nat /\ Len(lines) \in Nat
        /\ e \in Nat /\ e \in 2 .. Len(after) /\ Len(after) = e + (Len(lines) - c)
        /\ after[1] = lines[1] /\ after[e] = lines[c] /\ Len(after) \in Nat
    BY PatchingIs
  <1>2. IsHeader(lines, c) /\ EndsAre(lines, c, nl) /\ lines \in Seq(S) /\ after \in Seq(S)
    BY DEF Patching
  <1>3. ASSUME NEW p \in 2 .. e - 1
        PROVE  after[p].says # "fence" /\ after[p].ends \in {nl, NoText}
    <2>1. \A n \in 2 .. c - 1 : lines[n].says # "fence" /\ lines[n].ends \in {nl, NoText}
      <3> TAKE n \in 2 .. c - 1
      <3>1. n \in 1 .. c
        BY <1>1
      <3> QED  BY <1>2, <3>1 DEF IsHeader, EndsAre
    <2>2. CASE \E n : FromStanding(lines, managed, c, after, at, p, n)
      BY <2>1, <2>2 DEF FromStanding
    <2>3. ASSUME NEW n, FromSet(lines, managed, c, after, at, p, n)
          PROVE  after[p].says # "fence" /\ after[p].ends \in {nl, NoText}
      <3>1. after[p].says \in Valued /\ after[p].ends = lines[n].ends
        BY <2>3, WrittenIs
      <3>2. n \in 2 .. c - 1
        BY <2>3 DEF FromSet
      <3> QED  BY <2>1, <3>1, <3>2 DEF Valued
    <2>4. ASSUME NEW n, NEW f, FromItems(lines, managed, nl, c, after, at, p, n, f)
          PROVE  after[p].says # "fence" /\ after[p].ends \in {nl, NoText}
      <3>1. after[p].says = "item" /\ after[p].ends = nl
        BY <2>4, WrittenIs
      <3> QED  BY <3>1
    <2>5. ASSUME NEW k, FromNowhere(lines, managed, nl, after, at[c], e, p, k)
          PROVE  after[p].says # "fence" /\ after[p].ends \in {nl, NoText}
      <3>1. after[p].says \in Valued /\ after[p].ends = nl
        BY <2>5, WrittenIs
      <3> QED  BY <3>1 DEF Valued
    <2> QED  BY <2>2, <2>3, <2>4, <2>5, EveryLine
  <1>4. IsHeader(after, e)
    BY <1>1, <1>2, <1>3 DEF IsHeader
  <1>5. EndsAre(after, e, nl)
    <2>1. ASSUME NEW p \in 1 .. e PROVE after[p].ends \in {nl, NoText}
      <3>1. p = 1 \/ p = e \/ p \in 2 .. e - 1
        BY <1>1
      <3>2. 1 \in 1 .. c /\ c \in 1 .. c
        BY <1>1
      <3>3. lines[1].ends \in {nl, NoText} /\ lines[c].ends \in {nl, NoText}
        BY <1>2, <3>2 DEF EndsAre
      <3> QED  BY <1>1, <1>3, <3>1, <3>3
    <2> QED  BY <1>1, <1>2, <2>1 DEF EndsAre
  <1>6. Body(after) = Body(lines)
    <2>1. Body(after) = SubSeq(after, e + 1, Len(after))
      BY <1>2, <1>4, HeaderIs
    <2>2. Body(lines) = SubSeq(lines, c + 1, Len(lines))
      BY <1>2, HeaderIs
    <2> DEFINE x == SubSeq(after, e + 1, Len(after))
               y == SubSeq(lines, c + 1, Len(lines))
    <2>3. x \in Seq(S) /\ Len(x) = Len(after) - e
      <3>1. e + 1 \in 1 .. Len(after) + 1
        BY <1>1
      <3> QED  BY <1>1, <1>2, <3>1
    <2>4. y \in Seq(S) /\ Len(y) = Len(lines) - c
      BY <1>1, <1>2
    <2>5. \A i \in 1 .. Len(after) - e : x[i] = after[e + i]
      BY <1>1, <1>2
    <2>6. \A i \in 1 .. Len(lines) - c : y[i] = lines[c + i]
      BY <1>1, <1>2
    <2>7. \A i \in 1 .. Len(lines) - c : after[e + i] = lines[c + i]
      <3> TAKE i \in 1 .. Len(lines) - c
      <3>1. i \in 0 .. Len(lines) - c
        BY <1>1
      <3> QED  BY <3>1 DEF Patching, Kept
    <2>8. Len(after) - e = Len(lines) - c
      BY <1>1
    <2> HIDE DEF x, y
    <2>9. Len(x) = Len(y) /\ \A i \in 1 .. Len(x) : x[i] = y[i]
      BY <2>3, <2>4, <2>5, <2>6, <2>7, <2>8
    <2>10. x = y
      BY <2>3, <2>4, <2>9, SameSequence
    <2> QED  BY <2>1, <2>2, <2>10 DEF x, y
  <1> QED  BY <1>4, <1>5, <1>6

LEMMA Inside ==
    ASSUME NEW c \in Nat, NEW at, Climbing(c, at), NEW m \in 2 .. c, NEW k \in 2 .. c,
           NEW p \in at[m] .. at[k] - 1
    PROVE  \E n \in m .. k - 1 : n \in 2 .. c - 1 /\ at[n] <= p /\ p < at[n + 1]
  <1>1. \A n \in 2 .. c : at[n] \in Nat /\ at[n] >= 2
    BY DEF Climbing
  <1>2. c \in 2 .. c
    OBVIOUS
  <1>3. at[k] <= at[c]
    BY <1>2 DEF Climbing
  <1>4. at[m] \in Nat /\ at[k] \in Nat /\ at[c] \in Nat /\ at[m] >= 2
    BY <1>1, <1>2
  <1>5. p \in 2 .. at[c] - 1
    BY <1>3, <1>4
  <1>6. PICK n \in 2 .. c - 1 : at[n] <= p /\ p < at[n + 1]
    BY <1>5 DEF Climbing
  <1>7. n \in 2 .. c /\ n + 1 \in 2 .. c
    OBVIOUS
  <1>8. at[n] \in Nat /\ at[n + 1] \in Nat
    BY <1>1, <1>7
  <1>9. n >= m
    <2>1. ASSUME n < m PROVE FALSE
      <3>1. n + 1 <= m
        BY <2>1
      <3>2. at[n + 1] <= at[m]
        BY <1>7, <3>1 DEF Climbing
      <3> QED  BY <1>4, <1>6, <1>8, <3>2
    <2> QED  BY <2>1
  <1>10. n < k
    <2>1. ASSUME k <= n PROVE FALSE
      <3>1. at[k] <= at[n]
        BY <1>7, <2>1 DEF Climbing
      <3> QED  BY <1>4, <1>6, <1>8, <3>1
    <2> QED  BY <2>1
  <1> QED  BY <1>6, <1>9, <1>10

\* The lines of a list, and what they are to a patch.
LEMMA InAList ==
    ASSUME NEW lines, NEW managed, NEW c \in Nat, NEW S, lines \in Seq(S), IsHeader(lines, c),
           NEW f, NEW a, NEW b, NEW u, IsList(lines, c, f, a, b, u)
    PROVE  /\ f \in 2 .. c - 1 /\ a \in 2 .. c - 1 /\ b \in 2 .. c - 1 /\ u \in 2 .. c - 1
           /\ f < a /\ a <= b /\ b <= u
           /\ Stands(lines, managed, c, f)
           /\ \A i \in f + 1 .. u : i \notin a .. b => Stands(lines, managed, c, i)
           /\ lines[f].key \notin DOMAIN managed =>
                 \A i \in a .. b : Stands(lines, managed, c, i)
           /\ lines[f].key \in DOMAIN managed =>
                 \A i \in a .. b : Owns(lines, managed, c, f, i)
           /\ Min(Items(lines, f)) = a
  <1>1. Inner(lines) = 2 .. c - 1
    BY HeaderIs
  <1>2. f \in 2 .. c - 1 /\ lines[f].says = "list" /\ u \in f .. c - 1
    BY DEF IsList, RunsTo
  <1>3. a \in Nat /\ b \in Nat /\ f < a /\ a <= b /\ b <= u
    BY DEF IsList, Holds
  <1>4. a \in 2 .. c - 1 /\ b \in 2 .. c - 1 /\ u \in 2 .. c - 1
    BY <1>2, <1>3
  <1>5. Items(lines, f) = a .. b
    BY ListIs
  <1>6. \A i \in f + 1 .. u : lines[i].says \in Below /\ (lines[i].says = "item" <=> i \in a .. b)
    BY DEF IsList, RunsTo, Holds
  <1>7. ASSUME NEW i, lines[i].says \notin Valued, lines[i].says # "item"
        PROVE  Stands(lines, managed, c, i)
    <2>1. \A g : ~Owns(lines, managed, c, g, i)
      BY <1>7, ItemIs DEF Owns
    <2> QED  BY <1>7, <2>1 DEF Stands, IsSet
  <1>8. Stands(lines, managed, c, f)
    BY <1>2, <1>7 DEF Valued
  <1>9. ASSUME NEW i \in f + 1 .. u, i \notin a .. b PROVE Stands(lines, managed, c, i)
    BY <1>6, <1>7, <1>9 DEF Below, Valued
  <1>10. ASSUME lines[f].key \notin DOMAIN managed, NEW i \in a .. b
         PROVE  Stands(lines, managed, c, i)
    <2>1. i \in f + 1 .. u /\ i \in Items(lines, f)
      BY <1>2, <1>3, <1>5
    <2>2. lines[i].says = "item"
      BY <1>6, <2>1
    <2>3. ~IsSet(lines, managed, i)
      BY <2>2 DEF IsSet, Valued
    <2>4. ASSUME NEW g \in 2 .. c - 1, Owns(lines, managed, c, g, i) PROVE FALSE
      <3>1. i \in Items(lines, g) /\ lines[g].key \in DOMAIN managed
        BY <2>4 DEF Owns
      <3>2. f = g
        BY <1>1, <1>2, <2>1, <3>1, OneOwner
      <3> QED  BY <1>10, <3>1, <3>2
    <2> QED  BY <2>3, <2>4 DEF Stands
  <1>11. ASSUME lines[f].key \in DOMAIN managed, NEW i \in a .. b
         PROVE  Owns(lines, managed, c, f, i)
    BY <1>2, <1>5, <1>11 DEF Owns
  <1>12. Min(Items(lines, f)) = a
    <2>1. a \in Nat \ {0}
      BY <1>4
    <2>2. Min(a .. b) = a
      BY <1>3, <2>1, IntervalIs
    <2> QED  BY <1>5, <2>2
  <1> QED  BY <1>2, <1>3, <1>4, <1>8, <1>9, <1>10, <1>11, <1>12

LEMMA ListMoves ==
    ASSUME NEW lines, NEW managed, NEW nl, NEW c, NEW S, NEW V, NEW Keys, NEW after, NEW at,
           NEW e, Patching(lines, managed, nl, c, S, V, Keys, after, at, e),
           NEW f, NEW a, NEW b, NEW u, IsList(lines, c, f, a, b, u)
    PROVE  /\ after[at[f]] = lines[f] /\ at[f + 1] = at[f] + 1
           /\ RunsTo(after, e, at[f], at[u + 1] - 1)
           /\ Holds(after, at[f], at[a], at[b + 1] - 1, at[u + 1] - 1)
           /\ \A p \in at[f] + 1 .. at[u + 1] - 1 : after[p].says # "nested"
           /\ lines[f].key \in DOMAIN managed =>
                 /\ at[b + 1] = at[a] + Len(managed[lines[f].key].of)
                 /\ \A j \in 1 .. Len(managed[lines[f].key].of) :
                       after[at[a] + (j - 1)] = NewItems(managed[lines[f].key], nl)[j]
           /\ lines[f].key \notin DOMAIN managed => at[a] < at[b + 1]
  <1>1. /\ c \in 2 .. Len(lines) /\ c \in Nat /\ Inner(lines) = 2 .. c - 1 /\ nl \in Ends
        /\ at[c] \in Nat /\ e \in Nat /\ at[c] <= e /\ after[e] = lines[c]
    <2>1. /\ c \in 2 .. Len(lines) /\ c \in Nat /\ Inner(lines) = 2 .. c - 1 /\ nl \in Ends
      BY PatchingIs
    <2>2. at[c] \in Nat /\ at[c] <= e
      BY PatchingIs
    <2>3. e \in Nat /\ after[e] = lines[c]
      BY PatchingIs
    <2> QED  BY <2>1, <2>2, <2>3
  <1>2. /\ Writes(S, V, Keys) /\ Asks(managed, V, Keys) /\ lines \in Seq(S)
        /\ IsHeader(lines, c) /\ Goes(lines, managed, nl, c, after, at) /\ Climbing(c, at)
    BY DEF Patching
  <1>3. /\ f \in 2 .. c - 1 /\ a \in 2 .. c - 1 /\ b \in 2 .. c - 1 /\ u \in 2 .. c - 1
        /\ f < a /\ a <= b /\ b <= u
        /\ Stands(lines, managed, c, f)
        /\ \A i \in f + 1 .. u : i \notin a .. b => Stands(lines, managed, c, i)
        /\ lines[f].key \notin DOMAIN managed =>
              \A i \in a .. b : Stands(lines, managed, c, i)
        /\ lines[f].key \in DOMAIN managed =>
              \A i \in a .. b : Owns(lines, managed, c, f, i)
        /\ Min(Items(lines, f)) = a
    BY <1>1, <1>2, InAList
  <1>a. /\ c \in Nat /\ c >= 2 /\ f \in Nat /\ a \in Nat /\ b \in Nat /\ u \in Nat
        /\ 2 <= f /\ f < a /\ a <= b /\ b <= u /\ u < c
    <2>1. c \in Nat /\ c >= 2
      BY <1>2 DEF IsHeader
    <2> QED  BY <1>3, <2>1
  <1>4. /\ lines[f].says = "list" /\ lines[u + 1].says \notin Below
        /\ \A i \in f + 1 .. u : /\ lines[i].says \in Below /\ lines[i].says # "nested"
                                 /\ (lines[i].says = "item" <=> i \in a .. b)
    BY DEF IsList, RunsTo, Holds
  <1>5. after[at[f]] = lines[f] /\ at[f + 1] = at[f] + 1
    BY <1>2, <1>3 DEF Goes
  <1>6. /\ f \in 2 .. c /\ f + 1 \in 2 .. c /\ a \in 2 .. c /\ b + 1 \in 2 .. c
        /\ u + 1 \in 2 .. c /\ f + 1 <= a /\ a <= b + 1 /\ b + 1 <= u + 1 /\ u + 1 <= c
        /\ c \in 2 .. c /\ f + 1 <= u + 1
    BY <1>1, <1>3
  <1>7. /\ at[f] \in Nat /\ at[f] >= 2 /\ at[a] \in Nat /\ at[b + 1] \in Nat /\ at[u + 1] \in Nat
        /\ at[f] + 1 <= at[a] /\ at[a] <= at[b + 1] /\ at[b + 1] <= at[u + 1] /\ at[u + 1] <= e
    <2>1. at[f] \in Nat /\ at[f] >= 2 /\ at[a] \in Nat /\ at[b + 1] \in Nat /\ at[u + 1] \in Nat
      BY <1>2, <1>6 DEF Climbing
    <2>2. at[f + 1] <= at[a] /\ at[a] <= at[b + 1] /\ at[b + 1] <= at[u + 1] /\ at[u + 1] <= at[c]
      BY <1>2, <1>6 DEF Climbing
    <2> QED  BY <1>1, <1>5, <2>1, <2>2
  <1>8. ASSUME NEW p \in at[f] + 1 .. at[u + 1] - 1
        PROVE  /\ after[p].says \in Below /\ after[p].says # "nested"
               /\ after[p].says = "item" <=> p \in at[a] .. at[b + 1] - 1
    <2>1. p \in at[f + 1] .. at[u + 1] - 1 /\ p \in Nat
      BY <1>5, <1>7
    <2>2. PICK n \in f + 1 .. (u + 1) - 1 : n \in 2 .. c - 1 /\ at[n] <= p /\ p < at[n + 1]
      BY <1>1, <1>2, <1>6, <2>1, Inside
    <2>3. n \in f + 1 .. u /\ n \in 2 .. c /\ n + 1 \in 2 .. c
      BY <1>a, <2>2
    <2>4. lines[n].says \in Below /\ lines[n].says # "nested"
          /\ (lines[n].says = "item" <=> n \in a .. b)
      BY <1>4, <2>3
    <2>5. p \in at[a] .. at[b + 1] - 1 <=> n \in a .. b
      <3>1. at[n] \in Nat /\ at[n + 1] \in Nat
        BY <1>2, <2>3 DEF Climbing
      <3>2. CASE n \in a .. b
        <4>1. a <= n /\ n + 1 <= b + 1
          BY <1>3, <3>2
        <4>2. at[a] <= at[n] /\ at[n + 1] <= at[b + 1]
          BY <1>2, <1>6, <2>3, <4>1 DEF Climbing
        <4>3. p \in at[a] .. at[b + 1] - 1
          BY <1>7, <2>1, <2>2, <3>1, <4>2
        <4> QED  BY <3>2, <4>3
      <3>3. CASE n < a
        <4>1. n + 1 <= a
          BY <1>3, <2>3, <3>3
        <4>2. at[n + 1] <= at[a]
          BY <1>2, <1>6, <2>3, <4>1 DEF Climbing
        <4>3. ~(at[a] <= p)
          BY <1>7, <2>1, <2>2, <3>1, <4>2
        <4>4. n \notin a .. b
          BY <1>3, <2>3, <3>3
        <4> QED  BY <1>7, <4>3, <4>4
      <3>4. CASE n > b
        <4>1. b + 1 <= n
          BY <1>3, <2>3, <3>4
        <4>2. at[b + 1] <= at[n]
          BY <1>2, <1>6, <2>3, <4>1 DEF Climbing
        <4>3. ~(p <= at[b + 1] - 1)
          BY <1>7, <2>1, <2>2, <3>1, <4>2
        <4>4. n \notin a .. b
          BY <1>3, <2>3, <3>4
        <4> QED  BY <1>7, <4>3, <4>4
      <3> QED  BY <1>3, <2>3, <3>2, <3>3, <3>4
    <2>6. \/ FromStanding(lines, managed, c, after, at, p, n)
          \/ FromSet(lines, managed, c, after, at, p, n)
          \/ \E g : FromItems(lines, managed, nl, c, after, at, p, n, g)
      BY <1>1, <1>2, <2>1, <2>2, ComesFrom
    <2>7. CASE FromStanding(lines, managed, c, after, at, p, n)
      BY <2>4, <2>5, <2>7 DEF FromStanding
    <2>8. CASE FromSet(lines, managed, c, after, at, p, n)
      <3>1. lines[n].says \in Valued
        BY <2>8 DEF FromSet, IsSet
      <3> QED  BY <2>4, <3>1 DEF Valued, Below
    <2>9. ASSUME NEW g, FromItems(lines, managed, nl, c, after, at, p, n, g)
          PROVE  after[p].says = "item" /\ n \in a .. b
      <3>1. after[p].says = "item"
        BY <2>9, WrittenIs
      <3>2. lines[n].says = "item"
        BY <2>9, ItemIs DEF FromItems, Owns
      <3> QED  BY <2>4, <3>1, <3>2
    <2>10. CASE \E g : FromItems(lines, managed, nl, c, after, at, p, n, g)
      BY <2>5, <2>9, <2>10 DEF Below
    <2> QED  BY <2>6, <2>7, <2>8, <2>10
  <1>9. after[at[u + 1]].says \notin Below
    <2>1. CASE u + 1 < c
      <3>1. u + 1 \in 2 .. c - 1
        BY <1>1, <1>3, <2>1
      <3>2. lines[u + 1].says # "item"
        BY <1>4 DEF Below
      <3>3. \A g : ~Owns(lines, managed, c, g, u + 1)
        BY <3>2, ItemIs DEF Owns
      <3>4. CASE IsSet(lines, managed, u + 1)
        <4>1. FromSet(lines, managed, c, after, at, at[u + 1], u + 1)
          BY <1>2, <3>1, <3>4 DEF FromSet, Goes
        <4>2. after[at[u + 1]].says \in Valued
          BY <4>1, WrittenIs
        <4> QED  BY <4>2 DEF Valued, Below
      <3>5. CASE ~IsSet(lines, managed, u + 1)
        <4>1. Stands(lines, managed, c, u + 1)
          BY <3>3, <3>5 DEF Stands
        <4>2. after[at[u + 1]] = lines[u + 1]
          BY <1>2, <3>1, <4>1 DEF Goes
        <4> QED  BY <1>4, <4>2
      <3> QED  BY <3>4, <3>5
    <2>2. CASE u + 1 = c
      <3>1. CASE at[c] < e
        <4>1. at[c] \in at[c] .. e - 1
          BY <1>1, <3>1
        <4>2. PICK k \in Missing(lines, managed) : after[at[c]] = NewField(k, managed[k], nl)
          BY <4>1 DEF Patching, Added
        <4>3. FromNowhere(lines, managed, nl, after, at[c], e, at[c], k)
          BY <4>1, <4>2 DEF FromNowhere
        <4>4. after[at[c]].says \in Valued
          BY <4>3, WrittenIs
        <4> QED  BY <2>2, <4>4 DEF Valued, Below
      <3>2. CASE at[c] = e
        BY <1>1, <1>4, <2>2, <3>2
      <3> QED  BY <1>1, <3>1, <3>2
    <2> QED  BY <1>6, <1>1, <1>3, <2>1, <2>2
  <1>10. RunsTo(after, e, at[f], at[u + 1] - 1)
    <2>1. at[f] \in 2 .. e - 1 /\ at[u + 1] - 1 \in at[f] .. e - 1 /\ (at[u + 1] - 1) + 1 = at[u + 1]
      <3>1. PICK x, y : x = at[f] /\ y = at[u + 1]
        OBVIOUS
      <3>2. x \in Nat /\ y \in Nat /\ x >= 2 /\ x + 1 <= y /\ y <= e /\ e \in Nat
        BY <1>1, <1>7, <3>1
      <3>3. x \in 2 .. e - 1 /\ y - 1 \in x .. e - 1 /\ (y - 1) + 1 = y
        BY <3>2
      <3> QED  BY <3>1, <3>3
    <2>2. after[(at[u + 1] - 1) + 1].says \notin Below
      BY <1>9, <2>1
    <2>3. after[at[f]].says = "list"
      BY <1>4, <1>5
    <2> QED  BY <1>8, <2>1, <2>2, <2>3 DEF RunsTo
  <1>11. Holds(after, at[f], at[a], at[b + 1] - 1, at[u + 1] - 1)
    <2>1. at[a] \in Nat /\ at[b + 1] - 1 \in Nat /\ at[f] < at[a] /\ at[a] <= (at[b + 1] - 1) + 1
          /\ at[b + 1] - 1 <= at[u + 1] - 1
      BY <1>7
    <2> QED  BY <1>8, <2>1 DEF Holds
  <1>12. ASSUME lines[f].key \in DOMAIN managed
         PROVE  /\ at[b + 1] = at[a] + Len(managed[lines[f].key].of)
                /\ \A j \in 1 .. Len(managed[lines[f].key].of) :
                      after[at[a] + (j - 1)] = NewItems(managed[lines[f].key], nl)[j]
    <2>1. Owns(lines, managed, c, f, a) /\ a = Min(Items(lines, f)) /\ a \in 2 .. c - 1
      BY <1>3, <1>12
    <2>2. /\ at[a + 1] = at[a] + Len(managed[lines[f].key].of)
          /\ \A j \in 1 .. Len(managed[lines[f].key].of) :
                after[at[a] + (j - 1)] = NewItems(managed[lines[f].key], nl)[j]
      BY <1>2, <2>1 DEF Goes
    <2>3. at[b + 1] = at[a + 1]
      <3>1. a + 1 \in Nat /\ b + 1 \in Nat /\ a + 1 <= b + 1
        BY <1>3
      <3>2. \A n \in (a + 1) + 1 .. b + 1 : at[n] = at[n - 1]
        <4> TAKE n \in (a + 1) + 1 .. b + 1
        <4>1. n - 1 \in a .. b /\ n - 1 # a /\ n - 1 \in 2 .. c - 1 /\ (n - 1) + 1 = n
          BY <1>a
        <4>2. Owns(lines, managed, c, f, n - 1) /\ n - 1 # Min(Items(lines, f))
          BY <1>3, <1>12, <4>1
        <4>3. at[(n - 1) + 1] = at[n - 1]
          BY <1>2, <4>1, <4>2 DEF Goes
        <4> QED  BY <4>1, <4>3
      <3> QED  BY <3>1, <3>2, Stays
    <2> QED  BY <2>2, <2>3
  <1>13. ASSUME lines[f].key \notin DOMAIN managed PROVE at[a] < at[b + 1]
    <2>0. a \in a .. b /\ a + 1 \in 2 .. c /\ a + 1 <= b + 1
      BY <1>a
    <2>1. Stands(lines, managed, c, a) /\ a + 1 \in 2 .. c /\ a + 1 <= b + 1
      BY <1>3, <1>13, <2>0
    <2>2. at[a + 1] = at[a] + 1
      BY <1>2, <1>3, <2>1 DEF Goes
    <2>3. at[a + 1] <= at[b + 1]
      BY <1>2, <1>6, <2>1 DEF Climbing
    <2> QED  BY <1>7, <2>2, <2>3
  <1> QED  BY <1>5, <1>8, <1>10, <1>11, <1>12, <1>13

LEMMA FieldMoves ==
    ASSUME NEW lines, NEW managed, NEW nl, NEW c, NEW S, NEW V, NEW Keys, NEW after, NEW at,
           NEW e, Patching(lines, managed, nl, c, S, V, Keys, after, at, e),
           NEW n \in 2 .. c - 1, lines[n].says \in Keyed
    PROVE  /\ at[n] \in 2 .. e - 1 /\ at[n] \in Nat /\ at[n + 1] = at[n] + 1
           /\ after[at[n]].says \in Keyed /\ after[at[n]].key = lines[n].key
           /\ after[at[n]].note = lines[n].note
           /\ \A m \in 2 .. c : n < m => at[n] < at[m]
           /\ \/ Stands(lines, managed, c, n) /\ after[at[n]] = lines[n]
              \/ IsSet(lines, managed, n) /\ FromSet(lines, managed, c, after, at, at[n], n)
  <1>1. c \in Nat /\ at[c] \in Nat /\ at[c] <= e
    BY PatchingIs
  <1>2. e \in Nat
    BY PatchingIs
  <1>3. Goes(lines, managed, nl, c, after, at) /\ Climbing(c, at)
    BY DEF Patching
  <1>4. \A g : ~Owns(lines, managed, c, g, n)
    BY ItemIs DEF Owns
  <1>5. n \in 2 .. c /\ n + 1 \in 2 .. c /\ c \in 2 .. c /\ n + 1 <= c
    BY <1>1
  <1>6. at[n] \in Nat /\ at[n] >= 2 /\ at[n + 1] \in Nat /\ at[n + 1] <= at[c]
    BY <1>3, <1>5 DEF Climbing
  <1>7. /\ at[n + 1] = at[n] + 1
        /\ \/ Stands(lines, managed, c, n) /\ after[at[n]] = lines[n]
           \/ IsSet(lines, managed, n) /\ FromSet(lines, managed, c, after, at, at[n], n)
    <2>1. CASE IsSet(lines, managed, n)
      <3>1. at[n + 1] = at[n] + 1 /\ after[at[n]] = Rendered(lines[n], managed[lines[n].key])
        BY <1>3, <2>1 DEF Goes
      <3> QED  BY <2>1, <3>1 DEF FromSet
    <2>2. CASE ~IsSet(lines, managed, n)
      <3>1. Stands(lines, managed, c, n)
        BY <1>4, <2>2 DEF Stands
      <3>2. at[n + 1] = at[n] + 1 /\ after[at[n]] = lines[n]
        BY <1>3, <3>1 DEF Goes
      <3> QED  BY <3>1, <3>2
    <2> QED  BY <2>1, <2>2
  <1>8. at[n] \in 2 .. e - 1
    <2>1. PICK x, y, z : x = at[n] /\ y = at[n + 1] /\ z = at[c]
      OBVIOUS
    <2>2. x \in Nat /\ y = x + 1 /\ y <= z /\ z <= e /\ z \in Nat /\ x >= 2
      BY <1>1, <1>6, <1>7, <2>1
    <2>3. x \in 2 .. e - 1
      BY <1>2, <2>2
    <2> QED  BY <2>1, <2>3
  <1>9. /\ after[at[n]].says \in Keyed /\ after[at[n]].key = lines[n].key
        /\ after[at[n]].note = lines[n].note
    <2>1. CASE after[at[n]] = lines[n]
      BY <2>1
    <2>2. CASE FromSet(lines, managed, c, after, at, at[n], n)
      <3>1. /\ after[at[n]].says \in Valued /\ after[at[n]].key = lines[n].key
            /\ after[at[n]].note = lines[n].note
        BY <2>2, WrittenIs
      <3> QED  BY <3>1 DEF Keyed
    <2> QED  BY <1>7, <2>1, <2>2
  <1>10. ASSUME NEW m \in 2 .. c, n < m PROVE at[n] < at[m]
    <2>1. n + 1 <= m
      BY <1>10
    <2>2. at[n + 1] <= at[m] /\ at[m] \in Nat
      BY <1>3, <1>5, <2>1 DEF Climbing
    <2> QED  BY <1>6, <1>7, <2>2
  <1> QED  BY <1>6, <1>7, <1>8, <1>9, <1>10

LEMMA FieldFrom ==
    ASSUME NEW lines, NEW managed, NEW nl, NEW c, NEW S, NEW V, NEW Keys, NEW after, NEW at,
           NEW e, Patching(lines, managed, nl, c, S, V, Keys, after, at, e),
           NEW p \in 2 .. e - 1, after[p].says \in Keyed
    PROVE  \/ \E n \in 2 .. c - 1 :
                 /\ p = at[n] /\ lines[n].says \in Keyed /\ lines[n].key = after[p].key
                 /\ after[p].says = "list" => lines[n].says = "list"
           \/ /\ p \in at[c] .. e - 1 /\ after[p].key \in Missing(lines, managed)
              /\ after[p].says # "list"
              /\ FromNowhere(lines, managed, nl, after, at[c], e, p, after[p].key)
  <1>1. ASSUME NEW n, FromStanding(lines, managed, c, after, at, p, n)
        PROVE  \E m \in 2 .. c - 1 :
                 /\ p = at[m] /\ lines[m].says \in Keyed /\ lines[m].key = after[p].key
                 /\ after[p].says = "list" => lines[m].says = "list"
    BY <1>1 DEF FromStanding
  <1>2. ASSUME NEW n, FromSet(lines, managed, c, after, at, p, n)
        PROVE  \E m \in 2 .. c - 1 :
                 /\ p = at[m] /\ lines[m].says \in Keyed /\ lines[m].key = after[p].key
                 /\ after[p].says = "list" => lines[m].says = "list"
    <2>1. after[p].says \in Valued /\ after[p].key = lines[n].key
      BY <1>2, WrittenIs
    <2>2. n \in 2 .. c - 1 /\ p = at[n] /\ lines[n].says \in Valued
      BY <1>2 DEF FromSet, IsSet
    <2> QED  BY <2>1, <2>2 DEF Valued, Keyed
  <1>3. ASSUME NEW n, NEW f, FromItems(lines, managed, nl, c, after, at, p, n, f) PROVE FALSE
    <2>1. after[p].says = "item"
      BY <1>3, WrittenIs
    <2> QED  BY <2>1 DEF Keyed, Valued
  <1>4. ASSUME NEW k, FromNowhere(lines, managed, nl, after, at[c], e, p, k)
        PROVE  /\ p \in at[c] .. e - 1 /\ after[p].key \in Missing(lines, managed)
               /\ after[p].says # "list"
               /\ FromNowhere(lines, managed, nl, after, at[c], e, p, after[p].key)
    <2>1. after[p].says \in Valued /\ after[p].key = k /\ k \in Missing(lines, managed)
      BY <1>4, WrittenIs
    <2> QED  BY <1>4, <2>1 DEF FromNowhere, Valued
  <1> QED  BY <1>1, <1>2, <1>3, <1>4, EveryLine

\* No list is emptied.
Fills(lines, managed, c) ==
    \A f \in 2 .. c - 1 : lines[f].says = "list" /\ lines[f].key \in DOMAIN managed =>
        Len(managed[lines[f].key].of) # 0

LEMMA ListStays ==
    ASSUME NEW lines, NEW managed, NEW nl, NEW c, NEW S, NEW V, NEW Keys, NEW after, NEW at,
           NEW e, Patching(lines, managed, nl, c, S, V, Keys, after, at, e),
           NEW f, NEW a, NEW b, NEW u, IsList(lines, c, f, a, b, u)
    PROVE  /\ Items(after, at[f]) = at[a] .. at[b + 1] - 1
           /\ Fills(lines, managed, c) =>
                 IsList(after, e, at[f], at[a], at[b + 1] - 1, at[u + 1] - 1)
           /\ \A n \in a .. b : \A p : at[n] <= p /\ p < at[n + 1] /\ p \in Nat =>
                 p \in at[a] .. at[b + 1] - 1
  <1>1. /\ RunsTo(after, e, at[f], at[u + 1] - 1)
        /\ Holds(after, at[f], at[a], at[b + 1] - 1, at[u + 1] - 1)
        /\ \A p \in at[f] + 1 .. at[u + 1] - 1 : after[p].says # "nested"
    BY ListMoves
  <1>2. /\ after[at[f]] = lines[f] /\ at[f + 1] = at[f] + 1
        /\ lines[f].key \in DOMAIN managed =>
                 at[b + 1] = at[a] + Len(managed[lines[f].key].of)
        /\ lines[f].key \notin DOMAIN managed => at[a] < at[b + 1]
    BY ListMoves
  <1>3. after \in Seq(S) /\ IsHeader(after, e)
    BY HeaderStays DEF Patching
  <1>4. Items(after, at[f]) = at[a] .. at[b + 1] - 1
    BY <1>1, <1>3, HoldIs
  <1>5. Asks(managed, V, Keys) /\ Writes(S, V, Keys) /\ Climbing(c, at) /\ IsHeader(lines, c)
        /\ lines \in Seq(S)
    BY DEF Patching
  <1>6. c \in Nat /\ nl \in Ends
    BY PatchingIs
  <1>7. /\ f \in 2 .. c - 1 /\ a \in 2 .. c - 1 /\ b \in 2 .. c - 1 /\ a <= b
    BY <1>5, <1>6, InAList
  <1>8. at[a] \in Nat /\ at[b + 1] \in Nat /\ at[a] <= at[b + 1]
    <2>1. a \in 2 .. c /\ b + 1 \in 2 .. c /\ a <= b + 1
      BY <1>6, <1>7
    <2> QED  BY <1>5, <2>1 DEF Climbing
  <1>9. ASSUME Fills(lines, managed, c)
        PROVE  IsList(after, e, at[f], at[a], at[b + 1] - 1, at[u + 1] - 1)
    <2>1. at[a] < at[b + 1]
      <3>1. CASE lines[f].key \in DOMAIN managed
        <4>1. managed[lines[f].key] \in V
          BY <1>5, <3>1 DEF Asks
        <4>2. Len(managed[lines[f].key].of) \in Nat
          BY <1>5, <1>6, <4>1 DEF Writes, WrittenItems
        <4>3. lines[f].says = "list"
          BY DEF IsList, RunsTo
        <4>4. Len(managed[lines[f].key].of) # 0
          BY <1>7, <1>9, <3>1, <4>3 DEF Fills
        <4>5. PICK l : l = Len(managed[lines[f].key].of)
          OBVIOUS
        <4>6. l \in Nat /\ l # 0 /\ at[b + 1] = at[a] + l
          BY <1>2, <3>1, <4>2, <4>4, <4>5
        <4> QED  BY <1>8, <4>6
      <3> QED  BY <1>2, <3>1
    <2>2. at[a] <= at[b + 1] - 1
      BY <1>8, <2>1
    <2> QED  BY <1>1, <2>2 DEF IsList
  <1>10. ASSUME NEW n \in a .. b, NEW p \in Nat, at[n] <= p, p < at[n + 1]
         PROVE  p \in at[a] .. at[b + 1] - 1
    <2>1. n \in 2 .. c /\ n + 1 \in 2 .. c /\ a \in 2 .. c /\ b + 1 \in 2 .. c
          /\ a <= n /\ n + 1 <= b + 1
      BY <1>6, <1>7
    <2>2. at[a] <= at[n] /\ at[n + 1] <= at[b + 1] /\ at[n] \in Nat /\ at[n + 1] \in Nat
      BY <1>5, <2>1 DEF Climbing
    <2> QED  BY <1>8, <1>10, <2>2
  <1> QED  BY <1>4, <1>9, <1>10

LEMMA ReadStays ==
    ASSUME NEW lines, NEW managed, NEW nl, NEW c, NEW S, NEW V, NEW Keys, NEW after, NEW at,
           NEW e, Patching(lines, managed, nl, c, S, V, Keys, after, at, e),
           IsRead(lines, c), Fills(lines, managed, c)
    PROVE  IsRead(after, e)
  <1>1. c \in Nat /\ at[c] \in Nat /\ at[c] <= e
    BY PatchingIs
  <1>2. e \in Nat /\ Inner(lines) = 2 .. c - 1
    BY PatchingIs
  <1>3. Climbing(c, at) /\ IsHeader(lines, c) /\ lines \in Seq(S)
    BY DEF Patching
  <1>4. ASSUME NEW p \in 2 .. e - 1
        PROVE  after[p].says \notin {"odd", "prose", "skewed", "nested"}
    <2>1. ASSUME NEW n, FromStanding(lines, managed, c, after, at, p, n)
          PROVE  after[p].says \notin {"odd", "prose", "skewed", "nested"}
      BY <2>1 DEF FromStanding, IsRead
    <2>2. ASSUME NEW n, FromSet(lines, managed, c, after, at, p, n)
          PROVE  after[p].says \in Valued
      BY <2>2, WrittenIs
    <2>3. ASSUME NEW n, NEW f, FromItems(lines, managed, nl, c, after, at, p, n, f)
          PROVE  after[p].says = "item"
      BY <2>3, WrittenIs
    <2>4. ASSUME NEW k, FromNowhere(lines, managed, nl, after, at[c], e, p, k)
          PROVE  after[p].says \in Valued
      BY <2>4, WrittenIs
    <2>5. after[p].says \in Valued => after[p].says \notin {"odd", "prose", "skewed", "nested"}
      BY DEF Valued
    <2>6. after[p].says = "item" => after[p].says \notin {"odd", "prose", "skewed", "nested"}
      OBVIOUS
    <2> QED  BY <2>1, <2>2, <2>3, <2>4, <2>5, <2>6, EveryLine
  <1>5. ASSUME NEW p \in 2 .. e - 1, after[p].says = "list"
        PROVE  \E f \in 2 .. c - 1 : p = at[f] /\ lines[f].says = "list"
    <2>1. after[p].says \in Keyed
      BY <1>5 DEF Keyed
    <2> QED  BY <1>5, <2>1, FieldFrom
  <1>6. ASSUME NEW f \in 2 .. c - 1, lines[f].says = "list"
        PROVE  /\ at[f] \in 2 .. e - 1 /\ after[at[f]].says = "list"
               /\ \E a, b, u : IsList(lines, c, f, a, b, u)
    <2>1. lines[f].says \in Keyed
      BY <1>6 DEF Keyed
    <2>2. PICK a, b, u : IsList(lines, c, f, a, b, u)
      BY <1>6 DEF IsRead
    <2>3. at[f] \in 2 .. e - 1
      BY <2>1, FieldMoves
    <2>4. after[at[f]] = lines[f]
      BY <2>2, ListMoves
    <2> QED  BY <1>6, <2>2, <2>3, <2>4
  <1>7. ASSUME NEW p \in 2 .. e - 1, after[p].says = "item"
        PROVE  \E g \in 2 .. e - 1 : after[g].says = "list" /\ p \in Items(after, g)
    <2>0. p \in Nat
      BY <1>2
    <2>1. ASSUME NEW n, FromStanding(lines, managed, c, after, at, p, n)
          PROVE  \E g \in 2 .. e - 1 : after[g].says = "list" /\ p \in Items(after, g)
      <3>1. n \in 2 .. c - 1 /\ lines[n].says = "item" /\ p = at[n] /\ at[n + 1] = at[n] + 1
        BY <1>7, <2>1 DEF FromStanding
      <3>2. PICK f \in 2 .. c - 1 : lines[f].says = "list" /\ n \in Items(lines, f)
        BY <3>1 DEF IsRead
      <3>3. PICK a, b, u : IsList(lines, c, f, a, b, u)
        BY <1>6, <3>2
      <3>4. n \in a .. b
        <4>1. Items(lines, f) = a .. b
          BY <1>3, <3>3, ListIs
        <4> QED  BY <3>2, <4>1
      <3>5. at[n] <= p /\ p < at[n + 1]
        BY <2>0, <3>1
      <3>6. p \in at[a] .. at[b + 1] - 1
        BY <2>0, <3>3, <3>4, <3>5, ListStays
      <3>7. Items(after, at[f]) = at[a] .. at[b + 1] - 1
        BY <3>3, ListStays
      <3> QED  BY <1>6, <3>2, <3>6, <3>7
    <2>2. ASSUME NEW n, FromSet(lines, managed, c, after, at, p, n) PROVE FALSE
      <3>1. after[p].says \in Valued
        BY <2>2, WrittenIs
      <3> QED  BY <1>7, <3>1 DEF Valued
    <2>3. ASSUME NEW n, NEW f, FromItems(lines, managed, nl, c, after, at, p, n, f)
          PROVE  \E g \in 2 .. e - 1 : after[g].says = "list" /\ p \in Items(after, g)
      <3>1. f \in 2 .. c - 1 /\ lines[f].says = "list" /\ n \in Items(lines, f) /\ n \in 2 .. c - 1
        BY <2>3 DEF FromItems, Owns
      <3>2. at[n + 1] = at[n] + Len(managed[lines[f].key].of)
            /\ p - at[n] + 1 \in 1 .. Len(managed[lines[f].key].of)
        BY <2>3 DEF FromItems
      <3>3. PICK a, b, u : IsList(lines, c, f, a, b, u)
        BY <1>6, <3>1
      <3>4. n \in a .. b
        <4>1. Items(lines, f) = a .. b
          BY <1>3, <3>3, ListIs
        <4> QED  BY <3>1, <4>1
      <3>5. at[n] <= p /\ p < at[n + 1]
        <4>1. n \in 2 .. c /\ n + 1 \in 2 .. c
          BY <1>1, <3>1
        <4>2. at[n] \in Nat /\ at[n + 1] \in Nat
          BY <1>3, <4>1 DEF Climbing
        <4>3. PICK x, y, l : x = at[n] /\ y = at[n + 1] /\ l = Len(managed[lines[f].key].of)
          OBVIOUS
        <4>4. x \in Nat /\ y \in Nat /\ y = x + l /\ p - x + 1 \in 1 .. l
          BY <3>2, <4>2, <4>3
        <4>5. p - x + 1 >= 1 /\ p - x + 1 <= l
          BY <4>4
        <4>6. l \in Int
          <5>1. managed[lines[f].key] \in V
            BY <2>3 DEF FromItems, Owns, Patching, Asks
          <5>2. l \in Nat
            <6>1. Writes(S, V, Keys) /\ nl \in Ends
              BY PatchingIs DEF Patching
            <6> QED  BY <4>3, <5>1, <6>1 DEF Writes, WrittenItems
          <5> QED  BY <5>2
        <4>7. x <= p /\ p < y
          BY <2>0, <4>4, <4>5, <4>6
        <4> QED  BY <4>3, <4>7
      <3>6. p \in at[a] .. at[b + 1] - 1
        BY <2>0, <3>3, <3>4, <3>5, ListStays
      <3>7. Items(after, at[f]) = at[a] .. at[b + 1] - 1
        BY <3>3, ListStays
      <3> QED  BY <1>6, <3>1, <3>6, <3>7
    <2>4. ASSUME NEW k, FromNowhere(lines, managed, nl, after, at[c], e, p, k) PROVE FALSE
      <3>1. after[p].says \in Valued
        BY <2>4, WrittenIs
      <3> QED  BY <1>7, <3>1 DEF Valued
    <2> QED  BY <2>1, <2>2, <2>3, <2>4, EveryLine
  <1>8. ASSUME NEW p \in 2 .. e - 1, after[p].says = "list"
        PROVE  \E a, b, u : IsList(after, e, p, a, b, u)
    <2>1. PICK f \in 2 .. c - 1 : p = at[f] /\ lines[f].says = "list"
      BY <1>5, <1>8
    <2>2. PICK a, b, u : IsList(lines, c, f, a, b, u)
      BY <1>6, <2>1
    <2>3. IsList(after, e, at[f], at[a], at[b + 1] - 1, at[u + 1] - 1)
      BY <2>2, ListStays
    <2> QED  BY <2>1, <2>3
  <1>9. ASSUME NEW p \in 2 .. e - 1, NEW q \in 2 .. e - 1, after[p].says \in Keyed,
               after[q].says \in Keyed, after[p].key = after[q].key
        PROVE  p = q
    <2> DEFINE Old(r) == \E n \in 2 .. c - 1 :
                 /\ r = at[n] /\ lines[n].says \in Keyed /\ lines[n].key = after[r].key
               New(r) == r \in at[c] .. e - 1 /\ after[r].key \in Missing(lines, managed)
    <2>1. (Old(p) \/ New(p)) /\ (Old(q) \/ New(q))
      BY <1>9, FieldFrom
    <2>2. CASE Old(p) /\ Old(q)
      BY <1>9, <2>2 DEF IsRead
    <2>3. CASE New(p) /\ New(q)
      BY <1>9, <2>3 DEF Patching, Added
    <2>4. ASSUME NEW r, NEW s, Old(r), New(s), after[r].key = after[s].key PROVE FALSE
      <3>1. PICK n \in 2 .. c - 1 : lines[n].says \in Keyed /\ lines[n].key = after[r].key
        BY <2>4
      <3>2. FieldAt(lines, after[r].key) = {}
        BY <2>4 DEF Missing
      <3> QED  BY <1>2, <3>1, <3>2 DEF FieldAt
    <2> QED  BY <1>9, <2>1, <2>2, <2>3, <2>4
  <1>10. \A p \in 2 .. e - 1 : \A q \in 2 .. e - 1 :
          after[p].says \in Keyed /\ after[q].says \in Keyed /\ after[p].key = after[q].key
          => p = q
    BY <1>9
  <1> QED  BY <1>4, <1>7, <1>8, <1>10 DEF IsRead

\* A list that is emptied does not read as a list again.
LEMMA EmptiedIsUnread ==
    ASSUME NEW lines, NEW managed, NEW nl, NEW c, NEW S, NEW V, NEW Keys, NEW after, NEW at,
           NEW e, Patching(lines, managed, nl, c, S, V, Keys, after, at, e),
           IsRead(lines, c), ReadsAsFields(after)
    PROVE  Fills(lines, managed, c)
  <1> SUFFICES ASSUME NEW f \in 2 .. c - 1, lines[f].says = "list",
                      lines[f].key \in DOMAIN managed,
                      Len(managed[lines[f].key].of) = 0
               PROVE  FALSE
    BY DEF Fills
  <1>1. c \in Nat /\ at[c] \in Nat /\ at[c] <= e
    BY PatchingIs
  <1>2. PICK a, b, u : IsList(lines, c, f, a, b, u)
    BY DEF IsRead
  <1>3. Items(after, at[f]) = at[a] .. at[b + 1] - 1
    BY <1>2, ListStays
  <1>4. at[b + 1] = at[a] + Len(managed[lines[f].key].of) /\ after[at[f]] = lines[f]
    BY <1>2, ListMoves
  <1>5. Climbing(c, at) /\ IsHeader(lines, c) /\ lines \in Seq(S)
    BY DEF Patching
  <1>6. a \in 2 .. c
    <2>1. a \in 2 .. c - 1
      BY <1>1, <1>2, <1>5, InAList
    <2> QED  BY <1>1, <2>1
  <1>7. at[a] \in Nat
    BY <1>5, <1>6 DEF Climbing
  <1>8. Items(after, at[f]) = {}
    <2>1. at[b + 1] = at[a]
      BY <1>4, <1>7
    <2> QED  BY <1>3, <1>7, <2>1
  <1>9. ~ReadsAsList(after, at[f])
    BY <1>8 DEF ReadsAsList
  <1>10. IsHeader(after, e) /\ after \in Seq(S)
    BY HeaderStays DEF Patching
  <1>11. Inner(after) = 2 .. e - 1
    BY <1>10, HeaderIs
  <1>12. at[f] \in Inner(after)
    <2>1. lines[f].says \in Keyed
      BY DEF Keyed
    <2>2. at[f] \in 2 .. e - 1
      BY <2>1, FieldMoves
    <2> QED  BY <1>11, <2>2
  <1>13. after[at[f]].says = "list" /\ after[at[f]].says \in Keyed
    BY <1>4 DEF Keyed
  <1> QED  BY <1>9, <1>12, <1>13 DEF ReadsAsFields

\* What is nobody's but the header's own.
Left(lines, managed, c, n) == n \in 2 .. c - 1 /\ Stands(lines, managed, c, n)
LeftAt(lines, managed, c) ==
    [n \in DOMAIN lines |-> IF Left(lines, managed, c, n) THEN <<lines[n]>> ELSE <<>>]

LEMMA OthersAreLeft ==
    ASSUME NEW S, NEW lines \in Seq(S), NEW managed, NEW c, IsHeader(lines, c)
    PROVE  Others(lines, managed) = FlattenSeq(LeftAt(lines, managed, c))
  <1>1. Inner(lines) = 2 .. c - 1
    BY HeaderIs
  <1> DEFINE theirs(n) ==
               \/ lines[n].says \in Valued /\ lines[n].key \in DOMAIN managed
               \/ \E k \in DOMAIN managed : \E f \in FieldAt(lines, k) : n \in Items(lines, f)
             g == [n \in DOMAIN lines |->
                     IF n \in Inner(lines) /\ ~theirs(n) THEN <<lines[n]>> ELSE <<>>]
  <1>2. Others(lines, managed) = FlattenSeq(g)
    BY DEF Others
  <1>3. ASSUME NEW n PROVE (n \in Inner(lines) /\ ~theirs(n)) <=> Left(lines, managed, c, n)
    <2>1. ASSUME NEW f, Owns(lines, managed, c, f, n) PROVE theirs(n)
      <3>1. /\ f \in 2 .. c - 1 /\ lines[f].says = "list" /\ lines[f].key \in DOMAIN managed
            /\ n \in Items(lines, f)
        BY <2>1 DEF Owns
      <3>2. f \in FieldAt(lines, lines[f].key)
        BY <1>1, <3>1 DEF FieldAt, Keyed
      <3> QED  BY <3>1, <3>2
    <2>2. ASSUME NEW k \in DOMAIN managed, NEW f \in FieldAt(lines, k), n \in Items(lines, f)
          PROVE  \E g2 \in 2 .. c - 1 : Owns(lines, managed, c, g2, n)
      <3>1. f \in 2 .. c - 1 /\ lines[f].key = k
        BY <1>1 DEF FieldAt
      <3>2. lines[f].says = "list"
        BY <2>2, ItemIs
      <3> QED  BY <2>2, <3>1, <3>2 DEF Owns
    <2> QED  BY <1>1, <2>1, <2>2 DEF Left, Stands, IsSet
  <1>4. g = LeftAt(lines, managed, c)
    <2> HIDE DEF theirs
    <2> QED  BY <1>3 DEF LeftAt
  <1> QED  BY <1>2, <1>4

LEMMA LeftMoves ==
    ASSUME NEW lines, NEW managed, NEW nl, NEW c, NEW S, NEW V, NEW Keys, NEW after, NEW at,
           NEW e, Patching(lines, managed, nl, c, S, V, Keys, after, at, e),
           IsRead(lines, c), NEW p \in 2 .. e - 1
    PROVE  /\ \A n : FromStanding(lines, managed, c, after, at, p, n) =>
                 Stands(after, managed, e, p)
           /\ \A n : FromSet(lines, managed, c, after, at, p, n) => IsSet(after, managed, p)
           /\ \A n, f : FromItems(lines, managed, nl, c, after, at, p, n, f) =>
                 Owns(after, managed, e, at[f], p)
           /\ \A k : FromNowhere(lines, managed, nl, after, at[c], e, p, k) =>
                 IsSet(after, managed, p)
  <1>1. c \in Nat /\ at[c] \in Nat /\ at[c] <= e
    BY PatchingIs
  <1>2. e \in Nat /\ Inner(lines) = 2 .. c - 1
    BY PatchingIs
  <1>3. Climbing(c, at) /\ IsHeader(lines, c) /\ lines \in Seq(S)
    BY DEF Patching
  <1>4. ASSUME NEW f \in 2 .. c - 1, lines[f].says = "list"
        PROVE  /\ at[f] \in 2 .. e - 1 /\ after[at[f]] = lines[f]
               /\ \E a, b, u : IsList(lines, c, f, a, b, u)
    <2>1. lines[f].says \in Keyed
      BY <1>4 DEF Keyed
    <2>2. PICK a, b, u : IsList(lines, c, f, a, b, u)
      BY <1>4 DEF IsRead
    <2>3. at[f] \in 2 .. e - 1
      BY <2>1, FieldMoves
    <2>4. after[at[f]] = lines[f]
      BY <2>2, ListMoves
    <2> QED  BY <2>2, <2>3, <2>4
  <1>5. ASSUME NEW n, FromStanding(lines, managed, c, after, at, p, n)
        PROVE  Stands(after, managed, e, p)
    <2>1. /\ n \in 2 .. c - 1 /\ Stands(lines, managed, c, n) /\ p = at[n]
          /\ after[p] = lines[n] /\ at[n + 1] = at[n] + 1
      BY <1>5 DEF FromStanding
    <2>2. ~IsSet(after, managed, p)
      BY <2>1 DEF Stands, IsSet
    <2>3. ASSUME NEW g \in 2 .. e - 1, Owns(after, managed, e, g, p) PROVE FALSE
      <3>1. after[g].says = "list" /\ after[g].key \in DOMAIN managed /\ p \in Items(after, g)
        BY <2>3 DEF Owns
      <3>2. PICK f \in 2 .. c - 1 : g = at[f] /\ lines[f].says = "list"
        <4>1. after[g].says \in Keyed
          BY <3>1 DEF Keyed
        <4> QED  BY <3>1, <4>1, FieldFrom
      <3>3. PICK a, b, u : IsList(lines, c, f, a, b, u)
        BY <1>4, <3>2
      <3>4. p \in at[a] .. at[b + 1] - 1
        <4>1. Items(after, at[f]) = at[a] .. at[b + 1] - 1
          BY <3>3, ListStays
        <4> QED  BY <3>1, <3>2, <4>1
      <3>5. a \in 2 .. c - 1 /\ b \in 2 .. c - 1
        BY <1>1, <1>3, <3>3, InAList
      <3>6. a \in 2 .. c /\ b + 1 \in 2 .. c
        BY <1>1, <3>5
      <3>7. PICK m \in a .. (b + 1) - 1 : m \in 2 .. c - 1 /\ at[m] <= p /\ p < at[m + 1]
        BY <1>1, <1>3, <3>4, <3>6, Inside
      <3>8. m = n
        <4>1. m \in 2 .. c /\ n \in 2 .. c /\ m + 1 \in 2 .. c /\ n + 1 \in 2 .. c
          BY <1>1, <2>1, <3>7
        <4>2. at[m] \in Nat /\ at[n] \in Nat /\ at[m + 1] \in Nat /\ at[n + 1] \in Nat
          BY <1>3, <4>1 DEF Climbing
        <4>3. ~(m + 1 <= n)
          <5>1. m + 1 <= n => at[m + 1] <= at[n]
            BY <1>3, <4>1 DEF Climbing
          <5> QED  BY <2>1, <3>7, <4>2, <5>1
        <4>4. ~(n + 1 <= m)
          <5>1. n + 1 <= m => at[n + 1] <= at[m]
            BY <1>3, <4>1 DEF Climbing
          <5> QED  BY <2>1, <3>7, <4>2, <5>1
        <4> QED  BY <4>1, <4>3, <4>4
      <3>9. n \in a .. b
        BY <3>5, <3>7, <3>8
      <3>10. Items(lines, f) = a .. b
        BY <1>3, <3>3, ListIs
      <3>11. Owns(lines, managed, c, f, n)
        <4>1. lines[f].key \in DOMAIN managed
          BY <1>4, <3>1, <3>2
        <4> QED  BY <3>2, <3>9, <3>10, <4>1 DEF Owns
      <3> QED  BY <2>1, <3>2, <3>11 DEF Stands
    <2> QED  BY <2>2, <2>3 DEF Stands
  <1>6. ASSUME NEW n, FromSet(lines, managed, c, after, at, p, n)
        PROVE  IsSet(after, managed, p)
    <2>1. after[p].says \in Valued /\ after[p].key \in DOMAIN managed
      BY <1>6, WrittenIs
    <2> QED  BY <2>1 DEF IsSet
  <1>7. ASSUME NEW k, FromNowhere(lines, managed, nl, after, at[c], e, p, k)
        PROVE  IsSet(after, managed, p)
    <2>1. after[p].says \in Valued /\ after[p].key = k /\ k \in DOMAIN managed
      BY <1>7, WrittenIs
    <2> QED  BY <2>1 DEF IsSet
  <1>8. ASSUME NEW n, NEW f, FromItems(lines, managed, nl, c, after, at, p, n, f)
        PROVE  Owns(after, managed, e, at[f], p)
    <2>1. /\ f \in 2 .. c - 1 /\ lines[f].says = "list" /\ n \in Items(lines, f)
          /\ n \in 2 .. c - 1 /\ lines[f].key \in DOMAIN managed /\ n = Min(Items(lines, f))
      BY <1>8 DEF FromItems, Owns
    <2>2. /\ at[n + 1] = at[n] + Len(managed[lines[f].key].of)
          /\ p - at[n] + 1 \in 1 .. Len(managed[lines[f].key].of)
      BY <1>8 DEF FromItems
    <2>3. PICK a, b, u : IsList(lines, c, f, a, b, u)
      BY <1>4, <2>1
    <2>4. n = a /\ at[b + 1] = at[a] + Len(managed[lines[f].key].of)
      <3>1. Min(Items(lines, f)) = a
        BY <1>1, <1>3, <2>3, InAList
      <3> QED  BY <2>1, <2>3, <3>1, ListMoves
    <2>5. at[a] \in Nat
      <3>1. a \in 2 .. c
        BY <1>1, <2>1, <2>4
      <3> QED  BY <1>3, <3>1 DEF Climbing
    <2>6. Len(managed[lines[f].key].of) \in Nat
      <3>1. managed[lines[f].key] \in V
        BY <2>1 DEF Patching, Asks
      <3>2. Writes(S, V, Keys) /\ nl \in Ends
        BY PatchingIs DEF Patching
      <3> QED  BY <3>1, <3>2 DEF Writes, WrittenItems
    <2>7. p \in at[a] .. at[b + 1] - 1
      <3>1. PICK x, y, l : x = at[a] /\ y = at[b + 1] /\ l = Len(managed[lines[f].key].of)
        OBVIOUS
      <3>2. x \in Nat /\ l \in Nat /\ y = x + l /\ p - x + 1 \in 1 .. l /\ p \in Nat
        BY <1>2, <2>2, <2>4, <2>5, <2>6, <3>1
      <3>3. p \in x .. y - 1
        BY <3>2
      <3> QED  BY <3>1, <3>3
    <2>8. Items(after, at[f]) = at[a] .. at[b + 1] - 1
      BY <2>3, ListStays
    <2> QED  BY <1>4, <2>1, <2>7, <2>8 DEF Owns
  <1> QED  BY <1>5, <1>6, <1>7, <1>8

LEMMA LeftAtIs ==
    ASSUME NEW S, NEW lines \in Seq(S), NEW managed, NEW c
    PROVE  /\ LeftAt(lines, managed, c) \in [1 .. Len(lines) -> Seq(S)]
           /\ \A n \in 1 .. Len(lines) : Left(lines, managed, c, n) =>
                 LeftAt(lines, managed, c)[n] = <<lines[n]>>
           /\ \A n \in 1 .. Len(lines) : ~Left(lines, managed, c, n) =>
                 LeftAt(lines, managed, c)[n] = <<>>
  <1>1. DOMAIN lines = 1 .. Len(lines)
    OBVIOUS
  <1>2. \A n \in 1 .. Len(lines) : <<lines[n]>> \in Seq(S) /\ <<>> \in Seq(S)
    OBVIOUS
  <1>3. \A n \in 1 .. Len(lines) :
           (IF Left(lines, managed, c, n) THEN <<lines[n]>> ELSE <<>>) \in Seq(S)
    BY <1>2
  <1>4. LeftAt(lines, managed, c) =
           [n \in 1 .. Len(lines) |-> IF Left(lines, managed, c, n) THEN <<lines[n]>> ELSE <<>>]
    BY <1>1 DEF LeftAt
  <1>5. LeftAt(lines, managed, c) \in [1 .. Len(lines) -> Seq(S)]
    BY <1>3, <1>4
  <1>6. \A n \in 1 .. Len(lines) : LeftAt(lines, managed, c)[n] =
           IF Left(lines, managed, c, n) THEN <<lines[n]>> ELSE <<>>
    BY <1>4
  <1> QED  BY <1>5, <1>6

\* The walk over what is left.
WalksLeft(w, lines, managed, c) ==
    /\ Others(lines, managed) = w[Len(lines)]
    /\ w[0] = <<>>
    /\ \A n \in 1 .. Len(lines) :
          /\ Left(lines, managed, c, n) => w[n] = w[n - 1] \o <<lines[n]>>
          /\ ~Left(lines, managed, c, n) => w[n] = w[n - 1]

LEMMA LeftWalk ==
    ASSUME NEW S, NEW lines \in Seq(S), NEW managed, NEW c, IsHeader(lines, c)
    PROVE  \E w : WalksLeft(w, lines, managed, c)
  <1> DEFINE g == LeftAt(lines, managed, c)
             N == Len(lines)
  <1>1. N \in Nat
    OBVIOUS
  <1>2. /\ g \in [1 .. N -> Seq(S)]
        /\ \A n \in 1 .. N : Left(lines, managed, c, n) => g[n] = <<lines[n]>>
        /\ \A n \in 1 .. N : ~Left(lines, managed, c, n) => g[n] = <<>>
    BY LeftAtIs
  <1>3. Others(lines, managed) = FlattenSeq(g)
    BY OthersAreLeft
  <1> HIDE DEF g, N
  <1>4. \A n \in 1 .. N : g[n] \in Seq(S)
    BY <1>2
  <1>5. PICK w : IsWalk(w, g, N, S)
    BY <1>1, <1>4, WalkExists
  <1>6. FlattenSeq(g) = w[N]
    BY <1>1, <1>2, <1>5, FlattenIsWalk
  <1>7. \A n \in 0 .. N : w[n] \in Seq(S)
    BY <1>5 DEF IsWalk
  <1>8. w[0] = <<>> /\ \A n \in 1 .. N : w[n] = w[n - 1] \o g[n]
    BY <1>5 DEF IsWalk
  <1>9. ASSUME NEW n \in 1 .. N, ~Left(lines, managed, c, n) PROVE w[n] = w[n - 1]
    <2>1. n - 1 \in 0 .. N
      BY <1>1
    <2>2. PICK s \in Seq(S) : s = w[n - 1]
      BY <1>7, <2>1
    <2>3. s \o <<>> = s
      OBVIOUS
    <2> QED  BY <1>2, <1>8, <1>9, <2>2, <2>3
  <1>10. \A n \in 1 .. N : Left(lines, managed, c, n) => w[n] = w[n - 1] \o <<lines[n]>>
    BY <1>2, <1>8
  <1> QED
    <2>1. Others(lines, managed) = w[N] /\ w[0] = <<>>
      BY <1>3, <1>6, <1>8
    <2>2. WalksLeft(w, lines, managed, c)
      BY <1>9, <1>10, <2>1 DEF WalksLeft, N
    <2> QED  BY <2>2

LEMMA OthersStay ==
    ASSUME NEW lines, NEW managed, NEW nl, NEW c, NEW S, NEW V, NEW Keys, NEW after, NEW at,
           NEW e, Patching(lines, managed, nl, c, S, V, Keys, after, at, e), IsRead(lines, c)
    PROVE  Others(lines, managed) = Others(after, managed)
  <1>1. c \in Nat /\ at[c] \in Nat /\ at[c] <= e /\ at[c] >= 2
    BY PatchingIs
  <1>2. e \in Nat /\ Len(lines) \in Nat /\ c \in 2 .. Len(lines) /\ e \in 2 .. Len(after)
        /\ Len(after) = e + (Len(lines) - c)
    BY PatchingIs
  <1>3. /\ Writes(S, V, Keys) /\ Asks(managed, V, Keys) /\ lines \in Seq(S)
        /\ IsHeader(lines, c) /\ Goes(lines, managed, nl, c, after, at) /\ Climbing(c, at)
        /\ after \in Seq(S)
    BY DEF Patching
  <1>4. IsHeader(after, e) /\ nl \in Ends /\ Len(after) \in Nat
    BY <1>3, HeaderStays, PatchingIs
  <1>a. PICK w : WalksLeft(w, lines, managed, c)
    BY <1>3, LeftWalk
  <1>b. PICK v : WalksLeft(v, after, managed, e)
    BY <1>3, <1>4, LeftWalk
  <1>5. /\ Others(lines, managed) = w[Len(lines)]
        /\ w[0] = <<>>
        /\ \A n \in 1 .. Len(lines) :
              /\ Left(lines, managed, c, n) => w[n] = w[n - 1] \o <<lines[n]>>
              /\ ~Left(lines, managed, c, n) => w[n] = w[n - 1]
    BY <1>a DEF WalksLeft
  <1>6. /\ Others(after, managed) = v[Len(after)]
        /\ v[0] = <<>>
        /\ \A n \in 1 .. Len(after) :
              /\ Left(after, managed, e, n) => v[n] = v[n - 1] \o <<after[n]>>
              /\ ~Left(after, managed, e, n) => v[n] = v[n - 1]
    BY <1>b DEF WalksLeft
  <1> DEFINE Bad == {i \in 0 .. c - 2 : v[at[i + 2] - 1] # w[i + 1]}
  <1>7. 0 \notin Bad
    <2>1. ~Left(lines, managed, c, 1) /\ ~Left(after, managed, e, 1)
      BY DEF Left
    <2>2. 1 \in 1 .. Len(lines) /\ 1 \in 1 .. Len(after) /\ 1 - 1 = 0
      BY <1>2
    <2>3. w[1] = w[1 - 1] /\ v[1] = v[1 - 1]
      BY <1>5, <1>6, <2>1, <2>2
    <2>4. at[0 + 2] - 1 = 1 /\ 0 + 1 = 1
      BY <1>3 DEF Climbing
    <2> QED  BY <1>5, <1>6, <2>2, <2>3, <2>4
  <1>8. ASSUME NEW i \in 1 .. c - 2, i - 1 \notin Bad PROVE i \notin Bad
    <2>0. PICK n : n = i + 1
      OBVIOUS
    <2>1. n \in 2 .. c - 1 /\ i - 1 \in 0 .. c - 2 /\ (i - 1) + 2 = n /\ (i - 1) + 1 = n - 1
          /\ i + 2 = n + 1 /\ i + 1 = n /\ n \in 1 .. Len(lines) /\ n \in 2 .. c /\ n + 1 \in 2 .. c
          /\ n + 1 <= c
      BY <1>1, <1>2, <2>0
    <2>2. v[at[n] - 1] = w[n - 1]
      BY <1>8, <2>1
    <2>3. at[n] \in Nat /\ at[n] >= 2 /\ at[n + 1] \in Nat /\ at[n + 1] <= at[c]
      <3>1. c \in 2 .. c
        BY <1>1, <1>2
      <3> QED  BY <1>3, <2>1, <3>1 DEF Climbing
    <2>4. v[at[n + 1] - 1] = w[n]
      <3>1. CASE Stands(lines, managed, c, n)
        <4>1. at[n + 1] = at[n] + 1 /\ after[at[n]] = lines[n]
          BY <1>3, <2>1, <3>1 DEF Goes
        <4>2. at[n] \in 2 .. e - 1 /\ at[n] \in 1 .. Len(after) /\ at[n + 1] - 1 = at[n]
          <5>1. PICK x, y : x = at[n] /\ y = at[c]
            OBVIOUS
          <5>2. x \in Nat /\ x >= 2 /\ y \in Nat /\ x + 1 <= y
            BY <1>1, <1>2, <2>3, <4>1, <5>1
          <5>3. y <= e /\ e \in Nat /\ e <= Len(after) /\ Len(after) \in Nat
            BY <1>1, <1>2, <1>4, <5>1
          <5>4. x \in 2 .. e - 1 /\ x \in 1 .. Len(after) /\ (x + 1) - 1 = x
            BY <5>2, <5>3
          <5> QED  BY <4>1, <5>1, <5>4
        <4>3. FromStanding(lines, managed, c, after, at, at[n], n)
          BY <2>1, <3>1, <4>1 DEF FromStanding
        <4>4. Left(after, managed, e, at[n])
          BY <4>2, <4>3, LeftMoves DEF Left
        <4>5. v[at[n]] = v[at[n] - 1] \o <<after[at[n]]>>
          BY <1>6, <4>2, <4>4
        <4>6. Left(lines, managed, c, n)
          BY <2>1, <3>1 DEF Left
        <4>7. w[n] = w[n - 1] \o <<lines[n]>>
          BY <1>5, <2>1, <4>6
        <4> QED  BY <2>2, <4>1, <4>2, <4>5, <4>7
      <3>2. CASE ~Stands(lines, managed, c, n)
        <4>1. w[n] = w[n - 1]
          BY <1>5, <2>1, <3>2 DEF Left
        <4>2. \A p \in (at[n] - 1) + 1 .. at[n + 1] - 1 : v[p] = v[p - 1]
          <5> TAKE p \in (at[n] - 1) + 1 .. at[n + 1] - 1
          <5>1. p \in Nat /\ at[n] <= p /\ p < at[n + 1]
            BY <2>3
          <5>2. p \in 2 .. e - 1 /\ p \in 1 .. Len(after)
            BY <1>1, <1>2, <2>3, <5>1
          <5>3. \/ FromStanding(lines, managed, c, after, at, p, n)
                \/ FromSet(lines, managed, c, after, at, p, n)
                \/ \E f : FromItems(lines, managed, nl, c, after, at, p, n, f)
            BY <1>3, <1>4, <2>1, <5>1, ComesFrom
          <5>4. ~FromStanding(lines, managed, c, after, at, p, n)
            BY <3>2 DEF FromStanding
          <5>5. IsSet(after, managed, p) \/ \E f : Owns(after, managed, e, at[f], p)
            BY <5>2, <5>3, <5>4, LeftMoves
          <5>6. ~Left(after, managed, e, p)
            BY <5>5 DEF Left, Stands, Owns
          <5> QED  BY <1>6, <5>2, <5>6
        <4>3. at[n] - 1 \in Nat /\ at[n + 1] - 1 \in Nat /\ at[n] - 1 <= at[n + 1] - 1
          <5>1. at[n] <= at[n + 1]
            BY <1>3, <2>1 DEF Climbing
          <5>2. PICK x, y : x = at[n] /\ y = at[n + 1]
            OBVIOUS
          <5>3. x \in Nat /\ y \in Nat /\ x >= 2 /\ x <= y
            BY <2>3, <5>1, <5>2
          <5>4. x - 1 \in Nat /\ y - 1 \in Nat /\ x - 1 <= y - 1
            BY <5>3
          <5> QED  BY <5>2, <5>4
        <4>4. v[at[n + 1] - 1] = v[at[n] - 1]
          <5>1. PICK x, y : x = at[n] - 1 /\ y = at[n + 1] - 1
            OBVIOUS
          <5>2. x \in Nat /\ y \in Nat /\ x <= y
            BY <4>3, <5>1
          <5>3. \A p \in x + 1 .. y : v[p] = v[p - 1]
            BY <4>2, <5>1
          <5>4. v[y] = v[x]
            BY <5>2, <5>3, Stays
          <5> QED  BY <5>1, <5>4
        <4> QED  BY <2>2, <4>1, <4>4
      <3> QED  BY <3>1, <3>2
    <2> QED  BY <2>1, <2>4
  <1>9. \A i \in 0 .. c - 2 : i \notin Bad
    <2>1. c - 2 \in Nat
      BY <1>1, <1>2
    <2> HIDE DEF Bad
    <2> QED  BY <1>7, <1>8, <2>1, LeastFailure
  <1>10. v[at[c] - 1] = w[c - 1]
    <2>1. c - 2 \in 0 .. c - 2 /\ (c - 2) + 2 = c /\ (c - 2) + 1 = c - 1
      BY <1>1, <1>2
    <2>2. c - 2 \notin Bad
      BY <1>9, <2>1
    <2> QED  BY <2>1, <2>2
  <1>11. w[Len(lines)] = w[c - 1]
    <2>1. \A n \in (c - 1) + 1 .. Len(lines) : w[n] = w[n - 1]
      <3> TAKE n \in (c - 1) + 1 .. Len(lines)
      <3>1. n \in 1 .. Len(lines) /\ n \notin 2 .. c - 1
        BY <1>1, <1>2
      <3> QED  BY <1>5, <3>1 DEF Left
    <2>2. c - 1 \in Nat /\ c - 1 <= Len(lines)
      BY <1>1, <1>2
    <2> QED  BY <1>2, <2>1, <2>2, Stays
  <1>12. v[Len(after)] = v[at[c] - 1]
    <2>1. \A p \in (at[c] - 1) + 1 .. Len(after) : v[p] = v[p - 1]
      <3> TAKE p \in (at[c] - 1) + 1 .. Len(after)
      <3>1. p \in 1 .. Len(after) /\ p \in Nat /\ at[c] <= p
        BY <1>1, <1>4
      <3>2. CASE p \in at[c] .. e - 1
        <4>1. PICK k \in Missing(lines, managed) : after[p] = NewField(k, managed[k], nl)
          BY <3>2 DEF Patching, Added
        <4>2. FromNowhere(lines, managed, nl, after, at[c], e, p, k)
          BY <3>2, <4>1 DEF FromNowhere
        <4>3. p \in 2 .. e - 1
          BY <1>1, <3>2
        <4>4. ~Left(after, managed, e, p)
          BY <4>2, <4>3, LeftMoves DEF Left, Stands
        <4> QED  BY <1>6, <3>1, <4>4
      <3>3. CASE p \notin at[c] .. e - 1
        <4>1. p \notin 2 .. e - 1
          BY <1>1, <1>2, <3>1, <3>3
        <4> QED  BY <1>6, <3>1, <4>1 DEF Left
      <3> QED  BY <3>2, <3>3
    <2>2. at[c] - 1 \in Nat /\ at[c] - 1 <= Len(after)
      BY <1>1, <1>2, <1>4
    <2>3. PICK a, b : a = at[c] - 1 /\ b = Len(after)
      OBVIOUS
    <2>4. a \in Nat /\ b \in Nat /\ a <= b /\ \A p \in a + 1 .. b : v[p] = v[p - 1]
      BY <1>4, <2>1, <2>2, <2>3
    <2>5. v[b] = v[a]
      BY <2>4, Stays
    <2> QED  BY <2>3, <2>5
  <1> QED  BY <1>5, <1>6, <1>10, <1>11, <1>12

LEMMA PatchIsPatching ==
    ASSUME NEW S, NEW V, NEW Keys, Writes(S, V, Keys), NEW lines \in Seq(S), NEW managed,
           Asks(managed, V, Keys), NEW c, IsHeader(lines, c), NEW nl, EndsAre(lines, c, nl),
           NEW after, after = Patched(lines, managed)
    PROVE  \E at, e : Patching(lines, managed, nl, c, S, V, Keys, after, at, e)
  <1>1. PICK at, e : Placed(lines, managed, nl, c, S, after, at, e)
    BY PatchIsPlaced
  <1>2. nl \in Ends
    BY DEF EndsAre
  <1>3. /\ after \in Seq(S) /\ Moved(lines, managed, nl, c, after, at)
        /\ Added(lines, managed, nl, after, at[c], e) /\ Kept(lines, c, after, e)
    BY <1>1 DEF Placed
  <1>4. Goes(lines, managed, nl, c, after, at) /\ Climbing(c, at)
    BY <1>2, <1>3, MovedGoes
  <1>5. Patching(lines, managed, nl, c, S, V, Keys, after, at, e)
    BY <1>3, <1>4 DEF Patching
  <1> QED  BY <1>5

LEMMA FieldsAt ==
    ASSUME NEW S, NEW lines \in Seq(S), NEW c, IsHeader(lines, c), NEW k
    PROVE  \A n : n \in FieldAt(lines, k) <=>
                     n \in 2 .. c - 1 /\ lines[n].says \in Keyed /\ lines[n].key = k
  BY HeaderIs DEF FieldAt

\* Every managed field has its value in the new header.
LEMMA ViewsAreManaged ==
    ASSUME NEW lines, NEW managed, NEW nl, NEW c, NEW S, NEW V, NEW Keys, NEW after, NEW at,
           NEW e, Patching(lines, managed, nl, c, S, V, Keys, after, at, e),
           IsRead(lines, c), Fills(lines, managed, c), KeepsForms(lines, managed),
           NEW k \in DOMAIN managed
    PROVE  \E n \in FieldAt(after, k) : ViewOf(after, n) = managed[k]
  <1>0. /\ lines \in Seq(S) /\ IsHeader(lines, c) /\ after \in Seq(S) /\ IsHeader(after, e)
        /\ Writes(S, V, Keys) /\ Asks(managed, V, Keys) /\ nl \in Ends
        /\ at[c] \in Nat /\ at[c] >= 2 /\ e \in Nat
    BY HeaderStays, PatchingIs DEF Patching
  <1>1. ASSUME NEW p \in 2 .. e - 1, after[p].says \in Valued, after[p].key = k,
               after[p].value = managed[k]
        PROVE  p \in FieldAt(after, k) /\ ViewOf(after, p) = managed[k]
    <2>1. after[p].says \in Keyed /\ after[p].says # "list"
      BY <1>1 DEF Keyed, Valued
    <2>2. p \in FieldAt(after, k)
      BY <1>0, <1>1, <2>1, FieldsAt
    <2> QED  BY <1>1, <2>1, <2>2 DEF ViewOf
  <1>2. CASE FieldAt(lines, k) = {}
    <2>1. k \in Missing(lines, managed)
      BY <1>2 DEF Missing
    <2>2. PICK p \in at[c] .. e - 1 : after[p] = NewField(k, managed[k], nl)
      BY <2>1 DEF Patching, Added
    <2>3. FromNowhere(lines, managed, nl, after, at[c], e, p, k)
      BY <2>1, <2>2 DEF FromNowhere
    <2>4. after[p].says \in Valued /\ after[p].key = k /\ after[p].value = managed[k]
      BY <2>3, WrittenIs
    <2>5. p \in 2 .. e - 1
      BY <1>0
    <2> QED  BY <1>1, <2>4, <2>5
  <1>3. ASSUME NEW n \in FieldAt(lines, k)
        PROVE  \E m \in FieldAt(after, k) : ViewOf(after, m) = managed[k]
    <2>1. n \in 2 .. c - 1 /\ lines[n].says \in Keyed /\ lines[n].key = k
      BY <1>0, <1>3, FieldsAt
    <2>2. at[n] \in 2 .. e - 1 /\ after[at[n]].says \in Keyed /\ after[at[n]].key = k
      BY <2>1, FieldMoves
    <2>3. CASE lines[n].says \in Valued
      <3>1. IsSet(lines, managed, n)
        BY <2>1, <2>3 DEF IsSet
      <3>2. FromSet(lines, managed, c, after, at, at[n], n)
        BY <2>1, <3>1, FieldMoves DEF Stands
      <3>3. after[at[n]].says \in Valued /\ after[at[n]].value = managed[after[at[n]].key]
        BY <3>2, WrittenIs
      <3> QED  BY <1>1, <2>2, <3>3
    <2>4. CASE lines[n].says = "list"
      <3>1. PICK a, b, u : IsList(lines, c, n, a, b, u)
        BY <2>1, <2>4 DEF IsRead
      <3>2. IsList(after, e, at[n], at[a], at[b + 1] - 1, at[u + 1] - 1)
        BY <3>1, ListStays
      <3>3. after[at[n]].says = "list"
        BY <3>2 DEF IsList, RunsTo
      <3>4. Items(after, at[n]) = at[a] .. at[b + 1] - 1
        BY <3>1, ListStays
      <3>5. managed[k] \in V /\ managed[k].list
        BY <1>0, <1>3, <2>4 DEF Asks, KeepsForms
      <3>6. PICK v \in V : v = managed[k]
        BY <3>5
      <3>7. WrittenItems(v, nl, S)
        BY <1>0 DEF Writes
      <3>8. Len(v.of) \in Nat /\ v = List([j \in 1 .. Len(v.of) |-> v.of[j]])
        BY <3>5, <3>6, <3>7 DEF WrittenItems
      <3>9. /\ at[b + 1] = at[a] + Len(v.of)
            /\ \A j \in 1 .. Len(v.of) : after[at[a] + (j - 1)] = NewItems(v, nl)[j]
        BY <2>1, <3>1, <3>6, ListMoves
      <3>10. at[a] \in Nat \ {0} /\ Len(v.of) \in Nat \ {0}
        <4>1. Len(v.of) # 0
          BY <2>1, <2>4, <3>6 DEF Fills
        <4>2. at[n] \in 2 .. e - 1 /\ at[n] < at[a] /\ at[a] \in Nat
          BY <2>2, <3>2 DEF IsList, Holds
        <4> QED  BY <3>8, <4>1, <4>2
      <3>11. PICK x, y : x = at[a] /\ y = at[b + 1] - 1
        OBVIOUS
      <3>12. x \in Nat \ {0} /\ y \in Nat /\ x <= y /\ y - x + 1 = Len(v.of)
        BY <3>9, <3>10, <3>11
      <3>13. Min(x .. y) = x /\ Cardinality(x .. y) = Len(v.of)
        BY <3>12, IntervalIs
      <3>14. ViewOf(after, at[n]) =
               List([i \in 1 .. Len(v.of) |-> after[x + i - 1].value.of[1]])
        BY <3>3, <3>4, <3>11, <3>13 DEF ViewOf
      <3>15. \A i \in 1 .. Len(v.of) : after[x + i - 1].value.of[1] = v.of[i]
        <4> TAKE i \in 1 .. Len(v.of)
        <4>1. x + i - 1 = x + (i - 1)
          BY <3>12
        <4>2. after[x + (i - 1)] = NewItems(v, nl)[i]
          BY <3>9, <3>11
        <4>3. NewItems(v, nl)[i].value.of[1] = v.of[i]
          BY <3>7 DEF WrittenItems
        <4> QED  BY <4>1, <4>2, <4>3
      <3>16. [i \in 1 .. Len(v.of) |-> after[x + i - 1].value.of[1]]
               = [j \in 1 .. Len(v.of) |-> v.of[j]]
        BY <3>15
      <3>17. ViewOf(after, at[n]) = managed[k]
        BY <3>6, <3>8, <3>14, <3>16
      <3>18. at[n] \in FieldAt(after, k)
        BY <1>0, <2>2, FieldsAt
      <3> QED  BY <3>17, <3>18
    <2> QED  BY <2>1, <2>3, <2>4 DEF Keyed
  <1> QED  BY <1>2, <1>3

\* And the note that stood behind it; lists come from lists.
LEMMA NotesStay ==
    ASSUME NEW lines, NEW managed, NEW nl, NEW c, NEW S, NEW V, NEW Keys, NEW after, NEW at,
           NEW e, Patching(lines, managed, nl, c, S, V, Keys, after, at, e),
           NEW k, NEW n \in FieldAt(lines, k)
    PROVE  \E m \in FieldAt(after, k) : after[m].note = lines[n].note
  <1>0. /\ lines \in Seq(S) /\ IsHeader(lines, c) /\ after \in Seq(S) /\ IsHeader(after, e)
    BY HeaderStays DEF Patching
  <1>1. n \in 2 .. c - 1 /\ lines[n].says \in Keyed /\ lines[n].key = k
    BY <1>0, FieldsAt
  <1>2. /\ at[n] \in 2 .. e - 1 /\ after[at[n]].says \in Keyed /\ after[at[n]].key = k
        /\ after[at[n]].note = lines[n].note
    BY <1>1, FieldMoves
  <1>3. at[n] \in FieldAt(after, k)
    BY <1>0, <1>2, FieldsAt
  <1> QED  BY <1>2, <1>3

LEMMA FormsStay ==
    ASSUME NEW lines, NEW managed, NEW nl, NEW c, NEW S, NEW V, NEW Keys, NEW after, NEW at,
           NEW e, Patching(lines, managed, nl, c, S, V, Keys, after, at, e),
           KeepsForms(lines, managed)
    PROVE  KeepsForms(after, managed)
  <1>0. /\ lines \in Seq(S) /\ IsHeader(lines, c) /\ after \in Seq(S) /\ IsHeader(after, e)
    BY HeaderStays DEF Patching
  <1>1. ASSUME NEW k \in DOMAIN managed, NEW p \in FieldAt(after, k), after[p].says = "list"
        PROVE  managed[k].list
    <2>1. p \in 2 .. e - 1 /\ after[p].says \in Keyed /\ after[p].key = k
      BY <1>0, <1>1, FieldsAt
    <2>2. PICK n \in 2 .. c - 1 : lines[n].says = "list" /\ lines[n].key = k
      BY <1>1, <2>1, FieldFrom
    <2>3. n \in FieldAt(lines, k)
      BY <1>0, <2>2, FieldsAt DEF Keyed
    <2> QED  BY <2>2, <2>3 DEF KeepsForms
  <1> QED  BY <1>1 DEF KeepsForms

\* A list below its field stays there, and no other comes to stand there.
LEMMA ReadingStays ==
    ASSUME NEW lines, NEW managed, NEW nl, NEW c, NEW S, NEW V, NEW Keys, NEW after, NEW at,
           NEW e, Patching(lines, managed, nl, c, S, V, Keys, after, at, e),
           ReadsBack(lines, managed)
    PROVE  ReadsBack(after, managed)
  <1>0. /\ lines \in Seq(S) /\ IsHeader(lines, c) /\ after \in Seq(S) /\ IsHeader(after, e)
    BY HeaderStays DEF Patching
  <1>1. ASSUME NEW k, NEW p \in FieldAt(after, k), after[p].says = "list"
        PROVE  \E n \in FieldAt(lines, k) : lines[n].says = "list"
    <2>1. p \in 2 .. e - 1 /\ after[p].says \in Keyed /\ after[p].key = k
      BY <1>0, <1>1, FieldsAt
    <2>2. PICK n \in 2 .. c - 1 : lines[n].says = "list" /\ lines[n].key = k
      BY <1>1, <2>1, FieldFrom
    <2> QED  BY <1>0, <2>2, FieldsAt DEF Keyed
  <1>2. ASSUME NEW k, NEW n \in FieldAt(lines, k), lines[n].says = "list"
        PROVE  \E p \in FieldAt(after, k) : after[p].says = "list"
    <2>1. n \in 2 .. c - 1 /\ lines[n].says \in Keyed /\ lines[n].key = k
      BY <1>0, <1>2, FieldsAt
    <2>2. ~IsSet(lines, managed, n)
      BY <1>2 DEF IsSet, Valued
    <2>3. /\ at[n] \in 2 .. e - 1 /\ after[at[n]].says \in Keyed /\ after[at[n]].key = k
          /\ after[at[n]] = lines[n]
      BY <2>1, <2>2, FieldMoves
    <2>4. at[n] \in FieldAt(after, k)
      BY <1>0, <2>3, FieldsAt
    <2> QED  BY <1>2, <2>3, <2>4
  <1>3. \A k : (\E n \in FieldAt(lines, k) : lines[n].says = "list")
                  <=> \E p \in FieldAt(after, k) : after[p].says = "list"
    BY <1>1, <1>2
  <1> QED  BY <1>3 DEF ReadsBack

\* A safe header, taken apart and put together.
LEMMA SafeFound ==
    ASSUME NEW S, NEW V, NEW Keys, Writes(S, V, Keys), NEW lines \in Seq(S), HasHeader(lines),
           Safe(lines)
    PROVE  \E c, nl : IsHeader(lines, c) /\ EndsAre(lines, c, nl) /\ IsRead(lines, c)
  <1>1. /\ lines[1].ends # NoText /\ Fences(lines, 1) # {}
        /\ Cardinality(Newlines(lines)) = 1 /\ ReadsAsFields(lines)
    BY SafeIs
  <1>2. PICK c : IsHeader(lines, c)
    BY <1>1, ClosingFound
  <1>3. \E nl : EndsAre(lines, c, nl)
    BY <1>1, <1>2, EndsFound
  <1>4. IsRead(lines, c)
    BY <1>1, <1>2, ReadFound
  <1> QED  BY <1>2, <1>3, <1>4

LEMMA SafeMade ==
    ASSUME NEW S, NEW lines \in Seq(S), NEW c, IsHeader(lines, c), NEW nl, EndsAre(lines, c, nl),
           ReadsAsFields(lines), ~LooksLikeDuplicateBlock(Body(lines))
    PROVE  Safe(lines)
  <1>1. HasHeader(lines) /\ Fences(lines, 1) # {}
    BY HeaderIs
  <1>2. lines[1].ends # NoText /\ Cardinality(Newlines(lines)) = 1
    BY EndsGive
  <1> QED  BY <1>1, <1>2, SafeIs

\* A line among the written items of a managed list.
InBlock(after, managed, nl, e, g, a, b, p) ==
    /\ g \in 2 .. e - 1 /\ after[g].says = "list" /\ after[g].key \in DOMAIN managed
    /\ Items(after, g) = a .. b
    /\ a \in Nat /\ b \in Nat /\ g < a /\ a <= b /\ b <= e - 1 /\ p \in a .. b
    /\ Len(NewItems(managed[after[g].key], nl)) = b - a + 1
    /\ \A j \in 1 .. b - a + 1 : after[a + (j - 1)] = NewItems(managed[after[g].key], nl)[j]
\* A line that a patch leaves as it is.
Alone(after, managed, nl, e, p) ==
    /\ Becomes(after, managed, p, nl) = <<after[p]>>
    /\ \A g, a, b : ~InBlock(after, managed, nl, e, g, a, b, p)
Settled(after, managed, nl, e) ==
    \A p \in 2 .. e - 1 : \/ Alone(after, managed, nl, e, p)
                          \/ \E g, a, b : InBlock(after, managed, nl, e, g, a, b, p)

LEMMA BlockOwns ==
    ASSUME NEW after, NEW managed, NEW nl, NEW e, NEW g, NEW a, NEW b, NEW p,
           InBlock(after, managed, nl, e, g, a, b, p)
    PROVE  Owns(after, managed, e, g, p)
  BY DEF InBlock, Owns

\* A patched header is settled.
LEMMA PatchSettles ==
    ASSUME NEW lines, NEW managed, NEW nl, NEW c, NEW S, NEW V, NEW Keys, NEW after, NEW at,
           NEW e, Patching(lines, managed, nl, c, S, V, Keys, after, at, e),
           IsRead(lines, c), Fills(lines, managed, c)
    PROVE  Settled(after, managed, nl, e)
  <1>0. /\ after \in Seq(S) /\ IsHeader(after, e) /\ Inner(after) = 2 .. e - 1
        /\ Writes(S, V, Keys) /\ Asks(managed, V, Keys) /\ nl \in Ends /\ e \in Nat
    <2>1. after \in Seq(S) /\ IsHeader(after, e)
      BY HeaderStays DEF Patching
    <2> QED  BY <2>1, PatchingIs, HeaderIs DEF Patching
  <1>1. ASSUME NEW p \in 2 .. e - 1
        PROVE  \/ Alone(after, managed, nl, e, p)
               \/ \E g, a, b : InBlock(after, managed, nl, e, g, a, b, p)
    <2>1. ASSUME Stands(after, managed, e, p)
          PROVE  Alone(after, managed, nl, e, p)
      <3>1. Becomes(after, managed, p, nl) = <<after[p]>>
        BY <1>0, <2>1, BecomesItself
      <3>2. ASSUME NEW g, NEW a, NEW b, InBlock(after, managed, nl, e, g, a, b, p)
            PROVE  FALSE
        <4>1. Owns(after, managed, e, g, p)
          BY <3>2, BlockOwns
        <4>2. g \in 2 .. e - 1
          BY <3>2 DEF InBlock
        <4> QED  BY <2>1, <4>1, <4>2 DEF Stands
      <3> QED  BY <3>1, <3>2 DEF Alone
    <2>2. ASSUME IsSet(after, managed, p),
                 Rendered(after[p], managed[after[p].key]) = after[p]
          PROVE  Alone(after, managed, nl, e, p)
      <3>1. Becomes(after, managed, p, nl) = <<after[p]>>
        BY <2>2, BecomesSet
      <3>2. ASSUME NEW g, NEW a, NEW b, InBlock(after, managed, nl, e, g, a, b, p)
            PROVE  FALSE
        <4>1. p \in Items(after, g)
          BY <3>2 DEF InBlock
        <4>2. after[p].says \notin Valued
          BY <4>1, ItemIs
        <4> QED  BY <2>2, <4>2 DEF IsSet
      <3> QED  BY <3>1, <3>2 DEF Alone
    <2>3. ASSUME NEW n, FromStanding(lines, managed, c, after, at, p, n)
          PROVE  Alone(after, managed, nl, e, p)
      BY <2>1, <2>3, LeftMoves
    <2>4. ASSUME NEW n, FromSet(lines, managed, c, after, at, p, n)
          PROVE  Alone(after, managed, nl, e, p)
      <3>1. IsSet(after, managed, p)
        BY <2>4, LeftMoves
      <3>2. Rendered(after[p], managed[after[p].key]) = after[p]
        BY <2>4, WrittenIs
      <3> QED  BY <2>2, <3>1, <3>2
    <2>5. ASSUME NEW k, FromNowhere(lines, managed, nl, after, at[c], e, p, k)
          PROVE  Alone(after, managed, nl, e, p)
      <3>1. IsSet(after, managed, p)
        BY <2>5, LeftMoves
      <3>2. Rendered(after[p], managed[after[p].key]) = after[p]
        BY <2>5, WrittenIs
      <3> QED  BY <2>2, <3>1, <3>2
    <2>6. ASSUME NEW n, NEW f, FromItems(lines, managed, nl, c, after, at, p, n, f)
          PROVE  \E g, a, b : InBlock(after, managed, nl, e, g, a, b, p)
      <3>1. Owns(lines, managed, c, f, n) /\ Owns(after, managed, e, at[f], p)
        BY <2>6, LeftMoves DEF FromItems
      <3>2. f \in 2 .. c - 1 /\ lines[f].says = "list" /\ lines[f].key \in DOMAIN managed
        BY <3>1 DEF Owns
      <3>3. PICK a, b, u : IsList(lines, c, f, a, b, u)
        BY <3>2 DEF IsRead
      <3>4. IsList(after, e, at[f], at[a], at[b + 1] - 1, at[u + 1] - 1)
        BY <3>3, ListStays
      <3>5. Items(after, at[f]) = at[a] .. at[b + 1] - 1
        BY <3>3, ListStays
      <3>6. after[at[f]] = lines[f]
        BY <3>3, ListMoves
      <3>7. PICK v \in V : v = managed[lines[f].key]
        BY <1>0, <3>2 DEF Asks
      <3>8. /\ at[b + 1] = at[a] + Len(v.of)
            /\ \A j \in 1 .. Len(v.of) : after[at[a] + (j - 1)] = NewItems(v, nl)[j]
        BY <3>2, <3>3, <3>7, ListMoves
      <3>9. Len(v.of) \in Nat /\ Len(NewItems(v, nl)) = Len(v.of)
        <4>1. WrittenItems(v, nl, S)
          BY <1>0 DEF Writes
        <4> QED  BY <4>1 DEF WrittenItems
      <3>10. PICK g, x, y, z : g = at[f] /\ x = at[a] /\ y = at[b + 1] - 1 /\ z = at[u + 1] - 1
        OBVIOUS
      <3>11. /\ g \in 2 .. e - 1 /\ after[g].says = "list" /\ z <= e - 1 /\ z \in Int
             /\ x \in Nat /\ y \in Nat /\ g < x /\ x <= y /\ y <= z
        <4>1. IsList(after, e, g, x, y, z)
          BY <3>4, <3>10
        <4>2. RunsTo(after, e, g, z) /\ Holds(after, g, x, y, z) /\ x <= y
          BY <4>1 DEF IsList
        <4>3. z \in g .. e - 1 /\ g \in 2 .. e - 1 /\ after[g].says = "list"
          BY <4>2 DEF RunsTo
        <4>4. x \in Nat /\ y \in Nat /\ g < x /\ y <= z
          BY <4>2 DEF Holds
        <4>5. z <= e - 1 /\ z \in Int
          BY <4>3
        <4> QED  BY <4>2, <4>3, <4>4, <4>5
      <3>12. y - x + 1 = Len(v.of)
        <4>1. PICK q : q = Len(v.of)
          OBVIOUS
        <4>2. q \in Nat /\ y = (x + q) - 1
          BY <3>8, <3>9, <3>10, <4>1
        <4>3. y - x + 1 = q
          BY <3>11, <4>2
        <4> QED  BY <4>1, <4>3
      <3>13. after[g].key = lines[f].key /\ Items(after, g) = x .. y /\ p \in Items(after, g)
        BY <3>1, <3>5, <3>6, <3>10 DEF Owns
      <3>14. y <= e - 1
        BY <1>0, <3>11
      <3>15. \A j \in 1 .. y - x + 1 : after[x + (j - 1)] = NewItems(v, nl)[j]
        BY <3>8, <3>10, <3>12
      <3>16. InBlock(after, managed, nl, e, g, x, y, p)
        BY <3>2, <3>7, <3>9, <3>11, <3>12, <3>13, <3>14, <3>15 DEF InBlock
      <3> QED  BY <3>16
    <2> QED  BY <2>3, <2>4, <2>5, <2>6, EveryLine
  <1> QED  BY <1>1 DEF Settled

\* A line's block is its own, and ends where it ends.
LEMMA OneBlock ==
    ASSUME NEW S, NEW after \in Seq(S), NEW e, IsHeader(after, e), NEW managed, NEW nl, NEW p,
           NEW g, NEW a, NEW b, InBlock(after, managed, nl, e, g, a, b, p),
           NEW h, NEW x, NEW y, InBlock(after, managed, nl, e, h, x, y, p)
    PROVE  a = x /\ b = y
  <1>1. e \in Nat /\ Inner(after) = 2 .. e - 1
    BY HeaderIs DEF IsHeader
  <1>2. g \in 2 .. e - 1 /\ h \in 2 .. e - 1 /\ p \in Items(after, g) /\ p \in Items(after, h)
    BY DEF InBlock
  <1>3. g = h
    BY <1>1, <1>2, OneOwner
  <1>4. /\ a .. b = x .. y /\ a \in Nat \ {0} /\ b \in Nat /\ x \in Nat \ {0} /\ y \in Nat
        /\ a <= b /\ x <= y
    <2>1. a .. b = x .. y /\ a \in Nat /\ b \in Nat /\ x \in Nat /\ y \in Nat
          /\ a <= b /\ x <= y /\ g < a /\ h < x /\ g \in Nat /\ h \in Nat
      BY <1>1, <1>2, <1>3 DEF InBlock
    <2> QED  BY <2>1
  <1>5. Min(a .. b) = a /\ Max(a .. b) = b /\ Min(x .. y) = x /\ Max(x .. y) = y
    BY <1>4, IntervalIs
  <1> QED  BY <1>4, <1>5

LastOf(after, managed, nl, e, p) ==
    IF \E g, a, b : InBlock(after, managed, nl, e, g, a, b, p)
    THEN CHOOSE b : \E g, a : InBlock(after, managed, nl, e, g, a, b, p)
    ELSE p

LEMMA LastIs ==
    ASSUME NEW S, NEW after \in Seq(S), NEW e, IsHeader(after, e), NEW managed, NEW nl, NEW p
    PROVE  /\ \A g, a, b : InBlock(after, managed, nl, e, g, a, b, p) =>
                 LastOf(after, managed, nl, e, p) = b
           /\ Alone(after, managed, nl, e, p) => LastOf(after, managed, nl, e, p) = p
  <1>1. ASSUME NEW g, NEW a, NEW b, InBlock(after, managed, nl, e, g, a, b, p)
        PROVE  LastOf(after, managed, nl, e, p) = b
    <2> DEFINE l == CHOOSE y : \E h, x : InBlock(after, managed, nl, e, h, x, y, p)
    <2>1. \E h, x : InBlock(after, managed, nl, e, h, x, l, p)
      BY <1>1
    <2>2. LastOf(after, managed, nl, e, p) = l
      BY <1>1 DEF LastOf
    <2> HIDE DEF l
    <2>3. PICK h, x : InBlock(after, managed, nl, e, h, x, l, p)
      BY <2>1
    <2>4. b = l
      BY <1>1, <2>3, OneBlock
    <2> QED  BY <2>2, <2>4
  <1>2. ASSUME Alone(after, managed, nl, e, p)
        PROVE  LastOf(after, managed, nl, e, p) = p
    BY <1>2 DEF Alone, LastOf
  <1> QED  BY <1>1, <1>2

LEMMA BlockTyped ==
    ASSUME NEW S, NEW after \in Seq(S), NEW e, IsHeader(after, e), NEW managed, NEW nl,
           NEW g, NEW a, NEW b, NEW p, InBlock(after, managed, nl, e, g, a, b, p)
    PROVE  /\ a \in Nat /\ b \in Nat /\ p \in Nat /\ e \in Nat /\ a >= 3 /\ a <= p /\ p <= b
           /\ b <= e - 1
           /\ \A q \in a .. b : InBlock(after, managed, nl, e, g, a, b, q)
           /\ p = a => Becomes(after, managed, p, nl) = NewItems(managed[after[g].key], nl)
           /\ p # a => Becomes(after, managed, p, nl) = <<>>
  <1>1. e \in Nat /\ Inner(after) = 2 .. e - 1
    BY HeaderIs DEF IsHeader
  <1>2. /\ a \in Nat /\ b \in Nat /\ g \in 2 .. e - 1 /\ g < a /\ p \in a .. b /\ b <= e - 1
        /\ a <= b /\ Items(after, g) = a .. b
    BY DEF InBlock
  <1>3. p \in Nat /\ a >= 3 /\ a <= p /\ p <= b
    BY <1>1, <1>2
  <1>4. \A q \in a .. b : InBlock(after, managed, nl, e, g, a, b, q)
    BY DEF InBlock
  <1>5. Min(Items(after, g)) = a
    <2>1. a \in Nat \ {0}
      BY <1>2, <1>3
    <2> QED  BY <1>2, <2>1, IntervalIs
  <1>6. Owns(after, managed, e, g, p)
    BY BlockOwns
  <1>7. /\ p = a => Becomes(after, managed, p, nl) = NewItems(managed[after[g].key], nl)
        /\ p # a => Becomes(after, managed, p, nl) = <<>>
    <2>1. /\ p = Min(Items(after, g)) =>
                Becomes(after, managed, p, nl) = NewItems(managed[after[g].key], nl)
          /\ p # Min(Items(after, g)) => Becomes(after, managed, p, nl) = <<>>
      BY <1>1, <1>6, BecomesItems
    <2> QED  BY <1>5, <2>1, Zenon
  <1> QED  BY <1>1, <1>2, <1>3, <1>4, <1>7

\* The last line of what the line in front has become.
Before(after, managed, nl, e, p) ==
    IF p = 2 THEN 1 ELSE LastOf(after, managed, nl, e, p - 1)

LEMMA LastTyped ==
    ASSUME NEW S, NEW after \in Seq(S), NEW e, IsHeader(after, e), NEW managed, NEW nl,
           Settled(after, managed, nl, e), NEW p \in 2 .. e - 1
    PROVE  /\ LastOf(after, managed, nl, e, p) \in Nat
           /\ p <= LastOf(after, managed, nl, e, p)
           /\ LastOf(after, managed, nl, e, p) <= e - 1
  <1>1. e \in Nat /\ p \in Nat /\ p <= e - 1
    BY DEF IsHeader
  <1>2. CASE Alone(after, managed, nl, e, p)
    BY <1>1, <1>2, LastIs
  <1>3. ASSUME NEW g, NEW a, NEW b, InBlock(after, managed, nl, e, g, a, b, p)
        PROVE  /\ LastOf(after, managed, nl, e, p) \in Nat
               /\ p <= LastOf(after, managed, nl, e, p)
               /\ LastOf(after, managed, nl, e, p) <= e - 1
    <2>1. LastOf(after, managed, nl, e, p) = b
      BY <1>3, LastIs
    <2>2. b \in Nat /\ p <= b /\ b <= e - 1
      BY <1>3, BlockTyped
    <2> QED  BY <2>1, <2>2
  <1> QED  BY <1>2, <1>3 DEF Settled

\* Behind the line in front, unless both are items of one list.
LEMMA BeforeIs ==
    ASSUME NEW S, NEW after \in Seq(S), NEW e, IsHeader(after, e), NEW managed, NEW nl,
           Settled(after, managed, nl, e), NEW p \in 2 .. e - 1,
           \A h, x, y : InBlock(after, managed, nl, e, h, x, y, p) => x = p
    PROVE  Before(after, managed, nl, e, p) = p - 1
  <1>1. e \in Nat /\ p \in Nat
    BY DEF IsHeader
  <1>2. CASE p = 2
    BY <1>2 DEF Before
  <1>3. CASE p # 2
    <2>1. p - 1 \in 2 .. e - 1
      BY <1>1, <1>3
    <2>2. PICK q : q = p - 1
      OBVIOUS
    <2>3. q \in 2 .. e - 1 /\ q \in Nat /\ q < p /\ q + 1 = p
      BY <1>1, <2>1, <2>2
    <2>4. CASE Alone(after, managed, nl, e, q)
      BY <1>3, <2>2, <2>4, LastIs DEF Before
    <2>5. ASSUME NEW h, NEW x, NEW y, InBlock(after, managed, nl, e, h, x, y, q)
          PROVE  LastOf(after, managed, nl, e, q) = q
      <3>1. LastOf(after, managed, nl, e, q) = y
        BY <2>5, LastIs
      <3>2. x \in Nat /\ y \in Nat /\ x <= q /\ q <= y
            /\ \A r \in x .. y : InBlock(after, managed, nl, e, h, x, y, r)
        BY <2>5, BlockTyped
      <3>3. p \notin x .. y
        <4>1. ASSUME p \in x .. y PROVE FALSE
          <5>1. InBlock(after, managed, nl, e, h, x, y, p)
            BY <3>2, <4>1
          <5>2. x = p
            BY <5>1
          <5> QED  BY <2>3, <3>2, <5>2
        <4> QED  BY <4>1
      <3>4. y = q
        BY <1>1, <2>3, <3>2, <3>3
      <3> QED  BY <3>1, <3>4
    <2>6. LastOf(after, managed, nl, e, q) = q
      BY <2>3, <2>4, <2>5, LastIs DEF Settled
    <2> QED  BY <1>3, <2>2, <2>6 DEF Before
  <1> QED  BY <1>2, <1>3

\* What becomes of a settled line stands where it stood.
Lies(after, managed, nl, e, p) ==
    LET was == Becomes(after, managed, p, nl)
        a   == Before(after, managed, nl, e, p)
        b   == LastOf(after, managed, nl, e, p)
    IN  /\ a \in Nat \ {0} /\ b \in Nat \ {0} /\ b = a + Len(was)
        /\ \A j \in 1 .. Len(was) : after[a + j] = was[j]

LEMMA LineLies ==
    ASSUME NEW S, NEW after \in Seq(S), NEW e, IsHeader(after, e), NEW managed, NEW nl,
           Settled(after, managed, nl, e), NEW p \in 2 .. e - 1
    PROVE  Lies(after, managed, nl, e, p)
  <1>1. e \in Nat /\ p \in Nat /\ p >= 2
    BY DEF IsHeader
  <1>2. CASE Alone(after, managed, nl, e, p)
    <2>1. Before(after, managed, nl, e, p) = p - 1
      BY <1>2, BeforeIs DEF Alone
    <2>2. LastOf(after, managed, nl, e, p) = p
      BY <1>2, LastIs
    <2>3. Becomes(after, managed, p, nl) = <<after[p]>>
      BY <1>2 DEF Alone
    <2>4. Len(<<after[p]>>) = 1 /\ <<after[p]>>[1] = after[p]
      OBVIOUS
    <2>5. p - 1 \in Nat \ {0} /\ p \in Nat \ {0} /\ p = (p - 1) + 1
      BY <1>1
    <2>6. \A j \in 1 .. 1 : after[(p - 1) + j] = <<after[p]>>[j]
      BY <2>4, <2>5
    <2> QED  BY <2>1, <2>2, <2>3, <2>4, <2>5, <2>6 DEF Lies
  <1>3. ASSUME NEW g, NEW a, NEW b, InBlock(after, managed, nl, e, g, a, b, p)
        PROVE  Lies(after, managed, nl, e, p)
    <2>1. /\ a \in Nat /\ b \in Nat /\ a >= 3 /\ a <= p /\ p <= b /\ b <= e - 1
      BY <1>3, BlockTyped
    <2>2. LastOf(after, managed, nl, e, p) = b
      BY <1>3, LastIs
    <2>3. CASE p = a
      <3>1. \A h, x, y : InBlock(after, managed, nl, e, h, x, y, p) => x = p
        BY <1>3, <2>3, OneBlock
      <3>2. Before(after, managed, nl, e, p) = p - 1
        BY <3>1, BeforeIs
      <3>3. PICK was : was = Becomes(after, managed, p, nl)
        OBVIOUS
      <3>4. was = NewItems(managed[after[g].key], nl)
        BY <1>3, <2>3, <3>3, BlockTyped
      <3>5. Len(was) = b - a + 1 /\ \A j \in 1 .. b - a + 1 : after[a + (j - 1)] = was[j]
        BY <1>3, <3>4 DEF InBlock
      <3>6. \A j \in 1 .. Len(was) : after[(p - 1) + j] = was[j]
        <4> TAKE j \in 1 .. Len(was)
        <4>1. j \in 1 .. b - a + 1 /\ j \in Int
          BY <2>1, <3>5
        <4>2. (p - 1) + j = a + (j - 1)
          BY <1>1, <2>3, <4>1
        <4> QED  BY <3>5, <4>1, <4>2
      <3>7. p - 1 \in Nat \ {0} /\ b \in Nat \ {0} /\ b = (p - 1) + (b - a + 1)
        BY <2>1, <2>3
      <3> QED  BY <2>2, <3>2, <3>3, <3>5, <3>6, <3>7 DEF Lies
    <2>4. CASE p # a
      <3>1. PICK q : q = p - 1
        OBVIOUS
      <3>2. q \in a .. b /\ q \in Nat /\ p # 2
        BY <1>1, <2>1, <2>4, <3>1
      <3>3. InBlock(after, managed, nl, e, g, a, b, q)
        BY <1>3, <3>2, BlockTyped
      <3>4. LastOf(after, managed, nl, e, q) = b
        BY <3>3, LastIs
      <3>5. Before(after, managed, nl, e, p) = b
        BY <3>1, <3>2, <3>4 DEF Before
      <3>6. Becomes(after, managed, p, nl) = <<>> /\ Len(<<>>) = 0
        BY <1>3, <2>4, BlockTyped
      <3>7. b \in Nat \ {0} /\ b = b + 0 /\ \A j \in 1 .. 0 : after[b + j] = <<>>[j]
        BY <2>1
      <3> QED  BY <2>2, <3>5, <3>6, <3>7 DEF Lies
    <2> QED  BY <2>3, <2>4
  <1> QED  BY <1>2, <1>3 DEF Settled

\* What becomes of settled lines is the lines.
LEMMA SettledStays ==
    ASSUME NEW S, NEW V, NEW Keys, Writes(S, V, Keys), NEW managed, Asks(managed, V, Keys),
           NEW after \in Seq(S), NEW e, IsHeader(after, e), NEW nl \in Ends,
           Settled(after, managed, nl, e)
    PROVE  FlattenSeq([i \in 1 .. e - 2 |-> Becomes(after, managed, i + 1, nl)])
             = SubSeq(after, 2, e - 1)
  <1>1. e \in Nat /\ e \in 2 .. Len(after) /\ Len(after) \in Nat
    BY DEF IsHeader
  <1> DEFINE f == [i \in 1 .. e - 2 |-> Becomes(after, managed, i + 1, nl)]
             u == [i \in 0 .. e - 2 |-> Before(after, managed, nl, e, i + 2) - 1]
             text == SubSeq(after, 2, e - 1)
  <1>2. f \in [1 .. e - 2 -> Seq(S)]
    <2>1. \A i \in 1 .. e - 2 : Becomes(after, managed, i + 1, nl) \in Seq(S)
      <3> TAKE i \in 1 .. e - 2
      <3>1. i + 1 \in 2 .. e - 1
        BY <1>1
      <3> QED  BY <3>1, BecomesLines
    <2> QED  BY <2>1
  <1>3. text \in Seq(S) /\ Len(text) = e - 2 /\ \A i \in 1 .. e - 2 : text[i] = after[i + 1]
    <2>1. text \in Seq(S) /\ Len(text) = e - 2
      BY <1>1
    <2>2. \A i \in 1 .. e - 2 : text[i] = after[2 + i - 1]
      BY <1>1
    <2>3. \A i \in 1 .. e - 2 : 2 + i - 1 = i + 1
      BY <1>1
    <2> QED  BY <2>1, <2>2, <2>3
  <1>4. e - 2 \in Nat
    BY <1>1
  <1>5. IsLaidOut(text, f, e - 2, u)
    <2>1. u[0] = 0
      <3>1. 0 \in 0 .. e - 2 /\ 0 + 2 = 2
        BY <1>4
      <3>2. u[0] = Before(after, managed, nl, e, 2) - 1
        BY <3>1
      <3>3. Before(after, managed, nl, e, 2) = 1
        BY DEF Before
      <3> QED  BY <3>2, <3>3
    <2>2. ASSUME NEW n \in 1 .. e - 2
          PROVE  /\ u[n] \in Nat /\ u[n - 1] \in Nat
                 /\ u[n] = u[n - 1] + Len(f[n])
                 /\ \A j \in 1 .. Len(f[n]) : text[u[n - 1] + j] = f[n][j]
                 /\ u[n] = LastOf(after, managed, nl, e, n + 1) - 1
      <3>1. n + 1 \in 2 .. e - 1 /\ n \in Nat /\ n # 0
        BY <1>1
      <3>2. Lies(after, managed, nl, e, n + 1)
        BY <3>1, LineLies
      <3>3. PICK a, b, was : /\ was = Becomes(after, managed, n + 1, nl)
                             /\ a = Before(after, managed, nl, e, n + 1)
                             /\ b = LastOf(after, managed, nl, e, n + 1)
        OBVIOUS
      <3>4. /\ a \in Nat \ {0} /\ b \in Nat \ {0} /\ b = a + Len(was)
            /\ \A j \in 1 .. Len(was) : after[a + j] = was[j]
        BY <3>2, <3>3 DEF Lies
      <3>5. f[n] = was
        BY <3>3
      <3>6. was \in Seq(S)
        BY <1>2, <3>5
      <3>7. Len(was) \in Nat
        BY <3>6
      <3>8. u[n - 1] = a - 1
        <4>1. n - 1 \in 0 .. e - 2 /\ (n - 1) + 2 = n + 1
          BY <1>1, <3>1
        <4> QED  BY <3>3, <4>1
      <3>9. u[n] = b - 1
        <4>1. n \in 0 .. e - 2 /\ n + 2 # 2 /\ (n + 2) - 1 = n + 1
          BY <1>1, <3>1
        <4>2. u[n] = Before(after, managed, nl, e, n + 2) - 1
          BY <4>1
        <4>3. Before(after, managed, nl, e, n + 2) = LastOf(after, managed, nl, e, (n + 2) - 1)
          BY <4>1 DEF Before
        <4> QED  BY <3>3, <4>1, <4>2, <4>3
      <3>10. b <= e - 1
        BY <3>1, <3>3, LastTyped
      <3> HIDE DEF f, u, text
      <3>11. \A j \in 1 .. Len(f[n]) : text[u[n - 1] + j] = f[n][j]
        <4> TAKE j \in 1 .. Len(f[n])
        <4>1. j \in 1 .. Len(was) /\ j \in Nat
          BY <3>5, <3>7
        <4>2. after[a + j] = was[j]
          BY <3>4, <4>1
        <4>3. (a - 1) + j \in 1 .. e - 2 /\ ((a - 1) + j) + 1 = a + j
          <5>1. PICK q : q = Len(was)
            OBVIOUS
          <5>2. q \in Nat /\ j >= 1 /\ j <= q /\ a + q <= e - 1 /\ a \in Nat \ {0}
            BY <3>4, <3>7, <3>10, <4>1, <5>1
          <5> QED  BY <1>1, <4>1, <5>2
        <4>4. text[(a - 1) + j] = after[a + j]
          BY <1>3, <4>3
        <4> QED  BY <3>5, <3>8, <4>2, <4>4
      <3>12. /\ u[n] \in Nat /\ u[n - 1] \in Nat /\ u[n] = u[n - 1] + Len(f[n])
        BY <3>4, <3>5, <3>7, <3>8, <3>9
      <3> QED  BY <3>3, <3>9, <3>11, <3>12
    <2>3. u[e - 2] = e - 2
      <3>1. CASE e = 2
        BY <2>1, <3>1
      <3>2. CASE e # 2
        <4>1. e - 2 \in 1 .. e - 2 /\ (e - 2) + 1 = e - 1 /\ e - 1 \in 2 .. e - 1
          BY <1>1, <3>2
        <4>2. u[e - 2] = LastOf(after, managed, nl, e, e - 1) - 1
          BY <2>2, <4>1
        <4>3. /\ LastOf(after, managed, nl, e, e - 1) \in Nat
              /\ e - 1 <= LastOf(after, managed, nl, e, e - 1)
              /\ LastOf(after, managed, nl, e, e - 1) <= e - 1
          BY <4>1, LastTyped
        <4> HIDE DEF u
        <4> QED  BY <1>1, <4>2, <4>3
      <3> QED  BY <3>1, <3>2
    <2>4. DOMAIN text = 1 .. e - 2
      BY <1>3
    <2> HIDE DEF f, u, text
    <2>5. \A n \in 0 .. e - 2 : u[n] \in Nat
      <3> TAKE n \in 0 .. e - 2
      <3>1. n = 0 \/ n \in 1 .. e - 2
        BY <1>4
      <3> QED  BY <2>1, <2>2, <3>1
    <2> QED  BY <1>3, <2>1, <2>2, <2>3, <2>4, <2>5 DEF IsLaidOut
  <1> HIDE DEF f, u, text
  <1>6. FlattenSeq(f) = text
    BY <1>2, <1>3, <1>4, <1>5, FlattenIs
  <1> QED  BY <1>6 DEF f, text

\* Patched again, a patched header is itself.
LEMMA PatchedOnce ==
    ASSUME NEW lines, NEW managed, NEW nl, NEW c, NEW S, NEW V, NEW Keys, NEW after, NEW at,
           NEW e, Patching(lines, managed, nl, c, S, V, Keys, after, at, e),
           IsRead(lines, c), Fills(lines, managed, c), KeepsForms(lines, managed)
    PROVE  Patched(after, managed) = after
  <1>1. /\ after \in Seq(S) /\ IsHeader(after, e) /\ EndsAre(after, e, nl) /\ nl \in Ends
        /\ Writes(S, V, Keys) /\ Asks(managed, V, Keys)
    BY HeaderStays, PatchingIs DEF Patching
  <1>2. e \in Nat /\ e \in 2 .. Len(after) /\ Len(after) \in Nat
    BY <1>1 DEF IsHeader
  <1>3. HasHeader(after) /\ Closing(after) = e
    BY <1>1, HeaderIs
  <1>4. Patched(after, managed) = Patch(after, managed, nl)
    <2>1. (CHOOSE l \in Newlines(after) : TRUE) = nl
      BY <1>1, EndsGive
    <2> QED  BY <1>3, <2>1, PatchOfHeader
  <1>5. Missing(after, managed) = {}
    <2>1. \A k \in DOMAIN managed : FieldAt(after, k) # {}
      BY ViewsAreManaged
    <2> QED  BY <2>1 DEF Missing
  <1> DEFINE kept == SubSeq(after, 2, e - 1)
             new  == NewFields(Missing(after, managed), managed, nl)
             rest == SubSeq(after, e, Len(after))
  <1>6. FlattenSeq([i \in 1 .. e - 2 |-> Becomes(after, managed, i + 1, nl)]) = kept
    <2>1. Settled(after, managed, nl, e)
      BY PatchSettles
    <2> QED  BY <1>1, <2>1, SettledStays
  <1>7. new \in Seq(S) /\ Len(new) = 0
    <2>1. /\ new \in Seq(S)
          /\ \A i \in 1 .. Len(new) : \E k \in Missing(after, managed) :
                new[i] = NewField(k, managed[k], nl)
      BY <1>1, FieldsAreLaidOut
    <2> HIDE DEF new
    <2>2. \A i \in 1 .. Len(new) : FALSE
      BY <1>5, <2>1
    <2>3. Len(new) \in Nat
      BY <2>1
    <2>4. Len(new) = 0
      <3>1. Len(new) >= 1 => 1 \in 1 .. Len(new)
        BY <2>3
      <3> QED  BY <2>2, <2>3, <3>1
    <2> QED  BY <2>1, <2>4
  <1>8. /\ kept \in Seq(S) /\ Len(kept) = e - 2
        /\ \A j \in 1 .. e - 2 : kept[j] = after[1 + j]
    <2>1. kept \in Seq(S) /\ Len(kept) = e - 2
      BY <1>1, <1>2
    <2>2. \A j \in 1 .. e - 2 : kept[j] = after[2 + j - 1]
      BY <1>1, <1>2
    <2>3. \A j \in 1 .. e - 2 : 2 + j - 1 = 1 + j
      BY <1>2
    <2> QED  BY <2>1, <2>2, <2>3
  <1>9. /\ rest \in Seq(S) /\ Len(rest) = Len(after) - e + 1
        /\ \A j \in 1 .. Len(after) - e + 1 : rest[j] = after[(e - 1) + j]
    <2>1. rest \in Seq(S) /\ Len(rest) = Len(after) - e + 1
      <3>1. e \in 1 .. Len(after) + 1 /\ Len(after) \in 1 .. Len(after)
        BY <1>2
      <3> QED  BY <1>1, <1>2, <3>1
    <2>2. \A j \in 1 .. Len(after) - e + 1 : rest[j] = after[e + j - 1]
      BY <1>1, <1>2
    <2>3. \A j \in 1 .. Len(after) - e + 1 : e + j - 1 = (e - 1) + j
      BY <1>2
    <2> QED  BY <2>1, <2>2, <2>3
  <1>10. after[1] \in S
    BY <1>1, <1>2
  <1> DEFINE t == <<after[1]>> \o kept \o new \o rest
  <1>11. Patch(after, managed, nl) = t
    BY <1>3, <1>6 DEF Patch
  <1> HIDE DEF kept, new, rest, t
  <1>12. /\ t \in Seq(S) /\ Len(t) = 1 + Len(kept) + Len(new) + Len(rest) /\ t[1] = after[1]
         /\ \A j \in 1 .. Len(kept) : t[1 + j] = kept[j]
         /\ \A j \in 1 .. Len(rest) : t[1 + Len(kept) + Len(new) + j] = rest[j]
    <2>1. t = <<after[1]>> \o kept \o new \o rest
      BY DEF t
    <2>2. kept \in Seq(S)
      BY <1>8
    <2>3. new \in Seq(S)
      BY <1>7
    <2>4. rest \in Seq(S)
      BY <1>9
    <2> QED  BY <1>10, <2>1, <2>2, <2>3, <2>4, FourParts
  <1>13. Len(t) = Len(after)
    BY <1>2, <1>7, <1>8, <1>9, <1>12
  <1>14. \A n \in 1 .. Len(after) : t[n] = after[n]
    <2>1. \A j \in 1 .. e - 2 : t[1 + j] = after[1 + j]
      BY <1>8, <1>12
    <2>2. \A j \in 1 .. Len(after) - e + 1 : t[(e - 1) + j] = after[(e - 1) + j]
      <3>1. 1 + Len(kept) + Len(new) = e - 1
        BY <1>2, <1>7, <1>8
      <3> QED  BY <1>9, <1>12, <3>1
    <2> TAKE n \in 1 .. Len(after)
    <2>3. CASE n = 1
      BY <1>12, <2>3
    <2>4. CASE n \in 2 .. e - 1
      <3>1. n - 1 \in 1 .. e - 2 /\ 1 + (n - 1) = n
        BY <1>2, <2>4
      <3> QED  BY <2>1, <3>1
    <2>5. CASE n \in e .. Len(after)
      <3>1. n - (e - 1) \in 1 .. Len(after) - e + 1 /\ (e - 1) + (n - (e - 1)) = n
        BY <1>2, <2>5
      <3> QED  BY <2>2, <3>1
    <2>6. n = 1 \/ n \in 2 .. e - 1 \/ n \in e .. Len(after)
      BY <1>2
    <2> QED  BY <2>3, <2>4, <2>5, <2>6
  <1>15. t = after
    BY <1>1, <1>12, <1>13, <1>14, SameSequence
  <1> QED  BY <1>4, <1>11, <1>15

\* A safe header is patched exactly, if no list is emptied, and only then.
LEMMA HeaderIsExact ==
    ASSUME NEW S, NEW V, NEW Keys, Writes(S, V, Keys), NEW lines \in Seq(S), NEW managed,
           Asks(managed, V, Keys), HasHeader(lines), Safe(lines), KeepsForms(lines, managed),
           ReadsBack(lines, managed), NEW after, after = Patched(lines, managed)
    PROVE  \E c : /\ IsHeader(lines, c)
                  /\ Patchable(lines, managed) => Fills(lines, managed, c)
                  /\ Fills(lines, managed, c) => Patchable(lines, managed)
                  /\ Fills(lines, managed, c) => PatchIsExact(lines, managed, after)
                  /\ \E at, nl, e : Patching(lines, managed, nl, c, S, V, Keys, after, at, e)
  <1>1. PICK c, nl : IsHeader(lines, c) /\ EndsAre(lines, c, nl) /\ IsRead(lines, c)
    BY SafeFound
  <1>2. PICK at, e : Patching(lines, managed, nl, c, S, V, Keys, after, at, e)
    BY <1>1, PatchIsPatching
  <1>3. after \in Seq(S) /\ IsHeader(after, e) /\ EndsAre(after, e, nl)
        /\ Body(after) = Body(lines)
    BY <1>2, HeaderStays DEF Patching
  <1>4. HasHeader(after)
    BY <1>3, HeaderIs
  <1>5. ~LooksLikeDuplicateBlock(Body(lines))
    BY SafeIs
  <1>6. ASSUME Patchable(lines, managed) PROVE Fills(lines, managed, c)
    <2>1. Safe(after)
      BY <1>6 DEF Patchable
    <2>2. ReadsAsFields(after)
      BY <1>4, <2>1, SafeIs
    <2> QED  BY <1>1, <1>2, <2>2, EmptiedIsUnread
  <1>7. ASSUME Fills(lines, managed, c)
        PROVE  Patchable(lines, managed) /\ PatchIsExact(lines, managed, after)
    <2>1. IsRead(after, e)
      BY <1>1, <1>2, <1>7, ReadStays
    <2>2. ReadsAsFields(after)
      BY <1>3, <2>1, ReadIs
    <2>3. Safe(after)
      BY <1>3, <1>5, <2>2, SafeMade
    <2>4. Patchable(lines, managed)
      BY <1>3, <2>3 DEF Patchable
    <2>5. KeepsForms(after, managed)
      BY <1>2, FormsStay
    <2>6. Patched(after, managed) = after
      BY <1>1, <1>2, <1>7, PatchedOnce
    <2>7. Patchable(after, managed)
      <3>1. ReadsBack(after, managed)
        BY <1>2, ReadingStays
      <3> QED  BY <2>3, <2>5, <2>6, <3>1 DEF Patchable
    <2>8. \A k \in DOMAIN managed : \E n \in FieldAt(after, k) : ViewOf(after, n) = managed[k]
      BY <1>1, <1>2, <1>7, ViewsAreManaged
    <2>9. Others(lines, managed) = Others(after, managed)
      BY <1>1, <1>2, OthersStay
    <2>10. \A k \in DOMAIN managed : \A n \in FieldAt(lines, k) :
              \E m \in FieldAt(after, k) : after[m].note = lines[n].note
      BY <1>2, NotesStay
    <2>11. PatchIsExact(lines, managed, after)
      BY <2>6, <2>7, <2>8, <2>9, <2>10 DEF PatchIsExact
    <2> QED  BY <2>4, <2>11
  <1> QED  BY <1>1, <1>2, <1>6, <1>7

LEMMA NothingFlattens ==
    ASSUME NEW N \in Nat, NEW f \in [1 .. N -> {<<>>}]
    PROVE  FlattenSeq(f) = <<>>
  <1> DEFINE u == [n \in 0 .. N |-> 0]
  <1>1. f \in [1 .. N -> Seq({})]
    <2>1. <<>> \in Seq({})
      OBVIOUS
    <2> QED  BY <2>1
  <1>2. \A n \in 1 .. N : Len(f[n]) = 0
    <2>1. \A n \in 1 .. N : f[n] = <<>>
      OBVIOUS
    <2>2. Len(<<>>) = 0
      OBVIOUS
    <2> QED  BY <2>1, <2>2
  <1>3. /\ \A n \in 0 .. N : u[n] = 0
        /\ \A n \in 1 .. N : n - 1 \in 0 .. N /\ n \in 0 .. N
        /\ 0 \in 0 .. N /\ N \in 0 .. N
    OBVIOUS
  <1>4. Len(<<>>) = 0 /\ DOMAIN <<>> = 1 .. 0 /\ <<>> \in Seq({})
    OBVIOUS
  <1> HIDE DEF u
  <1>5. IsLaidOut(<<>>, f, N, u)
    <2>1. \A n \in 0 .. N : u[n] \in Nat
      BY <1>3
    <2>2. u[0] = 0 /\ Len(<<>>) = u[N] /\ DOMAIN <<>> = 1 .. u[N]
      BY <1>3, <1>4
    <2>3. \A n \in 1 .. N : u[n] = u[n - 1] + Len(f[n])
      BY <1>2, <1>3
    <2>4. \A n \in 1 .. N : \A j \in 1 .. Len(f[n]) : <<>>[u[n - 1] + j] = f[n][j]
      BY <1>2
    <2> QED  BY <2>1, <2>2, <2>3, <2>4 DEF IsLaidOut
  <1> QED  BY <1>1, <1>4, <1>5, FlattenIs

\* A document without a header, and the same with an empty one.
Fence(nl) == Plain("fence", nl)
Fenced(lines, nl) == <<Fence(nl)>> \o <<Fence(nl)>> \o lines

LEMMA FirstNewlineIs ==
    ASSUME NEW S, NEW V, NEW Keys, Writes(S, V, Keys), NEW lines \in Seq(S)
    PROVE  FirstNewline(lines) \in Ends \ {NoText}
  <1>1. FirstNewline(lines) = IF lines # <<>> /\ lines[1].ends # NoText
                              THEN lines[1].ends ELSE "lf"
    BY Zenon DEF FirstNewline, NoText
  <1>2. "lf" \in Ends \ {NoText}
    <2>1. "lf" # NoText
      BY Zenon DEF NoText
    <2> QED  BY <2>1 DEF Ends
  <1>3. lines # <<>> => lines[1].ends \in Ends
    <2>1. lines # <<>> => lines[1] \in S
      OBVIOUS
    <2> QED  BY <2>1 DEF Writes
  <1> QED  BY <1>1, <1>2, <1>3

LEMMA FencedIs ==
    ASSUME NEW Keys, NEW Scalars, NEW Remarks, NoText \in Keys, NoText \in Remarks,
           NEW lines \in Seq(MarkdownLine(Keys, Scalars, Remarks)), NEW nl \in Ends \ {NoText}
    PROVE  /\ Fence(nl) \in MarkdownLine(Keys, Scalars, Remarks)
           /\ Fenced(lines, nl) \in Seq(MarkdownLine(Keys, Scalars, Remarks))
           /\ IsHeader(Fenced(lines, nl), 2) /\ EndsAre(Fenced(lines, nl), 2, nl)
           /\ Body(Fenced(lines, nl)) = lines /\ IsRead(Fenced(lines, nl), 2)
           /\ SubSeq(Fenced(lines, nl), 2, Len(Fenced(lines, nl))) = <<Fence(nl)>> \o lines
           /\ Fenced(lines, nl)[1] = Fence(nl)
  <1> DEFINE S == MarkdownLine(Keys, Scalars, Remarks)
             x == Fence(nl)
             t == Fenced(lines, nl)
  <1>1. x \in S /\ x.says = "fence" /\ x.ends = nl
    <2>1. "fence" \in LineKinds
      BY DEF LineKinds
    <2> QED  BY <2>1, PlainIs DEF Fence
  <1>2. Len(lines) \in Nat
    OBVIOUS
  <1> HIDE DEF S, x
  <1>3. lines \in Seq(S)
    BY DEF S
  <1>4. /\ t \in Seq(S) /\ Len(t) = 2 + Len(lines) /\ t[1] = x /\ t[2] = x
        /\ \A j \in 1 .. Len(lines) : t[2 + j] = lines[j]
    <2>1. t = <<x>> \o <<x>> \o lines
      BY DEF Fenced, x
    <2> HIDE DEF t
    <2>2. <<x>> \in Seq(S) /\ Len(<<x>>) = 1 /\ <<x>>[1] = x
      BY <1>1
    <2>3. PICK y : y = <<x>> \o <<x>>
      OBVIOUS
    <2>4. y \in Seq(S) /\ Len(y) = 2 /\ y[1] = x /\ y[2] = x
      BY <1>1, <2>3
    <2>5. t = y \o lines
      BY <2>1, <2>3
    <2>6. /\ t \in Seq(S) /\ Len(t) = Len(y) + Len(lines)
          /\ \A j \in 1 .. Len(y) : t[j] = y[j]
          /\ \A j \in 1 .. Len(lines) : t[Len(y) + j] = lines[j]
      <3>1. y \in Seq(S)
        BY <2>4
      <3> QED  BY <1>3, <2>5, <3>1, Joined
    <2> QED  BY <2>4, <2>6
  <1> HIDE DEF t
  <1>5. IsHeader(t, 2)
    <2>1. 2 \in 2 .. Len(t) /\ \A n \in 2 .. 2 - 1 : FALSE
      BY <1>2, <1>4
    <2> QED  BY <1>1, <1>4, <2>1 DEF IsHeader
  <1>6. EndsAre(t, 2, nl)
    <2>1. \A n \in 1 .. 2 : t[n] = x
      BY <1>4
    <2> QED  BY <1>1, <1>4, <2>1 DEF EndsAre
  <1>7. IsRead(t, 2)
    <2>1. \A n \in 2 .. 2 - 1 : FALSE
      OBVIOUS
    <2> QED  BY <2>1 DEF IsRead
  <1>8. Body(t) = lines
    <2>1. Body(t) = SubSeq(t, 3, Len(t))
      <3>1. 2 + 1 = 3
        OBVIOUS
      <3> QED  BY <1>4, <1>5, <3>1, HeaderIs
    <2>2. SubSeq(t, 3, Len(t)) \in Seq(S) /\ Len(SubSeq(t, 3, Len(t))) = Len(lines)
      <3>1. SubSeq(t, 3, Len(t)) \in Seq(S)
        BY <1>4
      <3>2. Len(SubSeq(t, 3, Len(t))) = Len(t) - 3 + 1
        BY <1>2, <1>4
      <3> QED  BY <1>2, <1>4, <3>1, <3>2
    <2>3. \A j \in 1 .. Len(lines) : SubSeq(t, 3, Len(t))[j] = t[2 + j]
      <3> TAKE j \in 1 .. Len(lines)
      <3>1. j \in 1 .. Len(t) - 3 + 1 /\ 3 + j - 1 = 2 + j
        BY <1>2, <1>4
      <3>2. SubSeq(t, 3, Len(t))[j] = t[3 + j - 1]
        BY <1>4, <3>1
      <3> QED  BY <3>1, <3>2
    <2>4. SubSeq(t, 3, Len(t)) = lines
      <3>1. PICK b : b = SubSeq(t, 3, Len(t))
        OBVIOUS
      <3>2. b \in Seq(S) /\ Len(b) = Len(lines) /\ \A j \in 1 .. Len(b) : b[j] = lines[j]
        BY <1>4, <2>2, <2>3, <3>1
      <3>3. b = lines
        BY <1>3, <3>2, SameSequence
      <3> QED  BY <3>1, <3>3
    <2> QED  BY <2>1, <2>4
  <1>9. SubSeq(t, 2, Len(t)) = <<x>> \o lines
    <2>1. PICK b, d : b = SubSeq(t, 2, Len(t)) /\ d = <<x>> \o lines
      OBVIOUS
    <2>2. <<x>> \in Seq(S) /\ Len(<<x>>) = 1 /\ <<x>>[1] = x
      BY <1>1
    <2>3. /\ d \in Seq(S) /\ Len(d) = 1 + Len(lines) /\ d[1] = x
          /\ \A j \in 1 .. Len(lines) : d[1 + j] = lines[j]
      <3>1. /\ d \in Seq(S) /\ Len(d) = Len(<<x>>) + Len(lines)
            /\ \A j \in 1 .. Len(<<x>>) : d[j] = <<x>>[j]
            /\ \A j \in 1 .. Len(lines) : d[Len(<<x>>) + j] = lines[j]
        BY <1>3, <2>1, <2>2, Joined
      <3>2. 1 \in 1 .. 1
        OBVIOUS
      <3> QED  BY <2>2, <3>1, <3>2
    <2>4. b \in Seq(S) /\ Len(b) = 1 + Len(lines)
      <3>1. b \in Seq(S)
        BY <1>4, <2>1
      <3>2. Len(b) = Len(t) - 2 + 1
        BY <1>2, <1>4, <2>1
      <3> QED  BY <1>2, <1>4, <3>1, <3>2
    <2>5. \A j \in 1 .. 1 + Len(lines) : b[j] = t[1 + j]
      <3> TAKE j \in 1 .. 1 + Len(lines)
      <3>1. j \in 1 .. Len(t) - 2 + 1 /\ 2 + j - 1 = 1 + j
        BY <1>2, <1>4
      <3>2. b[j] = t[2 + j - 1]
        BY <1>4, <2>1, <3>1
      <3> QED  BY <3>1, <3>2
    <2>6. \A j \in 1 .. 1 + Len(lines) : b[j] = d[j]
      <3> TAKE j \in 1 .. 1 + Len(lines)
      <3>1. CASE j = 1
        <4>1. 1 + 1 = 2
          OBVIOUS
        <4> QED  BY <1>4, <2>3, <2>5, <3>1, <4>1
      <3>2. CASE j # 1
        <4>1. j - 1 \in 1 .. Len(lines) /\ 1 + (j - 1) = j /\ 1 + j = 2 + (j - 1)
          BY <1>2, <3>2
        <4> QED  BY <1>4, <2>3, <2>5, <4>1
      <3> QED  BY <3>1, <3>2
    <2>7. b = d
      BY <2>3, <2>4, <2>6, SameSequence
    <2> QED  BY <2>1, <2>7
  <1> QED  BY <1>1, <1>4, <1>5, <1>6, <1>7, <1>8, <1>9 DEF S, t, x

LEMMA JoinedTwice ==
    ASSUME NEW S, NEW a \in Seq(S), NEW b \in Seq(S), NEW d \in Seq(S)
    PROVE  a \o (b \o d) = (a \o b) \o d
  <1>1. PICK ab, bd, l, r : ab = a \o b /\ bd = b \o d /\ l = a \o bd /\ r = ab \o d
    OBVIOUS
  <1>2. Len(a) \in Nat /\ Len(b) \in Nat /\ Len(d) \in Nat
    OBVIOUS
  <1>3. /\ ab \in Seq(S) /\ Len(ab) = Len(a) + Len(b)
        /\ \A j \in 1 .. Len(a) : ab[j] = a[j]
        /\ \A j \in 1 .. Len(b) : ab[Len(a) + j] = b[j]
    BY <1>1, Joined
  <1>4. /\ bd \in Seq(S) /\ Len(bd) = Len(b) + Len(d)
        /\ \A j \in 1 .. Len(b) : bd[j] = b[j]
        /\ \A j \in 1 .. Len(d) : bd[Len(b) + j] = d[j]
    BY <1>1, Joined
  <1>5. ab \in Seq(S)
    BY <1>3
  <1>6. bd \in Seq(S)
    BY <1>4
  <1>7. /\ l \in Seq(S) /\ Len(l) = Len(a) + Len(bd)
        /\ \A j \in 1 .. Len(a) : l[j] = a[j]
        /\ \A j \in 1 .. Len(bd) : l[Len(a) + j] = bd[j]
    BY <1>1, <1>6, Joined
  <1>8. /\ r \in Seq(S) /\ Len(r) = Len(ab) + Len(d)
        /\ \A j \in 1 .. Len(ab) : r[j] = ab[j]
        /\ \A j \in 1 .. Len(d) : r[Len(ab) + j] = d[j]
    BY <1>1, <1>5, Joined
  <1>9. Len(l) = Len(r) /\ Len(l) = Len(a) + Len(b) + Len(d)
    BY <1>2, <1>3, <1>4, <1>7, <1>8
  <1>10. \A n \in 1 .. Len(l) : l[n] = r[n]
    <2> TAKE n \in 1 .. Len(l)
    <2>1. n \in Nat /\ n >= 1 /\ n <= Len(a) + Len(b) + Len(d)
      BY <1>2, <1>9
    <2>2. CASE n <= Len(a)
      <3>1. n \in 1 .. Len(a) /\ n \in 1 .. Len(ab)
        BY <1>2, <1>3, <2>1, <2>2
      <3> QED  BY <1>3, <1>7, <1>8, <3>1
    <2>3. CASE n > Len(a) /\ n <= Len(a) + Len(b)
      <3>1. PICK j : j = n - Len(a)
        OBVIOUS
      <3>2. j \in 1 .. Len(b) /\ j \in 1 .. Len(bd) /\ n \in 1 .. Len(ab) /\ n = Len(a) + j
        BY <1>2, <1>3, <1>4, <2>1, <2>3, <3>1
      <3>3. l[n] = b[j]
        BY <1>4, <1>7, <3>2
      <3>4. r[n] = b[j]
        BY <1>3, <1>8, <3>2
      <3> QED  BY <3>3, <3>4
    <2>4. CASE n > Len(a) + Len(b)
      <3>1. PICK j : j = n - (Len(a) + Len(b))
        OBVIOUS
      <3>2. /\ j \in 1 .. Len(d) /\ Len(b) + j \in 1 .. Len(bd)
            /\ n = Len(a) + (Len(b) + j) /\ n = Len(ab) + j
        BY <1>2, <1>3, <1>4, <2>1, <2>4, <3>1
      <3>3. l[n] = d[j]
        BY <1>4, <1>7, <3>2
      <3>4. r[n] = d[j]
        BY <1>8, <3>2
      <3> QED  BY <3>3, <3>4
    <2> QED  BY <1>2, <2>1, <2>2, <2>3, <2>4
  <1>11. l = r
    BY <1>7, <1>8, <1>9, <1>10, SameSequence
  <1> QED  BY <1>1, <1>11

\* A document without a header is patched as if it had an empty one.
LEMMA PatchOfNone ==
    ASSUME NEW Keys, NEW Scalars, NEW Remarks, NoText \in Keys, NoText \in Remarks,
           NEW lines \in Seq(MarkdownLine(Keys, Scalars, Remarks)), NEW managed,
           Asks(managed, ValuesOf(Scalars), Keys), ~HasHeader(lines), managed # <<>>,
           NEW nl, nl = FirstNewline(lines)
    PROVE  Patched(Fenced(lines, nl), managed) = Patched(lines, managed)
  <1> DEFINE S == MarkdownLine(Keys, Scalars, Remarks)
             V == ValuesOf(Scalars)
             x == Fence(nl)
             t == Fenced(lines, nl)
             new == NewFields(Missing(lines, managed), managed, nl)
  <1>1. Writes(S, V, Keys)
    BY MarkdownWrites
  <1>2. nl \in Ends \ {NoText} /\ nl \in Ends
    BY <1>1, FirstNewlineIs
  <1>3. /\ x \in S /\ t \in Seq(S) /\ IsHeader(t, 2) /\ EndsAre(t, 2, nl)
        /\ SubSeq(t, 2, Len(t)) = <<x>> \o lines /\ t[1] = x
    BY <1>2, FencedIs
  <1>4. Asks(managed, V, Keys) /\ lines \in Seq(S)
    OBVIOUS
  <1> HIDE DEF S, V, x, t
  <1>5. HasHeader(t) /\ Closing(t) = 2 /\ Inner(t) = {} /\ Inner(lines) = {}
    <2>1. HasHeader(t) /\ Closing(t) = 2 /\ Inner(t) = 2 .. 2 - 1
      BY <1>3, HeaderIs
    <2>2. 2 .. 2 - 1 = {}
      OBVIOUS
    <2> QED  BY <2>1, <2>2 DEF Inner
  <1>6. Missing(t, managed) = Missing(lines, managed)
    BY <1>5 DEF Missing, FieldAt
  <1>7. Patched(t, managed) = Patch(t, managed, nl)
    <2>1. (CHOOSE l \in Newlines(t) : TRUE) = nl
      BY <1>3, EndsGive
    <2> QED  BY <1>5, <2>1, PatchOfHeader
  <1>8. FlattenSeq([i \in 1 .. 2 - 2 |-> Becomes(t, managed, i + 1, nl)]) = <<>>
    <2>1. 2 - 2 = 0 /\ 1 .. 0 = {} /\ 0 \in Nat
      OBVIOUS
    <2>2. [i \in 1 .. 0 |-> Becomes(t, managed, i + 1, nl)] \in [1 .. 0 -> {<<>>}]
      BY <2>1
    <2>3. FlattenSeq([i \in 1 .. 0 |-> Becomes(t, managed, i + 1, nl)]) = <<>>
      BY <2>1, <2>2, NothingFlattens
    <2> QED  BY <2>1, <2>3
  <1>9. new \in Seq(S)
    BY <1>1, <1>2, <1>4, FieldsAreLaidOut
  <1>10. Patch(t, managed, nl) = <<x>> \o <<>> \o new \o (<<x>> \o lines)
    BY <1>3, <1>5, <1>6, <1>8 DEF Patch
  <1>11. Patched(lines, managed) = <<x>> \o new \o <<x>> \o lines
    BY DEF Patched, Fence, x
  <1> HIDE DEF new
  <1>12. <<x>> \in Seq(S)
    BY <1>3
  <1>13. PICK y, z : y = <<x>> /\ z = y \o new
    OBVIOUS
  <1>14. y \in Seq(S)
    BY <1>12, <1>13
  <1>15. y \o <<>> = y
    BY <1>14
  <1>16. z \in Seq(S)
    BY <1>9, <1>13, <1>14, Joined
  <1>17. z \o (y \o lines) = (z \o y) \o lines
    BY <1>4, <1>14, <1>16, JoinedTwice
  <1>18. Patch(t, managed, nl) = z \o (y \o lines)
    BY <1>10, <1>13, <1>15
  <1>19. Patched(lines, managed) = (z \o y) \o lines
    BY <1>11, <1>13
  <1>20. Patched(t, managed) = Patched(lines, managed)
    BY <1>7, <1>17, <1>18, <1>19
  <1> QED  BY <1>20 DEF t

LEMMA NoOthers ==
    ASSUME NEW S, NEW lines \in Seq(S), NEW managed, Inner(lines) = {}
    PROVE  Others(lines, managed) = <<>>
  <1> DEFINE f == [n \in DOMAIN lines |-> <<>>]
  <1>1. Others(lines, managed) = FlattenSeq(f)
    BY DEF Others
  <1>2. Len(lines) \in Nat /\ f \in [1 .. Len(lines) -> {<<>>}]
    OBVIOUS
  <1>3. FlattenSeq(f) = <<>>
    <2> HIDE DEF f
    <2> QED  BY <1>2, NothingFlattens
  <1> QED  BY <1>1, <1>3

LEMMA ExactWithHeader ==
    ASSUME NEW Keys, NEW Scalars, NEW Remarks, NoText \in Keys, NoText \in Remarks,
           NEW lines \in Seq(MarkdownLine(Keys, Scalars, Remarks)), NEW managed,
           Asks(managed, ValuesOf(Scalars), Keys), HasHeader(lines)
    PROVE  PatchesAreExact(lines, managed)
  <1> DEFINE S == MarkdownLine(Keys, Scalars, Remarks)
             V == ValuesOf(Scalars)
  <1>1. Writes(S, V, Keys) /\ Asks(managed, V, Keys) /\ lines \in Seq(S)
    BY MarkdownWrites
  <1>2. ASSUME NEW v \in V, v.list, Len(v.of) = 0 PROVE v = Silence
    <2>1. v = [list |-> v.list, of |-> v.of] /\ v.of \in Seq(Scalars) /\ v.list \in BOOLEAN
      BY DEF ValuesOf
    <2>2. v.of = <<>>
      BY <1>2, <2>1
    <2> QED  BY <1>2, <2>1, <2>2 DEF Silence, List
  <1> HIDE DEF S, V
  <1>3. CASE ~(Safe(lines) /\ KeepsForms(lines, managed) /\ ReadsBack(lines, managed))
    <2>1. ~Patchable(lines, managed)
      BY <1>3 DEF Patchable
    <2> QED  BY <1>3, <2>1 DEF PatchesAreExact
  <1>4. CASE Safe(lines) /\ KeepsForms(lines, managed) /\ ReadsBack(lines, managed)
    <2>1. PICK c : /\ IsHeader(lines, c)
                   /\ Fills(lines, managed, c) => Patchable(lines, managed)
                   /\ Patchable(lines, managed) => Fills(lines, managed, c)
                   /\ Fills(lines, managed, c) =>
                         PatchIsExact(lines, managed, Patched(lines, managed))
      BY <1>1, <1>4, HeaderIsExact
    <2>2. CASE Patchable(lines, managed)
      BY <2>1, <2>2 DEF PatchesAreExact
    <2>3. CASE ~Patchable(lines, managed)
      <3>1. PICK f \in 2 .. c - 1 : /\ lines[f].says = "list" /\ lines[f].key \in DOMAIN managed
                                    /\ Len(managed[lines[f].key].of) = 0
        BY <2>1, <2>3 DEF Fills
      <3>2. PICK k : k = lines[f].key
        OBVIOUS
      <3>3. k \in DOMAIN managed /\ f \in FieldAt(lines, k)
        BY <1>1, <2>1, <3>1, <3>2, FieldsAt DEF Keyed
      <3>4. managed[k] \in V /\ managed[k].list /\ Len(managed[k].of) = 0
        BY <1>1, <1>4, <3>1, <3>2, <3>3 DEF Asks, KeepsForms
      <3>5. managed[k] = Silence
        BY <1>2, <3>4
      <3> QED  BY <2>3, <3>1, <3>3, <3>5 DEF PatchesAreExact
    <2> QED  BY <2>2, <2>3
  <1> QED  BY <1>3, <1>4

LEMMA ExactWithNone ==
    ASSUME NEW Keys, NEW Scalars, NEW Remarks, NoText \in Keys, NoText \in Remarks,
           NEW lines \in Seq(MarkdownLine(Keys, Scalars, Remarks)), NEW managed,
           Asks(managed, ValuesOf(Scalars), Keys), ~HasHeader(lines)
    PROVE  PatchesAreExact(lines, managed)
  <1> SUFFICES ASSUME ReadsBack(lines, managed)
               PROVE  PatchesAreExact(lines, managed)
    BY DEF PatchesAreExact, Patchable
  <1> DEFINE S == MarkdownLine(Keys, Scalars, Remarks)
             V == ValuesOf(Scalars)
             after == Patched(lines, managed)
  <1>0. Writes(S, V, Keys) /\ Asks(managed, V, Keys) /\ lines \in Seq(S)
    BY MarkdownWrites
  <1> HIDE DEF S, V, after
  <1>1. Inner(lines) = {} /\ Body(lines) = lines
    BY DEF Inner, Body
  <1>2. \A k : FieldAt(lines, k) = {}
    BY <1>1 DEF FieldAt
  <1>3. KeepsForms(lines, managed)
    BY <1>2 DEF KeepsForms
  <1>4. CASE managed = <<>>
    <2>1. after = lines /\ DOMAIN managed = {}
      BY <1>4 DEF Patched, after
    <2>2. CASE Safe(lines)
      <3>1. Patchable(lines, managed)
        BY <1>3, <2>1, <2>2 DEF Patchable, after
      <3>2. PatchIsExact(lines, managed, after)
        BY <2>1, <3>1 DEF PatchIsExact, after
      <3> QED  BY <3>1, <3>2 DEF PatchesAreExact, after
    <2>3. CASE ~Safe(lines)
      BY <2>3 DEF PatchesAreExact, Patchable
    <2> QED  BY <2>2, <2>3
  <1>5. CASE managed # <<>>
    <2> DEFINE nl == FirstNewline(lines)
               t  == Fenced(lines, nl)
    <2>1. nl \in Ends \ {NoText}
      BY <1>0, FirstNewlineIs
    <2>2. /\ t \in Seq(S) /\ IsHeader(t, 2) /\ EndsAre(t, 2, nl) /\ Body(t) = lines
          /\ IsRead(t, 2)
      BY <2>1, FencedIs DEF S
    <2>3. Patched(t, managed) = after
      BY <1>5, PatchOfNone DEF after
    <2> HIDE DEF nl, t
    <2>4. HasHeader(t) /\ Inner(t) = {} /\ Closing(t) = 2
      <3>1. 2 .. 2 - 1 = {}
        OBVIOUS
      <3> QED  BY <2>2, <3>1, HeaderIs
    <2>5. \A k : FieldAt(t, k) = {}
      BY <2>4 DEF FieldAt
    <2>6. KeepsForms(t, managed) /\ ReadsBack(t, managed)
      BY <1>2, <2>5 DEF KeepsForms, ReadsBack
    <2>7. PICK at, e : Patching(t, managed, nl, 2, S, V, Keys, after, at, e)
      BY <1>0, <2>2, <2>3, PatchIsPatching
    <2>8. after \in Seq(S) /\ IsHeader(after, e) /\ Body(after) = lines
      BY <2>2, <2>7, HeaderStays DEF Patching
    <2>9. HasHeader(after)
      BY <2>8, HeaderIs
    <2>10. ASSUME ~LooksLikeDuplicateBlock(lines)
           PROVE  Patchable(t, managed) /\ PatchIsExact(t, managed, after)
      <3>1. ReadsAsFields(t)
        BY <2>2, ReadIs
      <3>2. Safe(t)
        BY <2>2, <2>10, <3>1, SafeMade
      <3>3. PICK c : /\ IsHeader(t, c)
                     /\ Fills(t, managed, c) => Patchable(t, managed)
                     /\ Fills(t, managed, c) => PatchIsExact(t, managed, after)
        BY <1>0, <2>2, <2>3, <2>4, <2>6, <3>2, HeaderIsExact
      <3>4. c = 2
        BY <2>2, <2>4, <3>3, HeaderIs
      <3>5. Fills(t, managed, c)
        <4>1. \A f \in 2 .. 2 - 1 : FALSE
          OBVIOUS
        <4> QED  BY <3>4, <4>1 DEF Fills
      <3> QED  BY <3>3, <3>5
    <2>11. CASE Patchable(lines, managed)
      <3>1. Safe(after)
        BY <2>11 DEF Patchable, after
      <3>2. ~LooksLikeDuplicateBlock(lines)
        BY <2>8, <2>9, <3>1, SafeIs
      <3>3. PatchIsExact(t, managed, after)
        BY <2>10, <3>2
      <3>4. Others(lines, managed) = Others(t, managed)
        BY <1>0, <1>1, <2>2, <2>4, NoOthers
      <3>5. PatchIsExact(lines, managed, after)
        BY <1>2, <3>3, <3>4 DEF PatchIsExact
      <3> QED  BY <2>11, <3>5 DEF PatchesAreExact, after
    <2>12. CASE ~Patchable(lines, managed)
      <3>1. ASSUME Safe(lines) PROVE LooksLikeDuplicateBlock(lines)
        <4>1. ASSUME ~LooksLikeDuplicateBlock(lines) PROVE FALSE
          <5>1. Patchable(t, managed)
            BY <2>10, <4>1
          <5>2. Safe(after)
            BY <2>3, <5>1 DEF Patchable
          <5> QED  BY <1>1, <1>3, <2>8, <2>12, <3>1, <5>2 DEF Patchable, after
        <4> QED  BY <4>1
      <3> QED  BY <2>12, <3>1 DEF PatchesAreExact
    <2> QED  BY <2>11, <2>12
  <1> QED  BY <1>4, <1>5

\* The patch of a Markdown file's front matter is exact, whatever the file, whatever is
\* managed and in whatever order its keys are added, and whatever values read back as
\* they were rendered: it refuses a header it can read only where one does not, where a
\* list would become empty or a scalar, or where another header seems to follow
\* (frontmatter_patch.ts: patchManagedFrontMatter).
THEOREM EveryPatchIsExact ==
    ASSUME NEW Keys, NEW Scalars, NEW Remarks, NoText \in Keys, NoText \in Remarks,
           NEW lines \in Seq(MarkdownLine(Keys, Scalars, Remarks)), NEW managed,
           Asks(managed, ValuesOf(Scalars), Keys)
    PROVE  PatchesAreExact(lines, managed)
  BY ExactWithHeader, ExactWithNone
=============================================================================
