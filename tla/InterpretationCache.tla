------------------------ MODULE InterpretationCache ------------------------
(***************************************************************************)
(* The interpretation of a document may depend on what else its root       *)
(* holds: extractors ask whether paths exist.  Interpretations are cached  *)
(* for every root and every later run, under two levels of key             *)
(* (corpus_scan.ts, deriveDocumentLayers; ADR-082).                        *)
(*                                                                         *)
(* A document stands for its normalized bytes at one relative path.  Its   *)
(* Transcripts are the interpretations it may have: the questions asked    *)
(* and their answers, <<path, answer>> by <<path, answer>>, which determine*)
(* the result.                                                             *)
(***************************************************************************)
EXTENDS Naturals, Sequences, FiniteSets

CONSTANTS
    Documents, Roots, RootPaths,
    Transcripts,     \* document -> set of sequences of <<path, answer>>
    Workers,         \* of any process that shares the cache
    NoEntry,
    MaxLosses        \* bound on the run, not on the program

Answers == {"present", "absent"}
AnswerTo(probe, paths) == IF probe \in paths THEN "present" ELSE "absent"

Consistent(transcript, paths) ==
    \A i \in DOMAIN transcript : transcript[i][2] = AnswerTo(transcript[i][1], paths)

\* An extractor's next question is a function of the answers it has had.
ASSUME TranscriptAssumption ==
    \A d \in Documents :
        /\ Transcripts[d] \subseteq Seq(RootPaths \X Answers)
        /\ \A paths \in SUBSET RootPaths :
              \E s \in Transcripts[d] :
                  /\ Consistent(s, paths)
                  /\ \A t \in Transcripts[d] : Consistent(t, paths) => t = s

VARIABLES
    observed,   \* root -> the paths this run acquired it with
    levelOne,   \* document -> nothing, an interpretation, or an index of questions
    levelTwo,   \* pairs of a root-bound key and an interpretation
    job,        \* worker -> nothing, or what it is at
    interpreted,  \* <<root, document, interpretation>>, as this run reports them
    losses

cacheVars == <<observed, levelOne, levelTwo, job, interpreted, losses>>

Portable(t) == [probes |-> <<>>, result |-> t]
Index(t)    == [probes |-> [i \in DOMAIN t |-> t[i][1]], result |-> NoEntry]
IsRootDependentIndex(entry) == entry.probes # <<>>

Mutant_NamesTheQuestions(d, probes, paths) == <<d, probes>>

\* The questions and the answers the current root gives to them.
RootBoundInterpretationKey(d, probes, paths) ==
    <<d, [i \in DOMAIN probes |-> <<probes[i], AnswerTo(probes[i], paths)>>]>>

InterpretDocumentContent(d, paths) == CHOOSE t \in Transcripts[d] : Consistent(t, paths)

\* cache.put replaces what stands under the key.
PutLevelTwo(key, t) == {e \in levelTwo : e[1] # key} \cup {<<key, t>>}

-----------------------------------------------------------------------------
KeyInit ==
    /\ observed \in [Roots -> SUBSET RootPaths]
    /\ levelOne = [d \in Documents |-> NoEntry] /\ levelTwo = {}
    /\ job = [w \in Workers |-> NoEntry] /\ interpreted = {} /\ losses = 0

\* A new run, of roots that may have changed; the cache is what it was.
Acquire ==
    /\ \A w \in Workers : job[w] = NoEntry
    /\ interpreted # {}
    /\ observed' \in [Roots -> SUBSET RootPaths] /\ interpreted' = {}
    /\ UNCHANGED <<levelOne, levelTwo, job, losses>>

Sets(w, phase, root, d, key) ==
    job' = [job EXCEPT ![w] = [phase |-> phase, root |-> root, doc |-> d, key |-> key]]
Reports(root, d, t) == interpreted' = interpreted \cup {<<root, d, t>>}

\* The level-one entry: a result, an index that says where to look, or a miss.
LookUp(w, root, d) ==
    /\ job[w] = NoEntry /\ \A e \in interpreted : <<e[1], e[2]>> # <<root, d>>
    /\ \A v \in Workers : job[v] # NoEntry => <<job[v].root, job[v].doc>> # <<root, d>>
    /\ IF levelOne[d] = NoEntry
       THEN Sets(w, "interpret", root, d, NoEntry) /\ UNCHANGED interpreted
       ELSE IF IsRootDependentIndex(levelOne[d])
       THEN /\ Sets(w, "bound", root, d,
                    RootBoundInterpretationKey(d, levelOne[d].probes, observed[root]))
            /\ UNCHANGED interpreted
       ELSE Reports(root, d, levelOne[d].result) /\ UNCHANGED job
    /\ UNCHANGED <<observed, levelOne, levelTwo, losses>>

LookUpBound(w) ==
    /\ job[w] # NoEntry /\ job[w].phase = "bound"
    /\ IF \E e \in levelTwo : e[1] = job[w].key
       THEN /\ \E e \in levelTwo : /\ e[1] = job[w].key
                                   /\ Reports(job[w].root, job[w].doc, e[2])
            /\ job' = [job EXCEPT ![w] = NoEntry]
       ELSE Sets(w, "interpret", job[w].root, job[w].doc, NoEntry) /\ UNCHANGED interpreted
    /\ UNCHANGED <<observed, levelOne, levelTwo, losses>>

\* A miss: the document is interpreted, and the first of its entries is put.
InterpretAndPut(w) ==
    LET d == job[w].doc
        t == InterpretDocumentContent(d, observed[job[w].root])
    IN  /\ job[w] # NoEntry /\ job[w].phase = "interpret"
        /\ IF t = <<>>
           THEN /\ levelOne' = [levelOne EXCEPT ![d] = Portable(t)]
                /\ Reports(job[w].root, d, t) /\ job' = [job EXCEPT ![w] = NoEntry]
           ELSE /\ levelOne' = [levelOne EXCEPT ![d] = Index(t)]
                /\ Sets(w, "put", job[w].root, d,
                        RootBoundInterpretationKey(d, Index(t).probes, observed[job[w].root]))
                /\ UNCHANGED interpreted
        /\ UNCHANGED <<observed, levelTwo, losses>>

PutBound(w) ==
    LET t == InterpretDocumentContent(job[w].doc, observed[job[w].root])
    IN  /\ job[w] # NoEntry /\ job[w].phase = "put"
        /\ levelTwo' = PutLevelTwo(job[w].key, t)
        /\ Reports(job[w].root, job[w].doc, t) /\ job' = [job EXCEPT ![w] = NoEntry]
        /\ UNCHANGED <<observed, levelOne, losses>>

\* An entry is discarded as damaged or was never written, or a process dies
\* between two of its puts.
Loses ==
    /\ losses < MaxLosses /\ losses' = losses + 1
    /\ \/ /\ \E d \in Documents : levelOne' = [levelOne EXCEPT ![d] = NoEntry]
          /\ UNCHANGED <<levelTwo, job>>
       \/ /\ \E e \in levelTwo : levelTwo' = levelTwo \ {e}
          /\ UNCHANGED <<levelOne, job>>
       \/ /\ \E w \in Workers : job[w] # NoEntry /\ job' = [job EXCEPT ![w] = NoEntry]
          /\ UNCHANGED <<levelOne, levelTwo>>
    /\ UNCHANGED <<observed, interpreted>>

KeyNext ==
    \/ Acquire \/ Loses
    \/ \E w \in Workers :
          \/ \E root \in Roots, d \in Documents : LookUp(w, root, d)
          \/ LookUpBound(w) \/ InterpretAndPut(w) \/ PutBound(w)

KeySpec == KeyInit /\ [][KeyNext]_cacheVars

-----------------------------------------------------------------------------
\* Whatever another root or an earlier run left in the cache, what a run
\* reports of a document is what reading it in this root would say.
InterpretationsAreCurrent ==
    \A e \in interpreted : e[3] = InterpretDocumentContent(e[2], observed[e[1]])
=============================================================================
