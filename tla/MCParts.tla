------------------------------ MODULE MCParts ------------------------------
(***************************************************************************)
(* Seven parts that share no state, each on a small instance of its own.  A*)
(* behaviour is one of them, chosen at the start: the similarity joins over*)
(* every corpus of up to three documents, archive preflight over every     *)
(* archive of up to three entries, the semantic pass over every corpus of  *)
(* up to four documents, metadata carriers over every text of up to four   *)
(* lines, the two-level interpretation cache, the inventory of an annotated*)
(* tree, and governed checks and applies over one repository.              *)
(***************************************************************************)
EXTENDS SimilarityJoin, ArchivePreflight, InterpretationCache, InventoryAnnotation,
        GovernedRuns, MCSemanticPass, MCCarriers

CONSTANTS
    CorpusShapes,   \* the documents a corpus is made of
    EntryShapes,    \* the members an archive is made of
    Longest,        \* of either
    Corpora, Preflight, Meaning, Carriers, Cache, Inventory, Governed

VARIABLES part, docs, entries

vars ==
    <<part, docs, entries, semanticVars, carrierVars, cacheVars, annotationVars, governedVars>>

-----------------------------------------------------------------------------
(* The instances *)

\* Sets of terms in every combination; identical bytes and short ones among them.
Shapes ==
    [terms : SUBSET Terms, kind : {"text"}]
    \cup [terms : {{}, {1, 2}, {3, 4}}, kind : {"copy"}]
    \cup [terms : {{1, 2}}, kind : {"short"}]
Half == <<2, 3>>

Member(name, kind) ==
    [name |-> name, kind |-> kind, encrypted |-> FALSE, supported |-> TRUE, declares |-> 1]

\* "a", "A", and two spellings of "e" that share a normal form.
EntryKinds ==
    {Member(n, k) : n \in {<<"a">>, <<"A">>, <<"e">>, <<"e'">>, <<"a", "b">>, <<"A", "b">>,
                           <<"a", ".", "b">>, <<"a", "b", "c">>},
                    k \in {"file", "directory"}}
    \cup {Member(n, "file") : n \in {<<"a", "..", "b">>, <<"..">>, <<Gap, "a">>, <<Gap, Gap, "a">>,
                                     <<"C:", "a">>, <<".">>, <<"!">>}}
    \cup {Member(<<"z">>, "symlink"),
          [Member(<<"z">>, "file") EXCEPT !.declares = 4],
          [Member(<<"z">>, "file") EXCEPT !.declares = 3],
          [Member(<<"z">>, "file") EXCEPT !.encrypted = TRUE],
          [Member(<<"z">>, "file") EXCEPT !.supported = FALSE]}
Segments == {"a", "A", "b", "c", "e", "e'", "z", "..", ".", "C:", "!"}
Composed == [s \in Segments |-> IF s = "e'" THEN "e" ELSE s]
Folded   == [s \in Segments |-> IF s = "A" THEN "a" ELSE s]
Limits ==
    [compressed |-> 9, path |-> 3, count |-> 2, member |-> 3, archive |-> 3, ratio |-> 2,
     session |-> 9, archives |-> 9, depth |-> 1]

\* A document that asks for p, and then for q only where p is; one that asks nothing.
TwoTranscripts ==
    [d \in {"a", "b"} |->
        IF d = "a"
        THEN {<<<<"p", "present">>, <<"q", "present">>>>, <<<<"p", "present">>, <<"q", "absent">>>>,
              <<<<"p", "absent">>>>}
        ELSE {<<>>}]

FolderTextArchive == <<"d", "t", "z">>
KindByName == ("d" :> "folder" @@ "t" :> "text" @@ "z" :> "archive")

\* Two paths, asked for apart or together; as scripts they claim one metadata id.
TwoPaths  == {"a", "b"}
ByName    == [p \in TwoPaths |-> IF p = "a" THEN 1 ELSE 2]
AllScopes == {{"a"}, {"b"}, TwoPaths}
AllForms  == {"prose", "script", "malformed", "binary", "sealed"}
IdByForm  == [p \in TwoPaths |-> [f \in AllForms |-> IF f = "script" THEN "script" ELSE p]]
AllowedOrNot ==
    [p \in TwoPaths |->
        IF p = "a" THEN {{"inline_allow"}, {"inline_allow", "inline_exclude"}}
        ELSE {{}, {"inline_allow"}, {"inline_allow", "vendored"}}]

-----------------------------------------------------------------------------
Init ==
    /\ part \in {Corpora, Preflight, Meaning, Carriers, Cache, Inventory, Governed}
    /\ docs = <<>> /\ entries = <<>> /\ SemanticInit
    /\ CarrierInit /\ (part # Carriers => type = Markdown)
    /\ KeyInit /\ (part # Cache => observed = [r \in Roots |-> {}])
    /\ AnnotationInit /\ (part # Inventory =>
                           \A e \in Entries : tree[e].body = CHOOSE b \in Bodies : TRUE)
    /\ GovernedInit /\ (part # Governed => files = [p \in Paths |-> None])

Next ==
    /\ UNCHANGED part
    /\ \/ /\ part = Corpora /\ Len(docs) < Longest
          /\ \E d \in CorpusShapes : docs' = Append(docs, d)
          /\ UNCHANGED <<entries, semanticVars, carrierVars, cacheVars, annotationVars,
                         governedVars>>
       \/ /\ part = Preflight /\ Len(entries) < Longest
          /\ \E e \in EntryShapes : entries' = Append(entries, e)
          /\ UNCHANGED <<docs, semanticVars, carrierVars, cacheVars, annotationVars,
                         governedVars>>
       \/ /\ part = Meaning /\ SemanticNext
          /\ UNCHANGED <<docs, entries, carrierVars, cacheVars, annotationVars, governedVars>>
       \/ /\ part = Carriers /\ CarrierNext
          /\ UNCHANGED <<docs, entries, semanticVars, cacheVars, annotationVars, governedVars>>
       \/ /\ part = Cache /\ KeyNext
          /\ UNCHANGED <<docs, entries, semanticVars, carrierVars, annotationVars, governedVars>>
       \/ /\ part = Inventory /\ AnnotationNext
          /\ UNCHANGED <<docs, entries, semanticVars, carrierVars, cacheVars, governedVars>>
       \/ /\ part = Governed /\ GovernedNext
          /\ UNCHANGED <<docs, entries, semanticVars, carrierVars, cacheVars, annotationVars>>

Spec == Init /\ [][Next]_vars

-----------------------------------------------------------------------------
\* The algorithms decide as their references do.  The prefix index finds exactly
\* the near-duplicates and the topics that comparing every pair would find
\* (JoinsAreExact), in each corpus; preflight accepts exactly the archives whose
\* members can all be written side by side (AcceptsWhatIsSafe), at both depths and
\* of every size here; a corpus with embeddings loses no question its reasoner
\* would be asked without them, and an evidence pack accounts for all of its
\* candidate (StagesAgree); and metadata can be written into a file and taken out or
\* set again without another byte of it moving (CarriersAgree).
ReferencesAgree ==
    /\ part = Corpora => JoinsAreExact(docs)
    /\ part = Preflight =>
          \A depth \in 1 .. 2, size \in 0 .. 2 : AcceptsWhatIsSafe(entries, depth, size)
    /\ part = Meaning => StagesAgree
    /\ part = Carriers => CarriersAgree
=============================================================================
