--------------------------- MODULE MCSemanticPass ---------------------------
(***************************************************************************)
(* Every corpus of up to MostPlaced documents from a small library, each   *)
(* put at a place of its own, and what the semantic pass finds in it: once *)
(* without embeddings and once with them.                                  *)
(***************************************************************************)
EXTENDS SemanticPass, TLC

CONSTANT MostPlaced

VARIABLES
    placed,         \* the corpus, in the order of the artifact ids
    phrases,        \* its keyphrases
    pairs           \* its semantic pairs, without embeddings and with them

semanticVars == <<placed, phrases, pairs>>

-----------------------------------------------------------------------------
(* The library: a manifest and another of the same name, a manifest of a   *)
(* project renamed, a note and its revision, and two texts on their own.   *)

Silent ==
    [field \in {"title", "heading", "names", "prose", "refs", "deps", "replaces", "statuses",
                "tasks", "claims"} |-> {}]
Claim(band, said, quote) ==
    [id |-> 10 * band + said, band |-> band, said |-> said, quote |-> quote]
Library ==
    [manifest |-> [Silent EXCEPT !.names = {7}, !.prose = {1, 7}],
     fork     |-> [Silent EXCEPT !.names = {7}, !.title = {1}, !.prose = {2},
                                 !.statuses = {"wip"}, !.deps = {<<"a">>},
                                 !.claims = {Claim(0, 1, 1), Claim(1, 1, 3)}],
     rival    |-> [Silent EXCEPT !.names = {8}, !.title = {1}, !.refs = {<<"d", "b">>},
                                 !.claims = {Claim(1, 2, 1)}],
     note     |-> [Silent EXCEPT !.title = {1}, !.heading = {2}, !.prose = {3},
                                 !.statuses = {"done"}, !.tasks = {4, 5},
                                 !.claims = {Claim(4, 1, 3)}],
     revision |-> [Silent EXCEPT !.title = {1}, !.heading = {2, 9}, !.prose = {3, 5},
                                 !.statuses = {"wip"}, !.replaces = {<<"a">>},
                                 !.claims = {Claim(0, 1, 3), Claim(1, 1, 1)}],
     essay    |-> [Silent EXCEPT !.prose = {6}, !.tasks = {4}],
     echo     |-> [Silent EXCEPT !.prose = {9}, !.heading = {2}]]
Volume == DOMAIN Library

Either(f, p) ==
    IF p \in DOMAIN f THEN f[p] ELSE IF <<p[2], p[1]>> \in DOMAIN f THEN f[<<p[2], p[1]>>] ELSE 0
NearScores == [p \in Volume \X Volume |-> Either(<<"note", "revision">> :> 900, p)]
Vectors ==
    <<"essay", "note">> :> 900 @@ <<"essay", "echo">> :> 800 @@ <<"fork", "rival">> :> 760
        @@ <<"note", "revision">> :> 990
Cosines == [p \in Volume \X Volume |-> IF p[1] = p[2] THEN 1000 ELSE Either(Vectors, p)]

\* Two mounts hold a file "a"; one file is in an archive.
Located(archives, path) == [archives |-> archives, path |-> path]
FourPlaces ==
    <<Located(<<>>, <<"a">>), Located(<<>>, <<"d", "b">>),
      Located(<<"old.zip">>, <<"old", "a">>), Located(<<>>, <<"a">>)>>

\* 1000 * ln((documents + 1) / (those with the word + 1))
InverseFrequency == <<<<0>>, <<405, 0>>, <<693, 288, 0>>, <<916, 511, 223, 0>>>>
SmallPack == [artifacts |-> 2, quotes |-> 1, quote |-> 2, total |-> 6, entries |-> 1]

-----------------------------------------------------------------------------
SemanticInit == placed = <<>> /\ phrases = <<>> /\ pairs = [plain |-> <<>>, modelled |-> <<>>]

Puts(at, body) ==
    /\ \A i \in DOMAIN placed : placed[i].at < at
    /\ placed' = Append(placed, [at |-> at, body |-> body])
    /\ phrases' = [i \in DOMAIN placed' |-> Keyphrases(placed', i)]
    /\ pairs' = [plain |-> SemanticPairs(placed', phrases', FALSE),
                 modelled |-> SemanticPairs(placed', phrases', TRUE)]

SemanticNext ==
    /\ Len(placed) < MostPlaced
    /\ \E at \in DOMAIN PlaceOf, body \in DOMAIN Features : Puts(at, body)

SemanticSpec == SemanticInit /\ [][SemanticNext]_semanticVars

-----------------------------------------------------------------------------
\* What one stage of the semantic pass owes another, in each corpus.
StagesAgree ==
    /\ EmbeddingsOnlyAdd(placed, pairs.plain, pairs.modelled)
    /\ PacksAddUp(placed, pairs.plain)

\* src/corpus_reasoning.ts:242-244: "the property that matters most -- that exact
\* duplicates and embedding-only candidates never reach a reasoner".
CopiesNeedNoReasoner == NothingButCopies(placed, pairs.plain)
=============================================================================
