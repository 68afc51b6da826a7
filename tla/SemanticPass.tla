---------------------------- MODULE SemanticPass ----------------------------
(***************************************************************************)
(* From documents to the queue of a reasoner: what two documents have in   *)
(* common (corpus_pairs.ts), what is concluded from it (corpus_fusion.ts), *)
(* and which conclusions are worth a language model's attention, with what *)
(* evidence (corpus_reasoning.ts).  runSemanticAnalysis runs the stages in *)
(* one pass, and so does each operator here: a function of the corpus.     *)
(*                                                                         *)
(* A corpus is a sequence of documents, each a body at a place.  All that  *)
(* is read out of a document is read out of its body, so that copies agree.*)
(* Scores and weights are in units of 1/Unit, the six decimals of the code;*)
(* a word occurs once in a field, and a list entry is one unit of a pack.  *)
(***************************************************************************)
EXTENDS Integers, Sequences, SequencesExt, FiniteSets, FiniteSetsExt

CONSTANTS
    Features,       \* body -> what is read out of it
    NearOf,         \* body, body -> near-duplicate score, 0 for none
    CosineOf,       \* body, body -> cosine of the embeddings
    PlaceOf,        \* place -> its root, the archives it is in, and its path
    Idf,            \* documents, those with a word -> the word's weight
    Unit,           \* 10^6
    PostingCeiling, \* MAX_POSTINGS_FOR_PAIR_GENERATION
    MostPhrases,    \* MAX_KEYPHRASES_PER_ARTIFACT
    Terminal, Active,   \* TERMINAL_STATUSES, ACTIVE_STATUSES
    Budget          \* ReasoningPackBudget, and the cap of a list field

ASSUME FeaturesAssumption ==
    \A b \in DOMAIN Features :
        /\ {"title", "heading", "names", "prose", "refs", "deps", "replaces", "statuses",
            "tasks", "claims"} \subseteq DOMAIN Features[b]
        /\ \A field \in DOMAIN Features[b] : IsFiniteSet(Features[b][field])
ASSUME ClaimsAssumption ==
    \A b \in DOMAIN Features : \A c \in Features[b].claims :
        /\ c.band \in Nat /\ c.id \in Nat /\ c.said \in Nat /\ c.quote \in Nat
        /\ \A d \in Features[b].claims : d.id = c.id => d = c
ASSUME BudgetAssumption ==
    \A field \in {"artifacts", "quotes", "quote", "total", "entries"} :
        field \in DOMAIN Budget /\ Budget[field] \in Nat
ASSUME UnitAssumption == Unit \in Nat \ {0} /\ Unit % 100 = 0

View(docs, i)    == Features[docs[i].body]
Place(docs, i)   == PlaceOf[docs[i].at]
Fraction(n, d)   == (2 * n * Unit + d) \div (2 * d)
Percent(n)       == n * (Unit \div 100)
Lesser(m, n)     == IF m < n THEN m ELSE n
Weighs(f)        == MapThenSumSet(LAMBDA x : f[x], DOMAIN f)

-----------------------------------------------------------------------------
(* corpus_semantics.ts: what is looked at in one document.                 *)

FieldWeights == [title |-> 4, heading |-> 3, names |-> 3, prose |-> 1]

Words(f) == UNION {f[field] : field \in DOMAIN FieldWeights}

\* The heaviest words, by field and by rarity; one that all have weighs nothing.
Keyphrases(docs, i) ==
    LET having(w) == Cardinality({j \in DOMAIN docs : w \in Words(View(docs, j))})
        fields(w) == {field \in DOMAIN FieldWeights : w \in View(docs, i)[field]}
        weight    == [w \in Words(View(docs, i)) |->
                        MapThenSumSet(LAMBDA field : FieldWeights[field], fields(w))
                            * Idf[Len(docs)][having(w)]]
        kept      == {w \in DOMAIN weight : weight[w] > 0}
        Ahead(v, w) == \/ weight[v] > weight[w]
                       \/ weight[v] = weight[w] /\ v < w
    IN  [w \in {x \in kept : Cardinality({v \in kept : Ahead(v, x)}) < MostPhrases} |->
            weight[w]]

-----------------------------------------------------------------------------
(* corpus_pairs.ts: what two documents have in common.                     *)

SignalFamily ==
    [title_overlap |-> "lexical", heading_overlap |-> "lexical",
     keyphrase_overlap |-> "lexical", near_duplicate |-> "lexical",
     exact_duplicate |-> "lexical", declared_identifier_match |-> "declared_identity",
     explicit_reference |-> "graph", dependency_overlap |-> "graph",
     embedding_similarity |-> "semantic_model", archive_context |-> "context"]

JaccardOf(a, b) ==
    IF a = {} \/ b = {} THEN 0 ELSE Fraction(Cardinality(a \cap b), Cardinality(a \cup b))

KeyphraseOverlap(a, b) ==
    LET shared == DOMAIN a \cap DOMAIN b
    IN  IF shared = {} THEN 0
        ELSE Fraction(MapThenSumSet(LAMBDA w : Lesser(a[w], b[w]), shared),
                      Lesser(Weighs(a), Weighs(b)))

\* The documents a written target means: the ones at that path or, when there are
\* none, those of that name.  Only a single one is meant.
Meant(docs, target) ==
    LET exact == {i \in DOMAIN docs : Place(docs, i).path = target}
    IN  IF exact # {} THEN exact
        ELSE {i \in DOMAIN docs : Last(Place(docs, i).path) = Last(target)}
ResolveReference(docs, target, i) == Meant(docs, target) = {i}

Cluster(docs, i) == {j \in DOMAIN docs : docs[j].body = docs[i].body}

\* The supersessions declared by one of the two of the other (evidence_refs).
Supersessions(docs, p) ==
    UNION {{<<i, t>> : t \in {u \in View(docs, i).replaces :
                                \E j \in p \ {i} : ResolveReference(docs, u, j)}} : i \in p}

Targets(f) == f.refs \cup f.deps \cup f.replaces
Refers(docs, i, j) == \E t \in Targets(View(docs, i)) : ResolveReference(docs, t, j)

Offers(docs, model, i, j) ==
    /\ model
    /\ CosineOf[docs[i].body, docs[j].body] >= Percent(75)

\* scorePair: every signal by its score, 0 for one that does not fire.
ScorePair(docs, phrases, model, i, j) ==
    LET a == View(docs, i)
        b == View(docs, j)
        Categorical(fires) == IF fires THEN Unit ELSE 0
    IN  [title_overlap      |-> JaccardOf(a.title, b.title),
         heading_overlap    |-> JaccardOf(a.heading, b.heading),
         keyphrase_overlap  |-> KeyphraseOverlap(phrases[i], phrases[j]),
         declared_identifier_match |-> Categorical(a.names \cap b.names # {}),
         explicit_reference |-> Categorical(Refers(docs, i, j) \/ Refers(docs, j, i)),
         dependency_overlap |-> JaccardOf(a.deps, b.deps),
         near_duplicate     |-> NearOf[docs[i].body, docs[j].body],
         exact_duplicate    |-> Categorical(j \in Cluster(docs, i)),
         embedding_similarity |->
            IF Offers(docs, model, i, j) THEN CosineOf[docs[i].body, docs[j].body] ELSE 0,
         archive_context    |-> Categorical(ToSet(Place(docs, i).archives)
                                              \cap ToSet(Place(docs, j).archives) # {})]

\* pairsFromIndex: a word shared by too many proposes nobody.
Blocks(postings, w) ==
    Cardinality({i \in DOMAIN postings : w \in postings[i]}) <= PostingCeiling

Proposed(docs, phrases, model, i, j) ==
    LET worded == [k \in DOMAIN docs |-> DOMAIN phrases[k]]
        titled == [k \in DOMAIN docs |-> View(docs, k).title]
    IN  \/ \E w \in worded[i] \cap worded[j] : Blocks(worded, w)
        \/ \E w \in titled[i] \cap titled[j] : Blocks(titled, w)
        \/ View(docs, i).names \cap View(docs, j).names # {}
        \/ j \in Cluster(docs, i)
        \/ Refers(docs, i, j) \/ Refers(docs, j, i)
        \/ NearOf[docs[i].body, docs[j].body] > 0
        \/ Offers(docs, model, i, j)

Fired(s) == {k \in DOMAIN s : s[k] > 0}

\* buildSemanticPairs: the scores of the pairs that some index proposes.
SemanticPairs(docs, phrases, model) ==
    LET scores == [p \in kSubset(2, DOMAIN docs) |->
                      ScorePair(docs, phrases, model, Min(p), Max(p))]
    IN  [p \in {q \in DOMAIN scores :
                    /\ Proposed(docs, phrases, model, Min(q), Max(q))
                    /\ Fired(scores[q]) # {}} |-> scores[p]]

-----------------------------------------------------------------------------
(* corpus_fusion.ts: what is concluded.                                    *)

SourceDeclared == {"declared_identifier_match", "explicit_reference"}

\* STRONG_SIGNAL_THRESHOLDS, and what isStrong says of the other kinds.
StrongFrom ==
    [title_overlap |-> 50, heading_overlap |-> 50, keyphrase_overlap |-> 50,
     dependency_overlap |-> 50, near_duplicate |-> 85, embedding_similarity |-> 85]
IsStrong(s, k) ==
    k \in Fired(s) /\ \/ k \in SourceDeclared \cup {"exact_duplicate"}
                      \/ k \in DOMAIN StrongFrom /\ s[k] >= Percent(StrongFrom[k])

Families(kinds) == {SignalFamily[k] : k \in kinds} \ {"context"}
Supporting(s)   == Families(Fired(s))
Strongs(s)      == {k \in Fired(s) : IsStrong(s, k)}

Mutant_EveryFamilyStrong(s) ==
    IF /\ Cardinality(Families(Strongs(s))) >= 2
       /\ Supporting(s) = Families(Strongs(s))
    THEN "strong" ELSE IF Strongs(s) = {} THEN "weak" ELSE "moderate"

\* Evidence is counted by family: a family corroborates another, and two strong
\* metrics of one family go half the way.  A model is never believed alone.
ConfidenceClass(s) ==
    LET corroborated == Cardinality(Supporting(s)) >= 2
        halfway == \/ Strongs(s) \cap SourceDeclared # {}
                   \/ \E k, l \in Strongs(s) : k # l /\ SignalFamily[k] = SignalFamily[l]
    IN  IF Supporting(s) \in {{}, {"semantic_model"}} THEN "weak"
        ELSE IF corroborated /\ Cardinality(Families(Strongs(s))) >= 2 THEN "strong"
        ELSE IF corroborated \/ halfway THEN "moderate" ELSE "weak"

\* connectedComponents: the smallest sets of documents that no edge leaves.
Components(edges) ==
    LET closed == {s \in SUBSET UNION edges :
                      s # {} /\ \A e \in edges : e \cap s # {} => e \subseteq s}
    IN  {s \in closed : \A r \in closed : r \subseteq s => r = s}

Within(pairs, members) == {p \in DOMAIN pairs : p \subseteq members}

TopicCandidates(pairs) ==
    Components({p \in DOMAIN pairs : ConfidenceClass(pairs[p]) # "weak"})

IsProjectEligibleEdge(s) ==
    LET families == Supporting(s)
    IN  \/ families \cap {"declared_identity", "graph"} # {}
        \/ Cardinality(families) >= 2 /\ "lexical" \in families

ProjectCandidates(pairs) ==
    Components({p \in DOMAIN pairs : IsProjectEligibleEdge(pairs[p])})

Statuses(docs, members) == UNION {View(docs, i).statuses : i \in members}
BodiesOf(docs, members) == {docs[i].body : i \in members}
Clusters(docs, members) ==
    {Cluster(docs, i) : i \in {j \in members : Cardinality(Cluster(docs, j)) > 1}}

ConflictingStatuses(docs, members) ==
    /\ Statuses(docs, members) \cap Terminal # {}
    /\ Statuses(docs, members) \cap Active # {}

\* buildConsolidationCandidates: copies, a near or a superseding pair, and a
\* project that holds versions of something.
ConsolidationCandidates(docs, pairs) ==
    LET lineage(p) == Supersessions(docs, p) # {} \/ pairs[p].near_duplicate > 0
        versions(members) ==
            /\ Cardinality(BodiesOf(docs, members)) >= 2
            /\ \E p \in Within(pairs, members) : lineage(p)
    IN  Clusters(docs, DOMAIN docs)
        \cup {p \in DOMAIN pairs : lineage(p)}
        \cup {members \in ProjectCandidates(pairs) : versions(members)}

-----------------------------------------------------------------------------
(* corpus_reasoning.ts: which conclusions go to a reasoner ...             *)

RouteTopic(pairs, members) ==
    LET within == Within(pairs, members)
    IN  IF /\ \E p \in within : ConfidenceClass(pairs[p]) = "strong"
           /\ Cardinality(UNION {Supporting(pairs[p]) : p \in within}) >= 2
        THEN "SAME_BODY_OF_WORK_ADJUDICATION" ELSE "NONE"

Names(docs, members)     == UNION {View(docs, i).names : i \in members}
Ancestries(docs, members) == {Place(docs, i).archives : i \in members}

\* Here a supersession counts wherever it points.
RouteProject(docs, members) ==
    LET clusters == Cardinality(Clusters(docs, members))
        mixed    == clusters > 0 /\ Cardinality(members) > clusters + 1
        declared == MapThenSumSet(LAMBDA i : Cardinality(View(docs, i).replaces), members)
    IN  IF ConflictingStatuses(docs, members) THEN "CONFLICT_RESOLUTION_ANALYSIS"
        ELSE IF declared > 1 /\ mixed THEN "SUPERSESSION_ANALYSIS"
        ELSE IF Cardinality(Ancestries(docs, members)) > 1 /\ clusters > 0
             THEN "VERSION_EVOLUTION_ANALYSIS"
        ELSE IF Cardinality(Names(docs, members)) > 1
             THEN "PROJECT_IDENTITY_ADJUDICATION" ELSE "NONE"

RouteConsolidation(docs, pairs, members) ==
    IF Cardinality(BodiesOf(docs, members)) <= 1 THEN "NONE"
    ELSE IF ConflictingStatuses(docs, members) THEN "CONFLICT_RESOLUTION_ANALYSIS"
    ELSE IF \E p \in Within(pairs, members) : Supersessions(docs, p) # {}
         THEN "SUPERSESSION_ANALYSIS"
    ELSE "CONSOLIDATION_ANALYSIS"

Row(type, members, reasoning) == [type |-> type, members |-> members, reasoning |-> reasoning]

\* routeReasoningCandidates: a row for each, the ones that go nowhere included.
ReasoningCandidates(docs, pairs) ==
    {Row("TOPIC", m, RouteTopic(pairs, m)) : m \in TopicCandidates(pairs)}
    \cup {Row("PROJECT", m, RouteProject(docs, m)) : m \in ProjectCandidates(pairs)}
    \cup {Row("CONSOLIDATION", m, RouteConsolidation(docs, pairs, m)) :
             m \in ConsolidationCandidates(docs, pairs)}

ReasoningEligible(rows) == {row \in rows : row.reasoning # "NONE"}

-----------------------------------------------------------------------------
(* ... and with what evidence.                                             *)

\* What has been ranked as a sequence: rank tells how many come before an element.
Ordered(rank) ==
    [n \in 1 .. Cardinality(DOMAIN rank) |-> CHOOSE x \in DOMAIN rank : rank[x] = n - 1]

Item(band, artifact, kind, index, charge, original) ==
    [band |-> band, artifact |-> artifact, kind |-> kind, index |-> index,
     charge |-> charge, original |-> original]

\* The quoted claims of a document in order of priority; a long quote is cut.
Claims(docs, i) ==
    LET sooner(c, d) == \/ c.band < d.band
                        \/ c.band = d.band /\ c.id < d.id
        claims  == View(docs, i).claims
        ordered == Ordered([c \in claims |-> Cardinality({d \in claims : sooner(d, c)})])
    IN  {Item(ordered[n].band, i, 0, n, ordered[n].said + Lesser(ordered[n].quote, Budget.quote),
              ordered[n].said + ordered[n].quote) : n \in DOMAIN ordered}

\* The entries of its lists, each list in its band; the last two have a cap.
ListFields(f) ==
    << <<0, f.statuses>>, <<1, f.replaces>>, <<1, f.refs>>, <<1, f.deps>>,
       <<2, f.title>>, <<2, f.heading>>, <<4, f.tasks>> >>
ListEntries(docs, i) ==
    UNION {LET field == ListFields(View(docs, i))[kind]
           IN  {Item(field[1], i, kind, n, 1, 1) : n \in 1 .. Cardinality(field[2])} :
              kind \in DOMAIN ListFields(View(docs, i))}

Capped(item) ==
    \/ item.kind = 0 /\ item.index > Budget.quotes
    \/ item.kind \in {6, 7} /\ item.index > Budget.entries

Mutant_ArtifactByArtifact(x, y) ==
    \/ x.artifact < y.artifact
    \/ x.artifact = y.artifact /\ x.band < y.band
    \/ x.artifact = y.artifact /\ x.band = y.band /\ x.kind < y.kind
    \/ x.artifact = y.artifact /\ x.band = y.band /\ x.kind = y.kind /\ x.index < y.index

\* One budget for all the artifacts of a pack, spent band by band.
Charged(x, y) ==
    \/ x.band < y.band
    \/ x.band = y.band /\ x.artifact < y.artifact
    \/ x.band = y.band /\ x.artifact = y.artifact /\ x.kind < y.kind
    \/ x.band = y.band /\ x.artifact = y.artifact /\ x.kind = y.kind /\ x.index < y.index

PackItems(docs, members) ==
    LET selected == {i \in members : Cardinality({j \in members : j < i}) < Budget.artifacts}
    IN  UNION {Claims(docs, i) \cup ListEntries(docs, i) : i \in selected}

\* buildReasoningEvidencePacks, for the members of one row.
EvidencePack(docs, members) ==
    LET Spend(pack, item) ==
            IF Capped(item) \/ pack.used + item.charge > Budget.total
            THEN [pack EXCEPT !.omitted = @ + item.original]
            ELSE [used |-> pack.used + item.charge, kept |-> pack.kept \cup {item},
                  omitted |-> pack.omitted + item.original - item.charge]
        items == PackItems(docs, members)
        order == Ordered([x \in items |-> Cardinality({y \in items : Charged(y, x)})])
    IN  FoldLeft(Spend, [used |-> 0, kept |-> {}, omitted |-> 0], order)

-----------------------------------------------------------------------------
(* What the stages owe one another.                                        *)

Rows(docs, pairs) == ReasoningEligible(ReasoningCandidates(docs, pairs))

\* A model only adds: whatever a reasoner would be asked without embeddings it is
\* asked with them, of the same kind and about those documents at least; a close
\* vector never makes a candidate less ambiguous or splits one.
EmbeddingsOnlyAdd(docs, plain, modelled) ==
    LET more == Rows(docs, modelled)
    IN  \A row \in Rows(docs, plain) :
           \E r \in more : r.type = row.type /\ row.members \subseteq r.members

\* A pack stays within its budget and accounts for every unit it leaves out of the
\* documents it selects, and what it leaves out of them would not have fitted behind what is more pressing: one
\* document's work cannot starve another's conflict.
PackAddsUp(docs, members) ==
    LET pack  == EvidencePack(docs, members)
        items == PackItems(docs, members)
        Charge(item) == item.charge
        Original(item) == item.original
        pressing(item) == {k \in pack.kept : k.band <= item.band}
    IN  /\ pack.used <= Budget.total
        /\ pack.used + pack.omitted = MapThenSumSet(Original, items)
        /\ \A item \in items \ pack.kept :
              \/ Capped(item)
              \/ item.charge + MapThenSumSet(Charge, pressing(item)) > Budget.total

\* So does every pack of the queue.
PacksAddUp(docs, pairs) ==
    \A members \in {row.members : row \in Rows(docs, pairs)} : PackAddsUp(docs, members)

\* The queue asks of no two documents whose bytes are the same and nothing else.
NothingButCopies(docs, pairs) ==
    \A row \in Rows(docs, pairs) : Cardinality(BodiesOf(docs, row.members)) > 1
=============================================================================
