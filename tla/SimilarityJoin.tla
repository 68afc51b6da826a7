--------------------------- MODULE SimilarityJoin ---------------------------
(***************************************************************************)
(* Which documents of a corpus resemble each other: near-duplicates        *)
(* (corpus_analysis.ts) and topics (corpus_candidates.ts).  Both compare   *)
(* sets by Jaccard and reach the pairs through an index over each set's    *)
(* rarest elements; both claim that the index loses no pair.               *)
(*                                                                         *)
(* A document is a set of terms (shingles, or the vocabulary, each used    *)
(* once) and a kind: "short" is below the minimum of tokens, and two       *)
(* "copy"s with the same terms are the same bytes.  A score is in units of *)
(* 1/Scale, the six decimals of the code.                                  *)
(***************************************************************************)
EXTENDS Integers, Sequences, SequencesExt, FiniteSets, FiniteSetsExt

CONSTANTS
    Terms,         \* naturals, in code-point order
    Scale,         \* 10^6
    Salient,       \* TOPIC_SALIENT_TERMS
    CeilingFrom,   \* TOPIC_DOCUMENT_FREQUENCY_MIN_DOCUMENTS
    CeilingOf,     \* TOPIC_DOCUMENT_FREQUENCY_CEILING, as <<numerator, denominator>>
    Thresholds     \* in units of 1/Scale

ASSUME JoinAssumption ==
    Terms \subseteq Nat /\ IsFiniteSet(Terms) /\ Scale \in Nat \ {0} /\ Thresholds \subseteq 0 .. Scale

CorpusDocument == [terms : SUBSET Terms, kind : {"text", "copy", "short"}]

Larger(m, n)  == IF m < n THEN n ELSE m
CeilDiv(n, d) == (n + d - 1) \div d

\* Round half up, of n/d in units of 1/Scale.
RoundScore(n, d) == (2 * n * Scale + d) \div (2 * d)

Jaccard(a, b) ==
    IF a \cup b = {} THEN 0 ELSE RoundScore(Cardinality(a \cap b), Cardinality(a \cup b))

Eligible(docs) ==
    FoldLeft(LAMBDA kept, d : IF d.kind = "short" THEN kept ELSE Append(kept, d), <<>>, docs)
PairIneligible(d, e) == d.kind = "copy" /\ e.kind = "copy" /\ d.terms = e.terms

-----------------------------------------------------------------------------
(* The index: the elements of a set that come first in one global order.   *)

Frequency(sets, t)  == Cardinality({i \in DOMAIN sets : t \in sets[i]})
Rarer(sets, s, t)   == \/ Frequency(sets, s) < Frequency(sets, t)
                       \/ Frequency(sets, s) = Frequency(sets, t) /\ s < t
Prefix(sets, set, n) == {t \in set : Cardinality({s \in set : Rarer(sets, s, t)}) < n}

\* Smallest set first; a set meets the partners that were indexed before it.
Sooner(sets, i, j) == \/ Cardinality(sets[i]) < Cardinality(sets[j])
                      \/ Cardinality(sets[i]) = Cardinality(sets[j]) /\ i < j

\* The partners the postings offer to the i-th set, when every set has been
\* indexed under the prefix of the given length.
Offered(order, sets, length, i) ==
    LET Start(j) == Prefix(order, sets[j], length[j])
    IN  {j \in DOMAIN sets : Sooner(sets, j, i) /\ Start(j) \cap Start(i) # {}}

-----------------------------------------------------------------------------
(* Near-duplicates                                                         *)

\* Twice the lowest score that still rounds to the threshold.
AdmittedNumerator(t) == 2 * t - 1

Mutant_StricterThanTheTest(size, t) ==
    IF size = 0 THEN 0 ELSE Larger(1, size - CeilDiv(t * size, Scale) + 1)

PrefixLength(size, t) ==
    IF size = 0 THEN 0
    ELSE Larger(1, size - CeilDiv(AdmittedNumerator(t) * size, 2 * Scale) + 1)

NearDuplicatesExhaustive(docs, t) ==
    {pair \in kSubset(2, DOMAIN docs) :
        \A i, j \in pair : i # j => /\ ~PairIneligible(docs[i], docs[j])
                                    /\ Jaccard(docs[i].terms, docs[j].terms) >= t}

NearDuplicatesIndexed(docs, t) ==
    LET sets   == [i \in DOMAIN docs |-> docs[i].terms]
        length == [i \in DOMAIN docs |-> PrefixLength(Cardinality(sets[i]), t)]
        Qualifies(i, j) ==
            /\ 2 * Scale * Cardinality(sets[j]) >= AdmittedNumerator(t) * Cardinality(sets[i])
            /\ ~PairIneligible(docs[i], docs[j])
            /\ Jaccard(sets[i], sets[j]) >= t
    IN  UNION {{{i, j} : j \in {k \in Offered(sets, sets, length, i) : Qualifies(i, k)}} :
                   i \in DOMAIN docs}

NearDuplicates(docs, t) ==
    IF t = 0 THEN NearDuplicatesExhaustive(docs, t) ELSE NearDuplicatesIndexed(docs, t)

-----------------------------------------------------------------------------
(* Topics                                                                  *)

\* Not boilerplate, and among the first few in code-point order.
SalientTerms(docs, d) ==
    LET sets == [i \in DOMAIN docs |-> docs[i].terms]
        kept == {t \in d.terms :
                    \/ Len(docs) < CeilingFrom
                    \/ Frequency(sets, t) * CeilingOf[2] <= Len(docs) * CeilingOf[1]}
    IN  {t \in kept : Cardinality({s \in kept : s < t}) < Salient}

TopicPrefixLength(size, t) ==
    IF size = 0 THEN 0 ELSE Larger(1, size - CeilDiv(t * size, Scale) + 1)

\* The quotient itself is compared, and not its rounding.
Reaches(a, b, t) ==
    a # {} /\ b # {} /\ Cardinality(a \cap b) * Scale >= t * Cardinality(a \cup b)

Union(label, i, j) ==
    [k \in DOMAIN label |-> IF label[k] = label[i] THEN label[j] ELSE label[k]]

\* One document meets its partners: those of its own component are skipped,
\* those too small are not measured, and the rest join it when they qualify.
Visit(docs, features, t, label, i) ==
    LET raw    == [j \in DOMAIN docs |-> docs[j].terms]
        length == [j \in DOMAIN docs |-> TopicPrefixLength(Cardinality(features[j]), t)]
        Meet(j, l) ==
            IF \/ l[j] = l[i]
               \/ Cardinality(features[j]) * Scale < t * Cardinality(features[i])
               \/ ~Reaches(features[i], features[j], t)
            THEN l ELSE Union(l, j, i)
    IN  FoldSet(Meet, label, Offered(raw, features, length, i))

\* The documents are visited smallest first: the latest of them after the others.
Visits(docs, features, t) ==
    LET Latest(s) == CHOOSE i \in s : \A j \in s \ {i} : Sooner(features, j, i)
    IN  MapThenFoldSet(LAMBDA i, l : Visit(docs, features, t, l, i), [i \in DOMAIN docs |-> i],
                       LAMBDA i : i, Latest, DOMAIN docs)

Topics(all, t) ==
    LET docs     == Eligible(all)
        features == [i \in DOMAIN docs |-> SalientTerms(docs, docs[i])]
        label    == Visits(docs, features, t)
    IN  IF Len(docs) < 2 THEN {}
        ELSE IF t = 0 THEN {DOMAIN docs}
        ELSE {c \in {{i \in DOMAIN docs : label[i] = n} : n \in DOMAIN docs} :
                 Cardinality(c) > 1}

\* The connected components, with every pair compared.
TopicsExhaustive(all, t) ==
    LET docs     == Eligible(all)
        features == [i \in DOMAIN docs |-> SalientTerms(docs, docs[i])]
        Closed(s) == \A i \in s, j \in DOMAIN docs :
                        t = 0 \/ Reaches(features[i], features[j], t) => j \in s
        closed   == {s \in SUBSET DOMAIN docs : s # {} /\ Closed(s)}
    IN  {s \in closed : Cardinality(s) > 1 /\ \A r \in closed : r \subseteq s => r = s}

-----------------------------------------------------------------------------
\* The index is a filter and not a sample: at every threshold it finds the
\* pairs and the topics that comparing everything with everything would.
JoinsAreExact(docs) ==
    \A t \in Thresholds :
        /\ NearDuplicates(Eligible(docs), t) = NearDuplicatesExhaustive(Eligible(docs), t)
        /\ Topics(docs, t) = TopicsExhaustive(docs, t)
=============================================================================
