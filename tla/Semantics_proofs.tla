-------------------------- MODULE Semantics_proofs --------------------------
(***************************************************************************)
(* Proofs about what a scan finds alike:                                   *)
(*   - the similarity joins.  The prefix index is a filter and not a       *)
(*     sample: two sets that are similar enough share one of their rarest  *)
(*     elements, however scores are rounded; and a topic is a connected    *)
(*     component, though the visits skip and filter what they are offered; *)
(*   - the semantic pass.  Embeddings only add signals, a signal more never*)
(*     lowers a class of confidence, and more edges join components and    *)
(*     split none: so a model only adds to what a reasoner is asked.  An   *)
(*     evidence pack is a walk through its items in the order of priority, *)
(*     and what is left out did not fit behind what was kept before it;    *)
(*   - the embeddings.  For every pool, corpus and server the vectors of a *)
(*     finished pass are whole, of one revision and of one length; and no  *)
(*     late answer, no request after a failure.  The invariant ties each   *)
(*     worker's partial answers to the revisions seen and to the dimension *)
(*     of the pass, and every document before the cursor to a vector or to *)
(*     the worker that has it.                                             *)
(***************************************************************************)
EXTENDS SimilarityJoin, SemanticPass, EmbeddingPass,
        FiniteSetTheorems, WellFoundedInduction, TLAPS

-----------------------------------------------------------------------------
(* Division                                                                *)

LEMMA Division ==
    ASSUME NEW n \in Nat, NEW d \in Nat \ {0}
    PROVE  /\ n \div d \in Nat
           /\ d * (n \div d) <= n
           /\ n < d * (n \div d) + d
  OBVIOUS

LEMMA ProductsCompare ==
    ASSUME NEW a \in Int, NEW b \in Int, NEW d \in Nat \ {0}, d * a < d * b
    PROVE  a < b
  OBVIOUS

\* What reaches a quotient reaches its ceiling.
LEMMA CeilDivIsLeast ==
    ASSUME NEW n \in Nat, NEW m \in Nat, NEW d \in Nat \ {0}, m <= d * n
    PROVE  CeilDiv(m, d) \in Nat /\ CeilDiv(m, d) <= n
  <1> DEFINE q == (m + d - 1) \div d
  <1>1. m + d - 1 \in Nat
    OBVIOUS
  <1>2. q \in Nat /\ d * q <= m + d - 1
    BY <1>1, Division
  <1> HIDE DEF q
  <1>3. d * q < d * n + d
    BY <1>2
  <1>4. d * (n + 1) = d * n + d
    OBVIOUS
  <1>5. q < n + 1
    BY <1>2, <1>3, <1>4, ProductsCompare
  <1> QED
    BY <1>2, <1>5 DEF CeilDiv, q

\* A score that rounds to the threshold shares at least this much.
LEMMA RoundingAdmits ==
    ASSUME NEW n \in Nat, NEW d \in Nat \ {0}, NEW t \in Nat, t > 0, RoundScore(n, d) >= t
    PROVE  2 * Scale * n >= AdmittedNumerator(t) * d
  <1> DEFINE m == 2 * n * Scale + d
             q == m \div (2 * d)
  <1>0. Scale \in Nat \ {0}
    BY JoinAssumption
  <1>1. m \in Nat /\ 2 * d \in Nat \ {0}
    BY <1>0
  <1>2. q \in Nat /\ (2 * d) * q <= m
    BY <1>1, Division
  <1>3. q >= t
    BY DEF RoundScore
  <1>4. (2 * d) * t <= (2 * d) * q
    <2> HIDE DEF q
    <2> QED  BY <1>2, <1>3
  <1>5. (2 * d) * t <= 2 * n * Scale + d
    <2> HIDE DEF q
    <2> QED  BY <1>0, <1>1, <1>2, <1>4
  <1>6. (2 * d) * t = (2 * t - 1) * d + d
    OBVIOUS
  <1>7. 2 * n * Scale = 2 * Scale * n
    BY <1>0
  <1> QED
    BY <1>0, <1>5, <1>6, <1>7 DEF AdmittedNumerator

-----------------------------------------------------------------------------
(* Rarity                                                                  *)

SetsOfTerms == Seq(SUBSET Terms)

LEMMA SetsAreFinite ==
    ASSUME NEW sets \in SetsOfTerms
    PROVE  /\ IsFiniteSet(DOMAIN sets)
           /\ \A i \in DOMAIN sets : /\ sets[i] \in SUBSET Terms /\ IsFiniteSet(sets[i])
                                     /\ Cardinality(sets[i]) \in Nat
           /\ \A s : Frequency(sets, s) \in Nat
  <1>1. DOMAIN sets = 1 .. Len(sets) /\ Len(sets) \in Nat
    BY DEF SetsOfTerms
  <1>2. IsFiniteSet(DOMAIN sets)
    BY <1>1, FS_Interval
  <1>3. ASSUME NEW s
        PROVE  Frequency(sets, s) \in Nat
    <2>1. {i \in DOMAIN sets : s \in sets[i]} \in SUBSET DOMAIN sets
      OBVIOUS
    <2>2. IsFiniteSet({i \in DOMAIN sets : s \in sets[i]})
      BY <1>2, <2>1, FS_Subset
    <2> QED  BY <2>2, FS_CardinalityType DEF Frequency
  <1>4. ASSUME NEW i \in DOMAIN sets
        PROVE  /\ sets[i] \in SUBSET Terms /\ IsFiniteSet(sets[i])
               /\ Cardinality(sets[i]) \in Nat
    <2>1. sets[i] \in SUBSET Terms
      BY DEF SetsOfTerms
    <2>2. IsFiniteSet(sets[i])
      BY <2>1, JoinAssumption, FS_Subset
    <2> QED  BY <2>1, <2>2, FS_CardinalityType
  <1> QED  BY <1>2, <1>3, <1>4

LEMMA LeastNatural ==
    ASSUME NEW S \in SUBSET Nat, S # {}
    PROVE  \E n \in S : \A m \in S : n <= m
  <1>1. PICK n \in S : \A m \in S : ~(<<m, n>> \in OpToRel(<, Nat))
    BY NatLessThanWellFounded, WFMin
  <1>2. \A m \in S : ~(m < n)
    BY <1>1 DEF OpToRel
  <1> QED  BY <1>2

\* Among any terms one is the rarest.
LEMMA RarestExists ==
    ASSUME NEW sets \in SetsOfTerms, NEW shared \in SUBSET Terms, shared # {}
    PROVE  \E t \in shared : \A s \in shared : ~Rarer(sets, s, t)
  <1> DEFINE F(s) == Frequency(sets, s)
  <1>0. shared \in SUBSET Nat /\ \A s \in shared : F(s) \in Nat
    BY JoinAssumption, SetsAreFinite
  <1>1. PICK f \in {F(s) : s \in shared} : \A g \in {F(s) : s \in shared} : f <= g
    <2> HIDE DEF F
    <2>1. {F(s) : s \in shared} \in SUBSET Nat /\ {F(s) : s \in shared} # {}
      BY <1>0
    <2> QED  BY <2>1, LeastNatural
  <1> DEFINE rare == {s \in shared : F(s) = f}
  <1>2. PICK t \in rare : \A s \in rare : t <= s
    <2>1. rare \in SUBSET Nat /\ rare # {}
      BY <1>0, <1>1
    <2> HIDE DEF rare
    <2> QED  BY <2>1, LeastNatural
  <1>3. ASSUME NEW s \in shared
        PROVE  ~Rarer(sets, s, t)
    <2>1. F(t) = f /\ F(t) <= F(s) /\ F(t) \in Nat /\ F(s) \in Nat
      BY <1>0, <1>1, <1>2
    <2>2. CASE F(s) = F(t)
      <3>1. t <= s /\ s \in Nat /\ t \in Nat
        BY <1>0, <1>2, <2>1, <2>2
      <3> QED  BY <2>1, <2>2, <3>1 DEF Rarer
    <2>3. CASE F(s) # F(t)
      BY <2>1, <2>3 DEF Rarer
    <2> QED  BY <2>2, <2>3
  <1> QED  BY <1>2, <1>3

\* A rarest shared term is within a prefix longer than what is not shared.
LEMMA RarestIsInPrefix ==
    ASSUME NEW sets, NEW set, IsFiniteSet(set), NEW shared \in SUBSET set, NEW t \in shared,
           \A s \in shared : ~Rarer(sets, s, t),
           NEW n \in Nat, n > Cardinality(set) - Cardinality(shared)
    PROVE  t \in Prefix(sets, set, n)
  <1> DEFINE before == {s \in set : Rarer(sets, s, t)}
  <1>1. IsFiniteSet(shared) /\ shared \cup (set \ shared) = set
    BY FS_Subset
  <1>2. IsFiniteSet(set \ shared)
    BY FS_Subset
  <1>3. shared \cap (set \ shared) = {} /\ Cardinality({}) = 0
    BY FS_EmptySet
  <1>4. Cardinality(set) = Cardinality(shared) + Cardinality(set \ shared)
    <2>1. Cardinality(shared \cup (set \ shared))
            = Cardinality(shared) + Cardinality(set \ shared) - 0
      BY <1>1, <1>2, <1>3, FS_Union
    <2>2. Cardinality(shared) \in Nat /\ Cardinality(set \ shared) \in Nat
      BY <1>1, <1>2, FS_CardinalityType
    <2>3. Cardinality(shared \cup (set \ shared)) = Cardinality(set)
      BY <1>1
    <2> QED  BY <2>1, <2>2, <2>3
  <1>5. before \in SUBSET (set \ shared)
    OBVIOUS
  <1>6. Cardinality(before) <= Cardinality(set \ shared) /\ IsFiniteSet(before)
    BY <1>2, <1>5, FS_Subset
  <1>7. /\ Cardinality(before) \in Nat /\ Cardinality(set \ shared) \in Nat
        /\ Cardinality(shared) \in Nat
    BY <1>1, <1>2, <1>6, FS_CardinalityType
  <1>8. Cardinality(before) < n
    <2> HIDE DEF before
    <2> QED  BY <1>4, <1>6, <1>7
  <1> QED  BY <1>8 DEF Prefix

\* Two sets that share as much as either's prefix leaves out meet in their prefixes.
LEMMA PrefixesMeet ==
    ASSUME NEW sets \in SetsOfTerms, NEW a \in SUBSET Terms, NEW b \in SUBSET Terms,
           a \cap b # {}, NEW m \in Nat, NEW n \in Nat,
           m > Cardinality(a) - Cardinality(a \cap b), n > Cardinality(b) - Cardinality(a \cap b)
    PROVE  Prefix(sets, a, m) \cap Prefix(sets, b, n) # {}
  <1>1. IsFiniteSet(a) /\ IsFiniteSet(b)
    BY JoinAssumption, FS_Subset
  <1>2. PICK t \in a \cap b : \A s \in a \cap b : ~Rarer(sets, s, t)
    BY RarestExists
  <1>3. t \in Prefix(sets, a, m)
    BY <1>1, <1>2, RarestIsInPrefix
  <1>4. t \in Prefix(sets, b, n)
    BY <1>1, <1>2, RarestIsInPrefix
  <1> QED  BY <1>3, <1>4

-----------------------------------------------------------------------------
(* Similar sets                                                            *)

LEMMA SizesOf ==
    ASSUME NEW a \in SUBSET Terms, NEW b \in SUBSET Terms
    PROVE  /\ Cardinality(a) \in Nat /\ Cardinality(b) \in Nat
           /\ Cardinality(a \cap b) \in Nat /\ Cardinality(a \cup b) \in Nat
           /\ Cardinality(a) <= Cardinality(a \cup b)
           /\ Cardinality(a \cap b) <= Cardinality(a) /\ Cardinality(a \cap b) <= Cardinality(b)
           /\ (Cardinality(a \cap b) = 0 <=> a \cap b = {})
           /\ (Cardinality(a \cup b) = 0 <=> a \cup b = {})
  <1>1. IsFiniteSet(a) /\ IsFiniteSet(b) /\ IsFiniteSet(a \cup b)
    BY JoinAssumption, FS_Subset
  <1>2. a \cap b \in SUBSET a /\ a \cap b \in SUBSET b /\ a \in SUBSET (a \cup b)
    OBVIOUS
  <1>3. /\ IsFiniteSet(a \cap b) /\ Cardinality(a \cap b) <= Cardinality(a)
        /\ Cardinality(a \cap b) <= Cardinality(b)
        /\ Cardinality(a) <= Cardinality(a \cup b)
    BY <1>1, <1>2, FS_Subset
  <1> QED  BY <1>1, <1>3, FS_CardinalityType, FS_EmptySet

\* What a score of t says of two sets: they share something, as much as the
\* prefix length and the size filter count on.
LEMMA SimilarSetsShare ==
    ASSUME NEW a \in SUBSET Terms, NEW b \in SUBSET Terms, NEW t \in Nat, t > 0,
           Jaccard(a, b) >= t
    PROVE  /\ a \cap b # {}
           /\ 2 * Scale * Cardinality(a \cap b) >= AdmittedNumerator(t) * Cardinality(a)
           /\ 2 * Scale * Cardinality(b) >= AdmittedNumerator(t) * Cardinality(a)
  <1> DEFINE n == Cardinality(a \cap b)
             d == Cardinality(a \cup b)
             x == Cardinality(a)
             y == Cardinality(b)
             k == AdmittedNumerator(t)
             u == 2 * Scale
  <1>1. /\ n \in Nat /\ d \in Nat /\ x \in Nat /\ y \in Nat /\ x <= d /\ n <= y
        /\ (n = 0 <=> a \cap b = {}) /\ (d = 0 <=> a \cup b = {})
    BY SizesOf
  <1>2. d \in Nat \ {0} /\ RoundScore(n, d) >= t
    BY <1>1 DEF Jaccard
  <1>3. k \in Nat \ {0} /\ u \in Nat \ {0}
    BY JoinAssumption DEF AdmittedNumerator
  <1>4. u * n >= k * d
    <2> HIDE DEF n, d
    <2> QED  BY <1>1, <1>2, RoundingAdmits
  <1> HIDE DEF n, d, x, y, k, u
  <1>5. k * d >= k * x /\ k * d > 0
    BY <1>1, <1>2, <1>3
  <1>6. n # 0
    BY <1>1, <1>2, <1>3, <1>4, <1>5
  <1>7. u * n <= u * y
    BY <1>1, <1>3
  <1>8. u * n \in Nat /\ u * y \in Nat /\ k * d \in Nat /\ k * x \in Nat
    BY <1>1, <1>3
  <1>9. u * n >= k * x /\ u * y >= k * x
    BY <1>4, <1>5, <1>7, <1>8
  <1> QED
    BY <1>1, <1>6, <1>9 DEF n, x, y, k, u

LEMMA PrefixLengthSuffices ==
    ASSUME NEW a \in SUBSET Terms, NEW b \in SUBSET Terms, NEW t \in Nat, t > 0,
           Jaccard(a, b) >= t
    PROVE  /\ PrefixLength(Cardinality(a), t) \in Nat
           /\ PrefixLength(Cardinality(a), t) > Cardinality(a) - Cardinality(a \cap b)
  <1> DEFINE x == Cardinality(a)
             n == Cardinality(a \cap b)
             m == AdmittedNumerator(t) * x
             c == CeilDiv(m, 2 * Scale)
  <1>1. n \in Nat /\ x \in Nat /\ n # 0 /\ n <= x
    BY SizesOf, SimilarSetsShare
  <1>2. AdmittedNumerator(t) \in Nat /\ 2 * Scale \in Nat \ {0}
    BY JoinAssumption DEF AdmittedNumerator
  <1>3. m \in Nat /\ m <= (2 * Scale) * n
    <2>1. m \in Nat
      BY <1>1, <1>2
    <2>2. (2 * Scale) * n >= m
      BY SimilarSetsShare
    <2> HIDE DEF m, n
    <2> QED  BY <1>1, <1>2, <2>1, <2>2
  <1>4. c \in Nat /\ c <= n
    <2> HIDE DEF m, n
    <2> QED  BY <1>1, <1>2, <1>3, CeilDivIsLeast
  <1>5. PrefixLength(x, t) = Larger(1, x - c + 1)
    BY <1>1 DEF PrefixLength
  <1> HIDE DEF x, n, c
  <1> QED  BY <1>1, <1>4, <1>5 DEF Larger, x, n

LEMMA JaccardIsSymmetric ==
    ASSUME NEW a, NEW b
    PROVE  Jaccard(a, b) = Jaccard(b, a)
  <1>1. a \cap b = b \cap a /\ a \cup b = b \cup a
    OBVIOUS
  <1> QED  BY <1>1 DEF Jaccard

LEMMA PairsHaveTwo ==
    ASSUME NEW i, NEW j, i # j
    PROVE  IsFiniteSet({i, j}) /\ Cardinality({i, j}) = 2
  <1>1. IsFiniteSet({i}) /\ Cardinality({i}) = 1
    BY FS_Singleton
  <1>2. {i, j} = {i} \cup {j} /\ j \notin {i}
    OBVIOUS
  <1> QED  BY <1>1, <1>2, FS_AddElement

LEMMA TwoArePairs ==
    ASSUME NEW S, IsFiniteSet(S), Cardinality(S) = 2
    PROVE  \E i, j \in S : i # j /\ S = {i, j}
  <1>1. PICK i : i \in S
    BY FS_EmptySet
  <1>2. IsFiniteSet(S \ {i}) /\ Cardinality(S \ {i}) = 1
    BY <1>1, FS_RemoveElement
  <1>3. PICK j : S \ {i} = {j}
    BY <1>2, FS_Singleton
  <1> QED  BY <1>1, <1>3

-----------------------------------------------------------------------------
\* For every corpus, scale and threshold the indexed search for near-duplicates
\* (nearDuplicateCandidates, corpus_analysis.ts) returns the pairs that measuring
\* every pair returns: the prefix and size filters lose none.
THEOREM NearDuplicatesAreExact ==
    ASSUME NEW docs \in Seq(CorpusDocument), NEW t \in Thresholds
    PROVE  NearDuplicates(docs, t) = NearDuplicatesExhaustive(docs, t)
  <1> DEFINE D      == DOMAIN docs
             sets   == [i \in D |-> docs[i].terms]
             length == [i \in D |-> PrefixLength(Cardinality(sets[i]), t)]
             Similar(i, j) == /\ ~PairIneligible(docs[i], docs[j])
                              /\ Jaccard(docs[i].terms, docs[j].terms) >= t
             Large(i, j) ==
                2 * Scale * Cardinality(sets[j]) >= AdmittedNumerator(t) * Cardinality(sets[i])
  <1> SUFFICES ASSUME t # 0
               PROVE  NearDuplicatesIndexed(docs, t) = NearDuplicatesExhaustive(docs, t)
    BY DEF NearDuplicates
  <1>0. t \in Nat /\ t > 0
    BY JoinAssumption
  <1>1. /\ sets \in SetsOfTerms /\ DOMAIN sets = D /\ D \subseteq Nat
        /\ \A i \in D : sets[i] \in SUBSET Terms /\ sets[i] = docs[i].terms
    <2>1. D = 1 .. Len(docs) /\ Len(docs) \in Nat /\ \A i \in D : docs[i] \in CorpusDocument
      OBVIOUS
    <2>2. \A i \in D : docs[i].terms \in SUBSET Terms
      BY <2>1 DEF CorpusDocument
    <2>3. sets \in [1 .. Len(docs) -> SUBSET Terms]
      BY <2>1, <2>2
    <2>4. sets \in SetsOfTerms
      BY <2>1, <2>3 DEF SetsOfTerms
    <2> QED  BY <2>1, <2>2, <2>4
  <1>2. \A i, j \in D : Similar(i, j) <=> Similar(j, i)
    BY JaccardIsSymmetric DEF PairIneligible
  <1>3. \A p : p \in NearDuplicatesIndexed(docs, t) <=>
             \E i, j \in D : /\ Sooner(sets, j, i) /\ Similar(i, j) /\ Large(i, j)
                             /\ Prefix(sets, sets[j], length[j]) \cap
                                    Prefix(sets, sets[i], length[i]) # {}
                             /\ p = {i, j}
    <2>1. \A p : p \in NearDuplicatesIndexed(docs, t) <=>
               \E i \in D : \E j \in Offered(sets, sets, length, i) :
                  Similar(i, j) /\ Large(i, j) /\ p = {i, j}
      <3> DEFINE Qualifies(i, j) ==
                    /\ Large(i, j)
                    /\ ~PairIneligible(docs[i], docs[j])
                    /\ Jaccard(sets[i], sets[j]) >= t
      <3>1. NearDuplicatesIndexed(docs, t) =
              UNION {{{i, j} : j \in {k \in Offered(sets, sets, length, i) : Qualifies(i, k)}} :
                        i \in D}
        BY Zenon DEF NearDuplicatesIndexed
      <3>2. \A i \in D : \A j \in Offered(sets, sets, length, i) :
               j \in D /\ (Qualifies(i, j) <=> Similar(i, j) /\ Large(i, j))
        BY <1>1 DEF Offered
      <3> HIDE DEF Qualifies, Similar, Large, D, sets, length
      <3> QED  BY <3>1, <3>2
    <2>2. \A i, j : j \in Offered(sets, sets, length, i) <=>
               /\ j \in D /\ Sooner(sets, j, i)
               /\ Prefix(sets, sets[j], length[j]) \cap Prefix(sets, sets[i], length[i]) # {}
      BY <1>1 DEF Offered
    <2> HIDE DEF Similar, Large, D, sets, length
    <2> SUFFICES ASSUME NEW p
                 PROVE  p \in NearDuplicatesIndexed(docs, t) <=>
                          \E i, j \in D :
                             /\ Sooner(sets, j, i) /\ Similar(i, j) /\ Large(i, j)
                             /\ Prefix(sets, sets[j], length[j]) \cap
                                    Prefix(sets, sets[i], length[i]) # {}
                             /\ p = {i, j}
      OBVIOUS
    <2>3. ASSUME p \in NearDuplicatesIndexed(docs, t)
          PROVE  \E i, j \in D :
                    /\ Sooner(sets, j, i) /\ Similar(i, j) /\ Large(i, j)
                    /\ Prefix(sets, sets[j], length[j]) \cap
                           Prefix(sets, sets[i], length[i]) # {}
                    /\ p = {i, j}
      <3>1. PICK i \in D : \E j \in Offered(sets, sets, length, i) :
               Similar(i, j) /\ Large(i, j) /\ p = {i, j}
        BY <2>1, <2>3
      <3>2. PICK j \in Offered(sets, sets, length, i) :
               Similar(i, j) /\ Large(i, j) /\ p = {i, j}
        BY <3>1
      <3> QED  BY <2>2, <3>2
    <2>4. ASSUME NEW i \in D, NEW j \in D, Sooner(sets, j, i), Similar(i, j), Large(i, j),
                 Prefix(sets, sets[j], length[j]) \cap Prefix(sets, sets[i], length[i]) # {},
                 p = {i, j}
          PROVE  p \in NearDuplicatesIndexed(docs, t)
      <3>1. j \in Offered(sets, sets, length, i)
        BY <2>2, <2>4
      <3> QED  BY <2>1, <2>4, <3>1
    <2> QED  BY <2>3, <2>4
  <1>4. \A p : p \in NearDuplicatesExhaustive(docs, t) <=>
             /\ p \in SUBSET D /\ Cardinality(p) = 2
             /\ \A i, j \in p : i # j => Similar(i, j)
    BY DEF NearDuplicatesExhaustive, kSubset
  <1> HIDE DEF sets, length
  <1>5. ASSUME NEW i \in D, NEW j \in D, Sooner(sets, j, i)
        PROVE  i # j
    <2>1. i \in Nat /\ j \in Nat /\ Cardinality(sets[i]) \in Nat /\ Cardinality(sets[j]) \in Nat
      BY <1>1, SetsAreFinite
    <2> QED  BY <1>5, <2>1 DEF Sooner
  <1>6. ASSUME NEW i \in D, NEW j \in D, i # j
        PROVE  Sooner(sets, i, j) \/ Sooner(sets, j, i)
    <2>1. i \in Nat /\ j \in Nat /\ Cardinality(sets[i]) \in Nat /\ Cardinality(sets[j]) \in Nat
      BY <1>1, SetsAreFinite
    <2> QED  BY <1>6, <2>1 DEF Sooner
  <1>7. ASSUME NEW i \in D, NEW j \in D, Similar(i, j)
        PROVE  /\ Large(i, j)
               /\ Prefix(sets, sets[j], length[j]) \cap Prefix(sets, sets[i], length[i]) # {}
    <2>1. Jaccard(sets[i], sets[j]) >= t /\ Jaccard(sets[j], sets[i]) >= t
      BY <1>1, <1>7, JaccardIsSymmetric
    <2>2. sets[i] \in SUBSET Terms /\ sets[j] \in SUBSET Terms
      BY <1>1
    <2>3. Large(i, j) /\ sets[i] \cap sets[j] # {}
      BY <1>0, <2>1, <2>2, SimilarSetsShare
    <2>4. sets[i] \cap sets[j] = sets[j] \cap sets[i]
      OBVIOUS
    <2>5. /\ length[i] \in Nat /\ length[i] > Cardinality(sets[i]) - Cardinality(sets[i] \cap sets[j])
          /\ length[j] \in Nat /\ length[j] > Cardinality(sets[j]) - Cardinality(sets[j] \cap sets[i])
      BY <1>0, <2>1, <2>2, PrefixLengthSuffices DEF length
    <2>6. Prefix(sets, sets[j], length[j]) \cap Prefix(sets, sets[i], length[i]) # {}
      BY <1>1, <2>2, <2>3, <2>4, <2>5, PrefixesMeet
    <2> QED  BY <2>3, <2>6
  <1> HIDE DEF Large, Similar, D
  <1>8. ASSUME NEW p \in NearDuplicatesIndexed(docs, t)
        PROVE  p \in NearDuplicatesExhaustive(docs, t)
    <2>1. PICK i \in D, j \in D : Sooner(sets, j, i) /\ Similar(i, j) /\ p = {i, j}
      BY <1>3
    <2>2. i # j
      BY <1>5, <2>1
    <2>3. Cardinality(p) = 2
      BY <2>1, <2>2, PairsHaveTwo
    <2>4. Similar(j, i)
      BY <1>2, <2>1
    <2> QED  BY <1>4, <2>1, <2>3, <2>4
  <1>9. ASSUME NEW p \in NearDuplicatesExhaustive(docs, t)
        PROVE  p \in NearDuplicatesIndexed(docs, t)
    <2>1. /\ p \in SUBSET D /\ Cardinality(p) = 2
          /\ \A i, j \in p : i # j => Similar(i, j)
      BY <1>4
    <2>2. IsFiniteSet(p)
      <3>1. IsFiniteSet(D)
        BY <1>1, SetsAreFinite
      <3> QED  BY <2>1, <3>1, FS_Subset
    <2>3. PICK i, j \in p : i # j /\ p = {i, j}
      BY <2>1, <2>2, TwoArePairs
    <2>4. i \in D /\ j \in D /\ Similar(i, j) /\ Similar(j, i)
      BY <2>1, <2>3
    <2>5. CASE Sooner(sets, j, i)
      BY <1>3, <1>7, <2>3, <2>4, <2>5
    <2>6. CASE Sooner(sets, i, j)
      <3>1. p = {j, i}
        BY <2>3
      <3> QED  BY <1>3, <1>7, <2>4, <2>6, <3>1
    <2> QED  BY <1>6, <2>3, <2>4, <2>5, <2>6
  <1> QED  BY <1>8, <1>9

\* The index of topics offers every pair that belongs together, whichever of
\* the two is visited first, and its size filter passes it: buildTopicCandidates,
\* corpus_candidates.ts.
THEOREM TopicPairsAreOffered ==
    ASSUME NEW sets \in SetsOfTerms, NEW a \in SUBSET Terms, NEW b \in SUBSET Terms,
           NEW t \in Thresholds, t > 0, Reaches(a, b, t)
    PROVE  /\ Prefix(sets, a, TopicPrefixLength(Cardinality(a), t)) \cap
                  Prefix(sets, b, TopicPrefixLength(Cardinality(b), t)) # {}
           /\ ~(Cardinality(b) * Scale < t * Cardinality(a))
  <1>0. t \in Nat /\ Scale \in Nat \ {0}
    BY JoinAssumption
  <1>1. ASSUME NEW x \in SUBSET Terms, NEW y \in SUBSET Terms, x # {},
               Cardinality(x \cap y) * Scale >= t * Cardinality(x \cup y)
        PROVE  /\ x \cap y # {}
               /\ TopicPrefixLength(Cardinality(x), t) \in Nat
               /\ TopicPrefixLength(Cardinality(x), t) > Cardinality(x) - Cardinality(x \cap y)
               /\ Cardinality(y) * Scale >= t * Cardinality(x)
    <2> DEFINE n == Cardinality(x \cap y)
               d == Cardinality(x \cup y)
               p == Cardinality(x)
               q == Cardinality(y)
               c == CeilDiv(t * p, Scale)
    <2>1. /\ n \in Nat /\ d \in Nat /\ p \in Nat /\ q \in Nat /\ p <= d /\ n <= q /\ n <= p
          /\ (n = 0 <=> x \cap y = {}) /\ (d = 0 <=> x \cup y = {})
      BY SizesOf
    <2>2. n * Scale >= t * d /\ d # 0
      BY <1>1, <2>1
    <2> HIDE DEF n, d, p, q
    <2>3. t * d >= t * p /\ t * d > 0 /\ t * p \in Nat
      BY <1>0, <2>1, <2>2
    <2>4. n # 0
      BY <1>0, <2>1, <2>2, <2>3
    <2>5. q * Scale >= n * Scale /\ n * Scale = Scale * n
      BY <1>0, <2>1
    <2>6. q * Scale >= t * p /\ t * p <= Scale * n
      BY <1>0, <2>1, <2>2, <2>3, <2>5
    <2>7. c \in Nat /\ c <= n
      BY <1>0, <2>1, <2>3, <2>6, CeilDivIsLeast
    <2>8. TopicPrefixLength(p, t) = Larger(1, p - c + 1)
      BY <2>1, <2>4 DEF TopicPrefixLength
    <2> HIDE DEF c
    <2>9. TopicPrefixLength(p, t) \in Nat /\ TopicPrefixLength(p, t) > p - n
      BY <2>1, <2>7, <2>8 DEF Larger
    <2> QED  BY <2>1, <2>4, <2>6, <2>9 DEF n, p, q
  <1>2. a \cap b = b \cap a /\ a \cup b = b \cup a
    OBVIOUS
  <1>3. /\ a \cap b # {}
        /\ TopicPrefixLength(Cardinality(a), t) \in Nat
        /\ TopicPrefixLength(Cardinality(a), t) > Cardinality(a) - Cardinality(a \cap b)
        /\ Cardinality(b) * Scale >= t * Cardinality(a)
    BY <1>1 DEF Reaches
  <1>4. /\ TopicPrefixLength(Cardinality(b), t) \in Nat
        /\ TopicPrefixLength(Cardinality(b), t) > Cardinality(b) - Cardinality(a \cap b)
    <2>1. b # {} /\ Cardinality(b \cap a) * Scale >= t * Cardinality(b \cup a)
      BY <1>2 DEF Reaches
    <2>2. TopicPrefixLength(Cardinality(b), t) > Cardinality(b) - Cardinality(b \cap a)
      BY <1>1, <2>1
    <2> QED  BY <1>1, <1>2, <2>1, <2>2
  <1>5. Cardinality(b) * Scale \in Nat /\ t * Cardinality(a) \in Nat
    <2>1. Cardinality(a) \in Nat /\ Cardinality(b) \in Nat
      BY SizesOf
    <2> QED  BY <1>0, <2>1
  <1> QED  BY <1>3, <1>4, <1>5, PrefixesMeet

-----------------------------------------------------------------------------
(* Folds over finite sets                                                  *)

\* What the empty set has, and a set that has one element more, all subsets have.
LEMMA SubsetInduction ==
    ASSUME NEW S, IsFiniteSet(S), NEW P, {} \in P,
           \A s \in SUBSET S : s # {} => \E x \in s : s \ {x} \in P => s \in P
    PROVE  \A s \in SUBSET S : s \in P
  <1> DEFINE Bad   == {s \in SUBSET S : s \notin P}
             sizes == {Cardinality(s) : s \in Bad}
  <1>1. \A s \in SUBSET S : IsFiniteSet(s) /\ Cardinality(s) \in Nat
    BY FS_Subset, FS_CardinalityType
  <1>2. SUFFICES ASSUME Bad # {} PROVE FALSE
    OBVIOUS
  <1>3. PICK n \in sizes : \A m \in sizes : n <= m
    <2>1. sizes \in SUBSET Nat /\ sizes # {}
      BY <1>1, <1>2
    <2> HIDE DEF sizes
    <2> QED  BY <2>1, LeastNatural
  <1>4. PICK s \in Bad : n = Cardinality(s)
    BY <1>3
  <1>5. s # {}
    BY <1>4
  <1>6. PICK x \in s : s \ {x} \in P => s \in P
    BY <1>4, <1>5
  <1>7. s \ {x} \in Bad
    BY <1>4, <1>6
  <1>8. Cardinality(s \ {x}) = n - 1 /\ n \in Nat
    BY <1>1, <1>4, <1>6, FS_RemoveElement
  <1>9. n <= Cardinality(s \ {x})
    BY <1>3, <1>7
  <1> QED  BY <1>8, <1>9

\* The values of a fold, one for each subset of what is folded.
IsSetFold(f, S, Acc, base, op, ch) ==
    /\ f \in [SUBSET S -> Acc]
    /\ \A s \in SUBSET S : f[s] = IF s = {} THEN base ELSE op[<<ch[s], f[s \ {ch[s]}]>>]

\* A fold over a finite set has a value, of its type, for every subset.
LEMMA SetFoldExists ==
    ASSUME NEW S, IsFiniteSet(S), NEW Acc, NEW base \in Acc, NEW op \in [S \X Acc -> Acc],
           NEW ch, \A s \in SUBSET S : s # {} => ch[s] \in s
    PROVE  \E f : IsSetFold(f, S, Acc, base, op, ch)
  <1> DEFINE Step(f, s) == IF s = {} THEN base ELSE op[<<ch[s], f[s \ {ch[s]}]>>]
             Upto(f, n) == \A s \in SUBSET S : Cardinality(s) < n => f[s] = Step(f, s)
             Bad        == {n \in Nat : ~\E f \in [SUBSET S -> Acc] : Upto(f, n)}
  <1>1. \A s \in SUBSET S : IsFiniteSet(s) /\ Cardinality(s) \in Nat
    BY FS_Subset, FS_CardinalityType
  <1>2. Bad = {}
    <2> SUFFICES ASSUME Bad # {} PROVE FALSE
      OBVIOUS
    <2>1. PICK n \in Bad : \A m \in Bad : n <= m
      <3>1. Bad \in SUBSET Nat
        OBVIOUS
      <3> HIDE DEF Bad
      <3> QED  BY <3>1, LeastNatural
    <2>2. n # 0
      <3> SUFFICES ASSUME n = 0 PROVE FALSE
        OBVIOUS
      <3>1. [s \in SUBSET S |-> base] \in [SUBSET S -> Acc]
        OBVIOUS
      <3>2. Upto([s \in SUBSET S |-> base], 0)
        BY <1>1
      <3> HIDE DEF Upto
      <3> QED  BY <2>1, <3>1, <3>2
    <2>3. n \in Nat /\ n - 1 \in Nat /\ n - 1 \notin Bad
      <3>1. n \in Nat
        BY <2>1
      <3> HIDE DEF Bad
      <3> QED  BY <2>1, <2>2, <3>1
    <2>4. PICK f \in [SUBSET S -> Acc] : Upto(f, n - 1)
      BY <2>3
    <2> DEFINE g == [s \in SUBSET S |-> Step(f, s)]
    <2>5. ASSUME NEW s \in SUBSET S, s # {}
          PROVE  s \ {ch[s]} \in SUBSET S /\ ch[s] \in s /\ ch[s] \in S
      BY <2>5
    <2>6. g \in [SUBSET S -> Acc]
      <3>1. ASSUME NEW s \in SUBSET S, s # {}
            PROVE  op[<<ch[s], f[s \ {ch[s]}]>>] \in Acc
        BY <2>4, <2>5, <3>1
      <3> QED  BY <3>1
    <2>7. Upto(g, n)
      <3> SUFFICES ASSUME NEW s \in SUBSET S, Cardinality(s) < n
                   PROVE  g[s] = Step(g, s)
        OBVIOUS
      <3>1. CASE s = {}
        BY <3>1
      <3>2. CASE s # {}
        <4> DEFINE r == s \ {ch[s]}
        <4>1. r \in SUBSET S
          BY <2>5, <3>2
        <4>2. Cardinality(r) < n - 1
          <5>1. Cardinality(r) = Cardinality(s) - 1
            BY <1>1, <2>5, <3>2, FS_RemoveElement
          <5> HIDE DEF r
          <5> QED  BY <1>1, <2>3, <5>1
        <4>3. f[r] = Step(f, r)
          <5> HIDE DEF r, Step
          <5> QED  BY <2>4, <4>1, <4>2
        <4>4. g[r] = f[r]
          <5> HIDE DEF r, Step
          <5> QED  BY <4>1, <4>3
        <4>5. g[s] = op[<<ch[s], f[r]>>]
          BY <3>2
        <4> HIDE DEF g
        <4> QED  BY <3>2, <4>4, <4>5
      <3> QED  BY <3>1, <3>2
    <2> HIDE DEF Upto, g
    <2> QED  BY <2>1, <2>6, <2>7
  <1> DEFINE n == Cardinality(S) + 1
  <1>3. n \in Nat
    BY FS_CardinalityType
  <1>4. PICK f \in [SUBSET S -> Acc] : Upto(f, n)
    BY <1>2, <1>3
  <1>5. \A s \in SUBSET S : Cardinality(s) < n
    <2>1. \A s \in SUBSET S : Cardinality(s) <= Cardinality(S)
      BY FS_Subset
    <2>2. Cardinality(S) \in Nat
      BY FS_CardinalityType
    <2> QED  BY <1>1, <2>1, <2>2
  <1> QED  BY <1>4, <1>5 DEF IsSetFold

\* Max is the library's, the choice that FoldLeft makes.
LEMMA LargestExists ==
    ASSUME NEW n \in Nat, NEW s \in SUBSET (1 .. n), s # {}
    PROVE  Max(s) \in s
  <1> DEFINE below == {n - x : x \in s}
  <1>1. below \in SUBSET Nat /\ below # {}
    OBVIOUS
  <1>2. PICK b \in below : \A c \in below : b <= c
    <2> HIDE DEF below
    <2> QED  BY <1>1, LeastNatural
  <1>3. PICK x \in s : b = n - x
    BY <1>2
  <1>4. ASSUME NEW y \in s
        PROVE  x >= y
    <2>1. n - y \in below /\ x \in 1 .. n /\ y \in 1 .. n
      OBVIOUS
    <2>2. n - x <= n - y
      <3> HIDE DEF below
      <3> QED  BY <1>2, <1>3, <2>1
    <2> QED  BY <2>1, <2>2
  <1> QED  BY <1>3, <1>4 DEF Max

-----------------------------------------------------------------------------
(* Topics                                                                  *)

\* The short documents are left out; what is kept are documents still.
LEMMA EligibleAreDocuments ==
    ASSUME NEW docs \in Seq(CorpusDocument)
    PROVE  Eligible(docs) \in Seq(CorpusDocument)
  <1> DEFINE D      == DOMAIN docs
             Step(kept, d) == IF d.kind = "short" THEN kept ELSE Append(kept, d)
             Is(f)  == f = [s \in SUBSET D |->
                              IF s = {} THEN <<>>
                              ELSE LET i == Max(s) IN Step(f[s \ {i}], docs[i])]
             iter   == CHOOSE f : Is(f)
             Kept   == Seq(CorpusDocument)
             op     == [p \in D \X Kept |-> Step(p[2], docs[p[1]])]
             ch     == [s \in SUBSET D |-> Max(s)]
             none   == <<>>
  <1>1. D = 1 .. Len(docs) /\ Len(docs) \in Nat /\ IsFiniteSet(D)
    BY FS_Interval
  <1>2. /\ \A i \in D : \A kept \in Kept : Step(kept, docs[i]) \in Kept
        /\ op \in [D \X Kept -> Kept]
    <2>1. ASSUME NEW i \in D, NEW kept \in Kept
          PROVE  Step(kept, docs[i]) \in Kept
      OBVIOUS
    <2> HIDE DEF Step, Kept, D
    <2> QED  BY <2>1
  <1>3. \A s \in SUBSET D : s # {} => ch[s] \in s
    BY <1>1, LargestExists
  <1>4. none \in Kept
    OBVIOUS
  <1>5. PICK f : IsSetFold(f, D, Kept, none, op, ch)
    <2>1. IsFiniteSet(D) /\ op \in [D \X Kept -> Kept]
      BY <1>1, <1>2
    <2>2. \A s \in SUBSET D : s # {} => ch[s] \in s
      BY <1>3
    <2> HIDE DEF op, ch, Kept, D, none, Is, iter
    <2> QED  BY <1>4, <2>1, <2>2, SetFoldExists
  <1>5a. /\ f \in [SUBSET D -> Kept]
         /\ \A s \in SUBSET D : f[s] = IF s = {} THEN none ELSE op[<<ch[s], f[s \ {ch[s]}]>>]
    <2> HIDE DEF op, ch, Kept, D, none
    <2> QED  BY <1>5 DEF IsSetFold
  <1>6. ASSUME NEW s \in SUBSET D
        PROVE  f[s] = IF s = {} THEN <<>> ELSE LET i == Max(s) IN Step(f[s \ {i}], docs[i])
    <2>1. CASE s = {}
      BY <1>5a, <2>1
    <2>2. CASE s # {}
      <3>1. ch[s] = Max(s) /\ Max(s) \in D /\ s \ {Max(s)} \in SUBSET D
        BY <1>3, <2>2
      <3>2. f[s \ {Max(s)}] \in Kept
        <4> HIDE DEF Kept, D
        <4> QED  BY <1>5a, <3>1
      <3>3. op[<<Max(s), f[s \ {Max(s)}]>>] = Step(f[s \ {Max(s)}], docs[Max(s)])
        <4> HIDE DEF Kept, D, Step
        <4> QED  BY <3>1, <3>2
      <3> HIDE DEF op, Step, D, ch
      <3> QED  BY <1>5a, <2>2, <3>1, <3>3
    <2> QED  BY <2>1, <2>2
  <1>7. Is(f)
    <2>1. f = [s \in SUBSET D |-> f[s]]
      BY <1>5a
    <2> HIDE DEF Step, D
    <2> QED  BY <1>6, <2>1
  <1>8. Is(iter)
    <2> HIDE DEF Is
    <2> QED  BY <1>7
  <1>9. Eligible(docs) = iter[D]
    BY DEF Eligible, FoldLeft, MapThenFoldSet
  <1>10. \A s \in SUBSET D :
            iter[s] = IF s = {} THEN <<>> ELSE LET i == Max(s) IN Step(iter[s \ {i}], docs[i])
    <2> HIDE DEF iter, Step, D
    <2> QED  BY <1>8
  <1> DEFINE P == {s \in SUBSET D : iter[s] \in Kept}
  <1>11. \A s \in SUBSET D : s \in P
    <2> HIDE DEF iter
    <2>1. {} \in P
      <3>1. iter[{}] = none
        <4> HIDE DEF Step
        <4> QED  BY <1>10
      <3> HIDE DEF none, Kept
      <3> QED  BY <1>4, <3>1
    <2>2. ASSUME NEW s \in SUBSET D, s # {}
          PROVE  \E x \in s : s \ {x} \in P => s \in P
      <3>1. Max(s) \in s
        BY <1>3, <2>2
      <3>2. ASSUME s \ {Max(s)} \in P
            PROVE  s \in P
        <4>1. iter[s] = Step(iter[s \ {Max(s)}], docs[Max(s)])
          <5> HIDE DEF Step
          <5> QED  BY <1>10, <2>2
        <4>2. iter[s \ {Max(s)}] \in Kept /\ docs[Max(s)] \in CorpusDocument
          BY <2>2, <3>1, <3>2
        <4>3. Max(s) \in D
          BY <2>2, <3>1
        <4> HIDE DEF Step, Kept, D
        <4> QED  BY <1>2, <2>2, <4>1, <4>2, <4>3
      <3> QED  BY <3>1, <3>2
    <2> HIDE DEF P, D
    <2> QED  BY <1>1, <2>1, <2>2, SubsetInduction
  <1>12. D \in P
    BY <1>11
  <1> QED  BY <1>9, <1>12

-----------------------------------------------------------------------------
(* Components                                                              *)

Labels(D) == [D -> D]

\* What was together stays together.
Coarser(D, l, m) == \A a, b \in D : l[a] = l[b] => m[a] = m[b]

\* No component lies across the edge of the set.
KeepsTo(D, l, s) == \A a, b \in D : l[a] = l[b] => (a \in s <=> b \in s)

\* No document of the set reaches one outside of it.
IsClosed(features, t, s) ==
    \A i \in s, j \in DOMAIN features : Reaches(features[i], features[j], t) => j \in s

\* Joining two components: union, corpus_candidates.ts.
LEMMA UnionJoins ==
    ASSUME NEW D, NEW l \in Labels(D), NEW i \in D, NEW j \in D
    PROVE  /\ Union(l, j, i) \in Labels(D)
           /\ Coarser(D, l, Union(l, j, i))
           /\ Union(l, j, i)[j] = Union(l, j, i)[i]
           /\ \A s : (KeepsTo(D, l, s) /\ (i \in s <=> j \in s)) => KeepsTo(D, Union(l, j, i), s)
  <1> DEFINE m == Union(l, j, i)
  <1>1. /\ m \in Labels(D)
        /\ \A k \in D : m[k] = IF l[k] = l[j] THEN l[i] ELSE l[k]
    BY DEF Union, Labels
  <1> HIDE DEF m
  <1>2. Coarser(D, l, m)
    BY <1>1 DEF Coarser
  <1>3. m[j] = m[i]
    BY <1>1
  <1>4. ASSUME NEW s, KeepsTo(D, l, s), i \in s <=> j \in s
        PROVE  KeepsTo(D, m, s)
    <2> SUFFICES ASSUME NEW a \in D, NEW b \in D, m[a] = m[b]
                 PROVE  a \in s <=> b \in s
      BY DEF KeepsTo
    <2>1. \A x, y \in D : l[x] = l[y] => (x \in s <=> y \in s)
      BY <1>4 DEF KeepsTo
    <2>2. CASE l[a] = l[j]
      <3>1. m[b] = l[i]
        BY <1>1, <2>2
      <3>2. l[b] = l[j] \/ l[b] = l[i]
        BY <1>1, <3>1
      <3> QED  BY <1>4, <2>1, <2>2, <3>2
    <2>3. CASE l[a] # l[j]
      <3>1. m[b] = l[a]
        BY <1>1, <2>3
      <3>2. l[b] = l[a] \/ (l[b] = l[j] /\ l[a] = l[i])
        BY <1>1, <3>1
      <3> QED  BY <1>4, <2>1, <3>2
    <2> QED  BY <2>2, <2>3
  <1> QED  BY <1>1, <1>2, <1>3, <1>4 DEF m

\* Which of the two is visited first makes no difference to their score.
LEMMA ReachesIsSymmetric ==
    ASSUME NEW a, NEW b, NEW t
    PROVE  Reaches(a, b, t) <=> Reaches(b, a, t)
  <1>1. a \cap b = b \cap a /\ a \cup b = b \cup a
    OBVIOUS
  <1> QED  BY <1>1 DEF Reaches

\* One meeting of two documents.
Met(features, t, i, j, l) ==
    IF \/ l[j] = l[i]
       \/ Cardinality(features[j]) * Scale < t * Cardinality(features[i])
       \/ ~Reaches(features[i], features[j], t)
    THEN l ELSE Union(l, j, i)

\* It joins what it should, and nothing across the edge of a closed set.
LEMMA MeetingJoins ==
    ASSUME NEW features, NEW t, NEW i \in DOMAIN features, NEW j \in DOMAIN features,
           NEW l \in Labels(DOMAIN features)
    PROVE  LET D == DOMAIN features
               m == Met(features, t, i, j, l)
           IN  /\ m \in Labels(D)
               /\ Coarser(D, l, m)
               /\ \A s : (s \subseteq D /\ IsClosed(features, t, s) /\ KeepsTo(D, l, s))
                            => KeepsTo(D, m, s)
               /\ (/\ Reaches(features[i], features[j], t)
                   /\ ~(Cardinality(features[j]) * Scale < t * Cardinality(features[i])))
                      => m[j] = m[i]
  <1> DEFINE D == DOMAIN features
             Small == Cardinality(features[j]) * Scale < t * Cardinality(features[i])
             Near  == Reaches(features[i], features[j], t)
  <1>1. CASE l[j] = l[i] \/ Small \/ ~Near
    <2>1. Met(features, t, i, j, l) = l
      BY <1>1 DEF Met
    <2> QED  BY <1>1, <2>1 DEF Coarser
  <1>2. CASE ~(l[j] = l[i] \/ Small \/ ~Near)
    <2>1. Met(features, t, i, j, l) = Union(l, j, i)
      BY <1>2 DEF Met
    <2>2. ASSUME NEW s, s \subseteq D, IsClosed(features, t, s)
          PROVE  i \in s <=> j \in s
      BY <1>2, <2>2, ReachesIsSymmetric DEF IsClosed
    <2> HIDE DEF Small, Near
    <2> QED  BY <2>1, <2>2, UnionJoins
  <1> QED  BY <1>1, <1>2

\* One document's visit: whatever it reaches among the smaller ones is with it then.
LEMMA VisitJoins ==
    ASSUME NEW docs \in Seq(CorpusDocument), NEW features \in SetsOfTerms,
           DOMAIN features = DOMAIN docs, NEW t \in Thresholds, t > 0,
           NEW i \in DOMAIN docs, NEW label \in Labels(DOMAIN docs)
    PROVE  LET D == DOMAIN docs
               m == Visit(docs, features, t, label, i)
           IN  /\ m \in Labels(D)
               /\ Coarser(D, label, m)
               /\ \A c : (c \subseteq D /\ IsClosed(features, t, c) /\ KeepsTo(D, label, c))
                            => KeepsTo(D, m, c)
               /\ \A j \in D : (Sooner(features, j, i) /\ Reaches(features[i], features[j], t))
                                  => m[j] = m[i]
  <1> DEFINE D      == DOMAIN docs
             L      == Labels(D)
             raw    == [j \in D |-> docs[j].terms]
             length == [j \in D |-> TopicPrefixLength(Cardinality(features[j]), t)]
             O      == Offered(raw, features, length, i)
             Is(f)  == f = [s \in SUBSET O |->
                              IF s = {} THEN label
                              ELSE LET x == CHOOSE x \in s : TRUE
                                   IN  Met(features, t, i, x, f[s \ {x}])]
             iter   == CHOOSE f : Is(f)
             op     == [p \in O \X L |-> Met(features, t, i, p[1], p[2])]
             ch     == [s \in SUBSET O |-> CHOOSE x \in s : TRUE]
  <1>1. D = 1 .. Len(docs) /\ Len(docs) \in Nat /\ IsFiniteSet(D)
    BY FS_Interval
  <1>2. O \in SUBSET D /\ IsFiniteSet(O)
    <2>1. O \in SUBSET D
      BY DEF Offered
    <2> QED  BY <1>1, <2>1, FS_Subset
  <1>3. raw \in SetsOfTerms /\ \A j \in D : features[j] \in SUBSET Terms
    <2>1. \A j \in D : docs[j] \in CorpusDocument
      OBVIOUS
    <2>2. \A j \in D : docs[j].terms \in SUBSET Terms
      BY <2>1 DEF CorpusDocument
    <2>3. raw \in [1 .. Len(docs) -> SUBSET Terms]
      BY <1>1, <2>2
    <2> QED  BY <1>1, <2>3 DEF SetsOfTerms
  <1>4. ASSUME NEW j \in D, Sooner(features, j, i), Reaches(features[i], features[j], t)
        PROVE  j \in O /\ ~(Cardinality(features[j]) * Scale < t * Cardinality(features[i]))
    <2>1. /\ Prefix(raw, features[i], length[i]) \cap Prefix(raw, features[j], length[j]) # {}
          /\ ~(Cardinality(features[j]) * Scale < t * Cardinality(features[i]))
      <3>1. features[i] \in SUBSET Terms /\ features[j] \in SUBSET Terms
        BY <1>3
      <3>2. /\ length[i] = TopicPrefixLength(Cardinality(features[i]), t)
            /\ length[j] = TopicPrefixLength(Cardinality(features[j]), t)
        OBVIOUS
      <3> HIDE DEF raw, length, D
      <3> QED  BY <1>3, <1>4, <3>1, <3>2, TopicPairsAreOffered
    <2>2. Prefix(raw, features[j], length[j]) \cap Prefix(raw, features[i], length[i]) # {}
      BY <2>1
    <2> HIDE DEF raw, length
    <2> QED  BY <1>4, <2>1, <2>2 DEF Offered
  <1>5. Visit(docs, features, t, label, i) = iter[O]
    BY DEF Visit, FoldSet, MapThenFoldSet, Met
  <1> HIDE DEF O
  <1>6. ASSUME NEW j \in O, NEW l \in L
        PROVE  /\ Met(features, t, i, j, l) \in L
               /\ Coarser(D, l, Met(features, t, i, j, l))
               /\ \A c : (c \subseteq D /\ IsClosed(features, t, c) /\ KeepsTo(D, l, c))
                            => KeepsTo(D, Met(features, t, i, j, l), c)
               /\ (/\ Reaches(features[i], features[j], t)
                   /\ ~(Cardinality(features[j]) * Scale < t * Cardinality(features[i])))
                      => Met(features, t, i, j, l)[j] = Met(features, t, i, j, l)[i]
    <2>1. j \in DOMAIN features /\ i \in DOMAIN features /\ l \in Labels(DOMAIN features)
      BY <1>2
    <2> QED  BY <2>1, MeetingJoins
  <1>7. \A s \in SUBSET O : s # {} => ch[s] \in s
    OBVIOUS
  <1>8. op \in [O \X L -> L]
    <2> HIDE DEF L
    <2> QED  BY <1>6
  <1>9. PICK f : IsSetFold(f, O, L, label, op, ch)
    <2> HIDE DEF op, ch, L, Is, iter
    <2>1. label \in L
      BY DEF L
    <2> QED  BY <1>2, <1>7, <1>8, <2>1, SetFoldExists
  <1>10. /\ f \in [SUBSET O -> L]
         /\ \A s \in SUBSET O : f[s] = IF s = {} THEN label ELSE op[<<ch[s], f[s \ {ch[s]}]>>]
    <2> HIDE DEF op, ch, L
    <2> QED  BY <1>9 DEF IsSetFold
  <1>11. ASSUME NEW s \in SUBSET O, s # {}
         PROVE  LET x == CHOOSE x \in s : TRUE
                IN  f[s] = Met(features, t, i, x, f[s \ {x}])
    <2> DEFINE x == CHOOSE x \in s : TRUE
    <2>1. ch[s] = x /\ x \in O /\ s \ {x} \in SUBSET O
      BY <1>7, <1>11
    <2>2. f[s \ {x}] \in L
      <3> HIDE DEF L, x
      <3> QED  BY <1>10, <2>1
    <2>3. op[<<x, f[s \ {x}]>>] = Met(features, t, i, x, f[s \ {x}])
      <3> HIDE DEF L, x
      <3> QED  BY <2>1, <2>2
    <2> HIDE DEF op, L, ch, x
    <2> QED  BY <1>10, <1>11, <2>1, <2>3 DEF x
  <1>12. Is(iter)
    <2>1. f = [s \in SUBSET O |-> f[s]]
      BY <1>10
    <2>2. Is(f)
      <3> HIDE DEF L
      <3> QED  BY <1>10, <1>11, <2>1
    <2> HIDE DEF Is
    <2> QED  BY <2>2
  <1>13. /\ iter[{}] = label
         /\ \A s \in SUBSET O : s # {} => LET x == CHOOSE x \in s : TRUE
                                          IN  iter[s] = Met(features, t, i, x, iter[s \ {x}])
    <2> HIDE DEF iter
    <2> QED  BY <1>12
  <1> HIDE DEF iter, L
  <1> DEFINE Near(j) == /\ Reaches(features[i], features[j], t)
                        /\ ~(Cardinality(features[j]) * Scale < t * Cardinality(features[i]))
             Good(s, m) ==
                /\ m \in L /\ Coarser(D, label, m)
                /\ \A c : (c \subseteq D /\ IsClosed(features, t, c) /\ KeepsTo(D, label, c))
                             => KeepsTo(D, m, c)
                /\ \A j \in s : Near(j) => m[j] = m[i]
             P == {s \in SUBSET O : Good(s, iter[s])}
  <1>14. \A s \in SUBSET O : s \in P
    <2>1. {} \in P
      <3>1. Good({}, label)
        BY DEF Coarser, L
      <3> HIDE DEF Good
      <3> QED  BY <1>13, <3>1
    <2>2. ASSUME NEW s \in SUBSET O, s # {}
          PROVE  \E x \in s : s \ {x} \in P => s \in P
      <3> DEFINE x == CHOOSE x \in s : TRUE
                 l == iter[s \ {x}]
                 m == Met(features, t, i, x, l)
      <3>1. x \in s /\ x \in O /\ iter[s] = m
        BY <1>13, <2>2
      <3>2. ASSUME s \ {x} \in P
            PROVE  s \in P
        <4> HIDE DEF x
        <4>1. Good(s \ {x}, l)
          <5> HIDE DEF Good
          <5> QED  BY <3>2
        <4> HIDE DEF l
        <4>2. /\ m \in L /\ Coarser(D, l, m) /\ (Near(x) => m[x] = m[i])
              /\ \A c : (c \subseteq D /\ IsClosed(features, t, c) /\ KeepsTo(D, l, c))
                            => KeepsTo(D, m, c)
          BY <1>6, <3>1, <4>1
        <4> HIDE DEF m, Near
        <4>3. Coarser(D, label, m)
          BY <4>1, <4>2 DEF Coarser
        <4>4. ASSUME NEW j \in s, Near(j)
              PROVE  m[j] = m[i]
          <5>1. CASE j = x
            BY <4>2, <4>4, <5>1
          <5>2. CASE j # x
            <6>1. l[j] = l[i] /\ j \in D /\ i \in D
              BY <1>2, <4>1, <4>4, <5>2
            <6> QED  BY <4>2, <6>1 DEF Coarser
          <5> QED  BY <5>1, <5>2
        <4>5. Good(s, m)
          BY <4>1, <4>2, <4>3, <4>4
        <4> HIDE DEF Good
        <4> QED  BY <3>1, <4>5
      <3> QED  BY <3>1, <3>2
    <2> HIDE DEF P
    <2> QED  BY <1>2, <2>1, <2>2, SubsetInduction
  <1>15. Good(O, iter[O])
    <2> HIDE DEF Good
    <2> QED  BY <1>14
  <1> QED  BY <1>4, <1>5, <1>15 DEF L

\* Smallest first is a strict total order.
LEMMA SoonerIsAnOrder ==
    ASSUME NEW sets \in SetsOfTerms
    PROVE  /\ \A i, j \in DOMAIN sets : i # j => Sooner(sets, i, j) \/ Sooner(sets, j, i)
           /\ \A i, j, k \in DOMAIN sets :
                 (Sooner(sets, i, j) /\ Sooner(sets, j, k)) => Sooner(sets, i, k)
           /\ \A i \in DOMAIN sets : ~Sooner(sets, i, i)
  <1>1. \A i \in DOMAIN sets : i \in Nat /\ Cardinality(sets[i]) \in Nat
    <2>1. DOMAIN sets = 1 .. Len(sets) /\ Len(sets) \in Nat
      BY DEF SetsOfTerms
    <2>2. \A i \in DOMAIN sets : Cardinality(sets[i]) \in Nat
      BY SetsAreFinite
    <2> QED  BY <2>1, <2>2
  <1> QED  BY <1>1 DEF Sooner

\* Of any documents one is visited last.
LEMMA LatestExists ==
    ASSUME NEW sets \in SetsOfTerms, NEW s \in SUBSET DOMAIN sets, s # {}
    PROVE  \E i \in s : \A j \in s \ {i} : Sooner(sets, j, i)
  <1> DEFINE D == DOMAIN sets
             IsLatest(r, i) == \A j \in r \ {i} : Sooner(sets, j, i)
             P == {r \in SUBSET D : r # {} => \E i \in r : IsLatest(r, i)}
  <1>1. {} \in P
    OBVIOUS
  <1>2. ASSUME NEW r \in SUBSET D, r # {}
        PROVE  \E x \in r : r \ {x} \in P => r \in P
    <2>1. PICK x \in r : TRUE
      BY <1>2
    <2>2. ASSUME r \ {x} \in P
          PROVE  \E i \in r : IsLatest(r, i)
      <3>1. CASE r \ {x} = {}
        BY <2>1, <3>1
      <3>2. CASE r \ {x} # {}
        <4>1. PICK y \in r \ {x} : IsLatest(r \ {x}, y)
          BY <2>2, <3>2
        <4>2. x \in D /\ y \in D /\ x # y
          BY <2>1, <4>1
        <4>3. CASE Sooner(sets, x, y)
          <5>1. IsLatest(r, y)
            BY <4>1, <4>3
          <5> QED  BY <4>1, <5>1
        <4>4. CASE Sooner(sets, y, x)
          <5>1. ASSUME NEW j \in r \ {x}
                PROVE  Sooner(sets, j, x)
            <6>1. j = y \/ Sooner(sets, j, y)
              BY <4>1
            <6>2. j \in D
              OBVIOUS
            <6> QED  BY <4>2, <4>4, <6>1, <6>2, SoonerIsAnOrder
          <5> QED  BY <2>1, <5>1
        <4> QED  BY <4>2, <4>3, <4>4, SoonerIsAnOrder
      <3> QED  BY <3>1, <3>2
    <2> HIDE DEF IsLatest
    <2> QED  BY <2>1, <2>2
  <1>3. IsFiniteSet(D)
    BY SetsAreFinite
  <1>4. \A r \in SUBSET D : r \in P
    <2> HIDE DEF P, D
    <2> QED  BY <1>1, <1>2, <1>3, SubsetInduction
  <1> QED  BY <1>4

\* All the visits: who reaches whom is together with it, and nobody else.
LEMMA VisitsJoin ==
    ASSUME NEW docs \in Seq(CorpusDocument), NEW features \in SetsOfTerms,
           DOMAIN features = DOMAIN docs, NEW t \in Thresholds, t > 0
    PROVE  LET D == DOMAIN docs
               m == Visits(docs, features, t)
           IN  /\ m \in Labels(D)
               /\ \A c : (c \subseteq D /\ IsClosed(features, t, c)) => KeepsTo(D, m, c)
               /\ \A i, j \in D : Reaches(features[i], features[j], t) => m[i] = m[j]
  <1> DEFINE D      == DOMAIN docs
             L      == Labels(D)
             alone  == [i \in D |-> i]
             Latest(s) == CHOOSE i \in s : \A j \in s \ {i} : Sooner(features, j, i)
             Is(f)  == f = [s \in SUBSET D |->
                              IF s = {} THEN alone
                              ELSE LET i == Latest(s)
                                   IN  Visit(docs, features, t, f[s \ {i}], i)]
             iter   == CHOOSE f : Is(f)
             op     == [p \in D \X L |-> Visit(docs, features, t, p[2], p[1])]
             ch     == [s \in SUBSET D |-> Latest(s)]
             Joined(i, m) == \A j \in D : (/\ Sooner(features, j, i)
                                           /\ Reaches(features[i], features[j], t)) => m[j] = m[i]
  <1>1. IsFiniteSet(D)
    BY SetsAreFinite
  <1>2. ASSUME NEW s \in SUBSET D, s # {}
        PROVE  Latest(s) \in s
    BY <1>2, LatestExists
  <1>3. Visits(docs, features, t) = iter[D]
    BY DEF Visits, MapThenFoldSet
  <1> HIDE DEF Latest
  <1>4. ASSUME NEW i \in D, NEW l \in L
        PROVE  /\ Visit(docs, features, t, l, i) \in L
               /\ Coarser(D, l, Visit(docs, features, t, l, i))
               /\ \A c : (c \subseteq D /\ IsClosed(features, t, c) /\ KeepsTo(D, l, c))
                            => KeepsTo(D, Visit(docs, features, t, l, i), c)
               /\ Joined(i, Visit(docs, features, t, l, i))
    BY VisitJoins
  <1> HIDE DEF Joined
  <1>5. \A s \in SUBSET D : s # {} => ch[s] \in s
    BY <1>2
  <1>6. op \in [D \X L -> L]
    <2> HIDE DEF L, D
    <2> QED  BY <1>4
  <1>7. alone \in L
    BY DEF Labels
  <1>8. PICK f : IsSetFold(f, D, L, alone, op, ch)
    <2> HIDE DEF op, ch, L, Is, iter, alone, D
    <2> QED  BY <1>1, <1>5, <1>6, <1>7, SetFoldExists
  <1>9. /\ f \in [SUBSET D -> L]
        /\ \A s \in SUBSET D : f[s] = IF s = {} THEN alone ELSE op[<<ch[s], f[s \ {ch[s]}]>>]
    <2> HIDE DEF op, ch, L, alone, D
    <2> QED  BY <1>8 DEF IsSetFold
  <1>10. ASSUME NEW s \in SUBSET D, s # {}
         PROVE  f[s] = Visit(docs, features, t, f[s \ {Latest(s)}], Latest(s))
    <2>1. ch[s] = Latest(s) /\ Latest(s) \in D /\ s \ {Latest(s)} \in SUBSET D
      BY <1>2, <1>10
    <2>2. f[s \ {Latest(s)}] \in L
      <3> HIDE DEF L, D
      <3> QED  BY <1>9, <2>1
    <2>3. op[<<Latest(s), f[s \ {Latest(s)}]>>]
            = Visit(docs, features, t, f[s \ {Latest(s)}], Latest(s))
      <3> HIDE DEF L, D
      <3> QED  BY <2>1, <2>2
    <2> HIDE DEF op, L, ch, D, alone
    <2> QED  BY <1>9, <1>10, <2>1, <2>3
  <1>11. Is(iter)
    <2>1. f = [s \in SUBSET D |-> f[s]]
      BY <1>9
    <2>2. Is(f)
      <3> HIDE DEF L, D, alone
      <3> QED  BY <1>9, <1>10, <2>1
    <2> HIDE DEF Is
    <2> QED  BY <2>2
  <1>12. /\ iter[{}] = alone
         /\ \A s \in SUBSET D : s # {} =>
               iter[s] = Visit(docs, features, t, iter[s \ {Latest(s)}], Latest(s))
    <2> HIDE DEF iter, alone
    <2> QED  BY <1>11
  <1> HIDE DEF iter, L
  <1> DEFINE Good(s, m) ==
                /\ m \in L
                /\ \A c : (c \subseteq D /\ IsClosed(features, t, c)) => KeepsTo(D, m, c)
                /\ \A i \in s : Joined(i, m)
             P == {s \in SUBSET D : Good(s, iter[s])}
  <1>13. \A s \in SUBSET D : s \in P
    <2>1. {} \in P
      <3>1. Good({}, alone)
        BY <1>7 DEF KeepsTo
      <3> HIDE DEF Good, alone
      <3> QED  BY <1>12, <3>1
    <2>2. ASSUME NEW s \in SUBSET D, s # {}
          PROVE  \E x \in s : s \ {x} \in P => s \in P
      <3> DEFINE x == Latest(s)
                 l == iter[s \ {x}]
                 m == Visit(docs, features, t, l, x)
      <3>1. x \in s /\ x \in D /\ iter[s] = m
        BY <1>2, <1>12, <2>2
      <3>2. ASSUME s \ {x} \in P
            PROVE  s \in P
        <4> HIDE DEF x
        <4>1. Good(s \ {x}, l)
          <5> HIDE DEF Good
          <5> QED  BY <3>2
        <4> HIDE DEF l
        <4>2. /\ m \in L /\ Coarser(D, l, m) /\ Joined(x, m)
              /\ \A c : (c \subseteq D /\ IsClosed(features, t, c) /\ KeepsTo(D, l, c))
                            => KeepsTo(D, m, c)
          BY <1>4, <3>1, <4>1
        <4> HIDE DEF m
        <4>3. ASSUME NEW i \in s
              PROVE  Joined(i, m)
          <5>1. CASE i = x
            BY <4>2, <5>1
          <5>2. CASE i # x
            <6>1. Joined(i, l) /\ i \in D
              BY <4>1, <5>2
            <6> QED  BY <4>2, <6>1 DEF Coarser, Joined
          <5> QED  BY <5>1, <5>2
        <4>4. Good(s, m)
          BY <4>1, <4>2, <4>3
        <4> HIDE DEF Good
        <4> QED  BY <3>1, <4>4
      <3> QED  BY <3>1, <3>2
    <2> HIDE DEF P
    <2> QED  BY <1>1, <2>1, <2>2, SubsetInduction
  <1>14. Good(D, iter[D])
    <2> HIDE DEF Good
    <2> QED  BY <1>13
  <1> HIDE DEF Good
  <1> DEFINE m == Visits(docs, features, t)
  <1>15. ASSUME NEW i \in D, NEW j \in D, Reaches(features[i], features[j], t)
         PROVE  m[i] = m[j]
    <2>1. Joined(i, m) /\ Joined(j, m)
      BY <1>3, <1>14 DEF Good
    <2>2. i = j \/ Sooner(features, i, j) \/ Sooner(features, j, i)
      BY SoonerIsAnOrder
    <2>3. Reaches(features[j], features[i], t)
      BY <1>15, ReachesIsSymmetric
    <2> HIDE DEF m
    <2> QED  BY <1>15, <2>1, <2>2, <2>3 DEF Joined
  <1> QED  BY <1>3, <1>14, <1>15 DEF Good, L

\* A document's features are terms.
LEMMA SalientAreTerms ==
    ASSUME NEW docs \in Seq(CorpusDocument)
    PROVE  [i \in DOMAIN docs |-> SalientTerms(docs, docs[i])] \in SetsOfTerms
  <1>1. DOMAIN docs = 1 .. Len(docs) /\ Len(docs) \in Nat
    OBVIOUS
  <1>2. ASSUME NEW i \in DOMAIN docs
        PROVE  SalientTerms(docs, docs[i]) \in SUBSET Terms
    <2>1. docs[i].terms \in SUBSET Terms
      <3>1. docs[i] \in CorpusDocument
        OBVIOUS
      <3> QED  BY <3>1 DEF CorpusDocument
    <2>2. SalientTerms(docs, docs[i]) \subseteq docs[i].terms
      BY DEF SalientTerms
    <2> QED  BY <2>1, <2>2
  <1>3. [i \in DOMAIN docs |-> SalientTerms(docs, docs[i])] \in [1 .. Len(docs) -> SUBSET Terms]
    BY <1>1, <1>2
  <1> QED  BY <1>1, <1>3 DEF SetsOfTerms

\* The documents labelled as the i-th, and what makes a closed set a component.
Component(D, m, i) == {j \in D : m[j] = m[i]}
IsLeast(closed, s) == \A r \in closed : r \subseteq s => r = s

\* The sets of equal labels are the smallest closed sets.
LEMMA ClassesAreComponents ==
    ASSUME NEW D, NEW closed, closed \subseteq SUBSET D, NEW m \in Labels(D),
           \A c \in closed : c # {} /\ KeepsTo(D, m, c),
           \A i \in D : Component(D, m, i) \in closed
    PROVE  \A s : (s \in closed /\ IsLeast(closed, s)) <=> \E i \in D : s = Component(D, m, i)
  <1>1. ASSUME NEW i \in D, NEW r \in closed, r \subseteq Component(D, m, i)
        PROVE  r = Component(D, m, i)
    <2>1. PICK x \in r : TRUE
      OBVIOUS
    <2>2. x \in D /\ m[x] = m[i]
      BY <1>1, <2>1 DEF Component
    <2>3. \A y \in Component(D, m, i) : y \in r
      BY <2>1, <2>2 DEF KeepsTo, Component
    <2> QED  BY <1>1, <2>3
  <1>2. ASSUME NEW s \in closed, IsLeast(closed, s)
        PROVE  \E i \in D : s = Component(D, m, i)
    <2>1. PICK x \in s : TRUE
      OBVIOUS
    <2>2. x \in D
      BY <2>1
    <2>3. Component(D, m, x) \subseteq s
      BY <2>1, <2>2 DEF KeepsTo, Component
    <2> QED  BY <1>2, <2>2, <2>3 DEF IsLeast
  <1> QED  BY <1>1, <1>2 DEF IsLeast

\* A corpus of one has no topics.
LEMMA OneHasNoTwo ==
    ASSUME NEW n \in Nat, n < 2, NEW s \in SUBSET (1 .. n)
    PROVE  ~(Cardinality(s) > 1)
  <1>1. IsFiniteSet(1 .. n) /\ Cardinality(1 .. n) \in Nat /\ Cardinality(1 .. n) < 2
    <2>1. IsFiniteSet(1 .. n) /\ Cardinality(1 .. n) = IF 1 > n THEN 0 ELSE n - 1 + 1
      BY FS_Interval
    <2> QED  BY <2>1
  <1>2. IsFiniteSet(s) /\ Cardinality(s) <= Cardinality(1 .. n)
    BY <1>1, FS_Subset
  <1>3. Cardinality(s) \in Nat
    BY <1>2, FS_CardinalityType
  <1> QED  BY <1>1, <1>2, <1>3

\* For every corpus, scale and threshold the topics (buildTopicCandidates,
\* corpus_candidates.ts) are the connected components that measuring every pair
\* gives: an index that offers some pairs, a filter that drops some of those and
\* a visit that skips whoever is of its component already join neither too few
\* documents nor too many.
THEOREM TopicsAreExact ==
    ASSUME NEW all \in Seq(CorpusDocument), NEW t \in Thresholds
    PROVE  Topics(all, t) = TopicsExhaustive(all, t)
  <1> DEFINE docs     == Eligible(all)
             D        == DOMAIN docs
             features == [i \in D |-> SalientTerms(docs, docs[i])]
             m        == Visits(docs, features, t)
             Closed(s) == \A i \in s, j \in D :
                             t = 0 \/ Reaches(features[i], features[j], t) => j \in s
             closed   == {s \in SUBSET D : s # {} /\ Closed(s)}
  <1>1. docs \in Seq(CorpusDocument) /\ D = 1 .. Len(docs) /\ Len(docs) \in Nat
    <2>1. docs \in Seq(CorpusDocument)
      BY EligibleAreDocuments
    <2> HIDE DEF docs
    <2> QED  BY <2>1
  <1>2. features \in SetsOfTerms /\ DOMAIN features = D
    <2> HIDE DEF docs
    <2> QED  BY <1>1, SalientAreTerms
  <1>3. TopicsExhaustive(all, t) = {s \in closed : Cardinality(s) > 1 /\ IsLeast(closed, s)}
    BY DEF TopicsExhaustive, IsLeast
  <1>4. Topics(all, t) =
          IF Len(docs) < 2 THEN {}
          ELSE IF t = 0 THEN {D}
          ELSE {c \in {{i \in D : m[i] = n} : n \in D} : Cardinality(c) > 1}
    BY DEF Topics
  <1>5. t \in Nat
    BY JoinAssumption
  <1> HIDE DEF docs
  <1>6. CASE Len(docs) < 2
    <2>1. \A s \in SUBSET D : ~(Cardinality(s) > 1)
      BY <1>1, <1>6, OneHasNoTwo
    <2> QED  BY <1>3, <1>4, <1>6, <2>1
  <1>7. CASE ~(Len(docs) < 2) /\ t = 0
    <2>1. D \in closed /\ \A s \in closed : s = D
      <3>1. 1 \in D
        BY <1>1, <1>7
      <3>2. D \in closed
        BY <3>1
      <3>3. ASSUME NEW s \in closed
            PROVE  s = D
        BY <1>7
      <3> QED  BY <3>2, <3>3
    <2>2. Cardinality(D) > 1
      <3>1. Cardinality(1 .. Len(docs)) = Len(docs)
        BY <1>1, <1>7, FS_Interval
      <3> HIDE DEF D
      <3> QED  BY <1>1, <1>7, <3>1
    <2> HIDE DEF closed, D
    <2>3. TopicsExhaustive(all, t) = {D}
      BY <1>3, <2>1, <2>2 DEF IsLeast
    <2> QED  BY <1>4, <1>7, <2>3
  <1>8. CASE ~(Len(docs) < 2) /\ t # 0
    <2>1. \A s : Closed(s) <=> IsClosed(features, t, s)
      <3> HIDE DEF features
      <3> QED  BY <1>2, <1>8 DEF IsClosed
    <2>2. t > 0
      BY <1>5, <1>8
    <2> HIDE DEF features
    <2>3. /\ m \in Labels(D)
          /\ \A c : (c \subseteq D /\ IsClosed(features, t, c)) => KeepsTo(D, m, c)
          /\ \A i, j \in D : Reaches(features[i], features[j], t) => m[i] = m[j]
      BY <1>1, <1>2, <2>2, VisitsJoin
    <2> HIDE DEF m, D, Closed
    <2>4. \A c \in closed : c # {} /\ c \subseteq D /\ KeepsTo(D, m, c)
      BY <2>1, <2>3
    <2>5. ASSUME NEW i \in D
          PROVE  Component(D, m, i) \in closed
      <3>1. Closed(Component(D, m, i))
        BY <1>8, <2>3 DEF Closed, Component
      <3> QED  BY <3>1 DEF closed, Component
    <2> HIDE DEF closed
    <2>6. \A s : (s \in closed /\ IsLeast(closed, s)) <=> \E i \in D : s = Component(D, m, i)
      <3>1. closed \subseteq SUBSET D /\ m \in Labels(D)
        BY <2>3, <2>4
      <3>2. \A c \in closed : c # {} /\ KeepsTo(D, m, c)
        BY <2>4
      <3> QED  BY <2>5, <3>1, <3>2, ClassesAreComponents
    <2> DEFINE Class(n) == {j \in D : m[j] = n}
    <2>7. ASSUME NEW s, Cardinality(s) > 1
          PROVE  (\E n \in D : s = Class(n)) <=> (\E i \in D : s = Component(D, m, i))
      <3>1. ASSUME NEW n \in D, s = Class(n)
            PROVE  \E i \in D : s = Component(D, m, i)
        <4>1. s # {}
          <5>1. ~(Cardinality({}) > 1)
            <6>1. Cardinality({}) = 0
              BY FS_EmptySet
            <6> QED  BY <6>1
          <5> QED  BY <2>7, <5>1, Zenon
        <4>2. PICK i \in D : m[i] = n
          BY <3>1, <4>1
        <4> QED  BY <3>1, <4>2 DEF Component
      <3>2. ASSUME NEW i \in D, s = Component(D, m, i)
            PROVE  \E n \in D : s = Class(n)
        <4>1. m[i] \in D
          BY <2>3 DEF Labels
        <4> QED  BY <3>2, <4>1 DEF Component
      <3> QED  BY <3>1, <3>2
    <2>8. Topics(all, t) = {c \in {Class(n) : n \in D} : Cardinality(c) > 1}
      BY <1>4, <1>8
    <2> HIDE DEF Class
    <2>9. ASSUME NEW s
          PROVE  s \in Topics(all, t) <=> s \in TopicsExhaustive(all, t)
      <3>1. s \in Topics(all, t) <=> (Cardinality(s) > 1 /\ \E n \in D : s = Class(n))
        BY <2>8
      <3>2. s \in TopicsExhaustive(all, t) <=> (s \in closed /\ Cardinality(s) > 1 /\ IsLeast(closed, s))
        BY <1>3
      <3> QED  BY <2>6, <2>7, <3>1, <3>2
    <2> QED  BY <2>9
  <1> QED  BY <1>6, <1>7, <1>8

\* Neither join loses anything to its index: for every corpus, the short documents
\* included, near-duplicates and topics are what comparing everything would find.
THEOREM TheJoinsAreExact ==
    ASSUME NEW docs \in Seq(CorpusDocument)
    PROVE  JoinsAreExact(docs)
  <1>1. Eligible(docs) \in Seq(CorpusDocument)
    BY EligibleAreDocuments
  <1>2. ASSUME NEW t \in Thresholds
        PROVE  /\ NearDuplicates(Eligible(docs), t) = NearDuplicatesExhaustive(Eligible(docs), t)
               /\ Topics(docs, t) = TopicsExhaustive(docs, t)
    BY <1>1, NearDuplicatesAreExact, TopicsAreExact
  <1> QED  BY <1>2 DEF JoinsAreExact

-----------------------------------------------------------------------------
(* Sums over finite sets                                                   *)

\* What a set has when all its smaller parts have it, all subsets have.
LEMMA PartsInduction ==
    ASSUME NEW S, IsFiniteSet(S), NEW P,
           \A s \in SUBSET S : (\A r \in SUBSET s : r # s => r \in P) => s \in P
    PROVE  \A s \in SUBSET S : s \in P
  <1> DEFINE Bad   == {s \in SUBSET S : s \notin P}
             sizes == {Cardinality(s) : s \in Bad}
  <1>1. \A s \in SUBSET S : IsFiniteSet(s) /\ Cardinality(s) \in Nat
    BY FS_Subset, FS_CardinalityType
  <1>2. SUFFICES ASSUME Bad # {} PROVE FALSE
    OBVIOUS
  <1>3. PICK n \in sizes : \A m \in sizes : n <= m
    <2>1. sizes \in SUBSET Nat /\ sizes # {}
      BY <1>1, <1>2
    <2> HIDE DEF sizes
    <2> QED  BY <2>1, LeastNatural
  <1>4. PICK s \in Bad : n = Cardinality(s)
    BY <1>3
  <1>5. PICK r \in SUBSET s : r # s /\ r \notin P
    BY <1>4
  <1>6. r \in Bad
    BY <1>4, <1>5
  <1>7. IsFiniteSet(s) /\ Cardinality(r) \in Nat /\ n \in Nat
    BY <1>1, <1>4, <1>6
  <1>8. Cardinality(r) <= n /\ Cardinality(r) # n
    BY <1>4, <1>5, <1>7, FS_Subset
  <1>9. n <= Cardinality(r)
    BY <1>3, <1>6
  <1> QED  BY <1>7, <1>8, <1>9

\* The sums over the subsets of a set, as MapThenSumSet forms them.
IsSum(f, v, S) ==
    f = [s \in SUBSET S |->
            IF s = {} THEN 0 ELSE LET x == CHOOSE x \in s : TRUE IN v[x] + f[s \ {x}]]

Total(v, S) == CHOOSE n : \E f : IsSum(f, v, S) /\ n = f[S]

LEMMA SumExists ==
    ASSUME NEW S, IsFiniteSet(S), NEW v, \A x \in S : v[x] \in Nat
    PROVE  \E f : IsSum(f, v, S)
  <1> DEFINE op == [p \in S \X Nat |-> v[p[1]] + p[2]]
             ch == [s \in SUBSET S |-> CHOOSE x \in s : TRUE]
             zero == 0
  <1>1. op \in [S \X Nat -> Nat] /\ zero \in Nat
    OBVIOUS
  <1>2. \A s \in SUBSET S : s # {} => ch[s] \in s
    OBVIOUS
  <1>3. PICK f : IsSetFold(f, S, Nat, zero, op, ch)
    <2> HIDE DEF op, ch, zero
    <2> QED  BY <1>1, <1>2, SetFoldExists
  <1>4. /\ f \in [SUBSET S -> Nat]
        /\ \A s \in SUBSET S : f[s] = IF s = {} THEN 0 ELSE op[<<ch[s], f[s \ {ch[s]}]>>]
    <2> HIDE DEF op, ch
    <2> QED  BY <1>3 DEF IsSetFold
  <1>5. ASSUME NEW s \in SUBSET S, s # {}
        PROVE  LET x == CHOOSE x \in s : TRUE IN f[s] = v[x] + f[s \ {x}]
    <2> DEFINE x == CHOOSE x \in s : TRUE
    <2>1. ch[s] = x /\ x \in S /\ s \ {x} \in SUBSET S
      BY <1>5
    <2> HIDE DEF x
    <2>2. f[s \ {x}] \in Nat
      BY <1>4, <2>1
    <2>3. op[<<x, f[s \ {x}]>>] = v[x] + f[s \ {x}]
      BY <2>1, <2>2
    <2> HIDE DEF op, ch
    <2> QED  BY <1>4, <1>5, <2>1, <2>3 DEF x
  <1>6. f = [s \in SUBSET S |-> f[s]]
    BY <1>4
  <1>7. \A s \in SUBSET S :
           f[s] = IF s = {} THEN 0 ELSE LET x == CHOOSE x \in s : TRUE IN v[x] + f[s \ {x}]
    <2> HIDE DEF op, ch
    <2> QED  BY <1>4, <1>5
  <1>8. IsSum(f, v, S)
    <2> HIDE DEF op, ch
    <2> QED  BY <1>6, <1>7 DEF IsSum
  <1> QED  BY <1>8

\* Sums of values that agree agree.
LEMMA SumsAgree ==
    ASSUME NEW S, NEW T, NEW r, IsFiniteSet(r), r \subseteq S, r \subseteq T,
           NEW v, NEW w, \A x \in r : v[x] = w[x],
           NEW f, IsSum(f, v, S), NEW g, IsSum(g, w, T)
    PROVE  f[r] = g[r]
  <1> DEFINE P == {s \in SUBSET r : f[s] = g[s]}
  <1>1. /\ \A s \in SUBSET S :
              f[s] = IF s = {} THEN 0 ELSE LET x == CHOOSE x \in s : TRUE IN v[x] + f[s \ {x}]
        /\ \A s \in SUBSET T :
              g[s] = IF s = {} THEN 0 ELSE LET x == CHOOSE x \in s : TRUE IN w[x] + g[s \ {x}]
    BY DEF IsSum
  <1>2. ASSUME NEW s \in SUBSET r, \A q \in SUBSET s : q # s => q \in P
        PROVE  s \in P
    <2>1. CASE s = {}
      BY <1>1, <2>1
    <2>2. CASE s # {}
      <3> DEFINE x == CHOOSE x \in s : TRUE
      <3>1. x \in s
        BY <2>2
      <3>2. f[s] = v[x] + f[s \ {x}] /\ g[s] = w[x] + g[s \ {x}]
        BY <1>1, <2>2
      <3> HIDE DEF x
      <3>3. f[s \ {x}] = g[s \ {x}]
        BY <1>2, <3>1
      <3> QED  BY <3>1, <3>2, <3>3
    <2> QED  BY <2>1, <2>2
  <1>3. \A s \in SUBSET r : s \in P
    <2> HIDE DEF P
    <2> QED  BY <1>2, PartsInduction
  <1> QED  BY <1>3

\* So the sum is its total, and the totals of its parts.
LEMMA SumIsTotal ==
    ASSUME NEW S, IsFiniteSet(S), NEW v, \A x \in S : v[x] \in Nat, NEW f, IsSum(f, v, S)
    PROVE  \A s \in SUBSET S : f[s] = Total(v, s)
  <1> SUFFICES ASSUME NEW s \in SUBSET S
               PROVE  f[s] = Total(v, s)
    OBVIOUS
  <1> DEFINE Is(n) == \E g : IsSum(g, v, s) /\ n = g[s]
  <1>1. IsFiniteSet(s)
    BY FS_Subset
  <1>2. \E g : IsSum(g, v, s)
    BY <1>1, SumExists
  <1>3. \E n : Is(n)
    BY <1>2
  <1>4. Is(Total(v, s))
    <2>1. Total(v, s) = CHOOSE n : Is(n)
      BY Zenon DEF Total
    <2> HIDE DEF Is
    <2> QED  BY <1>3, <2>1
  <1>5. PICK g : IsSum(g, v, s) /\ Total(v, s) = g[s]
    BY <1>4
  <1>6. f[s] = g[s]
    BY <1>1, <1>5, SumsAgree
  <1> QED  BY <1>5, <1>6

\* A total is any one of the values and the total of the others.
LEMMA TotalIs ==
    ASSUME NEW S, IsFiniteSet(S), NEW v, \A x \in S : v[x] \in Nat
    PROVE  /\ Total(v, S) \in Nat
           /\ Total(v, {}) = 0
           /\ \A x \in S : Total(v, S) = v[x] + Total(v, S \ {x})
  <1>1. PICK f : IsSum(f, v, S)
    BY SumExists
  <1>2. \A s \in SUBSET S : f[s] = Total(v, s)
    BY <1>1, SumIsTotal
  <1>3. /\ f[{}] = 0
        /\ \A s \in SUBSET S : s # {} => LET x == CHOOSE x \in s : TRUE IN f[s] = v[x] + f[s \ {x}]
    BY <1>1 DEF IsSum
  <1> DEFINE P == {s \in SUBSET S : f[s] \in Nat /\ \A x \in s : f[s] = v[x] + f[s \ {x}]}
  <1>4. ASSUME NEW s \in SUBSET S, \A q \in SUBSET s : q # s => q \in P
        PROVE  s \in P
    <2>1. CASE s = {}
      BY <1>3, <2>1
    <2>2. CASE s # {}
      <3> DEFINE c == CHOOSE x \in s : TRUE
      <3>1. c \in s
        BY <2>2
      <3>2. f[s] = v[c] + f[s \ {c}]
        BY <1>3, <2>2
      <3> HIDE DEF c
      <3>3. s \ {c} \in P
        BY <1>4, <3>1
      <3>4. f[s \ {c}] \in Nat /\ v[c] \in Nat
        BY <3>1, <3>3
      <3>5. ASSUME NEW x \in s, x # c
            PROVE  f[s] = v[x] + f[s \ {x}]
        <4>1. x \in s \ {c} /\ c \in s \ {x} /\ x \in S
          BY <3>1, <3>5
        <4>2. s \ {x} \in P /\ (s \ {c}) \ {x} \in P
          BY <1>4, <3>1, <4>1
        <4>3. f[s \ {c}] = v[x] + f[(s \ {c}) \ {x}]
          BY <3>3, <4>1
        <4>4. f[s \ {x}] = v[c] + f[(s \ {x}) \ {c}]
          BY <4>1, <4>2
        <4>5. (s \ {x}) \ {c} = (s \ {c}) \ {x}
          OBVIOUS
        <4>6. f[(s \ {c}) \ {x}] \in Nat /\ v[x] \in Nat
          BY <4>1, <4>2
        <4> QED  BY <3>2, <3>4, <4>3, <4>4, <4>5, <4>6
      <3>6. f[s] \in Nat
        BY <3>2, <3>4
      <3> QED  BY <3>2, <3>5, <3>6
    <2> QED  BY <2>1, <2>2
  <1>5. \A s \in SUBSET S : s \in P
    <2> HIDE DEF P
    <2> QED  BY <1>4, PartsInduction
  <1>6. S \in P
    BY <1>5
  <1>7. \A x \in S : S \ {x} \in SUBSET S
    OBVIOUS
  <1> QED  BY <1>2, <1>3, <1>6, <1>7

\* A part has no more than the whole.
LEMMA TotalGrows ==
    ASSUME NEW S, IsFiniteSet(S), NEW v, \A x \in S : v[x] \in Nat, NEW T \in SUBSET S
    PROVE  Total(v, T) <= Total(v, S)
  <1> DEFINE P == {s \in SUBSET (S \ T) : Total(v, T) <= Total(v, T \cup s)}
  <1>1. \A s \in SUBSET S : IsFiniteSet(s) /\ Total(v, s) \in Nat
    <2> SUFFICES ASSUME NEW s \in SUBSET S
                 PROVE  IsFiniteSet(s) /\ Total(v, s) \in Nat
      OBVIOUS
    <2>1. IsFiniteSet(s) /\ \A x \in s : v[x] \in Nat
      BY FS_Subset
    <2> QED  BY <2>1, TotalIs
  <1>2. {} \in P
    <2>1. T \cup {} = T
      OBVIOUS
    <2> QED  BY <1>1, <2>1
  <1>3. ASSUME NEW s \in SUBSET (S \ T), s # {}
        PROVE  \E x \in s : s \ {x} \in P => s \in P
    <2>1. PICK x \in s : TRUE
      BY <1>3
    <2>2. ASSUME s \ {x} \in P
          PROVE  s \in P
      <3>1. T \cup s \in SUBSET S /\ (T \cup s) \ {x} = T \cup (s \ {x}) /\ x \in T \cup s
        BY <2>1
      <3>2. IsFiniteSet(T \cup s) /\ \A y \in T \cup s : v[y] \in Nat
        BY <1>1, <3>1
      <3>3. Total(v, T \cup s) = v[x] + Total(v, (T \cup s) \ {x})
        BY <3>1, <3>2, TotalIs
      <3>4. Total(v, T \cup s) = v[x] + Total(v, T \cup (s \ {x}))
        BY <3>1, <3>3
      <3>5. v[x] \in Nat /\ Total(v, T) \in Nat /\ Total(v, T \cup (s \ {x})) \in Nat
        BY <1>1, <3>1, <3>2
      <3>6. Total(v, T) <= Total(v, T \cup (s \ {x}))
        BY <2>2
      <3>7. Total(v, T) <= Total(v, T \cup s)
        BY <3>4, <3>5, <3>6
      <3> QED  BY <3>7
    <2> QED  BY <2>1, <2>2
  <1>4. IsFiniteSet(S \ T)
    BY FS_Subset
  <1>5. \A s \in SUBSET (S \ T) : s \in P
    <2> HIDE DEF P
    <2> QED  BY <1>2, <1>3, <1>4, SubsetInduction
  <1>6. T \cup (S \ T) = S
    OBVIOUS
  <1>7. S \ T \in P
    BY <1>5
  <1> QED  BY <1>6, <1>7

\* A set has at least as many elements as have been made of them.
LEMMA ImageIsFinite ==
    ASSUME NEW S, IsFiniteSet(S), NEW f
    PROVE  LET T == {f[x] : x \in S}
           IN  IsFiniteSet(T) /\ Cardinality(T) <= Cardinality(S)
  <1> DEFINE T(s) == {f[x] : x \in s}
             P == {s \in SUBSET S : IsFiniteSet(T(s)) /\ Cardinality(T(s)) <= Cardinality(s)}
  <1>1. \A s \in SUBSET S : IsFiniteSet(s) /\ Cardinality(s) \in Nat
    BY FS_Subset, FS_CardinalityType
  <1>2. {} \in P
    <2>1. T({}) = {}
      OBVIOUS
    <2> QED  BY <1>1, <2>1, FS_EmptySet
  <1>3. ASSUME NEW s \in SUBSET S, s # {}
        PROVE  \E x \in s : s \ {x} \in P => s \in P
    <2>1. PICK x \in s : TRUE
      BY <1>3
    <2>2. ASSUME s \ {x} \in P
          PROVE  s \in P
      <3> DEFINE old == T(s \ {x})
      <3>1. T(s) = old \cup {f[x]}
        BY <2>1
      <3>2. IsFiniteSet(old) /\ Cardinality(old) <= Cardinality(s \ {x})
        BY <2>2
      <3> HIDE DEF old
      <3>3. Cardinality(s \ {x}) = Cardinality(s) - 1 /\ Cardinality(s) \in Nat
        BY <1>1, <2>1, FS_RemoveElement
      <3>4. Cardinality(old) \in Nat
        BY <3>2, FS_CardinalityType
      <3>5. /\ IsFiniteSet(old \cup {f[x]})
            /\ Cardinality(old \cup {f[x]}) = IF f[x] \in old THEN Cardinality(old)
                                              ELSE Cardinality(old) + 1
        BY <3>2, FS_AddElement
      <3>6. Cardinality(old \cup {f[x]}) <= Cardinality(s)
        BY <3>2, <3>3, <3>4, <3>5
      <3> HIDE DEF T
      <3> QED  BY <3>1, <3>5, <3>6
    <2> HIDE DEF P
    <2> QED  BY <2>1, <2>2
  <1>4. \A s \in SUBSET S : s \in P
    <2> HIDE DEF P
    <2> QED  BY <1>2, <1>3, SubsetInduction
  <1>5. S \in P
    BY <1>4
  <1> QED  BY <1>5

-----------------------------------------------------------------------------
(* Graphs                                                                  *)

\* More edges join components and split none: connectedComponents, corpus_fusion.ts.
LEMMA ComponentsGrow ==
    ASSUME NEW E, NEW F, E \subseteq F, NEW m \in Components(E)
    PROVE  \E n \in Components(F) : m \subseteq n
  <1> DEFINE Closed(G, s) == s # {} /\ \A e \in G : e \cap s # {} => e \subseteq s
             C(G) == {s \in SUBSET UNION G : Closed(G, s)}
  <1>1. \A G : Components(G) = {s \in C(G) : \A r \in C(G) : r \subseteq s => r = s}
    BY DEF Components
  <1>2. m \in C(E) /\ \A r \in C(E) : r \subseteq m => r = m
    BY <1>1
  <1>3. PICK x \in m : TRUE
    BY <1>2
  <1> DEFINE U == UNION F
             n == {y \in U : \A c \in C(F) : x \in c => y \in c}
  <1>4. x \in U /\ m \subseteq U
    BY <1>2
  <1>5. x \in n /\ n \subseteq U /\ \A c \in C(F) : x \in c => n \subseteq c
    BY <1>4
  <1>6. n \in C(F)
    <2> SUFFICES ASSUME NEW e \in F, e \cap n # {}
                 PROVE  e \subseteq n
      BY <1>5
    <2>1. ASSUME NEW c \in C(F), x \in c
          PROVE  e \subseteq c
      <3>1. e \cap c # {}
        BY <1>5, <2>1
      <3> QED  BY <2>1, <3>1
    <2>2. e \subseteq U
      OBVIOUS
    <2> HIDE DEF C, U
    <2> QED  BY <2>1, <2>2
  <1>7. ASSUME NEW r \in C(F), r \subseteq n
        PROVE  r = n
    <2>1. CASE x \in r
      BY <1>5, <1>7, <2>1
    <2>2. CASE x \notin r
      <3>1. U \ r \in C(F)
        <4>1. x \in U \ r
          BY <1>4, <2>2
        <4>2. ASSUME NEW e \in F, e \cap (U \ r) # {}
              PROVE  e \subseteq U \ r
          <5>1. e \cap r # {} => e \subseteq r
            OBVIOUS
          <5> QED  BY <4>2, <5>1
        <4> QED  BY <4>1, <4>2
      <3>2. n \subseteq U \ r
        BY <1>4, <1>5, <2>2, <3>1
      <3>3. r # {}
        OBVIOUS
      <3> QED  BY <1>7, <3>2, <3>3
    <2> QED  BY <2>1, <2>2
  <1>8. m \subseteq n
    <2> DEFINE q == m \cap n
    <2>1. q \in C(E)
      <3>1. x \in q /\ q \in SUBSET UNION E
        BY <1>2, <1>5
      <3>2. ASSUME NEW e \in E, e \cap q # {}
            PROVE  e \subseteq q
        <4>1. e \subseteq m
          BY <1>2, <3>2
        <4>2. e \subseteq n
          <5>1. e \in F /\ e \cap n # {}
            BY <3>2
          <5> HIDE DEF n
          <5> QED  BY <1>6, <5>1
        <4> QED  BY <4>1, <4>2
      <3> HIDE DEF q
      <3> QED  BY <3>1, <3>2
    <2> HIDE DEF C, n
    <2> QED  BY <1>2, <2>1
  <1> HIDE DEF C, n
  <1> QED  BY <1>1, <1>6, <1>7, <1>8

-----------------------------------------------------------------------------
(* What a signal more does to a pair                                       *)

\* The same signals with the same scores, none of them the model's, and maybe more.
Adds(s, r) ==
    \A k \in Fired(s) : /\ k \in Fired(r) /\ r[k] = s[k]
                        /\ k \in DOMAIN SignalFamily \ {"embedding_similarity"}

Evidence == {"lexical", "declared_identity", "graph", "semantic_model"}

LEMMA EvidenceIsFinite == IsFiniteSet(Evidence)
  <1>1. IsFiniteSet({"lexical"})
    BY FS_Singleton
  <1>2. IsFiniteSet({"lexical"} \cup {"declared_identity"})
    BY <1>1, FS_AddElement
  <1>3. IsFiniteSet(({"lexical"} \cup {"declared_identity"}) \cup {"graph"})
    BY <1>2, FS_AddElement
  <1>4. IsFiniteSet((({"lexical"} \cup {"declared_identity"}) \cup {"graph"}) \cup {"semantic_model"})
    BY <1>3, FS_AddElement
  <1>5. Evidence = (({"lexical"} \cup {"declared_identity"}) \cup {"graph"}) \cup {"semantic_model"}
    BY DEF Evidence
  <1> QED  BY <1>4, <1>5

LEMMA MoreSignals ==
    ASSUME NEW s, NEW r, Adds(s, r), Fired(r) \subseteq DOMAIN SignalFamily
    PROVE  /\ Supporting(s) \subseteq Supporting(r) /\ "semantic_model" \notin Supporting(s)
           /\ Strongs(s) \subseteq Strongs(r)
           /\ Families(Strongs(s)) \subseteq Families(Strongs(r))
           /\ IsFiniteSet(Supporting(r)) /\ IsFiniteSet(Families(Strongs(r)))
           /\ Cardinality(Supporting(s)) >= 2 => Cardinality(Supporting(r)) >= 2
           /\ Cardinality(Families(Strongs(s))) >= 2 => Cardinality(Families(Strongs(r))) >= 2
  <1>1. \A k \in DOMAIN SignalFamily : SignalFamily[k] \in Evidence \cup {"context"}
    BY DEF SignalFamily, Evidence
  <1>2. \A k \in DOMAIN SignalFamily : SignalFamily[k] = "semantic_model" => k = "embedding_similarity"
    BY DEF SignalFamily
  <1>3. Fired(s) \subseteq Fired(r)
    BY DEF Adds
  <1>4. Supporting(s) \subseteq Supporting(r)
    BY <1>3 DEF Supporting, Families
  <1>5. "semantic_model" \notin Supporting(s)
    BY <1>2 DEF Supporting, Families, Adds
  <1>6. Strongs(s) \subseteq Strongs(r)
    <2> SUFFICES ASSUME NEW k \in Fired(s), IsStrong(s, k)
                 PROVE  k \in Fired(r) /\ IsStrong(r, k)
      BY DEF Strongs
    <2>1. k \in Fired(r) /\ r[k] = s[k]
      BY DEF Adds
    <2> QED  BY <2>1 DEF IsStrong
  <1>7. Families(Strongs(s)) \subseteq Families(Strongs(r))
    BY <1>6 DEF Families
  <1>8. IsFiniteSet(Supporting(r)) /\ IsFiniteSet(Families(Strongs(r)))
    <2>1. Supporting(r) \subseteq Evidence
      BY <1>1 DEF Supporting, Families
    <2>2. Families(Strongs(r)) \subseteq Evidence
      BY <1>1 DEF Strongs, Families
    <2> QED  BY <2>1, <2>2, EvidenceIsFinite, FS_Subset
  <1>9. ASSUME NEW a, NEW b, a \subseteq b, IsFiniteSet(b), Cardinality(a) >= 2
        PROVE  Cardinality(b) >= 2
    <2>1. IsFiniteSet(a) /\ Cardinality(a) <= Cardinality(b)
      BY <1>9, FS_Subset
    <2>2. Cardinality(a) \in Nat /\ Cardinality(b) \in Nat
      BY <1>9, <2>1, FS_CardinalityType
    <2> QED  BY <1>9, <2>1, <2>2
  <1> QED  BY <1>4, <1>5, <1>6, <1>7, <1>8, <1>9

\* A signal more never lowers a class, nor makes an edge of a project no edge:
\* deriveConfidenceClass and isProjectEligibleEdge, corpus_fusion.ts.
LEMMA ClassesGrow ==
    ASSUME NEW s, NEW r, Adds(s, r), Fired(r) \subseteq DOMAIN SignalFamily
    PROVE  /\ ConfidenceClass(s) # "weak" => ConfidenceClass(r) # "weak"
           /\ ConfidenceClass(s) = "strong" => ConfidenceClass(r) = "strong"
           /\ IsProjectEligibleEdge(s) => IsProjectEligibleEdge(r)
  <1> DEFINE Lone(q) == Supporting(q) \in {{}, {"semantic_model"}}
             Halfway(q) == \/ Strongs(q) \cap SourceDeclared # {}
                           \/ \E k, l \in Strongs(q) : k # l /\ SignalFamily[k] = SignalFamily[l]
             Two(q) == Cardinality(Supporting(q)) >= 2
             Both(q) == Cardinality(Families(Strongs(q))) >= 2
  <1>1. \A q : ConfidenceClass(q) = IF Lone(q) THEN "weak"
                                    ELSE IF Two(q) /\ Both(q) THEN "strong"
                                    ELSE IF Two(q) \/ Halfway(q) THEN "moderate" ELSE "weak"
    BY DEF ConfidenceClass
  <1>2. Lone(r) => Lone(s)
    BY MoreSignals
  <1>3. (Two(s) => Two(r)) /\ (Both(s) => Both(r))
    BY MoreSignals
  <1>4. Halfway(s) => Halfway(r)
    BY MoreSignals
  <1>5. IsProjectEligibleEdge(s) => IsProjectEligibleEdge(r)
    BY <1>3, MoreSignals DEF IsProjectEligibleEdge
  <1> HIDE DEF Lone, Halfway, Two, Both
  <1> QED  BY <1>1, <1>2, <1>3, <1>4, <1>5

Signals == {"title_overlap", "heading_overlap", "keyphrase_overlap", "near_duplicate",
          "exact_duplicate", "declared_identifier_match", "explicit_reference",
          "dependency_overlap", "embedding_similarity", "archive_context"}

\* A corpus is a sequence of these.
PlacedDocument == [at : DOMAIN PlaceOf, body : DOMAIN Features]

\* A model adds a signal to a pair and changes none: scorePair, corpus_pairs.ts.
LEMMA ScoresOfAPair ==
    ASSUME NEW docs, NEW phrases, NEW i, NEW j
    PROVE  LET s == ScorePair(docs, phrases, FALSE, i, j)
               r == ScorePair(docs, phrases, TRUE, i, j)
           IN  /\ Adds(s, r) /\ Fired(r) \subseteq DOMAIN SignalFamily
               /\ s.near_duplicate = r.near_duplicate
               /\ (Fired(s) # {} => Fired(r) # {})
  <1> DEFINE s == ScorePair(docs, phrases, FALSE, i, j)
             r == ScorePair(docs, phrases, TRUE, i, j)
  <1>1. DOMAIN SignalFamily = Signals
    BY DEF SignalFamily, Signals
  <1>2. DOMAIN s = Signals
    BY DEF ScorePair, Signals
  <1>3. DOMAIN r = Signals
    BY DEF ScorePair, Signals
  <1>4. ~Offers(docs, FALSE, i, j)
    BY DEF Offers
  <1>5. s["embedding_similarity"] = 0
    BY <1>4 DEF ScorePair
  <1>6. \A k \in Signals \ {"embedding_similarity"} : s[k] = r[k]
    <2> SUFFICES ASSUME NEW k \in Signals \ {"embedding_similarity"}
                 PROVE  s[k] = r[k]
      OBVIOUS
    <2>1. CASE k = "title_overlap"
      BY <2>1 DEF ScorePair
    <2>2. CASE k = "heading_overlap"
      BY <2>2 DEF ScorePair
    <2>3. CASE k = "keyphrase_overlap"
      BY <2>3 DEF ScorePair
    <2>4. CASE k = "near_duplicate"
      BY <2>4 DEF ScorePair
    <2>5. CASE k = "exact_duplicate"
      BY <2>5 DEF ScorePair
    <2>6. CASE k = "declared_identifier_match"
      BY <2>6 DEF ScorePair
    <2>7. CASE k = "explicit_reference"
      BY <2>7 DEF ScorePair
    <2>8. CASE k = "dependency_overlap"
      BY <2>8 DEF ScorePair
    <2>9. CASE k = "archive_context"
      BY <2>9 DEF ScorePair
    <2> QED  BY <2>1, <2>2, <2>3, <2>4, <2>5, <2>6, <2>7, <2>8, <2>9 DEF Signals
  <1>7. s["near_duplicate"] = r["near_duplicate"]
    BY <1>6 DEF Signals
  <1> HIDE DEF s, r
  <1>8. \A k \in Fired(s) : k \in Signals \ {"embedding_similarity"}
    BY <1>2, <1>5 DEF Fired
  <1>9. Adds(s, r)
    BY <1>1, <1>3, <1>6, <1>8 DEF Adds, Fired
  <1>10. Fired(r) \subseteq DOMAIN SignalFamily
    BY <1>1, <1>3 DEF Fired
  <1>11. Fired(s) # {} => Fired(r) # {}
    BY <1>9 DEF Adds
  <1> QED  BY <1>7, <1>9, <1>10, <1>11 DEF s, r

\* The pairs with embeddings are those without and maybe more, with all their signals.
Enlarges(docs, plain, modelled) ==
    /\ DOMAIN plain \subseteq DOMAIN modelled
    /\ DOMAIN modelled \subseteq SUBSET DOMAIN docs
    /\ \A p \in DOMAIN modelled : Fired(modelled[p]) \subseteq DOMAIN SignalFamily
    /\ \A p \in DOMAIN plain : /\ Adds(plain[p], modelled[p])
                               /\ plain[p].near_duplicate = modelled[p].near_duplicate

LEMMA PairsGrow ==
    ASSUME NEW docs \in Seq(PlacedDocument), NEW phrases
    PROVE  Enlarges(docs, SemanticPairs(docs, phrases, FALSE), SemanticPairs(docs, phrases, TRUE))
  <1> DEFINE Score(model, p) == ScorePair(docs, phrases, model, Min(p), Max(p))
             Prop(model, p) == Proposed(docs, phrases, model, Min(p), Max(p))
             two == kSubset(2, DOMAIN docs)
             s == SemanticPairs(docs, phrases, FALSE)
             r == SemanticPairs(docs, phrases, TRUE)
             S == {q \in two : Prop(FALSE, q) /\ Fired(Score(FALSE, q)) # {}}
             R == {q \in two : Prop(TRUE, q) /\ Fired(Score(TRUE, q)) # {}}
  <1>1. s = [p \in S |-> Score(FALSE, p)]
    BY DEF SemanticPairs
  <1>2. r = [p \in R |-> Score(TRUE, p)]
    BY DEF SemanticPairs
  <1>3. \A p : Prop(FALSE, p) => Prop(TRUE, p)
    BY DEF Proposed, Offers
  <1>4. \A p \in two : p \in SUBSET DOMAIN docs
    BY DEF kSubset
  <1>5. \A p : /\ Adds(Score(FALSE, p), Score(TRUE, p))
               /\ Fired(Score(TRUE, p)) \subseteq DOMAIN SignalFamily
               /\ Score(FALSE, p).near_duplicate = Score(TRUE, p).near_duplicate
               /\ (Fired(Score(FALSE, p)) # {} => Fired(Score(TRUE, p)) # {})
    BY ScoresOfAPair
  <1> HIDE DEF Score, Prop, two, s, r
  <1>6. S \subseteq R
    BY <1>3, <1>5
  <1>7. DOMAIN s = S /\ DOMAIN r = R
    BY <1>1, <1>2
  <1>8. \A p \in S : s[p] = Score(FALSE, p)
    BY <1>1
  <1>9. \A p \in R : r[p] = Score(TRUE, p)
    BY <1>2
  <1>10. R \subseteq SUBSET DOMAIN docs
    BY <1>4
  <1> HIDE DEF S, R
  <1>11. \A p \in DOMAIN r : Fired(r[p]) \subseteq DOMAIN SignalFamily
    BY <1>5, <1>7, <1>9
  <1>12. ASSUME NEW p \in DOMAIN s
         PROVE  Adds(s[p], r[p]) /\ s[p].near_duplicate = r[p].near_duplicate
    <2>1. s[p] = Score(FALSE, p) /\ r[p] = Score(TRUE, p)
      BY <1>6, <1>7, <1>8, <1>9
    <2> QED  BY <1>5, <2>1
  <1>13. Enlarges(docs, s, r)
    BY <1>6, <1>7, <1>10, <1>11, <1>12 DEF Enlarges
  <1> QED  BY <1>13 DEF s, r

-----------------------------------------------------------------------------
(* What a document more does to a candidate                                *)

\* More of a finite set is at least as much.
LEMMA MoreIsMore ==
    ASSUME NEW T, IsFiniteSet(T), NEW S \in SUBSET T
    PROVE  /\ IsFiniteSet(S) /\ Cardinality(S) \in Nat /\ Cardinality(T) \in Nat
           /\ Cardinality(S) <= Cardinality(T)
           /\ \A n \in Nat : Cardinality(S) > n => Cardinality(T) > n
  <1>1. IsFiniteSet(S) /\ Cardinality(S) <= Cardinality(T)
    BY FS_Subset
  <1>2. Cardinality(S) \in Nat /\ Cardinality(T) \in Nat
    BY <1>1, FS_CardinalityType
  <1> QED  BY <1>1, <1>2

\* What is read of documents is finite.
LEMMA ReadingsAreFinite ==
    ASSUME NEW docs \in Seq(PlacedDocument), NEW members \in SUBSET DOMAIN docs
    PROVE  /\ IsFiniteSet(members)
           /\ \A i \in members : Cardinality(View(docs, i).replaces) \in Nat
           /\ IsFiniteSet(Names(docs, members))
           /\ IsFiniteSet(Ancestries(docs, members))
           /\ IsFiniteSet(BodiesOf(docs, members))
           /\ IsFiniteSet(Clusters(docs, members))
  <1>1. IsFiniteSet(DOMAIN docs)
    <2>1. DOMAIN docs = 1 .. Len(docs) /\ Len(docs) \in Nat
      OBVIOUS
    <2> QED  BY <2>1, FS_Interval
  <1>2. IsFiniteSet(members)
    BY <1>1, FS_Subset
  <1>3. ASSUME NEW i \in members
        PROVE  IsFiniteSet(View(docs, i).names) /\ IsFiniteSet(View(docs, i).replaces)
    <2>1. docs[i] \in PlacedDocument
      OBVIOUS
    <2>2. docs[i].body \in DOMAIN Features
      BY <2>1 DEF PlacedDocument
    <2> DEFINE f == Features[docs[i].body]
    <2>3. "names" \in DOMAIN f /\ "replaces" \in DOMAIN f
      BY <2>2, FeaturesAssumption
    <2>4. IsFiniteSet(f["names"]) /\ IsFiniteSet(f["replaces"])
      BY <2>2, <2>3, FeaturesAssumption
    <2> QED  BY <2>4 DEF View
  <1>4. \A i \in members : Cardinality(View(docs, i).replaces) \in Nat
    BY <1>3, FS_CardinalityType
  <1>5. IsFiniteSet(Names(docs, members))
    <2> DEFINE f == [i \in members |-> View(docs, i).names]
               T == {f[i] : i \in members}
    <2>1. IsFiniteSet(T)
      <3> HIDE DEF f
      <3> QED  BY <1>2, ImageIsFinite
    <2>2. \A t \in T : IsFiniteSet(t)
      BY <1>3
    <2>3. Names(docs, members) = UNION T
      BY DEF Names
    <2> HIDE DEF T
    <2> QED  BY <2>1, <2>2, <2>3, FS_UNION
  <1>6. IsFiniteSet(Ancestries(docs, members))
    <2> DEFINE f == [i \in members |-> Place(docs, i).archives]
               T == {f[i] : i \in members}
    <2>1. IsFiniteSet(T)
      <3> HIDE DEF f
      <3> QED  BY <1>2, ImageIsFinite
    <2>2. Ancestries(docs, members) = T
      BY DEF Ancestries
    <2> QED  BY <2>1, <2>2
  <1>7. IsFiniteSet(BodiesOf(docs, members))
    <2> DEFINE f == [i \in members |-> docs[i].body]
               T == {f[i] : i \in members}
    <2>1. IsFiniteSet(T)
      <3> HIDE DEF f
      <3> QED  BY <1>2, ImageIsFinite
    <2>2. BodiesOf(docs, members) = T
      BY DEF BodiesOf
    <2> QED  BY <2>1, <2>2
  <1>8. IsFiniteSet(Clusters(docs, members))
    <2> DEFINE f == [i \in members |-> Cluster(docs, i)]
               T == {f[i] : i \in members}
    <2>1. IsFiniteSet(T)
      <3> HIDE DEF f
      <3> QED  BY <1>2, ImageIsFinite
    <2>2. Clusters(docs, members) \subseteq T
      BY DEF Clusters
    <2> QED  BY <2>1, <2>2, FS_Subset
  <1> QED  BY <1>2, <1>4, <1>5, <1>6, <1>7, <1>8

\* A larger project has all that a part of it has.
LEMMA ReadingsGrow ==
    ASSUME NEW docs \in Seq(PlacedDocument), NEW n \in SUBSET DOMAIN docs, NEW m \in SUBSET n
    PROVE  /\ ConflictingStatuses(docs, m) => ConflictingStatuses(docs, n)
           /\ Clusters(docs, m) \subseteq Clusters(docs, n)
           /\ Names(docs, m) \subseteq Names(docs, n)
           /\ Ancestries(docs, m) \subseteq Ancestries(docs, n)
           /\ BodiesOf(docs, m) \subseteq BodiesOf(docs, n)
  <1>1. Statuses(docs, m) \subseteq Statuses(docs, n)
    BY DEF Statuses
  <1> QED  BY <1>1 DEF ConflictingStatuses, Clusters, Names, Ancestries, BodiesOf

\* Each document more brings a cluster more at most.
LEMMA MixedStaysMixed ==
    ASSUME NEW docs \in Seq(PlacedDocument), NEW n \in SUBSET DOMAIN docs, NEW m \in SUBSET n,
           Cardinality(m) > Cardinality(Clusters(docs, m)) + 1
    PROVE  Cardinality(n) > Cardinality(Clusters(docs, n)) + 1
  <1> DEFINE more == n \ m
             f    == [i \in more |-> Cluster(docs, i)]
             T    == {f[i] : i \in more}
             a    == Clusters(docs, m)
             b    == Clusters(docs, n)
  <1>1. IsFiniteSet(n) /\ IsFiniteSet(a) /\ IsFiniteSet(b)
    BY ReadingsAreFinite
  <1>2. IsFiniteSet(more) /\ IsFiniteSet(m)
    BY <1>1, FS_Subset
  <1>3. IsFiniteSet(T) /\ Cardinality(T) <= Cardinality(more)
    <2> HIDE DEF f
    <2> QED  BY <1>2, ImageIsFinite
  <1>4. b \subseteq a \cup T
    BY DEF Clusters
  <1> HIDE DEF a, b, T
  <1>5. /\ IsFiniteSet(a \cup T)
        /\ Cardinality(a \cup T) = Cardinality(a) + Cardinality(T) - Cardinality(a \cap T)
    BY <1>1, <1>3, FS_Union
  <1>6. Cardinality(b) <= Cardinality(a \cup T)
    BY <1>4, <1>5, FS_Subset
  <1>7. Cardinality(more) = Cardinality(n) - Cardinality(m)
    <2>1. Cardinality(n \ m) = Cardinality(n) - Cardinality(n \cap m)
      BY <1>1, FS_Difference
    <2>2. n \cap m = m
      OBVIOUS
    <2> QED  BY <2>1, <2>2
  <1> HIDE DEF more
  <1>8. IsFiniteSet(a \cap T)
    BY <1>1, FS_Intersection
  <1>9. /\ Cardinality(a) \in Nat /\ Cardinality(b) \in Nat /\ Cardinality(T) \in Nat
        /\ Cardinality(a \cup T) \in Nat /\ Cardinality(a \cap T) \in Nat
        /\ Cardinality(m) \in Nat /\ Cardinality(n) \in Nat
    BY <1>1, <1>2, <1>3, <1>5, <1>8, FS_CardinalityType
  <1>10. Cardinality(m) > Cardinality(a) + 1
    BY DEF a
  <1>11. Cardinality(n) > Cardinality(b) + 1
    BY <1>3, <1>5, <1>6, <1>7, <1>9, <1>10
  <1> QED  BY <1>11 DEF b

LEMMA DeclaredGrows ==
    ASSUME NEW docs \in Seq(PlacedDocument), NEW n \in SUBSET DOMAIN docs, NEW m \in SUBSET n
    PROVE  LET declared(s) == MapThenSumSet(LAMBDA i : Cardinality(View(docs, i).replaces), s)
           IN  declared(m) > 1 => declared(n) > 1
  <1> DEFINE v == [i \in n |-> Cardinality(View(docs, i).replaces)]
             declared(s) == MapThenSumSet(LAMBDA i : Cardinality(View(docs, i).replaces), s)
  <1>1. IsFiniteSet(n) /\ IsFiniteSet(m) /\ \A i \in n : v[i] \in Nat
    BY ReadingsAreFinite
  <1>2. ASSUME NEW s \in SUBSET n
        PROVE  declared(s) = Total(v, s)
    <2> DEFINE Is(f) == f = [r \in SUBSET s |->
                               IF r = {} THEN 0
                               ELSE LET x == CHOOSE x \in r : TRUE
                                    IN  Cardinality(View(docs, x).replaces) + f[r \ {x}]]
               iter == CHOOSE f : Is(f)
    <2>1. declared(s) = iter[s]
      BY DEF MapThenSumSet, MapThenFoldSet
    <2>2. IsFiniteSet(s) /\ \A i \in s : v[i] \in Nat
      BY <1>1, FS_Subset
    <2>3. PICK f : IsSum(f, v, s)
      <3> HIDE DEF v
      <3> QED  BY <2>2, SumExists
    <2>4. \A r \in SUBSET s : r # {} => LET x == CHOOSE x \in r : TRUE
                                        IN  v[x] = Cardinality(View(docs, x).replaces)
      OBVIOUS
    <2>5. \A g : IsSum(g, v, s) <=> Is(g)
      <3> HIDE DEF v
      <3> QED  BY <2>4 DEF IsSum
    <2>6. Is(iter)
      <3> HIDE DEF Is, v
      <3> QED  BY <2>3, <2>5
    <2> HIDE DEF iter, Is, v
    <2>7. IsSum(iter, v, s)
      BY <2>5, <2>6
    <2> HIDE DEF declared
    <2>8. IsFiniteSet(s)
      BY <2>2
    <2>9. \A i \in s : v[i] \in Nat
      BY <2>2
    <2>10. ASSUME NEW w, \A i \in s : w[i] \in Nat, NEW g, IsSum(g, w, s)
           PROVE  g[s] = Total(w, s)
      <3>1. \A r \in SUBSET s : g[r] = Total(w, r)
        BY <2>8, <2>10, SumIsTotal
      <3> QED  BY <3>1
    <2>11. iter[s] = Total(v, s)
      BY <2>7, <2>9, <2>10
    <2> QED  BY <2>1, <2>11
  <1> HIDE DEF v, declared
  <1>3. Total(v, m) <= Total(v, n) /\ Total(v, m) \in Nat /\ Total(v, n) \in Nat
    <2>1. \A i \in m : v[i] \in Nat
      BY <1>1
    <2> QED  BY <1>1, <2>1, TotalGrows, TotalIs
  <1>4. declared(m) > 1 => declared(n) > 1
    BY <1>2, <1>3
  <1> QED  BY <1>4 DEF declared

\* What is asked of a project is asked of a larger one, or something more urgent.
LEMMA ProjectsStayRouted ==
    ASSUME NEW docs \in Seq(PlacedDocument), NEW n \in SUBSET DOMAIN docs, NEW m \in SUBSET n,
           RouteProject(docs, m) # "NONE"
    PROVE  RouteProject(docs, n) # "NONE"
  <1> DEFINE cl(s) == Cardinality(Clusters(docs, s))
             Mixed(s) == cl(s) > 0 /\ Cardinality(s) > cl(s) + 1
             Declares(s) == MapThenSumSet(LAMBDA i : Cardinality(View(docs, i).replaces), s) > 1
             Evolves(s) == Cardinality(Ancestries(docs, s)) > 1 /\ cl(s) > 0
             Named(s) == Cardinality(Names(docs, s)) > 1
             Asked(s) == ConflictingStatuses(docs, s) \/ (Declares(s) /\ Mixed(s)) \/ Evolves(s) \/ Named(s)
  <1>1. \A s : RouteProject(docs, s) # "NONE" <=> Asked(s)
    BY DEF RouteProject
  <1>2. cl(m) > 0 => cl(n) > 0
    BY ReadingsAreFinite, ReadingsGrow, MoreIsMore
  <1>3. Cardinality(Ancestries(docs, m)) > 1 => Cardinality(Ancestries(docs, n)) > 1
    BY ReadingsAreFinite, ReadingsGrow, MoreIsMore
  <1>4. Named(m) => Named(n)
    BY ReadingsAreFinite, ReadingsGrow, MoreIsMore
  <1>5. Mixed(m) => Mixed(n)
    BY <1>2, MixedStaysMixed
  <1>6. Declares(m) => Declares(n)
    BY DeclaredGrows
  <1>7. ConflictingStatuses(docs, m) => ConflictingStatuses(docs, n)
    BY ReadingsGrow
  <1> HIDE DEF Mixed, Declares, Named
  <1> QED  BY <1>1, <1>2, <1>3, <1>4, <1>5, <1>6, <1>7

-----------------------------------------------------------------------------
(* The rows of the queue                                                   *)

\* Both kinds of edges grow, and so do the candidates they connect.
Grows(A, B) == \A m \in A : \E n \in B : m \subseteq n

LEMMA CandidatesGrow ==
    ASSUME NEW docs, NEW plain, NEW modelled, Enlarges(docs, plain, modelled)
    PROVE  /\ Grows(TopicCandidates(plain), TopicCandidates(modelled))
           /\ Grows(ProjectCandidates(plain), ProjectCandidates(modelled))
  <1> DEFINE Firm(pairs) == {p \in DOMAIN pairs : ConfidenceClass(pairs[p]) # "weak"}
             Sturdy(pairs) == {p \in DOMAIN pairs : IsProjectEligibleEdge(pairs[p])}
  <1>1. ASSUME NEW p \in DOMAIN plain
        PROVE  /\ p \in DOMAIN modelled
               /\ ConfidenceClass(plain[p]) # "weak" => ConfidenceClass(modelled[p]) # "weak"
               /\ IsProjectEligibleEdge(plain[p]) => IsProjectEligibleEdge(modelled[p])
    <2>1. p \in DOMAIN modelled
      BY DEF Enlarges
    <2>2. Adds(plain[p], modelled[p]) /\ Fired(modelled[p]) \subseteq DOMAIN SignalFamily
      BY <2>1 DEF Enlarges
    <2> QED  BY <2>1, <2>2, ClassesGrow
  <1>2. Firm(plain) \subseteq Firm(modelled)
    BY <1>1
  <1>3. Sturdy(plain) \subseteq Sturdy(modelled)
    BY <1>1
  <1>4. ASSUME NEW E, NEW F, E \subseteq F
        PROVE  Grows(Components(E), Components(F))
    BY <1>4, ComponentsGrow DEF Grows
  <1>5. \A pairs : /\ TopicCandidates(pairs) = Components(Firm(pairs))
                   /\ ProjectCandidates(pairs) = Components(Sturdy(pairs))
    BY DEF TopicCandidates, ProjectCandidates
  <1> HIDE DEF Firm, Sturdy
  <1>6. Grows(Components(Firm(plain)), Components(Firm(modelled)))
    BY <1>2, <1>4
  <1>7. Grows(Components(Sturdy(plain)), Components(Sturdy(modelled)))
    BY <1>3, <1>4
  <1> QED  BY <1>5, <1>6, <1>7

\* The candidates are made of documents.
LEMMA CandidatesAreDocuments ==
    ASSUME NEW docs, NEW plain, NEW modelled, Enlarges(docs, plain, modelled),
           NEW n \in TopicCandidates(modelled) \cup ProjectCandidates(modelled)
    PROVE  n \in SUBSET DOMAIN docs
  <1>1. PICK E : n \in Components(E) /\ E \subseteq DOMAIN modelled
    BY DEF TopicCandidates, ProjectCandidates
  <1>2. n \subseteq UNION E
    BY <1>1 DEF Components
  <1>3. E \subseteq SUBSET DOMAIN docs
    BY <1>1 DEF Enlarges
  <1> QED  BY <1>2, <1>3

\* A topic that is asked about stays one when it grows: routeTopic.
LEMMA TopicsStayRouted ==
    ASSUME NEW docs, NEW plain, NEW modelled, Enlarges(docs, plain, modelled),
           NEW n, NEW m \in SUBSET n, RouteTopic(plain, m) # "NONE"
    PROVE  RouteTopic(modelled, n) # "NONE"
  <1> DEFINE Together(pairs, s) == UNION {Supporting(pairs[p]) : p \in Within(pairs, s)}
             Firm(pairs, s) == \E p \in Within(pairs, s) : ConfidenceClass(pairs[p]) = "strong"
  <1>1. \A pairs, s : RouteTopic(pairs, s) # "NONE"
                        <=> (Firm(pairs, s) /\ Cardinality(Together(pairs, s)) >= 2)
    BY DEF RouteTopic
  <1>2. ASSUME NEW p \in Within(plain, m)
        PROVE  /\ p \in DOMAIN plain /\ p \in Within(modelled, n)
               /\ Adds(plain[p], modelled[p]) /\ Fired(modelled[p]) \subseteq DOMAIN SignalFamily
    <2>1. p \in DOMAIN plain /\ p \subseteq m
      BY DEF Within
    <2>2. p \in DOMAIN modelled /\ p \subseteq n
      BY <2>1 DEF Enlarges
    <2> QED  BY <2>1, <2>2 DEF Enlarges, Within
  <1>3. Firm(plain, m) => Firm(modelled, n)
    <2> SUFFICES ASSUME NEW p \in Within(plain, m), ConfidenceClass(plain[p]) = "strong"
                 PROVE  Firm(modelled, n)
      OBVIOUS
    <2>1. ConfidenceClass(modelled[p]) = "strong"
      BY <1>2, ClassesGrow
    <2> QED  BY <1>2, <2>1
  <1>4. Together(plain, m) \subseteq Together(modelled, n)
    <2> SUFFICES ASSUME NEW p \in Within(plain, m)
                 PROVE  Supporting(plain[p]) \subseteq Supporting(modelled[p])
      BY <1>2
    <2> QED  BY <1>2, MoreSignals
  <1>5. IsFiniteSet(Together(modelled, n))
    <2>1. ASSUME NEW p \in Within(modelled, n)
          PROVE  Supporting(modelled[p]) \subseteq Evidence
      <3>1. Fired(modelled[p]) \subseteq DOMAIN SignalFamily
        BY DEF Within, Enlarges
      <3> QED  BY <3>1 DEF Supporting, Families, SignalFamily, Evidence
    <2>2. IsFiniteSet(Evidence)
      BY EvidenceIsFinite
    <2>3. Together(modelled, n) \subseteq Evidence
      BY <2>1
    <2> QED  BY <2>2, <2>3, FS_Subset
  <1> HIDE DEF Together, Firm
  <1>6. /\ Cardinality(Together(plain, m)) \in Nat /\ Cardinality(Together(modelled, n)) \in Nat
        /\ Cardinality(Together(plain, m)) <= Cardinality(Together(modelled, n))
    <2>1. Together(plain, m) \in SUBSET Together(modelled, n)
      BY <1>4
    <2> QED  BY <1>5, <2>1, MoreIsMore
  <1>7. Cardinality(Together(plain, m)) >= 2 => Cardinality(Together(modelled, n)) >= 2
    BY <1>6
  <1> QED  BY <1>1, <1>3, <1>7

\* A consolidation is of something to consolidate as long as the bodies differ.
LEMMA ConsolidationsStayRouted ==
    ASSUME NEW docs \in Seq(PlacedDocument), NEW n \in SUBSET DOMAIN docs, NEW m \in SUBSET n,
           NEW plain, NEW modelled, RouteConsolidation(docs, plain, m) # "NONE"
    PROVE  RouteConsolidation(docs, modelled, n) # "NONE"
  <1> DEFINE b(s) == Cardinality(BodiesOf(docs, s))
  <1>1. /\ b(m) \in Nat /\ b(n) \in Nat /\ b(m) <= b(n)
    <2>1. IsFiniteSet(BodiesOf(docs, n))
      BY ReadingsAreFinite
    <2>2. BodiesOf(docs, m) \in SUBSET BodiesOf(docs, n)
      BY ReadingsGrow
    <2> QED  BY <2>1, <2>2, MoreIsMore
  <1>2. b(m) > 1
    <2>1. ~(b(m) <= 1)
      BY DEF RouteConsolidation
    <2> QED  BY <1>1, <2>1
  <1>3. ~(b(n) <= 1)
    BY <1>1, <1>2
  <1> HIDE DEF b
  <1>4. ~(Cardinality(BodiesOf(docs, n)) <= 1)
    BY <1>3 DEF b
  <1> QED  BY <1>4 DEF RouteConsolidation

\* What is to be consolidated without embeddings is part of something that is to be
\* consolidated with them: buildConsolidationCandidates, corpus_fusion.ts.
LEMMA ConsolidationsGrow ==
    ASSUME NEW docs \in Seq(PlacedDocument), NEW plain, NEW modelled,
           Enlarges(docs, plain, modelled)
    PROVE  Grows(ConsolidationCandidates(docs, plain), ConsolidationCandidates(docs, modelled))
  <1> DEFINE Lineage(pairs, p) == Supersessions(docs, p) # {} \/ pairs[p].near_duplicate > 0
             Several(s) == Cardinality(BodiesOf(docs, s)) >= 2
             Handed(pairs, s) == \E p \in Within(pairs, s) : Lineage(pairs, p)
             Copies == Clusters(docs, DOMAIN docs)
             Pairs(pairs) == {p \in DOMAIN pairs : Lineage(pairs, p)}
             Projects(pairs) == {s \in ProjectCandidates(pairs) : Several(s) /\ Handed(pairs, s)}
  <1>1. \A pairs : ConsolidationCandidates(docs, pairs) = Copies \cup Pairs(pairs) \cup Projects(pairs)
    BY DEF ConsolidationCandidates
  <1>2. ASSUME NEW p \in DOMAIN plain, Lineage(plain, p)
        PROVE  p \in DOMAIN modelled /\ Lineage(modelled, p)
    BY <1>2 DEF Enlarges
  <1> HIDE DEF Lineage
  <1>3. Pairs(plain) \subseteq Pairs(modelled)
    BY <1>2
  <1>4. ASSUME NEW m \in Projects(plain)
        PROVE  \E n \in Projects(modelled) : m \subseteq n
    <2>1. m \in ProjectCandidates(plain) /\ Several(m) /\ Handed(plain, m)
      OBVIOUS
    <2>2. PICK n \in ProjectCandidates(modelled) : m \subseteq n
      BY <2>1, CandidatesGrow DEF Grows
    <2>3. n \in SUBSET DOMAIN docs
      BY CandidatesAreDocuments
    <2>4. Several(n)
      <3>1. IsFiniteSet(BodiesOf(docs, n))
        BY <2>3, ReadingsAreFinite
      <3>2. BodiesOf(docs, m) \in SUBSET BodiesOf(docs, n)
        BY <2>2, <2>3, ReadingsGrow
      <3>3. /\ Cardinality(BodiesOf(docs, m)) \in Nat /\ Cardinality(BodiesOf(docs, n)) \in Nat
            /\ Cardinality(BodiesOf(docs, m)) <= Cardinality(BodiesOf(docs, n))
        BY <3>1, <3>2, MoreIsMore
      <3> QED  BY <2>1, <3>3
    <2>5. Handed(modelled, n)
      <3>1. PICK p \in Within(plain, m) : Lineage(plain, p)
        BY <2>1
      <3>2. p \in DOMAIN plain /\ p \subseteq m
        BY DEF Within
      <3>3. p \in DOMAIN modelled /\ Lineage(modelled, p)
        BY <1>2, <3>1, <3>2
      <3>4. p \in Within(modelled, n)
        BY <2>2, <3>2, <3>3 DEF Within
      <3> QED  BY <3>3, <3>4
    <2> HIDE DEF Several, Handed
    <2>6. n \in Projects(modelled)
      BY <2>4, <2>5
    <2> QED  BY <2>2, <2>6
  <1> HIDE DEF Copies, Pairs, Projects
  <1>5. ASSUME NEW m \in ConsolidationCandidates(docs, plain)
        PROVE  \E n \in ConsolidationCandidates(docs, modelled) : m \subseteq n
    <2>1. CASE m \in Copies \cup Pairs(plain)
      BY <1>1, <1>3, <2>1
    <2>2. CASE m \in Projects(plain)
      BY <1>1, <1>4, <2>2
    <2> QED  BY <1>1, <2>1, <2>2
  <1> QED  BY <1>5 DEF Grows

LEMMA ConsolidationsAreDocuments ==
    ASSUME NEW docs, NEW plain, NEW modelled, Enlarges(docs, plain, modelled),
           NEW n \in ConsolidationCandidates(docs, modelled)
    PROVE  n \in SUBSET DOMAIN docs
  <1>1. CASE n \in Clusters(docs, DOMAIN docs)
    BY <1>1 DEF Clusters, Cluster
  <1>2. CASE n \in DOMAIN modelled
    BY <1>2 DEF Enlarges
  <1>3. CASE n \in ProjectCandidates(modelled)
    BY <1>3, CandidatesAreDocuments
  <1> QED  BY <1>1, <1>2, <1>3 DEF ConsolidationCandidates

\* For every corpus of documents, library of readings and thresholds, and whatever
\* phrases the documents are given: what a reasoner is asked without embeddings
\* (routeReasoningCandidates, corpus_reasoning.ts) it is asked with them, of the same
\* kind and about those documents at least.
THEOREM AModelOnlyAdds ==
    ASSUME NEW docs \in Seq(PlacedDocument), NEW phrases
    PROVE  EmbeddingsOnlyAdd(docs, SemanticPairs(docs, phrases, FALSE),
                                   SemanticPairs(docs, phrases, TRUE))
  <1> DEFINE plain    == SemanticPairs(docs, phrases, FALSE)
             modelled == SemanticPairs(docs, phrases, TRUE)
  <1>1. Enlarges(docs, plain, modelled)
    BY PairsGrow
  <1> HIDE DEF plain, modelled
  <1>2. \A pairs, row :
           row \in Rows(docs, pairs) <=>
              /\ row.reasoning # "NONE"
              /\ \/ \E m \in TopicCandidates(pairs) : row = Row("TOPIC", m, RouteTopic(pairs, m))
                 \/ \E m \in ProjectCandidates(pairs) : row = Row("PROJECT", m, RouteProject(docs, m))
                 \/ \E m \in ConsolidationCandidates(docs, pairs) :
                       row = Row("CONSOLIDATION", m, RouteConsolidation(docs, pairs, m))
    BY DEF Rows, ReasoningEligible, ReasoningCandidates
  <1>3. \A type, m, route : LET row == Row(type, m, route)
                            IN  row.type = type /\ row.members = m /\ row.reasoning = route
    BY DEF Row
  <1>4. ASSUME NEW row \in Rows(docs, plain)
        PROVE  \E r \in Rows(docs, modelled) : r.type = row.type /\ row.members \subseteq r.members
    <2>1. CASE \E m \in TopicCandidates(plain) : row = Row("TOPIC", m, RouteTopic(plain, m))
      <3>1. PICK m \in TopicCandidates(plain) : row = Row("TOPIC", m, RouteTopic(plain, m))
        BY <2>1
      <3>2. PICK n \in TopicCandidates(modelled) : m \subseteq n
        BY <1>1, CandidatesGrow DEF Grows
      <3>3. RouteTopic(plain, m) # "NONE"
        BY <1>2, <1>3, <3>1
      <3>4. RouteTopic(modelled, n) # "NONE"
        BY <1>1, <3>2, <3>3, TopicsStayRouted
      <3> DEFINE r == Row("TOPIC", n, RouteTopic(modelled, n))
      <3>5. r.type = "TOPIC" /\ r.members = n /\ r.reasoning # "NONE"
        BY <1>3, <3>4
      <3>6. r \in Rows(docs, modelled)
        BY <1>2, <3>5
      <3>7. row.type = "TOPIC" /\ row.members = m
        BY <1>3, <3>1
      <3> HIDE DEF r
      <3> QED  BY <3>2, <3>5, <3>6, <3>7
    <2>2. CASE \E m \in ProjectCandidates(plain) : row = Row("PROJECT", m, RouteProject(docs, m))
      <3>1. PICK m \in ProjectCandidates(plain) : row = Row("PROJECT", m, RouteProject(docs, m))
        BY <2>2
      <3>2. PICK n \in ProjectCandidates(modelled) : m \subseteq n
        BY <1>1, CandidatesGrow DEF Grows
      <3>3. RouteProject(docs, m) # "NONE"
        BY <1>2, <1>3, <3>1
      <3>4. n \in SUBSET DOMAIN docs
        BY <1>1, CandidatesAreDocuments
      <3>5. RouteProject(docs, n) # "NONE"
        BY <3>2, <3>3, <3>4, ProjectsStayRouted
      <3> DEFINE r == Row("PROJECT", n, RouteProject(docs, n))
      <3>6. r.type = "PROJECT" /\ r.members = n /\ r.reasoning # "NONE"
        BY <1>3, <3>5
      <3>7. r \in Rows(docs, modelled)
        BY <1>2, <3>6
      <3>8. row.type = "PROJECT" /\ row.members = m
        BY <1>3, <3>1
      <3> HIDE DEF r
      <3> QED  BY <3>2, <3>6, <3>7, <3>8
    <2>3. CASE \E m \in ConsolidationCandidates(docs, plain) :
                  row = Row("CONSOLIDATION", m, RouteConsolidation(docs, plain, m))
      <3>1. PICK m \in ConsolidationCandidates(docs, plain) :
                row = Row("CONSOLIDATION", m, RouteConsolidation(docs, plain, m))
        BY <2>3
      <3>2. PICK n \in ConsolidationCandidates(docs, modelled) : m \subseteq n
        BY <1>1, ConsolidationsGrow DEF Grows
      <3>3. RouteConsolidation(docs, plain, m) # "NONE"
        BY <1>2, <1>3, <3>1
      <3>4. n \in SUBSET DOMAIN docs
        BY <1>1, ConsolidationsAreDocuments
      <3>5. RouteConsolidation(docs, modelled, n) # "NONE"
        BY <3>2, <3>3, <3>4, ConsolidationsStayRouted
      <3> DEFINE r == Row("CONSOLIDATION", n, RouteConsolidation(docs, modelled, n))
      <3>6. r.type = "CONSOLIDATION" /\ r.members = n /\ r.reasoning # "NONE"
        BY <1>3, <3>5
      <3>7. r \in Rows(docs, modelled)
        BY <1>2, <3>6
      <3>8. row.type = "CONSOLIDATION" /\ row.members = m
        BY <1>3, <3>1
      <3> HIDE DEF r
      <3> QED  BY <3>2, <3>6, <3>7, <3>8
    <2> QED  BY <1>2, <2>1, <2>2, <2>3
  <1>5. EmbeddingsOnlyAdd(docs, plain, modelled)
    BY <1>4 DEF EmbeddingsOnlyAdd
  <1> QED  BY <1>5 DEF plain, modelled

-----------------------------------------------------------------------------
(* Evidence packs                                                          *)

\* Each element once, in the order of R.
IsListing(seq, S, R) ==
    /\ seq \in [1 .. Cardinality(S) -> S]
    /\ \A x \in S : \E n \in 1 .. Cardinality(S) : seq[n] = x
    /\ \A m, n \in 1 .. Cardinality(S) : m < n => <<seq[m], seq[n]>> \in R

IsOrder(S, R) ==
    /\ \A x \in S : <<x, x>> \notin R
    /\ \A x, y \in S : x # y => (<<x, y>> \in R \/ <<y, x>> \in R)
    /\ \A x, y, z \in S : (<<x, y>> \in R /\ <<y, z>> \in R) => <<x, z>> \in R

\* A set is listed by how many come before each: the sorts of corpus_reasoning.ts.
LEMMA RanksList ==
    ASSUME NEW S, IsFiniteSet(S), NEW R, IsOrder(S, R),
           NEW rank, rank = [x \in S |-> Cardinality({y \in S : <<y, x>> \in R})]
    PROVE  IsListing(Ordered(rank), S, R)
  <1> DEFINE before(x) == {y \in S : <<y, x>> \in R}
             N == Cardinality(S)
             ranks == {rank[x] : x \in S}
             places == 0 .. N - 1
             seq == Ordered(rank)
  <1>1. N \in Nat /\ DOMAIN rank = S
    BY FS_CardinalityType
  <1>2. \A x \in S : IsFiniteSet(before(x)) /\ Cardinality(before(x)) \in Nat /\ rank[x] = Cardinality(before(x))
    <2> SUFFICES ASSUME NEW x \in S
                 PROVE  IsFiniteSet(before(x)) /\ Cardinality(before(x)) \in Nat /\ rank[x] = Cardinality(before(x))
      OBVIOUS
    <2>1. IsFiniteSet(before(x))
      BY FS_Subset
    <2>2. rank[x] = Cardinality(before(x))
      OBVIOUS
    <2> QED  BY <2>1, <2>2, FS_CardinalityType
  <1>3. ASSUME NEW x \in S, NEW y \in S, <<x, y>> \in R
        PROVE  rank[x] < rank[y]
    <2>1. before(x) \subseteq before(y) /\ x \in before(y) /\ x \notin before(x)
      BY <1>3 DEF IsOrder
    <2>2. /\ IsFiniteSet(before(y)) /\ Cardinality(before(x)) \in Nat /\ Cardinality(before(y)) \in Nat
          /\ rank[x] = Cardinality(before(x)) /\ rank[y] = Cardinality(before(y))
      BY <1>2
    <2> HIDE DEF before
    <2>3. Cardinality(before(x)) <= Cardinality(before(y)) /\ Cardinality(before(x)) # Cardinality(before(y))
      <3>1. before(x) # before(y)
        BY <2>1
      <3> QED  BY <2>1, <2>2, <3>1, FS_Subset
    <2> QED  BY <2>2, <2>3
  <1>4. \A x, y \in S : rank[x] = rank[y] => x = y
    <2> SUFFICES ASSUME NEW x \in S, NEW y \in S, rank[x] = rank[y], x # y
                 PROVE  FALSE
      OBVIOUS
    <2>1. rank[x] < rank[y] \/ rank[y] < rank[x]
      BY <1>3 DEF IsOrder
    <2>2. rank[x] \in Nat /\ rank[y] \in Nat
      BY <1>2
    <2> QED  BY <2>1, <2>2
  <1>5. \A x \in S : rank[x] \in places
    <2> SUFFICES ASSUME NEW x \in S
                 PROVE  rank[x] \in places
      OBVIOUS
    <2>1. before(x) \subseteq S /\ x \notin before(x)
      BY DEF IsOrder
    <2>2. Cardinality(before(x)) <= N /\ Cardinality(before(x)) # N
      <3>1. before(x) # S
        BY <2>1
      <3> HIDE DEF before
      <3> QED  BY <2>1, <3>1, FS_Subset
    <2>3. rank[x] \in Nat /\ rank[x] <= N /\ rank[x] # N
      BY <1>2, <2>2
    <2> HIDE DEF before
    <2> QED  BY <1>1, <2>3
  <1>6. Cardinality(ranks) = N
    <2>1. rank \in Bijection(S, ranks)
      <3>1. rank \in Injection(S, ranks)
        BY <1>4 DEF Injection, IsInjective
      <3>2. rank \in Surjection(S, ranks)
        BY DEF Surjection
      <3> QED  BY <3>1, <3>2 DEF Bijection
    <2> HIDE DEF ranks
    <2>2. ExistsBijection(S, ranks)
      BY <2>1 DEF ExistsBijection
    <2> QED  BY <2>2, FS_Bijection
  <1>7. ranks = places
    <2>1. ranks \subseteq places
      BY <1>5
    <2>2. IsFiniteSet(places) /\ Cardinality(places) = N
      BY <1>1, FS_Interval
    <2> HIDE DEF ranks, places
    <2> QED  BY <1>6, <2>1, <2>2, FS_Subset
  <1>8. seq = [n \in 1 .. N |-> CHOOSE x \in S : rank[x] = n - 1]
    BY <1>1 DEF Ordered
  <1>9. ASSUME NEW n \in 1 .. N
        PROVE  seq[n] \in S /\ rank[seq[n]] = n - 1
    <2>1. n - 1 \in places
      BY <1>1
    <2>2. \E x \in S : rank[x] = n - 1
      BY <1>7, <2>1
    <2>3. seq[n] = CHOOSE x \in S : rank[x] = n - 1
      BY <1>8
    <2> HIDE DEF seq
    <2> QED  BY <2>2, <2>3
  <1>10. seq \in [1 .. N -> S]
    <2> HIDE DEF seq
    <2> QED  BY <1>8, <1>9
  <1>11. ASSUME NEW x \in S
         PROVE  \E n \in 1 .. N : seq[n] = x
    <2>1. rank[x] \in 0 .. N - 1
      BY <1>5
    <2>2. rank[x] + 1 \in 1 .. N /\ (rank[x] + 1) - 1 = rank[x]
      BY <1>1, <2>1
    <2>3. PICK n : n = rank[x] + 1
      OBVIOUS
    <2>4. n \in 1 .. N /\ rank[x] = n - 1
      BY <2>2, <2>3
    <2> HIDE DEF seq
    <2>5. seq[n] = x
      BY <1>4, <1>9, <2>4
    <2> QED  BY <2>4, <2>5
  <1>12. ASSUME NEW m \in 1 .. N, NEW n \in 1 .. N, m < n
         PROVE  <<seq[m], seq[n]>> \in R
    <2>1. seq[m] \in S /\ seq[n] \in S /\ rank[seq[m]] = m - 1 /\ rank[seq[n]] = n - 1
      BY <1>9
    <2> HIDE DEF seq
    <2>2. rank[seq[m]] < rank[seq[n]]
      BY <1>1, <1>12, <2>1
    <2>3. seq[m] # seq[n]
      BY <1>1, <1>12, <2>1
    <2>4. ~(<<seq[n], seq[m]>> \in R)
      <3>1. <<seq[n], seq[m]>> \in R => rank[seq[n]] < rank[seq[m]]
        BY <1>3, <2>1
      <3>2. rank[seq[n]] \in Int /\ rank[seq[m]] \in Int
        BY <1>1, <2>1
      <3> QED  BY <2>2, <3>1, <3>2
    <2> QED  BY <2>1, <2>3, <2>4 DEF IsOrder
  <1> HIDE DEF seq
  <1>13. IsListing(seq, S, R)
    BY <1>10, <1>11, <1>12 DEF IsListing
  <1> QED  BY <1>13 DEF seq

PackItem == [band : Nat, artifact : Nat, kind : Nat, index : Nat, charge : Nat, original : Nat]

\* No two items at one place of one list.
Distinct(items) ==
    \A x, y \in items :
        (x.artifact = y.artifact /\ x.kind = y.kind /\ x.index = y.index) => x = y

\* The quoted claims of a document: one for each rank.
LEMMA ClaimsAreItems ==
    ASSUME NEW docs \in Seq(PlacedDocument), NEW i \in DOMAIN docs
    PROVE  /\ Claims(docs, i) \subseteq PackItem /\ IsFiniteSet(Claims(docs, i))
           /\ Distinct(Claims(docs, i))
           /\ \A x \in Claims(docs, i) : x.artifact = i /\ x.kind = 0
  <1> DEFINE claims == View(docs, i).claims
             sooner(c, d) == \/ c.band < d.band
                             \/ c.band = d.band /\ c.id < d.id
             R == {p \in claims \X claims : sooner(p[1], p[2])}
             rank == [c \in claims |-> Cardinality({d \in claims : sooner(d, c)})]
             ordered == Ordered(rank)
             N == Cardinality(claims)
             item(n) == Item(ordered[n].band, i, 0, n,
                             ordered[n].said + Lesser(ordered[n].quote, Budget.quote),
                             ordered[n].said + ordered[n].quote)
  <1>1. docs[i].body \in DOMAIN Features /\ i \in Nat
    <2>1. docs[i] \in PlacedDocument
      OBVIOUS
    <2> QED  BY <2>1 DEF PlacedDocument
  <1>2. IsFiniteSet(claims)
    <2>1. "claims" \in DOMAIN Features[docs[i].body]
      BY <1>1, FeaturesAssumption
    <2> QED  BY <1>1, <2>1, FeaturesAssumption DEF View
  <1>3. \A c \in claims : /\ c.band \in Nat /\ c.id \in Nat /\ c.said \in Nat /\ c.quote \in Nat
                          /\ \A d \in claims : d.id = c.id => d = c
    BY <1>1, ClaimsAssumption DEF View
  <1> HIDE DEF claims
  <1>4. IsOrder(claims, R)
    <2>1. \A x \in claims : <<x, x>> \notin R
      BY <1>3
    <2>2. ASSUME NEW x \in claims, NEW y \in claims, x # y
          PROVE  <<x, y>> \in R \/ <<y, x>> \in R
      <3>1. x.id # y.id
        BY <1>3, <2>2
      <3>2. sooner(x, y) \/ sooner(y, x)
        BY <1>3, <3>1
      <3> QED  BY <3>2
    <2>3. ASSUME NEW x \in claims, NEW y \in claims, NEW z \in claims, <<x, y>> \in R, <<y, z>> \in R
          PROVE  <<x, z>> \in R
      <3>1. sooner(x, y) /\ sooner(y, z)
        BY <2>3
      <3>2. sooner(x, z)
        BY <1>3, <3>1
      <3> QED  BY <3>2
    <2> HIDE DEF R
    <2> QED  BY <2>1, <2>2, <2>3 DEF IsOrder
  <1>5. rank = [c \in claims |-> Cardinality({d \in claims : <<d, c>> \in R})]
    <2>1. \A c \in claims : {d \in claims : sooner(d, c)} = {d \in claims : <<d, c>> \in R}
      OBVIOUS
    <2> HIDE DEF R, sooner
    <2> QED  BY <2>1
  <1> HIDE DEF R, rank
  <1>6. IsListing(ordered, claims, R)
    BY <1>2, <1>4, <1>5, RanksList
  <1> HIDE DEF ordered
  <1>7. ordered \in [1 .. N -> claims] /\ N \in Nat
    BY <1>2, <1>6, FS_CardinalityType DEF IsListing
  <1>8. Claims(docs, i) = {item(n) : n \in 1 .. N}
    <2>1. Claims(docs, i) = {item(n) : n \in DOMAIN ordered}
      BY DEF Claims, claims, ordered, rank
    <2> HIDE DEF item
    <2> QED  BY <1>7, <2>1
  <1>9. ASSUME NEW n \in 1 .. N
        PROVE  /\ item(n) \in PackItem
               /\ item(n).artifact = i /\ item(n).kind = 0 /\ item(n).index = n
    <2>1. ordered[n] \in claims
      BY <1>7
    <2>2. ordered[n].band \in Nat /\ ordered[n].said \in Nat /\ ordered[n].quote \in Nat
      BY <1>3, <2>1
    <2>3. Budget.quote \in Nat
      BY BudgetAssumption
    <2>4. Lesser(ordered[n].quote, Budget.quote) \in Nat
      BY <2>2, <2>3 DEF Lesser
    <2>5. n \in Nat
      BY <1>7
    <2> QED  BY <1>1, <2>2, <2>4, <2>5 DEF Item, PackItem
  <1> HIDE DEF item
  <1>10. Distinct(Claims(docs, i))
    BY <1>8, <1>9 DEF Distinct
  <1>11. IsFiniteSet(Claims(docs, i))
    <2> DEFINE f == [n \in 1 .. N |-> item(n)]
               T == {f[n] : n \in 1 .. N}
    <2>1. IsFiniteSet(1 .. N)
      BY <1>7, FS_Interval
    <2>2. IsFiniteSet(T)
      <3> HIDE DEF f
      <3> QED  BY <2>1, ImageIsFinite
    <2>3. Claims(docs, i) = T
      BY <1>8
    <2> QED  BY <2>2, <2>3
  <1> QED  BY <1>8, <1>9, <1>10, <1>11

\* The entries of one list of a document.
EntriesOf(field, i, kind) ==
    {Item(field[1], i, kind, n, 1, 1) : n \in 1 .. Cardinality(field[2])}

LEMMA EntriesAreItems ==
    ASSUME NEW field, field[1] \in Nat, IsFiniteSet(field[2]), NEW i \in Nat, NEW kind \in Nat
    PROVE  /\ EntriesOf(field, i, kind) \subseteq PackItem /\ IsFiniteSet(EntriesOf(field, i, kind))
           /\ Distinct(EntriesOf(field, i, kind))
           /\ \A x \in EntriesOf(field, i, kind) : x.artifact = i /\ x.kind = kind
  <1> DEFINE N == Cardinality(field[2])
             f == [n \in 1 .. N |-> Item(field[1], i, kind, n, 1, 1)]
             T == {f[n] : n \in 1 .. N}
  <1>1. N \in Nat /\ IsFiniteSet(1 .. N)
    BY FS_CardinalityType, FS_Interval
  <1>2. EntriesOf(field, i, kind) = T
    BY DEF EntriesOf
  <1>3. \A n \in 1 .. N : /\ f[n] \in PackItem /\ f[n].artifact = i /\ f[n].kind = kind /\ f[n].index = n
    BY <1>1 DEF Item, PackItem
  <1> HIDE DEF f
  <1>4. IsFiniteSet(T)
    BY <1>1, ImageIsFinite
  <1> QED  BY <1>2, <1>3, <1>4 DEF Distinct

LEMMA ListsAreItems ==
    ASSUME NEW docs \in Seq(PlacedDocument), NEW i \in DOMAIN docs
    PROVE  /\ ListEntries(docs, i) \subseteq PackItem /\ IsFiniteSet(ListEntries(docs, i))
           /\ Distinct(ListEntries(docs, i))
           /\ \A x \in ListEntries(docs, i) : x.artifact = i /\ x.kind # 0
  <1> DEFINE fields == ListFields(View(docs, i))
             K == 1 .. 7
             f == [k \in K |-> EntriesOf(fields[k], i, k)]
             T == {f[k] : k \in K}
  <1>1. docs[i].body \in DOMAIN Features /\ i \in Nat
    <2>1. docs[i] \in PlacedDocument
      OBVIOUS
    <2> QED  BY <2>1 DEF PlacedDocument
  <1>2. DOMAIN fields = K
    BY DEF ListFields
  <1>3. \A field \in {"statuses", "replaces", "refs", "deps", "title", "heading", "tasks"} :
           IsFiniteSet(View(docs, i)[field])
    <2>1. \A field \in {"statuses", "replaces", "refs", "deps", "title", "heading", "tasks"} :
             field \in DOMAIN Features[docs[i].body]
      BY <1>1, FeaturesAssumption
    <2> QED  BY <1>1, <2>1, FeaturesAssumption DEF View
  <1>4. ASSUME NEW k \in K
        PROVE  fields[k][1] \in Nat /\ IsFiniteSet(fields[k][2])
    <2> DEFINE v == View(docs, i)
    <2>1. /\ fields[1] = <<0, v.statuses>> /\ fields[2] = <<1, v.replaces>> /\ fields[3] = <<1, v.refs>>
          /\ fields[4] = <<1, v.deps>> /\ fields[5] = <<2, v.title>> /\ fields[6] = <<2, v.heading>>
          /\ fields[7] = <<4, v.tasks>>
      BY DEF ListFields
    <2> HIDE DEF v, fields
    <2>2. /\ IsFiniteSet(v.statuses) /\ IsFiniteSet(v.replaces) /\ IsFiniteSet(v.refs)
          /\ IsFiniteSet(v.deps) /\ IsFiniteSet(v.title) /\ IsFiniteSet(v.heading)
          /\ IsFiniteSet(v.tasks)
      BY <1>3 DEF v
    <2>3. k \in {1, 2, 3, 4, 5, 6, 7}
      OBVIOUS
    <2> QED  BY <2>1, <2>2, <2>3
  <1>5. ListEntries(docs, i) = UNION T
    <2>1. ListEntries(docs, i) = UNION {EntriesOf(fields[kind], i, kind) : kind \in DOMAIN fields}
      BY DEF ListEntries, EntriesOf
    <2> HIDE DEF fields
    <2> QED  BY <1>2, <2>1
  <1> HIDE DEF fields
  <1>6. ASSUME NEW k \in K
        PROVE  /\ f[k] \subseteq PackItem /\ IsFiniteSet(f[k]) /\ Distinct(f[k])
               /\ \A x \in f[k] : x.artifact = i /\ x.kind = k
    <2>1. f[k] = EntriesOf(fields[k], i, k) /\ k \in Nat
      OBVIOUS
    <2>2. PICK field : field = fields[k]
      OBVIOUS
    <2>3. field[1] \in Nat /\ IsFiniteSet(field[2]) /\ f[k] = EntriesOf(field, i, k)
      BY <1>4, <2>1, <2>2
    <2> HIDE DEF f, K
    <2> QED  BY <1>1, <2>1, <2>3, EntriesAreItems
  <1> HIDE DEF f
  <1>7. IsFiniteSet(UNION T)
    <2>1. IsFiniteSet(K)
      <3>1. 1 \in Int /\ 7 \in Int
        OBVIOUS
      <3> QED  BY <3>1, FS_Interval
    <2>2. IsFiniteSet(T)
      BY <2>1, ImageIsFinite
    <2>3. \A t \in T : IsFiniteSet(t)
      BY <1>6
    <2> HIDE DEF T
    <2> QED  BY <2>2, <2>3, FS_UNION
  <1>8. Distinct(UNION T)
    <2> SUFFICES ASSUME NEW x \in UNION T, NEW y \in UNION T,
                        x.artifact = y.artifact, x.kind = y.kind, x.index = y.index
                 PROVE  x = y
      BY DEF Distinct
    <2>1. PICK k \in K : x \in f[k]
      OBVIOUS
    <2>2. PICK l \in K : y \in f[l]
      OBVIOUS
    <2>3. k = l
      BY <1>6, <2>1, <2>2
    <2> QED  BY <1>6, <2>1, <2>2, <2>3 DEF Distinct
  <1>9. UNION T \subseteq PackItem /\ \A x \in UNION T : x.artifact = i /\ x.kind # 0
    BY <1>6
  <1> QED  BY <1>5, <1>7, <1>8, <1>9

\* The items of a pack can be put in the order they are charged in.
LEMMA PacksAreItems ==
    ASSUME NEW docs \in Seq(PlacedDocument), NEW members \in SUBSET DOMAIN docs
    PROVE  /\ PackItems(docs, members) \subseteq PackItem
           /\ IsFiniteSet(PackItems(docs, members))
           /\ Distinct(PackItems(docs, members))
  <1> DEFINE selected == {i \in members : Cardinality({j \in members : j < i}) < Budget.artifacts}
             f == [i \in selected |-> Claims(docs, i) \cup ListEntries(docs, i)]
             T == {f[i] : i \in selected}
  <1>1. PackItems(docs, members) = UNION T
    BY DEF PackItems
  <1>2. selected \subseteq DOMAIN docs
    OBVIOUS
  <1>3. IsFiniteSet(selected)
    <2>1. IsFiniteSet(members)
      BY ReadingsAreFinite
    <2>2. selected \subseteq members
      OBVIOUS
    <2> HIDE DEF selected
    <2> QED  BY <2>1, <2>2, FS_Subset
  <1> HIDE DEF selected
  <1>4. ASSUME NEW i \in selected
        PROVE  /\ f[i] \subseteq PackItem /\ IsFiniteSet(f[i]) /\ Distinct(f[i])
               /\ \A x \in f[i] : x.artifact = i
    <2>1. i \in DOMAIN docs /\ f[i] = Claims(docs, i) \cup ListEntries(docs, i)
      BY <1>2
    <2> HIDE DEF f
    <2>2. IsFiniteSet(f[i])
      <3>1. IsFiniteSet(Claims(docs, i)) /\ IsFiniteSet(ListEntries(docs, i))
        BY <2>1, ClaimsAreItems, ListsAreItems
      <3>2. IsFiniteSet(Claims(docs, i) \cup ListEntries(docs, i))
        BY <3>1, FS_Union
      <3> QED  BY <2>1, <3>2
    <2>3. Distinct(f[i])
      BY <2>1, ClaimsAreItems, ListsAreItems DEF Distinct
    <2> QED  BY <2>1, <2>2, <2>3, ClaimsAreItems, ListsAreItems
  <1> HIDE DEF f
  <1>5. IsFiniteSet(UNION T)
    <2>1. IsFiniteSet(T)
      BY <1>3, ImageIsFinite
    <2>2. \A t \in T : IsFiniteSet(t)
      BY <1>4
    <2> HIDE DEF T
    <2> QED  BY <2>1, <2>2, FS_UNION
  <1>6. Distinct(UNION T)
    <2> SUFFICES ASSUME NEW x \in UNION T, NEW y \in UNION T,
                        x.artifact = y.artifact, x.kind = y.kind, x.index = y.index
                 PROVE  x = y
      BY DEF Distinct
    <2>1. PICK i \in selected : x \in f[i]
      OBVIOUS
    <2>2. PICK j \in selected : y \in f[j]
      OBVIOUS
    <2>3. i = j
      BY <1>4, <2>1, <2>2
    <2> QED  BY <1>4, <2>1, <2>2, <2>3 DEF Distinct
  <1> QED  BY <1>1, <1>4, <1>5, <1>6

\* A budget spent on an item more: buildReasoningEvidencePacks.
Spent(pack, item) ==
    IF Capped(item) \/ pack.used + item.charge > Budget.total
    THEN [pack EXCEPT !.omitted = @ + item.original]
    ELSE [used |-> pack.used + item.charge, kept |-> pack.kept \cup {item},
          omitted |-> pack.omitted + item.original - item.charge]
Unspent == [used |-> 0, kept |-> {}, omitted |-> 0]

PacksOf(items) == [used : Nat, kept : SUBSET items, omitted : Int]
InOrder(items) == {p \in items \X items : Charged(p[1], p[2])}

\* The pack after each item.
IsSpending(acc, items, order, N) ==
    /\ acc[0] = Unspent
    /\ \A n \in 0 .. N : acc[n] \in PacksOf(items)
    /\ \A n \in 1 .. N : acc[n] = Spent(acc[n - 1], order[n])

LEMMA SpentIsAPack ==
    ASSUME NEW items, items \subseteq PackItem, NEW pack \in PacksOf(items), NEW item \in items
    PROVE  Spent(pack, item) \in PacksOf(items)
  <1>1. item.charge \in Nat /\ item.original \in Nat
    BY DEF PackItem
  <1>2. pack.used \in Nat /\ pack.kept \in SUBSET items /\ pack.omitted \in Int
    BY DEF PacksOf
  <1>3. pack.used + item.charge \in Nat /\ pack.omitted + item.original \in Int
        /\ pack.omitted + item.original - item.charge \in Int
    BY <1>1, <1>2
  <1>4. [pack EXCEPT !.omitted = @ + item.original] \in PacksOf(items)
    BY <1>3 DEF PacksOf
  <1>5. [used |-> pack.used + item.charge, kept |-> pack.kept \cup {item},
         omitted |-> pack.omitted + item.original - item.charge] \in PacksOf(items)
    BY <1>2, <1>3 DEF PacksOf
  <1> QED  BY <1>4, <1>5 DEF Spent

LEMMA LargestOfAll ==
    ASSUME NEW n \in Nat \ {0}
    PROVE  Max(1 .. n) = n /\ (1 .. n) \ {n} = 1 .. n - 1
  <1>1. n \in 1 .. n /\ \A y \in 1 .. n : n >= y
    OBVIOUS
  <1>2. Max(1 .. n) \in 1 .. n /\ \A y \in 1 .. n : Max(1 .. n) >= y
    BY <1>1 DEF Max
  <1>3. Max(1 .. n) >= n /\ Max(1 .. n) <= n
    BY <1>1, <1>2
  <1>4. Max(1 .. n) = n
    BY <1>2, <1>3
  <1>5. (1 .. n) \ {n} = 1 .. n - 1
    OBVIOUS
  <1> QED  BY <1>4, <1>5

\* Spending is a walk through the items.
LEMMA SpendingWalks ==
    ASSUME NEW items, items \subseteq PackItem, NEW N \in Nat, NEW order \in [1 .. N -> items]
    PROVE  LET pack == FoldLeft(Spent, Unspent, order)
           IN  \E acc : IsSpending(acc, items, order, N) /\ pack = acc[N]
  <1> DEFINE D      == 1 .. N
             Packs  == PacksOf(items)
             Is(f)  == f = [s \in SUBSET D |->
                              IF s = {} THEN Unspent
                              ELSE LET i == Max(s) IN Spent(f[s \ {i}], order[i])]
             iter   == CHOOSE f : Is(f)
             op     == [p \in D \X Packs |-> Spent(p[2], order[p[1]])]
             ch     == [s \in SUBSET D |-> Max(s)]
             acc    == [n \in 0 .. N |-> iter[1 .. n]]
  <1>1. IsFiniteSet(D) /\ DOMAIN order = D
    BY FS_Interval
  <1>2. op \in [D \X Packs -> Packs]
    <2>1. ASSUME NEW i \in D, NEW p \in Packs
          PROVE  Spent(p, order[i]) \in Packs
      BY SpentIsAPack
    <2> HIDE DEF D, Packs
    <2> QED  BY <2>1
  <1>3. \A s \in SUBSET D : s # {} => ch[s] \in s
    BY LargestExists
  <1>4. Unspent \in Packs
    BY DEF Unspent, PacksOf
  <1>5. PICK f : IsSetFold(f, D, Packs, Unspent, op, ch)
    <2> HIDE DEF op, ch, Packs, D, Is, iter
    <2> QED  BY <1>1, <1>2, <1>3, <1>4, SetFoldExists
  <1>6. /\ f \in [SUBSET D -> Packs]
        /\ \A s \in SUBSET D : f[s] = IF s = {} THEN Unspent ELSE op[<<ch[s], f[s \ {ch[s]}]>>]
    <2> HIDE DEF op, ch, Packs, D
    <2> QED  BY <1>5 DEF IsSetFold
  <1>7. ASSUME NEW s \in SUBSET D
        PROVE  f[s] = IF s = {} THEN Unspent ELSE LET i == Max(s) IN Spent(f[s \ {i}], order[i])
    <2>1. CASE s = {}
      <3> HIDE DEF op, ch, D
      <3> QED  BY <1>6, <2>1
    <2>2. CASE s # {}
      <3>1. ch[s] = Max(s) /\ Max(s) \in D /\ s \ {Max(s)} \in SUBSET D
        BY <1>3, <2>2
      <3>2. f[s \ {Max(s)}] \in Packs
        <4> HIDE DEF Packs, D
        <4> QED  BY <1>6, <3>1
      <3>3. op[<<Max(s), f[s \ {Max(s)}]>>] = Spent(f[s \ {Max(s)}], order[Max(s)])
        <4> HIDE DEF Packs, D
        <4> QED  BY <3>1, <3>2
      <3> HIDE DEF op, D, ch
      <3> QED  BY <1>6, <2>2, <3>1, <3>3
    <2> QED  BY <2>1, <2>2
  <1>8. Is(f)
    <2>1. f = [s \in SUBSET D |-> f[s]]
      BY <1>6
    <2> HIDE DEF D
    <2> QED  BY <1>7, <2>1
  <1>9. Is(iter)
    <2> HIDE DEF Is
    <2> QED  BY <1>8
  <1>10. FoldLeft(Spent, Unspent, order) = iter[D]
    BY <1>1 DEF FoldLeft, MapThenFoldSet
  <1>11. \A s \in SUBSET D :
            iter[s] = IF s = {} THEN Unspent ELSE LET i == Max(s) IN Spent(iter[s \ {i}], order[i])
    <2> HIDE DEF iter, D
    <2> QED  BY <1>9
  <1> HIDE DEF iter
  <1>12. acc[0] = Unspent
    <2>1. 1 .. 0 = {} /\ {} \in SUBSET D
      OBVIOUS
    <2>2. iter[{}] = Unspent
      BY <1>11, <2>1
    <2> QED  BY <2>1, <2>2
  <1>13. ASSUME NEW n \in 1 .. N
         PROVE  acc[n] = Spent(acc[n - 1], order[n])
    <2>1. 1 .. n \in SUBSET D /\ n \in Nat \ {0} /\ n - 1 \in 0 .. N /\ n \in 0 .. N
      OBVIOUS
    <2>1a. 1 .. n # {}
      <3>1. n \in 1 .. n
        OBVIOUS
      <3> QED  BY <3>1
    <2>2. iter[1 .. n] = Spent(iter[(1 .. n) \ {Max(1 .. n)}], order[Max(1 .. n)])
      <3> HIDE DEF D
      <3> QED  BY <1>11, <2>1, <2>1a
    <2>3. Max(1 .. n) = n /\ (1 .. n) \ {n} = 1 .. n - 1
      BY <2>1, LargestOfAll
    <2>4. acc[n] = iter[1 .. n] /\ acc[n - 1] = iter[1 .. n - 1]
      BY <2>1
    <2> HIDE DEF acc
    <2> QED  BY <2>2, <2>3, <2>4
  <1> DEFINE Bad == {n \in 0 .. N : acc[n] \notin Packs}
  <1>14. Bad = {}
    <2> SUFFICES ASSUME Bad # {} PROVE FALSE
      OBVIOUS
    <2>1. PICK n \in Bad : \A m \in Bad : n <= m
      <3>1. Bad \in SUBSET Nat
        OBVIOUS
      <3> HIDE DEF Bad
      <3> QED  BY <3>1, LeastNatural
    <2> HIDE DEF acc, Packs
    <2>2. n \in 0 .. N /\ acc[n] \notin Packs
      BY <2>1
    <2>3. n # 0
      BY <1>4, <1>12, <2>2
    <2>4. n \in 1 .. N /\ n - 1 \in 0 .. N /\ ~(n <= n - 1)
      BY <2>2, <2>3
    <2>5. n - 1 \notin Bad
      BY <2>1, <2>4
    <2>6. acc[n - 1] \in Packs
      BY <2>4, <2>5
    <2>7. acc[n] = Spent(acc[n - 1], order[n]) /\ order[n] \in items
      BY <1>13, <2>4
    <2> QED  BY <2>2, <2>6, <2>7, SpentIsAPack DEF Packs
  <1> HIDE DEF acc
  <1>15. IsSpending(acc, items, order, N)
    <2>1. \A n \in 0 .. N : acc[n] \in Packs
      BY <1>14
    <2> QED  BY <1>12, <1>13, <2>1 DEF IsSpending
  <1>16. acc[N] = iter[D]
    BY DEF acc
  <1> QED  BY <1>10, <1>15, <1>16

First(order, n) == {order[k] : k \in 1 .. n}

\* What holds behind n items: what is kept is what is charged, nothing goes
\* unaccounted for, and what was left out did not fit behind what was kept before it.
SpentWell(pack, order, n, charge, original) ==
    /\ pack.used <= Budget.total
    /\ pack.kept \subseteq First(order, n)
    /\ pack.used = Total(charge, pack.kept)
    /\ pack.used + pack.omitted = Total(original, First(order, n))
    /\ \A k \in 1 .. n :
          \/ order[k] \in pack.kept
          \/ Capped(order[k])
          \/ order[k].charge + Total(charge, pack.kept \cap First(order, k - 1)) > Budget.total

\* One element more of a total.
LEMMA TotalWith ==
    ASSUME NEW S, IsFiniteSet(S), NEW v, \A y \in S : v[y] \in Nat, NEW x, x \notin S, v[x] \in Nat
    PROVE  Total(v, S \cup {x}) = v[x] + Total(v, S) /\ Total(v, S) \in Nat
  <1> DEFINE T == S \cup {x}
  <1>1. IsFiniteSet(T)
    BY FS_AddElement
  <1>2. \A y \in T : v[y] \in Nat
    OBVIOUS
  <1>3. x \in T /\ T \ {x} = S
    OBVIOUS
  <1> HIDE DEF T
  <1>4. Total(v, T) = v[x] + Total(v, T \ {x})
    BY <1>1, <1>2, <1>3, TotalIs
  <1>5. Total(v, S) \in Nat
    BY TotalIs
  <1> QED  BY <1>3, <1>4, <1>5 DEF T

LEMMA SpendingStep ==
    ASSUME NEW items, items \subseteq PackItem, IsFiniteSet(items),
           NEW N \in Nat, NEW order \in [1 .. N -> items],
           \A j, k \in 1 .. N : order[j] = order[k] => j = k,
           NEW charge, charge = [x \in items |-> x.charge],
           NEW original, original = [x \in items |-> x.original],
           NEW n \in 1 .. N, NEW old \in PacksOf(items),
           SpentWell(old, order, n - 1, charge, original)
    PROVE  SpentWell(Spent(old, order[n]), order, n, charge, original)
  <1> DEFINE x == order[n]
             new == Spent(old, x)
             past == First(order, n - 1)
             present == First(order, n)
             fits == ~Capped(x) /\ ~(old.used + x.charge > Budget.total)
  <1>1. /\ x \in items /\ n \in Nat /\ Budget.total \in Nat
        /\ x.charge \in Nat /\ x.original \in Nat /\ charge[x] = x.charge /\ original[x] = x.original
    <2>1. x \in items /\ n \in Nat
      OBVIOUS
    <2>2. Budget.total \in Nat
      BY BudgetAssumption
    <2> HIDE DEF x
    <2>3. x.charge \in Nat /\ x.original \in Nat
      BY <2>1 DEF PackItem
    <2> QED  BY <2>1, <2>2, <2>3
  <1>2. \A y \in items : charge[y] \in Nat /\ original[y] \in Nat
    BY DEF PackItem
  <1>3. /\ past \subseteq items /\ IsFiniteSet(past) /\ x \notin past /\ present = past \cup {x}
    <2>1. past \subseteq items
      BY DEF First
    <2>2. x \notin past
      BY DEF First
    <2>3. present = past \cup {x}
      <3>1. \A k \in 1 .. n : k \in 1 .. n - 1 \/ k = n
        OBVIOUS
      <3>2. \A k \in 1 .. n - 1 : k \in 1 .. n
        OBVIOUS
      <3>3. n \in 1 .. n
        OBVIOUS
      <3> QED  BY <3>1, <3>2, <3>3 DEF First
    <2>4. IsFiniteSet(past)
      BY <2>1, FS_Subset
    <2> QED  BY <2>1, <2>2, <2>3, <2>4
  <1>4. /\ old.used \in Nat /\ old.kept \in SUBSET items /\ old.omitted \in Int
        /\ old.used <= Budget.total
        /\ old.kept \subseteq past
        /\ old.used = Total(charge, old.kept)
        /\ old.used + old.omitted = Total(original, past)
    BY DEF PacksOf, SpentWell
  <1>5. \A k \in 1 .. n - 1 :
          \/ order[k] \in old.kept
          \/ Capped(order[k])
          \/ order[k].charge + Total(charge, old.kept \cap First(order, k - 1)) > Budget.total
    BY DEF SpentWell
  <1>6. \A k \in 1 .. n - 1 : x \notin First(order, k - 1)
    BY DEF First
  <1>7. Total(original, present) = x.original + Total(original, past) /\ Total(original, past) \in Nat
    <2>1. \A y \in past : original[y] \in Nat
      BY <1>2, <1>3
    <2> HIDE DEF x, past, present
    <2>2. original[x] \in Nat
      BY <1>1
    <2>3. Total(original, past \cup {x}) = original[x] + Total(original, past)
      BY <1>3, <2>1, <2>2, TotalWith
    <2>4. Total(original, past) \in Nat
      BY <1>3, <2>1, TotalIs
    <2> QED  BY <1>1, <1>3, <2>3, <2>4
  <1>8. Total(charge, old.kept \cup {x}) = x.charge + old.used
    <2> DEFINE kept == old.kept
    <2>1. IsFiniteSet(kept) /\ x \notin kept
      BY <1>3, <1>4, FS_Subset
    <2>2. \A y \in kept : charge[y] \in Nat
      BY <1>2, <1>4
    <2> HIDE DEF x, kept
    <2>3. charge[x] \in Nat
      BY <1>1
    <2>4. Total(charge, kept \cup {x}) = charge[x] + Total(charge, kept)
      BY <2>1, <2>2, <2>3, TotalWith
    <2> QED  BY <1>1, <1>4, <2>4 DEF kept
  <1>9. n \in 1 .. n /\ \A k \in 1 .. n : k \in 1 .. n - 1 \/ k = n
    OBVIOUS
  <1>10. CASE fits
    <2>1. /\ new.used = old.used + x.charge /\ new.kept = old.kept \cup {x}
          /\ new.omitted = old.omitted + x.original - x.charge
      BY <1>10 DEF Spent
    <2>2. new.used <= Budget.total
      <3> HIDE DEF x, new
      <3> QED  BY <1>1, <1>4, <1>10, <2>1
    <2>3. new.kept \subseteq present
      <3> HIDE DEF x, new, past, present
      <3> QED  BY <1>3, <1>4, <2>1
    <2>4. new.used = Total(charge, new.kept)
      <3> HIDE DEF x, new
      <3> QED  BY <1>1, <1>4, <1>8, <2>1
    <2>5. new.used + new.omitted = Total(original, present)
      <3> HIDE DEF x, new, past, present
      <3> QED  BY <1>1, <1>4, <1>7, <2>1
    <2>6. ASSUME NEW k \in 1 .. n
          PROVE  \/ order[k] \in new.kept
                 \/ Capped(order[k])
                 \/ order[k].charge + Total(charge, new.kept \cap First(order, k - 1)) > Budget.total
      <3>1. CASE k = n
        BY <2>1, <3>1
      <3>2. CASE k \in 1 .. n - 1
        <4>1. new.kept \cap First(order, k - 1) = old.kept \cap First(order, k - 1)
          <5> HIDE DEF x, new
          <5> QED  BY <1>6, <2>1, <3>2
        <4> HIDE DEF new, x
        <4> QED  BY <1>5, <2>1, <3>2, <4>1
      <3> QED  BY <1>9, <3>1, <3>2
    <2> HIDE DEF new, past, present
    <2>7. SpentWell(new, order, n, charge, original)
      BY <2>2, <2>3, <2>4, <2>5, <2>6 DEF SpentWell, present
    <2> QED  BY <2>7 DEF new
  <1>11. CASE ~fits
    <2>1. /\ new.used = old.used /\ new.kept = old.kept
          /\ new.omitted = old.omitted + x.original
      <3>1. new = [old EXCEPT !.omitted = @ + x.original]
        BY <1>11 DEF Spent
      <3> HIDE DEF new, x
      <3> QED  BY <3>1 DEF PacksOf
    <2>2. new.kept \subseteq present
      <3> HIDE DEF x, new, past, present
      <3> QED  BY <1>3, <1>4, <2>1
    <2>3. new.used + new.omitted = Total(original, present)
      <3> HIDE DEF x, new, past, present
      <3> QED  BY <1>1, <1>4, <1>7, <2>1
    <2>4. ASSUME NEW k \in 1 .. n
          PROVE  \/ order[k] \in new.kept
                 \/ Capped(order[k])
                 \/ order[k].charge + Total(charge, new.kept \cap First(order, k - 1)) > Budget.total
      <3>1. CASE k = n
        <4>1. Capped(x) \/ old.used + x.charge > Budget.total
          BY <1>11
        <4>2. new.kept \cap past = old.kept
          <5> HIDE DEF x, new, past
          <5> QED  BY <1>4, <2>1
        <4> HIDE DEF new, past
        <4>3. old.used + x.charge > Budget.total
                => x.charge + Total(charge, new.kept \cap past) > Budget.total
          <5> HIDE DEF x
          <5>1. Total(charge, new.kept \cap past) = old.used
            BY <1>4, <4>2
          <5> QED  BY <1>1, <1>4, <5>1
        <4> QED  BY <3>1, <4>1, <4>3 DEF past
      <3>2. CASE k \in 1 .. n - 1
        <4> HIDE DEF new, x
        <4> QED  BY <1>5, <2>1, <3>2
      <3> QED  BY <1>9, <3>1, <3>2
    <2> HIDE DEF new, past, present
    <2>5. SpentWell(new, order, n, charge, original)
      BY <1>4, <2>1, <2>2, <2>3, <2>4 DEF SpentWell, present
    <2> QED  BY <2>5 DEF new
  <1> QED  BY <1>10, <1>11

LEMMA SpendingEndsWell ==
    ASSUME NEW items, items \subseteq PackItem, IsFiniteSet(items),
           NEW N \in Nat, NEW order \in [1 .. N -> items],
           \A j, k \in 1 .. N : order[j] = order[k] => j = k,
           NEW charge, charge = [x \in items |-> x.charge],
           NEW original, original = [x \in items |-> x.original],
           NEW acc, IsSpending(acc, items, order, N)
    PROVE  SpentWell(acc[N], order, N, charge, original)
  <1> DEFINE Bad == {n \in 0 .. N : ~SpentWell(acc[n], order, n, charge, original)}
  <1>1. SpentWell(acc[0], order, 0, charge, original)
    <2>1. acc[0] = Unspent /\ 1 .. 0 = {} /\ Budget.total \in Nat
      BY BudgetAssumption DEF IsSpending
    <2>2. First(order, 0) = {}
      BY <2>1 DEF First
    <2>3. Total(charge, {}) = 0 /\ Total(original, {}) = 0
      <3>1. IsFiniteSet({})
        BY FS_EmptySet
      <3> QED  BY <3>1, TotalIs
    <2>4. Unspent.used = 0 /\ Unspent.kept = {} /\ Unspent.omitted = 0
      BY DEF Unspent
    <2>5. PICK pack : pack = acc[0]
      OBVIOUS
    <2>6. pack.used = 0 /\ pack.kept = {} /\ pack.omitted = 0
      BY <2>1, <2>4, <2>5
    <2>7. Total(charge, pack.kept) = 0 /\ Total(original, First(order, 0)) = 0
      BY <2>2, <2>3, <2>6
    <2>8. \A k \in 1 .. 0 : FALSE
      OBVIOUS
    <2>9. SpentWell(pack, order, 0, charge, original)
      BY <2>1, <2>6, <2>7, <2>8 DEF SpentWell
    <2> QED  BY <2>5, <2>9
  <1>2. ASSUME NEW n \in 1 .. N, SpentWell(acc[n - 1], order, n - 1, charge, original)
        PROVE  SpentWell(acc[n], order, n, charge, original)
    <2>1. acc[n - 1] \in PacksOf(items) /\ acc[n] = Spent(acc[n - 1], order[n])
      BY DEF IsSpending
    <2>2. PICK old : old = acc[n - 1]
      OBVIOUS
    <2>3. old \in PacksOf(items) /\ SpentWell(old, order, n - 1, charge, original)
      BY <1>2, <2>1, <2>2
    <2>4. SpentWell(Spent(old, order[n]), order, n, charge, original)
      BY <2>3, SpendingStep
    <2> QED  BY <2>1, <2>2, <2>4
  <1>3. Bad = {}
    <2> SUFFICES ASSUME Bad # {} PROVE FALSE
      OBVIOUS
    <2>1. PICK n \in Bad : \A m \in Bad : n <= m
      <3>1. Bad \in SUBSET Nat
        OBVIOUS
      <3> HIDE DEF Bad
      <3> QED  BY <3>1, LeastNatural
    <2>2. n \in 0 .. N /\ ~SpentWell(acc[n], order, n, charge, original)
      BY <2>1
    <2>3. n # 0
      BY <1>1, <2>2
    <2>4. n \in 1 .. N /\ n - 1 \in 0 .. N /\ ~(n <= n - 1)
      BY <2>2, <2>3
    <2>5. n - 1 \notin Bad
      BY <2>1, <2>4
    <2>6. SpentWell(acc[n - 1], order, n - 1, charge, original)
      BY <2>4, <2>5
    <2> QED  BY <1>2, <2>2, <2>4, <2>6
  <1>4. N \in 0 .. N
    OBVIOUS
  <1> QED  BY <1>3, <1>4

\* What MapThenSumSet makes of a set of items is the total of the field it asks for.
LEMMA ChargesAreTotals ==
    ASSUME NEW items, items \subseteq PackItem, IsFiniteSet(items),
           NEW charge, charge = [x \in items |-> x.charge],
           NEW S \in SUBSET items
    PROVE  LET Charge(item) == item.charge IN MapThenSumSet(Charge, S) = Total(charge, S)
  <1> DEFINE Is(f) == f = [s \in SUBSET S |->
                             IF s = {} THEN 0
                             ELSE LET x == CHOOSE x \in s : TRUE
                                  IN  x.charge + f[s \ {x}]]
             iter == CHOOSE f : Is(f)
             Charge(item) == item.charge
  <1>1. MapThenSumSet(Charge, S) = iter[S]
    BY DEF MapThenSumSet, MapThenFoldSet
  <1>2. IsFiniteSet(S) /\ \A x \in S : charge[x] \in Nat
    <2>1. IsFiniteSet(S)
      BY FS_Subset
    <2>2. \A x \in S : charge[x] \in Nat
      BY DEF PackItem
    <2> QED  BY <2>1, <2>2
  <1>3. PICK f : IsSum(f, charge, S)
    BY <1>2, SumExists
  <1>4. \A r \in SUBSET S : r # {} => LET x == CHOOSE x \in r : TRUE IN charge[x] = x.charge
    OBVIOUS
  <1>5. \A g : IsSum(g, charge, S) <=> Is(g)
    <2> SUFFICES ASSUME NEW g
                 PROVE  IsSum(g, charge, S) <=> Is(g)
      OBVIOUS
    <2> QED  BY <1>4 DEF IsSum
  <1>6. Is(iter)
    <2> HIDE DEF Is
    <2> QED  BY <1>3, <1>5
  <1> HIDE DEF iter, Is
  <1>7. IsSum(iter, charge, S)
    BY <1>5, <1>6
  <1>8. IsFiniteSet(S)
    BY <1>2
  <1>9. ASSUME NEW w, \A x \in S : w[x] \in Nat, NEW g, IsSum(g, w, S)
        PROVE  g[S] = Total(w, S)
    <2> HIDE DEF Charge
    <2>1. \A r \in SUBSET S : g[r] = Total(w, r)
      BY <1>8, <1>9, SumIsTotal
    <2> QED  BY <2>1
  <1>10. \A x \in S : charge[x] \in Nat
    BY <1>2
  <1>11. iter[S] = Total(charge, S)
    BY <1>7, <1>9, <1>10
  <1> QED  BY <1>1, <1>11
LEMMA OriginalsAreTotals ==
    ASSUME NEW items, items \subseteq PackItem, IsFiniteSet(items),
           NEW original, original = [x \in items |-> x.original],
           NEW S \in SUBSET items
    PROVE  LET Original(item) == item.original IN MapThenSumSet(Original, S) = Total(original, S)
  <1> DEFINE Is(f) == f = [s \in SUBSET S |->
                             IF s = {} THEN 0
                             ELSE LET x == CHOOSE x \in s : TRUE
                                  IN  x.original + f[s \ {x}]]
             iter == CHOOSE f : Is(f)
             Original(item) == item.original
  <1>1. MapThenSumSet(Original, S) = iter[S]
    BY DEF MapThenSumSet, MapThenFoldSet
  <1>2. IsFiniteSet(S) /\ \A x \in S : original[x] \in Nat
    <2>1. IsFiniteSet(S)
      BY FS_Subset
    <2>2. \A x \in S : original[x] \in Nat
      BY DEF PackItem
    <2> QED  BY <2>1, <2>2
  <1>3. PICK f : IsSum(f, original, S)
    BY <1>2, SumExists
  <1>4. \A r \in SUBSET S : r # {} => LET x == CHOOSE x \in r : TRUE IN original[x] = x.original
    OBVIOUS
  <1>5. \A g : IsSum(g, original, S) <=> Is(g)
    <2> SUFFICES ASSUME NEW g
                 PROVE  IsSum(g, original, S) <=> Is(g)
      OBVIOUS
    <2> QED  BY <1>4 DEF IsSum
  <1>6. Is(iter)
    <2> HIDE DEF Is
    <2> QED  BY <1>3, <1>5
  <1> HIDE DEF iter, Is
  <1>7. IsSum(iter, original, S)
    BY <1>5, <1>6
  <1>8. IsFiniteSet(S)
    BY <1>2
  <1>9. ASSUME NEW w, \A x \in S : w[x] \in Nat, NEW g, IsSum(g, w, S)
        PROVE  g[S] = Total(w, S)
    <2> HIDE DEF Original
    <2>1. \A r \in SUBSET S : g[r] = Total(w, r)
      BY <1>8, <1>9, SumIsTotal
    <2> QED  BY <2>1
  <1>10. \A x \in S : original[x] \in Nat
    BY <1>2
  <1>11. iter[S] = Total(original, S)
    BY <1>7, <1>9, <1>10
  <1> QED  BY <1>1, <1>11

\* One pack: buildReasoningEvidencePacks, for one row.
LEMMA OnePackAddsUp ==
    ASSUME NEW docs \in Seq(PlacedDocument), NEW members \in SUBSET DOMAIN docs
    PROVE  PackAddsUp(docs, members)
  <1> DEFINE items == PackItems(docs, members)
             R     == InOrder(items)
             rank  == [x \in items |-> Cardinality({y \in items : Charged(y, x)})]
             order == Ordered(rank)
             N     == Cardinality(items)
             pack  == EvidencePack(docs, members)
             charge   == [x \in items |-> x.charge]
             original == [x \in items |-> x.original]
             Charge(item) == item.charge
             Original(item) == item.original
             pressing(item) == {k \in pack.kept : k.band <= item.band}
  <1>1. items \subseteq PackItem /\ IsFiniteSet(items) /\ Distinct(items)
    BY PacksAreItems
  <1>2. pack = FoldLeft(Spent, Unspent, order)
    BY DEF EvidencePack, FoldLeft, MapThenFoldSet, Spent, Unspent
  <1> HIDE DEF items, pack
  <1>3. \A x \in items : /\ x.band \in Nat /\ x.artifact \in Nat /\ x.kind \in Nat /\ x.index \in Nat
                         /\ x.charge \in Nat /\ x.original \in Nat
    BY <1>1 DEF PackItem
  <1>4. IsOrder(items, R)
    <2>1. \A x \in items : <<x, x>> \notin R
      BY <1>3 DEF InOrder, Charged
    <2>2. ASSUME NEW x \in items, NEW y \in items, x # y
          PROVE  <<x, y>> \in R \/ <<y, x>> \in R
      <3>1. ~(x.artifact = y.artifact /\ x.kind = y.kind /\ x.index = y.index)
        BY <1>1, <2>2 DEF Distinct
      <3>2. Charged(x, y) \/ Charged(y, x)
        BY <1>3, <3>1 DEF Charged
      <3> QED  BY <3>2 DEF InOrder
    <2>3. ASSUME NEW x \in items, NEW y \in items, NEW z \in items, <<x, y>> \in R, <<y, z>> \in R
          PROVE  <<x, z>> \in R
      <3>1. Charged(x, y) /\ Charged(y, z)
        BY <2>3 DEF InOrder
      <3>2. Charged(x, z)
        BY <1>3, <3>1 DEF Charged
      <3> QED  BY <3>2 DEF InOrder
    <2> HIDE DEF R
    <2> QED  BY <2>1, <2>2, <2>3 DEF IsOrder
  <1>5. rank = [x \in items |-> Cardinality({y \in items : <<y, x>> \in R})]
    <2>1. \A x \in items : {y \in items : Charged(y, x)} = {y \in items : <<y, x>> \in R}
      BY DEF InOrder
    <2> HIDE DEF R
    <2> QED  BY <2>1
  <1>6. \A x, y \in items : <<x, y>> \in R => x.band <= y.band
    BY <1>3 DEF InOrder, Charged
  <1> HIDE DEF R, rank
  <1>7. IsListing(order, items, R)
    BY <1>1, <1>4, <1>5, RanksList
  <1> HIDE DEF order
  <1>8. /\ N \in Nat /\ order \in [1 .. N -> items]
        /\ \A x \in items : \E n \in 1 .. N : order[n] = x
        /\ \A m, n \in 1 .. N : m < n => <<order[m], order[n]>> \in R
    BY <1>1, <1>7, FS_CardinalityType DEF IsListing
  <1> HIDE DEF N
  <1>9. \A j, k \in 1 .. N : order[j] = order[k] => j = k
    <2> SUFFICES ASSUME NEW j \in 1 .. N, NEW k \in 1 .. N, order[j] = order[k], j # k
                 PROVE  FALSE
      OBVIOUS
    <2>1. j < k \/ k < j
      OBVIOUS
    <2>2. <<order[j], order[j]>> \in R
      BY <1>8, <2>1
    <2>3. order[j] \in items
      BY <1>8
    <2> QED  BY <1>4, <2>2, <2>3 DEF IsOrder
  <1>10. PICK acc : IsSpending(acc, items, order, N) /\ pack = acc[N]
    <2>1. \E acc : IsSpending(acc, items, order, N) /\ FoldLeft(Spent, Unspent, order) = acc[N]
      BY <1>1, <1>8, SpendingWalks
    <2> QED  BY <1>2, <2>1
  <1>11. SpentWell(pack, order, N, charge, original)
    <2>1. charge = [x \in items |-> x.charge] /\ original = [x \in items |-> x.original]
      OBVIOUS
    <2> HIDE DEF charge, original
    <2>2. SpentWell(acc[N], order, N, charge, original)
      BY <1>1, <1>8, <1>9, <1>10, <2>1, SpendingEndsWell
    <2> QED  BY <1>10, <2>2
  <1>12. First(order, N) = items
    BY <1>8 DEF First
  <1>13. pack.kept \subseteq items
    BY <1>11, <1>12 DEF SpentWell
  <1>14. MapThenSumSet(Original, items) = Total(original, items)
    <2>1. original = [x \in items |-> x.original]
      OBVIOUS
    <2>2. items \in SUBSET items
      OBVIOUS
    <2> HIDE DEF original
    <2> QED  BY <1>1, <2>1, <2>2, OriginalsAreTotals
  <1>15. ASSUME NEW S \in SUBSET items
         PROVE  MapThenSumSet(Charge, S) = Total(charge, S)
    <2>1. charge = [x \in items |-> x.charge]
      OBVIOUS
    <2> HIDE DEF charge
    <2> QED  BY <1>1, <2>1, ChargesAreTotals
  <1>16. ASSUME NEW item \in items \ pack.kept, ~Capped(item)
         PROVE  item.charge + MapThenSumSet(Charge, pressing(item)) > Budget.total
    <2> DEFINE earlier(k) == pack.kept \cap First(order, k - 1)
               P == pressing(item)
    <2>1. PICK k \in 1 .. N : order[k] = item
      BY <1>8
    <2>2. item.charge + Total(charge, earlier(k)) > Budget.total
      BY <1>11, <1>16, <2>1 DEF SpentWell
    <2>3. earlier(k) \subseteq P
      <3> SUFFICES ASSUME NEW x \in pack.kept, NEW j \in 1 .. k - 1, x = order[j]
                   PROVE  x.band <= item.band
        BY DEF First
      <3>1. j \in 1 .. N /\ j < k
        BY <1>8, <2>1
      <3>2. <<x, item>> \in R /\ x \in items
        BY <1>8, <1>13, <2>1, <3>1
      <3> QED  BY <1>6, <3>2
    <2>4. P \in SUBSET items
      BY <1>13
    <2>5. IsFiniteSet(P) /\ \A x \in P : charge[x] \in Nat
      <3>1. IsFiniteSet(P)
        BY <1>1, <2>4, FS_Subset
      <3>2. \A x \in P : charge[x] \in Nat
        BY <1>3, <2>4
      <3> QED  BY <3>1, <3>2
    <2>6. MapThenSumSet(Charge, P) = Total(charge, P)
      <3> HIDE DEF P, charge
      <3> QED  BY <1>15, <2>4
    <2> HIDE DEF P, charge
    <2>7. PICK e : e = earlier(k)
      OBVIOUS
    <2>8. e \in SUBSET P
      BY <2>3, <2>7
    <2>9. Total(charge, e) <= Total(charge, P) /\ Total(charge, P) \in Nat
      <3>1. Total(charge, e) <= Total(charge, P)
        BY <2>5, <2>8, TotalGrows
      <3>2. Total(charge, P) \in Nat
        BY <2>5, TotalIs
      <3> QED  BY <3>1, <3>2
    <2>10. Total(charge, e) \in Nat
      <3>1. IsFiniteSet(e) /\ \A x \in e : charge[x] \in Nat
        BY <2>5, <2>8, FS_Subset
      <3> QED  BY <3>1, TotalIs
    <2>11. item.charge \in Nat /\ Budget.total \in Nat
      BY <1>3, BudgetAssumption
    <2>12. item.charge + Total(charge, e) > Budget.total
      BY <2>2, <2>7
    <2>13. item.charge + Total(charge, P) > Budget.total
      BY <2>9, <2>10, <2>11, <2>12
    <2> QED  BY <2>6, <2>13 DEF P
  <1>17. pack.used <= Budget.total
    BY <1>11 DEF SpentWell
  <1>18. pack.used + pack.omitted = MapThenSumSet(Original, items)
    <2>1. pack.used + pack.omitted = Total(original, items)
      BY <1>11, <1>12 DEF SpentWell
    <2> HIDE DEF original
    <2> QED  BY <1>14, <2>1
  <1> HIDE DEF pressing
  <1> QED  BY <1>16, <1>17, <1>18 DEF PackAddsUp, items, pack, pressing

\* For every corpus, library of readings and budget: an evidence pack stays within its
\* budget and accounts for every unit it leaves out of the documents it selects, and what
\* it leaves out of them would not have fitted behind what is more pressing (buildReasoningEvidencePacks, corpus_reasoning.ts).
THEOREM EveryPackAddsUp ==
    ASSUME NEW docs \in Seq(PlacedDocument), NEW pairs, DOMAIN pairs \subseteq SUBSET DOMAIN docs
    PROVE  PacksAddUp(docs, pairs)
  <1>1. \A row \in Rows(docs, pairs) : row.members \in SUBSET DOMAIN docs
    <2>1. \A type, m, route : Row(type, m, route).members = m
      BY DEF Row
    <2>2. \A m \in TopicCandidates(pairs) \cup ProjectCandidates(pairs) : m \in SUBSET DOMAIN docs
      BY DEF TopicCandidates, ProjectCandidates, Components
    <2>3. ASSUME NEW m \in ConsolidationCandidates(docs, pairs)
          PROVE  m \in SUBSET DOMAIN docs
      <3>1. CASE m \in Clusters(docs, DOMAIN docs)
        BY <3>1 DEF Clusters, Cluster
      <3>2. CASE m \in DOMAIN pairs \cup ProjectCandidates(pairs)
        BY <2>2, <3>2
      <3> QED  BY <3>1, <3>2 DEF ConsolidationCandidates
    <2> QED  BY <2>1, <2>2, <2>3 DEF Rows, ReasoningEligible, ReasoningCandidates
  <1> QED  BY <1>1, OnePackAddsUp DEF PacksAddUp

-----------------------------------------------------------------------------
(* The embeddings                                                          *)

Phases == {"draw", "next", "fetch", "body", "excerpt", "gone"}
Working(w) == phase[w] \notin {"draw", "gone"}

PassShape ==
    /\ phase \in [Workers -> Phases] /\ doc \in [Workers -> All \cup {None}]
    /\ made \in [Workers -> Seq(Revisions)] /\ by \in [Workers -> Revisions \cup {None}]
    /\ fired \in [Workers -> BOOLEAN] /\ server \in Revisions
    /\ cursor \in Nat \ {0} /\ dimension \in Nat \cup {None}
    /\ vectors \in [All -> Vectors \cup {None}] /\ cache \in [All -> Vectors \cup {None}]
    /\ pass \in {"none", "running", "failed", "done"}

\* Every chunk was answered, and all the answers have one length.
VectorOK(v, d) ==
    /\ v.chunks = Chunks[d] /\ Chunks[d] > 0 /\ v.from # {}
    /\ \A r, s \in v.from : Dimension[r] = Dimension[s]

CacheOK == \A d \in All : cache[d] # None => VectorOK(cache[d], d)

VectorsOK ==
    \A d \in All : vectors[d] # None =>
        /\ VectorOK(vectors[d], d)
        /\ \A r \in vectors[d].from : Dimension[r] = dimension
        /\ vectors[d].cached = FALSE => \A r \in vectors[d].from : Told(r) \subseteq seen

WorkOK ==
    \A w \in Workers :
        /\ Working(w) => doc[w] \in All /\ Chunks[doc[w]] > 0
        /\ phase[w] \in {"body", "excerpt"} => by[w] \in Revisions
        /\ fired[w] => InExchange(w)
        /\ \A i \in DOMAIN made[w] : Told(made[w][i]) \subseteq seen /\ Dimension[made[w][i]] = dimension

SeenOK == failure = None => \A r, s \in seen : r = s

Accounted(d) ==
    Chunks[d] = 0 \/ vectors[d] # None \/ \E w \in Workers : Working(w) /\ doc[w] = d

CursorOK ==
    pass = "running" /\ failure = None =>
        /\ \A i \in DOMAIN Docs : i < cursor => Accounted(Docs[i])
        /\ \A w \in Workers : phase[w] = "gone" => Len(Docs) < cursor

EndOK ==
    /\ pass # "running" => \A w \in Workers : phase[w] = "gone"
    /\ pass = "done" => failure = None /\ \A d \in All : Chunks[d] > 0 => vectors[d] # None

PassInv ==
    PassShape /\ CacheOK /\ VectorsOK /\ WorkOK /\ SeenOK /\ CursorOK /\ EndOK

-----------------------------------------------------------------------------
LEMMA DocsFacts ==
    /\ All = DOMAIN Chunks /\ Len(Docs) \in Nat /\ DOMAIN Docs = 1 .. Len(Docs)
    /\ \A i \in DOMAIN Docs : Docs[i] \in All
    /\ \A d \in All : Chunks[d] \in Nat /\ \E i \in DOMAIN Docs : Docs[i] = d
  BY PassAssumption DEF All, ToSet

LEMMA DimensionOfVector ==
    ASSUME NEW d \in All, NEW v \in Vectors, VectorOK(v, d)
    PROVE  /\ DimensionOf(v) \in Nat
           /\ \A r \in v.from : Dimension[r] = DimensionOf(v)
  <1>1. (CHOOSE r \in v.from : TRUE) \in v.from
    BY DEF VectorOK
  <1>2. v.from \in SUBSET Revisions
    BY DEF Vectors
  <1> QED
    BY <1>1, <1>2, PassAssumption DEF VectorOK, DimensionOf

\* No vector, and no answer, before there is a dimension.
LEMMA NoDimensionNoVector ==
    ASSUME PassInv, dimension = None
    PROVE  /\ \A d \in All : vectors[d] = None
           /\ \A w \in Workers : made[w] = <<>>
  <1>1. \A r \in Revisions : Dimension[r] # None
    BY PassAssumption
  <1>2. \A d \in All : vectors[d] # None => vectors[d].from \in SUBSET Revisions
    BY DEF PassInv, PassShape, Vectors
  <1>3. \A d \in All : vectors[d] = None
    BY <1>1, <1>2 DEF PassInv, VectorsOK, VectorOK
  <1>4. \A w \in Workers : made[w] = <<>>
    <2> SUFFICES ASSUME NEW w \in Workers, made[w] # <<>>
                 PROVE  FALSE
      OBVIOUS
    <2>1. made[w] \in Seq(Revisions)
      BY DEF PassInv, PassShape
    <2>2. 1 \in DOMAIN made[w] /\ made[w][1] \in Revisions
      BY <2>1
    <2> QED  BY <1>1, <2>2 DEF PassInv, WorkOK
  <1> QED  BY <1>3, <1>4

LEMMA InitOK == Init => PassInv
  BY PassAssumption DEF Init, PassInv, PassShape, Phases, CacheOK, VectorsOK, WorkOK, Working,
     InExchange, SeenOK, CursorOK, EndOK, Nothing

\* A worker that leaves after a failure takes nothing with it.
LEMMA FailsOK ==
    ASSUME PassInv, NEW w \in Workers, phase[w] # "gone", NEW why \in Reasons, Fails(w, why),
           UNCHANGED <<doc, made, by, vectors, dimension, cache, pass, server>>,
           seen \subseteq seen', cursor' \in Nat \ {0}
    PROVE  PassInv'
  <1>1. failure' # None
    BY PassAssumption DEF Fails
  <1>2. pass = "running"
    BY DEF PassInv, EndOK
  <1>3. PassShape'
    BY DEF PassInv, PassShape, Fails, Phases
  <1>4. /\ phase'[w] = "gone" /\ ~fired'[w]
        /\ \A v \in Workers \ {w} : phase'[v] = phase[v] /\ fired'[v] = fired[v]
    BY DEF PassInv, PassShape, Fails
  <1>5. CacheOK' /\ VectorsOK'
    BY DEF PassInv, CacheOK, VectorsOK
  <1>6. WorkOK'
    BY <1>4 DEF PassInv, WorkOK, Working, InExchange
  <1>7. SeenOK' /\ CursorOK'
    BY <1>1 DEF SeenOK, CursorOK
  <1>8. EndOK'
    BY <1>2 DEF EndOK
  <1> QED  BY <1>3, <1>5, <1>6, <1>7, <1>8 DEF PassInv

-----------------------------------------------------------------------------
(* One lemma for each kind of step.                                        *)

LEMMA BeginPassOK ==
    PassInv /\ BeginPass => PassInv'
  <1> SUFFICES ASSUME PassInv, BeginPass  PROVE PassInv'
    OBVIOUS
  <1>1. PassShape'
    BY DEF PassInv, PassShape, BeginPass, Phases, Nothing
  <1>2. CacheOK' /\ VectorsOK' /\ WorkOK' /\ SeenOK'
    BY DEF PassInv, CacheOK, VectorsOK, WorkOK, Working, InExchange, SeenOK, BeginPass, Nothing
  <1>3. CursorOK' /\ EndOK'
    BY DocsFacts DEF CursorOK, EndOK, BeginPass
  <1> QED  BY <1>1, <1>2, <1>3 DEF PassInv

\* A worker moves on with the same document, or takes one up.
LEMMA MovesOK ==
    ASSUME PassInv, NEW w \in Workers, NEW p \in Phases \ {"draw", "gone"}, Working(w),
           phase' = [phase EXCEPT ![w] = p],
           p \in {"body", "excerpt"} => by'[w] \in Revisions,
           by' \in [Workers -> Revisions \cup {None}],
           \A v \in Workers \ {w} : by'[v] = by[v],
           fired' \in [Workers -> BOOLEAN],
           \A v \in Workers \ {w} : fired'[v] = fired[v],
           fired'[w] => p \in {"fetch", "body", "excerpt"},
           UNCHANGED <<doc, made, cursor, failure, vectors, dimension, seen, cache, pass, server>>
    PROVE  PassInv'
  <1>1. /\ phase'[w] = p
        /\ \A v \in Workers \ {w} : phase'[v] = phase[v]
    BY DEF PassInv, PassShape
  <1>2. PassShape'
    BY DEF PassInv, PassShape
  <1>3. CacheOK' /\ VectorsOK' /\ SeenOK'
    BY DEF PassInv, CacheOK, VectorsOK, SeenOK
  <1>4. WorkOK'
    BY <1>1 DEF PassInv, WorkOK, Working, InExchange
  <1>5. CursorOK'
    <2>1. \A d : Accounted(d) => Accounted(d)'
      BY <1>1 DEF Accounted, Working
    <2> QED  BY <1>1, <2>1 DEF PassInv, CursorOK
  <1>6. EndOK'
    BY <1>1 DEF PassInv, EndOK, Working
  <1> QED  BY <1>2, <1>3, <1>4, <1>5, <1>6 DEF PassInv

LEMMA DrawOK ==
    ASSUME PassInv, NEW w \in Workers, Draw(w)
    PROVE  PassInv'
  <1>0. /\ pass = "running" /\ phase[w] = "draw" /\ ~fired[w]
        /\ UNCHANGED <<part, by, seen, cache, pass, server>>
    BY DEF Draw, outside, PassInv, WorkOK, InExchange
  <1>1. CASE failure # None \/ cursor > Len(Docs)
    <2>1. /\ phase' = [phase EXCEPT ![w] = "gone"]
          /\ cursor' = IF failure # None THEN cursor ELSE cursor + 1
          /\ UNCHANGED <<doc, made, fired, failure, vectors, dimension>>
      BY <1>1 DEF Draw
    <2>2. phase'[w] = "gone" /\ \A v \in Workers \ {w} : phase'[v] = phase[v]
      BY <2>1 DEF PassInv, PassShape
    <2>3. PassShape'
      BY <1>0, <2>1 DEF PassInv, PassShape, Phases
    <2>4. CacheOK' /\ VectorsOK' /\ SeenOK'
      BY <1>0, <2>1 DEF PassInv, CacheOK, VectorsOK, SeenOK
    <2>5. WorkOK'
      BY <1>0, <2>1, <2>2 DEF PassInv, WorkOK, Working, InExchange
    <2>6. CursorOK'
      <3> SUFFICES ASSUME failure = None
                   PROVE  CursorOK'
        BY <2>1 DEF CursorOK
      <3>1. cursor > Len(Docs) /\ cursor' = cursor + 1 /\ cursor \in Nat
        BY <1>1, <2>1 DEF PassInv, PassShape
      <3>2. \A d : Accounted(d) => Accounted(d)'
        BY <1>0, <2>1, <2>2 DEF Accounted, Working
      <3>3. \A i \in DOMAIN Docs : Accounted(Docs[i])
        BY <1>0, <3>1, DocsFacts DEF PassInv, CursorOK
      <3>4. Len(Docs) < cursor'
        BY <3>1, DocsFacts
      <3> QED  BY <3>2, <3>3, <3>4 DEF CursorOK
    <2>7. EndOK'
      BY <1>0 DEF EndOK
    <2> QED  BY <2>3, <2>4, <2>5, <2>6, <2>7 DEF PassInv
  <1>2. CASE ~(failure # None \/ cursor > Len(Docs))
    <2> DEFINE d == Docs[cursor]
    <2>1. cursor \in DOMAIN Docs /\ d \in All /\ cursor \in Nat /\ failure = None
      <3>1. cursor \in Nat \ {0}
        BY DEF PassInv, PassShape
      <3>2. Len(Docs) \in Nat /\ DOMAIN Docs = 1 .. Len(Docs)
        BY DocsFacts
      <3>3. cursor <= Len(Docs)
        BY <1>2, <3>1, <3>2
      <3>4. cursor \in DOMAIN Docs
        BY <3>1, <3>2, <3>3
      <3> QED  BY <1>2, <3>1, <3>4, DocsFacts
    <2>2. cursor' = cursor + 1 /\ cursor' \in Nat \ {0}
      <3>1. cursor' = cursor + 1
        BY <1>2, Zenon DEF Draw
      <3> QED  BY <2>1, <3>1
    <2>3. \A i \in DOMAIN Docs : i < cursor' => i < cursor \/ i = cursor
      BY <2>1, <2>2, DocsFacts
    <2>4. CASE cache[d] # None /\ ~Fits(DimensionOf(cache[d]))
      <3>1. Fails(w, "dimension") /\ UNCHANGED <<vectors, dimension, doc, made>>
        BY <1>2, <2>4 DEF Draw
      <3>2. seen \subseteq seen' /\ phase[w] # "gone"
        BY <1>0 DEF PassInv, PassShape
      <3>3. "dimension" \in Reasons
        BY DEF Reasons
      <3>4. UNCHANGED <<doc, made, by, vectors, dimension, cache, pass, server>>
        BY <1>0, <3>1
      <3> QED  BY <2>2, <3>1, <3>2, <3>3, <3>4, FailsOK
    <2>5. CASE cache[d] # None /\ Fits(DimensionOf(cache[d]))
      <3> DEFINE n == DimensionOf(cache[d])
                 v == [cache[d] EXCEPT !.cached = TRUE]
      <3>1. /\ vectors' = [vectors EXCEPT ![d] = v] /\ dimension' = n
            /\ UNCHANGED <<phase, fired, failure, doc, made>>
        BY <1>2, <2>5 DEF Draw
      <3>2. cache[d] \in Vectors /\ VectorOK(cache[d], d)
        BY <2>1, <2>5 DEF PassInv, PassShape, CacheOK
      <3>3. /\ v \in Vectors /\ v.from = cache[d].from /\ v.chunks = cache[d].chunks
            /\ v.cached = TRUE
        BY <3>2 DEF Vectors
      <3>4. n \in Nat /\ \A r \in v.from : Dimension[r] = n
        BY <2>1, <3>2, <3>3, DimensionOfVector
      <3>5. VectorOK(v, d)
        BY <3>2, <3>3 DEF VectorOK
      <3>6. dimension = n \/ ( /\ \A e \in All : vectors[e] = None
                               /\ \A x \in Workers : made[x] = <<>> )
        BY <2>5, NoDimensionNoVector DEF Fits
      <3> HIDE DEF v, n
      <3>7. vectors' \in [All -> Vectors \cup {None}]
            /\ vectors'[d] = v /\ \A e \in All \ {d} : vectors'[e] = vectors[e]
        BY <2>1, <3>1, <3>3 DEF PassInv, PassShape
      <3>8. PassShape'
        BY <1>0, <2>2, <3>1, <3>4, <3>7 DEF PassInv, PassShape
      <3>9. CacheOK' /\ SeenOK'
        BY <1>0, <3>1 DEF PassInv, CacheOK, SeenOK
      <3>10. VectorsOK'
        <4> SUFFICES ASSUME NEW e \in All, vectors'[e] # None
                     PROVE  /\ VectorOK(vectors'[e], e)
                            /\ \A r \in vectors'[e].from : Dimension[r] = dimension'
                            /\ vectors'[e].cached = FALSE => \A r \in vectors'[e].from : Told(r) \subseteq seen'
          BY DEF VectorsOK
        <4>1. CASE e = d
          BY <3>1, <3>3, <3>4, <3>5, <3>7, <4>1
        <4>2. CASE e # d
          BY <1>0, <3>1, <3>6, <3>7, <4>2 DEF PassInv, VectorsOK
        <4> QED  BY <4>1, <4>2
      <3>11. WorkOK'
        BY <1>0, <3>1, <3>6 DEF PassInv, WorkOK, Working, InExchange
      <3>12. CursorOK'
        <4>1. v # None
          BY <3>3, PassAssumption
        <4>2. \A e \in All : Accounted(e) \/ e = d => Accounted(e)'
          BY <3>1, <3>7, <4>1 DEF Accounted, Working
        <4>3. \A x \in Workers : phase'[x] = "gone" => Len(Docs) < cursor'
          BY <1>0, <2>1, <2>2, <3>1, DocsFacts DEF PassInv, CursorOK
        <4> QED  BY <1>0, <2>1, <2>3, <3>1, <4>2, <4>3, DocsFacts DEF PassInv, CursorOK
      <3>13. EndOK'
        BY <1>0 DEF EndOK
      <3> QED  BY <3>8, <3>9, <3>10, <3>11, <3>12, <3>13 DEF PassInv
    <2>6. CASE cache[d] = None
      <3> DEFINE p == IF Chunks[d] = 0 THEN "draw" ELSE "next"
      <3>1. /\ phase' = [phase EXCEPT ![w] = p] /\ doc' = [doc EXCEPT ![w] = d]
            /\ made' = [made EXCEPT ![w] = <<>>]
            /\ UNCHANGED <<fired, failure, vectors, dimension>>
        BY <1>2, <2>6 DEF Draw
      <3>2. PassShape'
        BY <1>0, <2>1, <2>2, <3>1 DEF PassInv, PassShape, Phases
      <3>3. /\ phase'[w] = p /\ doc'[w] = d /\ made'[w] = <<>>
            /\ \A x \in Workers \ {w} :
                  phase'[x] = phase[x] /\ doc'[x] = doc[x] /\ made'[x] = made[x]
        BY <3>1 DEF PassInv, PassShape
      <3>4. CacheOK' /\ VectorsOK' /\ SeenOK'
        BY <1>0, <3>1 DEF PassInv, CacheOK, VectorsOK, SeenOK
      <3>5. WorkOK'
        BY <1>0, <2>1, <3>1, <3>3, DocsFacts DEF PassInv, WorkOK, Working, InExchange
      <3>6. CursorOK'
        <4>1. \A e \in All : Accounted(e) \/ e = d => Accounted(e)'
          BY <1>0, <3>1, <3>3 DEF Accounted, Working
        <4>2. \A x \in Workers : phase'[x] = "gone" => Len(Docs) < cursor'
          BY <1>0, <2>1, <2>2, <3>3, DocsFacts DEF PassInv, CursorOK
        <4> QED  BY <1>0, <2>1, <2>3, <3>1, <4>1, <4>2, DocsFacts DEF PassInv, CursorOK
      <3>7. EndOK'
        BY <1>0 DEF EndOK
      <3> QED  BY <3>2, <3>4, <3>5, <3>6, <3>7 DEF PassInv
    <2> QED  BY <2>4, <2>5, <2>6
  <1> QED  BY <1>1, <1>2

LEMMA SettlesOK ==
    ASSUME PassInv, NEW w \in Workers, phase[w] # "gone", NEW why \in Reasons, Settles(w, why)
    PROVE  PassInv'
  <1>1. Fails(w, why) /\ UNCHANGED <<doc, made, by, vectors, dimension, cache, pass, server>>
        /\ seen' = seen /\ cursor' = cursor
    BY DEF Settles, outside
  <1>2. cursor \in Nat \ {0}
    BY DEF PassInv, PassShape
  <1>3. seen \subseteq seen' /\ cursor' \in Nat \ {0}
    BY <1>1, <1>2
  <1> QED  BY <1>1, <1>3, FailsOK

LEMMA GiveOK ==
    ASSUME PassInv, NEW w \in Workers, Give(w)
    PROVE  PassInv'
  <1>1. /\ phase[w] = "next" /\ failure # None /\ phase' = [phase EXCEPT ![w] = "draw"]
        /\ UNCHANGED <<doc, made, by, fired, cursor, failure, vectors, dimension, seen, cache,
                       pass, server>>
    BY DEF Give, Abandons, ofPass, outside
  <1>2. phase'[w] = "draw" /\ \A v \in Workers \ {w} : phase'[v] = phase[v]
    BY <1>1 DEF PassInv, PassShape
  <1>3. PassShape'
    BY <1>1 DEF PassInv, PassShape, Phases
  <1>4. CacheOK' /\ VectorsOK' /\ SeenOK' /\ CursorOK'
    BY <1>1 DEF PassInv, CacheOK, VectorsOK, SeenOK, CursorOK
  <1>5. WorkOK'
    BY <1>1, <1>2 DEF PassInv, WorkOK, Working, InExchange
  <1>6. EndOK'
    BY <1>1, <1>2 DEF PassInv, EndOK
  <1> QED  BY <1>3, <1>4, <1>5, <1>6 DEF PassInv

LEMMA KeepOK ==
    ASSUME PassInv, NEW w \in Workers, Keep(w)
    PROVE  PassInv'
  <1> DEFINE d == doc[w]
             v == [from |-> ToSet(made[w]), chunks |-> Len(made[w]), cached |-> FALSE]
  <1>1. /\ phase[w] = "next" /\ Len(made[w]) = Chunks[d]
        /\ vectors' = [vectors EXCEPT ![d] = v]
        /\ cache' = IF Cached THEN [cache EXCEPT ![d] = v] ELSE cache
        /\ phase' = [phase EXCEPT ![w] = "draw"]
        /\ UNCHANGED <<doc, made, by, fired, cursor, failure, dimension, seen, pass, server>>
    BY DEF Keep, Complete, outside
  <1>2. d \in All /\ Chunks[d] > 0 /\ pass = "running"
    BY <1>1 DEF PassInv, WorkOK, Working, EndOK
  <1>3. made[w] \in Seq(Revisions)
    BY DEF PassInv, PassShape
  <1>4. ToSet(made[w]) \in SUBSET Revisions /\ 1 \in DOMAIN made[w]
    BY <1>1, <1>2, <1>3, DocsFacts DEF ToSet
  <1>5. \A r \in ToSet(made[w]) : Told(r) \subseteq seen /\ Dimension[r] = dimension
    BY DEF ToSet, PassInv, WorkOK
  <1>6. v \in Vectors /\ VectorOK(v, d)
    <2>1. v \in Vectors
      BY <1>3, <1>4 DEF Vectors
    <2>2. v.from # {}
      BY <1>4 DEF ToSet
    <2> QED  BY <1>1, <1>2, <1>5, <2>1, <2>2 DEF VectorOK
  <1>7. v # None
    BY <1>6, PassAssumption
  <1>8. \A r \in v.from : Told(r) \subseteq seen /\ Dimension[r] = dimension
    BY <1>5
  <1> HIDE DEF v
  <1>9. /\ vectors' \in [All -> Vectors \cup {None}] /\ vectors'[d] = v
        /\ \A e \in All \ {d} : vectors'[e] = vectors[e]
    BY <1>1, <1>2, <1>6 DEF PassInv, PassShape
  <1>10. /\ cache' \in [All -> Vectors \cup {None}]
         /\ \A e \in All : cache'[e] = cache[e] \/ (e = d /\ cache'[e] = v)
    <2>1. cache \in [All -> Vectors \cup {None}]
      BY DEF PassInv, PassShape
    <2>2. CASE Cached
      <3>1. cache' = [cache EXCEPT ![d] = v]
        BY <1>1, <2>2, Zenon
      <3> QED  BY <1>2, <1>6, <2>1, <3>1
    <2>3. CASE ~Cached
      <3>1. cache' = cache
        BY <1>1, <2>3, Zenon
      <3> QED  BY <2>1, <3>1
    <2> QED  BY <2>2, <2>3
  <1>11. phase'[w] = "draw" /\ \A x \in Workers \ {w} : phase'[x] = phase[x]
    BY <1>1 DEF PassInv, PassShape
  <1>12. PassShape'
    BY <1>1, <1>9, <1>10 DEF PassInv, PassShape, Phases
  <1>13. CacheOK'
    BY <1>6, <1>10 DEF PassInv, CacheOK
  <1>14. VectorsOK'
    <2> SUFFICES ASSUME NEW e \in All, vectors'[e] # None
                 PROVE  /\ VectorOK(vectors'[e], e)
                        /\ \A r \in vectors'[e].from : Dimension[r] = dimension'
                        /\ vectors'[e].cached = FALSE => \A r \in vectors'[e].from : Told(r) \subseteq seen'
      BY DEF VectorsOK
    <2>1. CASE e = d
      BY <1>1, <1>6, <1>8, <1>9, <2>1
    <2>2. CASE e # d
      BY <1>1, <1>9, <2>2 DEF PassInv, VectorsOK
    <2> QED  BY <2>1, <2>2
  <1>15. WorkOK'
    BY <1>1, <1>11 DEF PassInv, WorkOK, Working, InExchange
  <1>16. SeenOK'
    BY <1>1 DEF PassInv, SeenOK
  <1>17. CursorOK'
    <2>1. \A e \in All : Accounted(e) => Accounted(e)'
      BY <1>1, <1>7, <1>9, <1>11 DEF Accounted, Working
    <2> QED  BY <1>1, <1>11, <2>1, DocsFacts DEF PassInv, CursorOK
  <1>18. EndOK'
    BY <1>1, <1>2 DEF EndOK
  <1> QED
    BY <1>12, <1>13, <1>14, <1>15, <1>16, <1>17, <1>18 DEF PassInv

\* The answer's dimension is the pass's, and its revision the only one seen.
LEMMA AnsweredOK ==
    ASSUME PassInv, NEW w \in Workers, Answered(w)
    PROVE  PassInv'
  <1>1. phase[w] = "body" /\ by[w] \in Revisions /\ phase[w] # "gone"
    BY DEF Answered, PassInv, WorkOK
  <1>2. CASE ~Fits(Dimension[by[w]])
    <2>1. Settles(w, "dimension") /\ "dimension" \in Reasons
      BY <1>2 DEF Answered, Reasons
    <2> QED  BY <1>1, <2>1, SettlesOK
  <1>3. CASE Fits(Dimension[by[w]]) /\ Mixes(w)
    <2>1. /\ Fails(w, "revision") /\ "revision" \in Reasons
          /\ seen' = seen \cup Told(by[w]) /\ cursor' = cursor
          /\ UNCHANGED <<doc, made, by, vectors, dimension, cache, pass, server>>
      BY <1>3 DEF Answered, Reasons, outside
    <2>2. seen \subseteq seen' /\ cursor' \in Nat \ {0}
      BY <1>1, <2>1 DEF PassInv, PassShape
    <2> QED  BY <1>1, <2>1, <2>2, FailsOK
  <1>4. CASE Fits(Dimension[by[w]]) /\ ~Mixes(w)
    <2> DEFINE r == by[w]
    <2>1. /\ dimension' = Dimension[r] /\ seen' = seen \cup Told(r)
          /\ made' = [made EXCEPT ![w] = Append(@, r)]
          /\ phase' = [phase EXCEPT ![w] = "next"] /\ fired' = [fired EXCEPT ![w] = FALSE]
          /\ UNCHANGED <<doc, by, cursor, failure, vectors, cache, pass, server>>
      BY <1>4 DEF Answered, outside
    <2>2. (seen' = seen \/ seen' = Told(r)) /\ seen \subseteq seen' /\ Told(r) \subseteq seen'
          /\ Dimension[r] \in Nat
      BY <1>1, <1>4, <2>1, PassAssumption DEF Mixes
    <2>3. dimension = Dimension[r] \/ ( /\ \A e \in All : vectors[e] = None
                                       /\ \A x \in Workers : made[x] = <<>> )
      BY <1>4, NoDimensionNoVector DEF Fits
    <2>4. made[w] \in Seq(Revisions)
      BY DEF PassInv, PassShape
    <2>5. /\ made'[w] = Append(made[w], r) /\ phase'[w] = "next" /\ ~fired'[w]
          /\ \A x \in Workers \ {w} :
                phase'[x] = phase[x] /\ made'[x] = made[x] /\ fired'[x] = fired[x]
      BY <2>1 DEF PassInv, PassShape
    <2>6. PassShape'
      BY <1>1, <2>1, <2>2, <2>4 DEF PassInv, PassShape, Phases
    <2>7. CacheOK' /\ SeenOK'
      BY <2>1, <2>2 DEF PassInv, CacheOK, SeenOK, Told
    <2>8. VectorsOK'
      BY <2>1, <2>2, <2>3 DEF PassInv, VectorsOK
    <2>9. \A i \in DOMAIN made'[w] : Told(made'[w][i]) \subseteq seen' /\ Dimension[made'[w][i]] = dimension'
      <3> SUFFICES ASSUME NEW i \in DOMAIN made'[w]
                   PROVE  Told(made'[w][i]) \subseteq seen' /\ Dimension[made'[w][i]] = dimension'
        OBVIOUS
      <3>1. (i \in DOMAIN made[w] /\ made'[w][i] = made[w][i]) \/ made'[w][i] = r
        BY <2>4, <2>5
      <3>2. CASE made'[w][i] = r
        BY <2>1, <2>2, <3>2
      <3>3. CASE i \in DOMAIN made[w] /\ made'[w][i] = made[w][i]
        <4>1. made[w] # <<>>
          BY <2>4, <3>3
        <4> QED  BY <2>1, <2>2, <2>3, <3>3, <4>1 DEF PassInv, WorkOK
      <3> QED  BY <3>1, <3>2, <3>3
    <2>10. \A x \in Workers \ {w} : \A i \in DOMAIN made[x] :
               Told(made[x][i]) \subseteq seen' /\ Dimension[made[x][i]] = dimension'
      <3> SUFFICES ASSUME NEW x \in Workers \ {w}, NEW i \in DOMAIN made[x]
                   PROVE  Told(made[x][i]) \subseteq seen' /\ Dimension[made[x][i]] = dimension'
        OBVIOUS
      <3>1. made[x] # <<>>
        BY DEF PassInv, PassShape
      <3> QED  BY <2>1, <2>2, <2>3, <3>1 DEF PassInv, WorkOK
    <2>11. WorkOK'
      BY <1>1, <2>1, <2>5, <2>9, <2>10 DEF PassInv, WorkOK, Working, InExchange
    <2>12. CursorOK'
      <3>1. \A e : Accounted(e) => Accounted(e)'
        BY <1>1, <2>1, <2>5 DEF Accounted, Working
      <3> QED  BY <2>1, <2>5, <3>1 DEF PassInv, CursorOK
    <2>13. EndOK'
      BY <1>1, <2>1 DEF PassInv, EndOK
    <2> QED  BY <2>6, <2>7, <2>8, <2>11, <2>12, <2>13 DEF PassInv
  <1> QED  BY <1>2, <1>3, <1>4

-----------------------------------------------------------------------------
LEMMA TurnOK ==
    ASSUME PassInv, NEW w \in Workers, Turn(w)
    PROVE  PassInv'
  <1>1. CASE Draw(w)
    BY <1>1, DrawOK
  <1>2. CASE Give(w)
    BY <1>2, GiveOK
  <1>3. CASE Send(w)
    <2>1. /\ phase' = [phase EXCEPT ![w] = "fetch"] /\ phase[w] = "next"
          /\ by' = [by EXCEPT ![w] = None] /\ fired' = [fired EXCEPT ![w] = FALSE]
          /\ UNCHANGED <<doc, made, cursor, failure, vectors, dimension, seen, cache, pass, server>>
      BY <1>3 DEF Send, ofPass, outside
    <2>2. by' \in [Workers -> Revisions \cup {None}] /\ fired' \in [Workers -> BOOLEAN]
      BY <2>1 DEF PassInv, PassShape
    <2>3. \A x \in Workers \ {w} : by'[x] = by[x] /\ fired'[x] = fired[x]
      BY <2>1 DEF PassInv, PassShape
    <2>4. ~fired'[w]
      BY <2>1 DEF PassInv, PassShape
    <2>5. Working(w) /\ "fetch" \in Phases \ {"draw", "gone"}
      BY <2>1 DEF Working, Phases
    <2> QED  BY <2>1, <2>2, <2>3, <2>4, <2>5, MovesOK
  <1>4. CASE Keep(w)
    BY <1>4, KeepOK
  <1>5. CASE Aborted(w)
    <2>1. phase[w] # "gone" /\ (Settles(w, "status") \/ Settles(w, "timeout"))
      BY <1>5 DEF Aborted, InExchange
    <2>2. "status" \in Reasons /\ "timeout" \in Reasons
      BY DEF Reasons
    <2> QED  BY <2>1, <2>2, SettlesOK
  <1> QED  BY <1>1, <1>2, <1>3, <1>4, <1>5 DEF Turn

LEMMA NetworkOK ==
    ASSUME PassInv, NEW w \in Workers, Network(w) \/ Deadline(w)
    PROVE  PassInv'
  <1>0. by \in [Workers -> Revisions \cup {None}] /\ fired \in [Workers -> BOOLEAN]
        /\ server \in Revisions /\ phase \in [Workers -> Phases]
    BY DEF PassInv, PassShape
  <1>1. CASE Refused(w)
    <2>1. phase[w] # "gone" /\ Settles(w, "unreachable") /\ "unreachable" \in Reasons
      BY <1>1 DEF Refused, Reasons
    <2> QED  BY <2>1, SettlesOK
  <1>2. CASE Headers(w)
    <2>1. PICK p \in {"body", "excerpt"} : phase' = [phase EXCEPT ![w] = p]
      BY <1>2 DEF Headers
    <2>2. /\ by' = [by EXCEPT ![w] = server] /\ phase[w] = "fetch" /\ fired' = fired
          /\ UNCHANGED <<doc, made, cursor, failure, vectors, dimension, seen, cache, pass, server>>
      BY <1>2 DEF Headers, ofPass, outside
    <2>3. by' \in [Workers -> Revisions \cup {None}] /\ by'[w] \in Revisions
      BY <1>0, <2>2
    <2>4. \A x \in Workers \ {w} : by'[x] = by[x] /\ fired'[x] = fired[x]
      BY <1>0, <2>2
    <2>5. Working(w) /\ p \in Phases \ {"draw", "gone"} /\ fired' \in [Workers -> BOOLEAN]
      BY <1>0, <2>2 DEF Working, Phases
    <2> QED  BY <2>1, <2>2, <2>3, <2>4, <2>5, MovesOK
  <1>3. CASE Piece(w) \/ Deadline(w)
    <2>1. /\ InExchange(w) /\ phase' = phase /\ by' = by
          /\ fired' = fired \/ fired' = [fired EXCEPT ![w] = TRUE]
          /\ UNCHANGED <<doc, made, cursor, failure, vectors, dimension, seen, cache, pass, server>>
      BY <1>3 DEF Piece, Deadline, Armed, InExchange, ofPass, outside
    <2>2. phase' = [phase EXCEPT ![w] = phase[w]] /\ Working(w)
          /\ phase[w] \in Phases \ {"draw", "gone"}
      BY <1>0, <2>1 DEF Working, InExchange, Phases
    <2>3. phase[w] \in {"body", "excerpt"} => by'[w] \in Revisions
      BY <2>1 DEF PassInv, WorkOK
    <2>4. fired' \in [Workers -> BOOLEAN] /\ \A x \in Workers \ {w} : fired'[x] = fired[x]
      BY <1>0, <2>1
    <2>5. phase[w] \in {"fetch", "body", "excerpt"}
      BY <2>1 DEF InExchange
    <2>6. \A x \in Workers \ {w} : by'[x] = by[x]
      BY <2>1
    <2> QED  BY <1>0, <2>1, <2>2, <2>3, <2>4, <2>5, <2>6, MovesOK
  <1>4. CASE Rejected(w)
    <2>1. phase[w] # "gone" /\ (Settles(w, "nonsense") \/ Settles(w, "status"))
      BY <1>4 DEF Rejected
    <2>2. "nonsense" \in Reasons /\ "status" \in Reasons
      BY DEF Reasons
    <2> QED  BY <2>1, <2>2, SettlesOK
  <1>5. CASE Answered(w)
    BY <1>5, AnsweredOK
  <1> QED  BY <1>1, <1>2, <1>3, <1>4, <1>5 DEF Network

\* A pass that ended well has been through all of its documents.
LEMMA EndPassOK ==
    ASSUME PassInv, EndPass
    PROVE  PassInv'
  <1>1. /\ pass = "running" /\ \A w \in Workers : phase[w] = "gone"
        /\ pass' = IF failure = None THEN "done" ELSE "failed"
        /\ UNCHANGED <<phase, doc, made, by, fired, cursor, failure, vectors, dimension, seen,
                       cache, server>>
    BY DEF EndPass, PoolIsOut, exchange, ofPass
  <1>2. PassShape' /\ CacheOK' /\ VectorsOK' /\ WorkOK' /\ SeenOK'
    BY <1>1 DEF PassInv, PassShape, CacheOK, VectorsOK, WorkOK, Working, InExchange, SeenOK
  <1>3. CursorOK'
    BY <1>1 DEF CursorOK
  <1>4. ASSUME failure = None, NEW d \in All, Chunks[d] > 0
        PROVE  vectors[d] # None
    <2>1. Workers # {}
      BY PassAssumption
    <2>2. Len(Docs) < cursor /\ cursor \in Nat
      BY <1>1, <1>4, <2>1 DEF PassInv, PassShape, CursorOK
    <2>3. PICK i \in DOMAIN Docs : Docs[i] = d
      BY DocsFacts
    <2>4. i < cursor
      BY <2>2, DocsFacts
    <2>5. Accounted(d)
      BY <1>1, <1>4, <2>3, <2>4 DEF PassInv, CursorOK
    <2> QED  BY <1>1, <1>4, <2>5 DEF Accounted, Working
  <1>5. EndOK'
    BY <1>1, <1>4 DEF EndOK
  <1> QED  BY <1>2, <1>3, <1>5 DEF PassInv

LEMMA StepOK ==
    PassInv /\ [Next]_vars => PassInv'
  <1> SUFFICES ASSUME PassInv, [Next]_vars  PROVE PassInv'
    OBVIOUS
  <1>1. CASE BeginPass
    BY <1>1, BeginPassOK
  <1>2. CASE EndPass
    BY <1>2, EndPassOK
  <1>3. CASE Upgrade \/ UNCHANGED vars
    <2>1. /\ server' \in Revisions
          /\ UNCHANGED <<phase, doc, made, by, fired, cursor, failure, vectors, dimension, seen,
                         cache, pass>>
      BY <1>3 DEF Upgrade, vars, exchange, ofPass, outside, PassInv, PassShape
    <2>2. PassShape' /\ CacheOK' /\ VectorsOK' /\ WorkOK' /\ SeenOK'
      BY <2>1 DEF PassInv, PassShape, CacheOK, VectorsOK, WorkOK, Working, InExchange, SeenOK
    <2>3. CursorOK' /\ EndOK'
      BY <2>1 DEF PassInv, CursorOK, Accounted, Working, EndOK
    <2> QED  BY <2>2, <2>3 DEF PassInv
  <1>4. ASSUME NEW w \in Workers, Turn(w) \/ Network(w) \/ Deadline(w)
        PROVE  PassInv'
    BY <1>4, TurnOK, NetworkOK
  <1> QED
    BY <1>1, <1>2, <1>3, <1>4 DEF Next

LEMMA PassInvariant == Spec => []PassInv
  BY InitOK, StepOK, PTL DEF Spec

-----------------------------------------------------------------------------
\* However many workers, documents and upgrades, the answers behind the new vectors of a
\* finished pass report one revision of the model, those that report any: runEmbeddings,
\* corpus_embeddings.ts.  A server that reports none may mix revisions unnoticed.
THEOREM OneRevision == Spec => []OneRevisionAnswers
  <1>1. PassInv => OneRevisionAnswers
    <2> SUFFICES ASSUME PassInv, pass = "done",
                        NEW d \in All, vectors[d] # None, ~vectors[d].cached,
                        NEW e \in All, vectors[e] # None, ~vectors[e].cached,
                        NEW r \in vectors[d].from, NEW s \in vectors[e].from
                 PROVE  None \in {Reported[r], Reported[s]} \/ Reported[r] = Reported[s]
      BY DEF OneRevisionAnswers
    <2>1. \A x, y \in seen : x = y
      BY DEF PassInv, EndOK, SeenOK
    <2>2. vectors[d] \in Vectors /\ vectors[e] \in Vectors
      BY DEF PassInv, PassShape
    <2>3. vectors[d].cached = FALSE /\ vectors[e].cached = FALSE
      BY <2>2 DEF Vectors
    <2>4. Told(r) \subseteq seen /\ Told(s) \subseteq seen
      BY <2>3 DEF PassInv, VectorsOK
    <2> QED  BY <2>1, <2>4 DEF Told
  <1> QED  BY <1>1, PassInvariant, PTL

\* All the vectors of a finished pass have one length, cached ones included:
\* acceptVector, corpus_embeddings.ts.
THEOREM ComparableVectors == Spec => []VectorsAreComparable
  <1>1. PassInv => VectorsAreComparable
    <2> SUFFICES ASSUME PassInv, NEW d \in All, NEW e \in All,
                        vectors[d] # None, vectors[e] # None
                 PROVE  DimensionOf(vectors[d]) = DimensionOf(vectors[e])
      BY DEF VectorsAreComparable
    <2>1. \A f \in All : vectors[f] # None => DimensionOf(vectors[f]) = dimension
      <3> SUFFICES ASSUME NEW f \in All, vectors[f] # None
                   PROVE  DimensionOf(vectors[f]) = dimension
        OBVIOUS
      <3>1. vectors[f] \in Vectors /\ VectorOK(vectors[f], f)
        BY DEF PassInv, PassShape, VectorsOK
      <3>2. PICK r \in vectors[f].from : TRUE
        BY <3>1 DEF VectorOK
      <3> QED  BY <3>1, <3>2, DimensionOfVector DEF PassInv, VectorsOK
    <2> QED  BY <2>1
  <1> QED  BY <1>1, PassInvariant, PTL

\* No vector, kept or cached, misses a chunk of its document, and a finished
\* pass misses no document: embedOne and the pool, corpus_embeddings.ts.
THEOREM NoHalfEmbeddings == Spec => []NothingHalfEmbedded
  <1>1. PassInv => NothingHalfEmbedded
    <2> SUFFICES ASSUME PassInv, NEW d \in All
                 PROVE  /\ vectors[d] # None => vectors[d].chunks = Chunks[d]
                        /\ cache[d] # None => cache[d].chunks = Chunks[d]
                        /\ pass = "done" => (vectors[d] # None <=> Chunks[d] > 0)
      BY DEF NothingHalfEmbedded
    <2>1. vectors[d] # None => vectors[d].chunks = Chunks[d] /\ Chunks[d] > 0
      BY DEF PassInv, VectorsOK, VectorOK
    <2>2. cache[d] # None => cache[d].chunks = Chunks[d]
      BY DEF PassInv, CacheOK, VectorOK
    <2>3. pass = "done" /\ Chunks[d] > 0 => vectors[d] # None
      BY DEF PassInv, EndOK
    <2> QED  BY <2>1, <2>2, <2>3
  <1> QED  BY <1>1, PassInvariant, PTL

\* An answer that is whole when its deadline passes is not used: exchange and
\* readCapped, corpus_embedding_http.ts.
THEOREM LateAnswersDropped == Spec => LateAnswersAreDropped
  <1>1. PassInv /\ [Next]_vars =>
            \A w \in Workers : fired[w] => made'[w] = made[w] \/ pass' # pass
    <2> SUFFICES ASSUME PassInv, [Next]_vars, NEW w \in Workers, fired[w]
                 PROVE  made'[w] = made[w] \/ pass' # pass
      OBVIOUS
    <2>0. InExchange(w) /\ made \in [Workers -> Seq(Revisions)]
      BY DEF PassInv, WorkOK, PassShape
    <2>1. CASE BeginPass
      BY <2>1 DEF BeginPass
    <2>2. CASE EndPass \/ Upgrade \/ UNCHANGED vars
      BY <2>2 DEF EndPass, Upgrade, vars, exchange
    <2>3. ASSUME NEW v \in Workers, Turn(v)
          PROVE  made'[w] = made[w]
      <3>1. CASE Draw(v)
        <4>1. v # w
          BY <2>0, <3>1 DEF Draw, InExchange
        <4>2. made' = made \/ made' = [made EXCEPT ![v] = <<>>]
          BY <3>1 DEF Draw
        <4> QED  BY <2>0, <4>1, <4>2
      <3>2. CASE Give(v) \/ Send(v) \/ Keep(v) \/ Aborted(v)
        BY <3>2 DEF Give, Send, Keep, Aborted, Settles
      <3> QED  BY <2>3, <3>1, <3>2 DEF Turn
    <2>4. ASSUME NEW v \in Workers, Network(v) \/ Deadline(v)
          PROVE  made'[w] = made[w]
      <3>1. CASE Refused(v) \/ Headers(v) \/ Piece(v) \/ Rejected(v) \/ Deadline(v)
        BY <3>1 DEF Refused, Headers, Piece, Rejected, Deadline, Settles
      <3>2. CASE Answered(v)
        <4>1. ~fired[v]
          BY <3>2 DEF Answered, Whole
        <4>2. v # w
          BY <4>1
        <4>3. made' = made \/ made' = [made EXCEPT ![v] = Append(made[v], by[v])]
          BY <3>2 DEF Answered, Settles
        <4> QED  BY <2>0, <4>2, <4>3
      <3> QED  BY <2>4, <3>1, <3>2 DEF Network
    <2> QED  BY <2>1, <2>2, <2>3, <2>4 DEF Next
  <1> QED
    BY <1>1, PassInvariant, PTL DEF LateAnswersAreDropped, Spec
=============================================================================
