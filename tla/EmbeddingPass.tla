--------------------------- MODULE EmbeddingPass ---------------------------
(***************************************************************************)
(* The embedding pass (runEmbeddings) over the HTTP provider               *)
(* (HttpJsonEmbeddingProvider.embed, exchange, readCapped): a pool of      *)
(* workers draws documents from a shared cursor and sends their chunks one *)
(* by one to a server that may refuse, stall at any point, answer with     *)
(* nonsense, or be upgraded to another model revision in the middle.  One  *)
(* deadline covers each exchange.  The first failure stops the pass.       *)
(*                                                                         *)
(* A vector is what it was made by: the revisions that answered, and for   *)
(* how many chunks.  Its numbers are left out but for their dimension.     *)
(***************************************************************************)
EXTENDS Naturals, Sequences, SequencesExt, FiniteSets

CONSTANTS
    Workers,       \* maxParallelRequests of them
    Docs,          \* decoded documents that are no secret candidates, by artifact id
    Chunks,        \* [Docs -> Nat]: how many chunks a document is cut into
    Revisions,     \* model revisions the server may run
    Dimension,     \* [Revisions -> Nat]: the length of their vectors
    Reported,      \* [Revisions -> names and None]: what an answer calls its revision, if anything
    Cached,        \* is a cache supplied?
    Parts,         \* reads a response body takes
    None,
    MaxPasses, MaxUpgrades     \* bounds on the run, not on the program

\* Why a pass fails.
Reasons == {"unreachable", "timeout", "status", "nonsense", "dimension", "revision"}
Vectors == [from : SUBSET Revisions, chunks : Nat, cached : BOOLEAN]

ASSUME PassAssumption ==
    /\ Workers # {} /\ Revisions # {} /\ Cached \in BOOLEAN
    /\ Docs \in Seq(DOMAIN Chunks) /\ ToSet(Docs) = DOMAIN Chunks
    /\ Chunks \in [DOMAIN Chunks -> Nat] /\ Dimension \in [Revisions -> Nat]
    /\ DOMAIN Reported = Revisions
    /\ None \notin Revisions \cup Vectors /\ None \notin Nat /\ None \notin Reasons

VARIABLES
    phase,         \* worker |-> where it is
    doc, made,     \* worker |-> its document, and the answers for its chunks so far
    part,          \* worker |-> reads of the present body
    by,            \* worker |-> the revision answering it
    fired,         \* worker |-> its deadline has passed
    cursor, failure, vectors, dimension,             \* of the pass
    seen,          \* the revisions reported in it
    cache, pass, passes,
    server, upgrades

exchange == <<phase, doc, made, part, by, fired>>
ofPass   == <<cursor, failure, vectors, dimension, seen>>
outside  == <<pass, passes, server, upgrades>>
vars     == <<exchange, ofPass, cache, outside>>

All   == ToSet(Docs)
Nothing == [d \in All |-> None]

InExchange(w) == phase[w] \in {"fetch", "body", "excerpt"}

(***************************************************************************)
(* The pool.                                                               *)
(***************************************************************************)

BeginPass ==
    /\ pass \in {"none", "failed", "done"} /\ passes < MaxPasses
    /\ pass' = "running" /\ passes' = passes + 1
    /\ phase' = [w \in Workers |-> "draw"] /\ doc' = [w \in Workers |-> None]
    /\ made' = [w \in Workers |-> <<>>] /\ part' = [w \in Workers |-> 0]
    /\ by' = [w \in Workers |-> None] /\ fired' = [w \in Workers |-> FALSE]
    /\ cursor' = 1 /\ failure' = None /\ vectors' = Nothing /\ dimension' = None
    /\ seen' = {}
    /\ UNCHANGED <<cache, server, upgrades>>

\* The first failure is the one the pass reports; the worker is gone.
Fails(w, why) ==
    /\ failure' = IF failure = None THEN why ELSE failure
    /\ phase' = [phase EXCEPT ![w] = "gone"]
    /\ fired' = [fired EXCEPT ![w] = FALSE]

\* acceptVector: the first accepted vector fixes the run's dimension.
Fits(n) == dimension \in {None, n}

DimensionOf(v) == Dimension[CHOOSE r \in v.from : TRUE]

\* A worker takes the next document, or leaves; a cached vector is used as it is.
Draw(w) ==
    /\ pass = "running" /\ phase[w] = "draw"
    /\ IF failure # None \/ cursor > Len(Docs)
       THEN /\ phase' = [phase EXCEPT ![w] = "gone"]
            /\ cursor' = IF failure # None THEN cursor ELSE cursor + 1
            /\ UNCHANGED <<doc, made, fired, failure, vectors, dimension>>
       ELSE LET d == Docs[cursor] IN
            /\ cursor' = cursor + 1
            /\ IF cache[d] # None
               THEN /\ UNCHANGED <<doc, made>>
                    /\ IF Fits(DimensionOf(cache[d]))
                       THEN /\ vectors' = [vectors EXCEPT ![d] = [cache[d] EXCEPT !.cached = TRUE]]
                            /\ dimension' = DimensionOf(cache[d])
                            /\ UNCHANGED <<phase, fired, failure>>
                       ELSE Fails(w, "dimension") /\ UNCHANGED <<vectors, dimension>>
               ELSE /\ phase' = [phase EXCEPT ![w] = IF Chunks[d] = 0 THEN "draw" ELSE "next"]
                    /\ doc' = [doc EXCEPT ![w] = d] /\ made' = [made EXCEPT ![w] = <<>>]
                    /\ UNCHANGED <<fired, failure, vectors, dimension>>
    /\ UNCHANGED <<part, by, seen, cache, outside>>

\* Another worker failed: send nothing more, record nothing.
Abandons(w) == failure # None

\* embedOne between two chunks: stop, send the next one, or keep the document.
Give(w) ==
    /\ phase[w] = "next" /\ Abandons(w) /\ Len(made[w]) < Chunks[doc[w]]
    /\ phase' = [phase EXCEPT ![w] = "draw"]
    /\ UNCHANGED <<doc, made, part, by, fired, ofPass, cache, outside>>

Send(w) ==
    /\ phase[w] = "next" /\ ~Abandons(w) /\ Len(made[w]) < Chunks[doc[w]]
    /\ phase' = [phase EXCEPT ![w] = "fetch"]
    /\ part' = [part EXCEPT ![w] = 0] /\ by' = [by EXCEPT ![w] = None]
    /\ fired' = [fired EXCEPT ![w] = FALSE]
    /\ UNCHANGED <<doc, made, ofPass, cache, outside>>

Mutant_KeepsWhatItHas(w) == made[w] # <<>>

\* Every chunk of the document is answered.
Complete(w) == Len(made[w]) = Chunks[doc[w]]

Keep(w) ==
    LET v == [from |-> ToSet(made[w]), chunks |-> Len(made[w]), cached |-> FALSE] IN
    /\ phase[w] = "next" /\ Complete(w)
    /\ vectors' = [vectors EXCEPT ![doc[w]] = v]
    /\ cache' = IF Cached THEN [cache EXCEPT ![doc[w]] = v] ELSE cache
    /\ phase' = [phase EXCEPT ![w] = "draw"]
    /\ UNCHANGED <<doc, made, part, by, fired, cursor, failure, dimension, seen, outside>>

(***************************************************************************)
(* One exchange.                                                           *)
(***************************************************************************)

Settles(w, why) ==
    /\ Fails(w, why)
    /\ UNCHANGED <<doc, made, part, by, cursor, vectors, dimension, seen, cache, outside>>

\* fetch rejects: no connection, a redirect, or the signal.
Refused(w) == phase[w] = "fetch" /\ Settles(w, "unreachable")

Headers(w) ==
    /\ phase[w] = "fetch" /\ ~fired[w]
    /\ by' = [by EXCEPT ![w] = server]
    /\ \E ok \in BOOLEAN : phase' = [phase EXCEPT ![w] = IF ok THEN "body" ELSE "excerpt"]
    /\ UNCHANGED <<doc, made, part, fired, ofPass, cache, outside>>

\* A piece of the body arrives, under the cap.
Piece(w) ==
    /\ phase[w] \in {"body", "excerpt"} /\ ~fired[w] /\ part[w] < Parts
    /\ part' = [part EXCEPT ![w] = @ + 1]
    /\ UNCHANGED <<phase, doc, made, by, fired, ofPass, cache, outside>>

Mutant_ArmedForHeaders(w) == phase[w] = "fetch"

\* The timer stays armed from the request to the last byte of the body.
Armed(w) == InExchange(w)

Deadline(w) ==
    /\ Armed(w) /\ ~fired[w]
    /\ fired' = [fired EXCEPT ![w] = TRUE]
    /\ UNCHANGED <<phase, doc, made, part, by, ofPass, cache, outside>>

\* The aborted fetch or the cancelled reader comes back: a timeout, whatever the
\* reader says -- or, while the text of an error was being read, the error.
Aborted(w) ==
    /\ InExchange(w) /\ fired[w]
    /\ Settles(w, IF phase[w] = "excerpt" THEN "status" ELSE "timeout")

\* Over the cap, or not the JSON of a vector; or an error, read as far as it goes.
Rejected(w) ==
    \/ phase[w] = "body" /\ ~fired[w] /\ Settles(w, "nonsense")
    \/ phase[w] = "excerpt" /\ ~fired[w] /\ Settles(w, "status")

Whole(w) == ~fired[w] /\ part[w] = Parts

Mutant_AnyRevision(w) == FALSE

\* What an answer of a revision reports: a server may say nothing, which is not compared.
Told(r) == {Reported[r]} \ {None}

\* The provider has reported another revision in this pass.
Mixes(w) == Told(by[w]) # {} /\ ~(seen \subseteq Told(by[w]))

\* A whole body with a vector in it: embed returns, and the worker goes on.
Answered(w) ==
    /\ phase[w] = "body" /\ Whole(w)
    /\ IF ~Fits(Dimension[by[w]])
       THEN Settles(w, "dimension")
       ELSE IF Mixes(w)
       THEN /\ Fails(w, "revision") /\ seen' = seen \cup Told(by[w])
            /\ UNCHANGED <<doc, made, part, by, cursor, vectors, dimension, cache, outside>>
       ELSE /\ dimension' = Dimension[by[w]] /\ seen' = seen \cup Told(by[w])
            /\ made' = [made EXCEPT ![w] = Append(@, by[w])]
            /\ phase' = [phase EXCEPT ![w] = "next"] /\ fired' = [fired EXCEPT ![w] = FALSE]
            /\ UNCHANGED <<doc, part, by, cursor, failure, vectors, cache, outside>>

\* Promise.all over workers that never reject.
PoolIsOut == \A w \in Workers : phase[w] = "gone"

EndPass ==
    /\ pass = "running" /\ PoolIsOut
    /\ pass' = IF failure = None THEN "done" ELSE "failed"
    /\ UNCHANGED <<exchange, ofPass, cache, passes, server, upgrades>>

Upgrade ==
    /\ upgrades < MaxUpgrades /\ upgrades' = upgrades + 1
    /\ \E r \in Revisions \ {server} : server' = r
    /\ UNCHANGED <<exchange, ofPass, cache, pass, passes>>

Init ==
    /\ phase = [w \in Workers |-> "gone"] /\ doc = [w \in Workers |-> None]
    /\ made = [w \in Workers |-> <<>>] /\ part = [w \in Workers |-> 0]
    /\ by = [w \in Workers |-> None] /\ fired = [w \in Workers |-> FALSE]
    /\ cursor = 1 /\ failure = None /\ vectors = Nothing /\ dimension = None
    /\ seen = {} /\ cache = Nothing /\ pass = "none" /\ passes = 0
    /\ server \in Revisions /\ upgrades = 0

Turn(w) == Draw(w) \/ Give(w) \/ Send(w) \/ Keep(w) \/ Aborted(w)
Network(w) == Refused(w) \/ Headers(w) \/ Piece(w) \/ Rejected(w) \/ Answered(w)

Next ==
    \/ BeginPass \/ EndPass \/ Upgrade
    \/ \E w \in Workers : Turn(w) \/ Network(w) \/ Deadline(w)

\* The event loop runs what is ready and its timers fire.  Of the network and
\* the server nothing is assumed.
Fairness == /\ WF_vars(EndPass)
            /\ \A w \in Workers : WF_vars(Turn(w)) /\ WF_vars(Deadline(w))

Spec == Init /\ [][Next]_vars /\ Fairness

(***************************************************************************)
(* Properties.                                                             *)
(***************************************************************************)

TypeOK ==
    /\ \A w \in Workers : /\ phase[w] \in {"draw", "next", "fetch", "body", "excerpt", "gone"}
                          /\ fired[w] => InExchange(w)
                          /\ phase[w] = "next" => Len(made[w]) <= Chunks[doc[w]]
    /\ cursor \in 1..Len(Docs) + Cardinality(Workers) + 1
    /\ \A d \in All : vectors[d] = None \/ vectors[d].from \subseteq Revisions
    /\ pass \in {"none", "running", "failed", "done"}

\* Whatever scores are computed at the end of a pass are cosines of vectors of
\* one length, cached ones included.
VectorsAreComparable ==
    pass = "done" =>
        \A d, e \in {f \in All : vectors[f] # None} :
            DimensionOf(vectors[d]) = DimensionOf(vectors[e])

\* The answers behind the new vectors of a finished pass report one revision of the
\* model, those that report any, however the answers of the workers interleaved with
\* an upgrade.
OneRevisionAnswers ==
    LET fresh == {d \in All : vectors[d] # None /\ ~vectors[d].cached}
    IN  pass = "done" =>
            \A d, e \in fresh : \A r \in vectors[d].from, s \in vectors[e].from :
                None \in {Reported[r], Reported[s]} \/ Reported[r] = Reported[s]

\* A document has a vector, in a finished pass or in the cache, when all of its
\* chunks were answered, and in a finished pass every document has.
NothingHalfEmbedded ==
    \A d \in All :
        /\ vectors[d] # None => vectors[d].chunks = Chunks[d]
        /\ cache[d] # None => cache[d].chunks = Chunks[d]
        /\ pass = "done" => (vectors[d] # None <=> Chunks[d] > 0)

\* An exchange whose deadline has passed contributes nothing, not even when the
\* whole body was there before the timeout was noticed.
LateAnswersAreDropped ==
    [][\A w \in Workers : fired[w] => made'[w] = made[w] \/ pass' # pass]_vars

\* A server that stalls, before the headers or in the body, stops no pass.
EveryPassEnds == (pass = "running") ~> (pass # "running")
=============================================================================
