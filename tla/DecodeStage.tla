---------------------------- MODULE DecodeStage ----------------------------
(***************************************************************************)
(* The decode stage of src/src/corpus_scan.ts: boundedMap keeps up to Limit*)
(* documents in flight, MemoryBudget admits them, deriveDocumentLayers     *)
(* reads each and stores what it derives under keys of the hash the        *)
(* document had when the run acquired it, while users go on editing.       *)
(*                                                                         *)
(* JavaScript runs one segment at a time, from await to await; system calls*)
(* inside a segment are steps of their own, for edits and crashes fall     *)
(* between them.  What is derived from a document is the set of contents it*)
(* was read from: {c} is the truth about content c.                        *)
(***************************************************************************)
EXTENDS Naturals, FiniteSets, FiniteSetsExt

CONSTANTS
    Docs,           \* documents of the corpus, in scan order
    Kind,           \* how each is read: "whole", "container", or "refused" unread
    Size,           \* its bytes
    Limit,          \* max_parallel_decoders
    Memory,         \* max_memory_bytes
    Contents,       \* what a file may hold
    Undecodable,    \* contents the decoders refuse
    Missing,        \* a file that is not there
    Fault,          \* a read error inside a decoder
    None,           \* nothing stored
    PartFaults,     \* may a decoder's own read fail?
    MaxRuns, MaxEdits, MaxFaults    \* bounds on scans, edits, and failures

ASSUME DocsAssumption == Docs \subseteq Nat /\ IsFiniteSet(Docs)
ASSUME KindAssumption == Kind \in [Docs -> {"whole", "container", "refused"}]
ASSUME SizeAssumption == Size \in [Docs -> Nat] /\ Memory \in Nat
ASSUME LimitAssumption == Limit \in Nat \ {0}
ASSUME ContentsAssumption == Undecodable \subseteq Contents /\ Missing \notin Contents
ASSUME FaultAssumption == Fault \notin Contents /\ PartFaults \in BOOLEAN
ASSUME NoneAssumption == \A read \in SUBSET (Contents \cup {Fault}) : read # None
ASSUME BoundAssumption == MaxRuns \in Nat /\ MaxEdits \in Nat /\ MaxFaults \in Nat

Runners == 1 .. Limit
Keys    == Contents \X {"whole", "container"}
Derived == SUBSET (Contents \cup {Fault})
Layers  == {"normalized_document", "lexical_features"}

VARIABLES
    disk, stamp,    \* what each file holds, and its size and mtime
    cache,          \* the corpus cache
    lost,           \* history: the entries it has lost
    stage,          \* "off", "running", "ended" or "failed"
    hash,           \* the content each document was acquired with
    items,          \* documents no runner has taken
    normalized,     \* what this run says of each document
    completed, saved,   \* decoder keys of the session, and of its manifest
    pc, doc,        \* where each runner is, and its document
    text,           \* what it has read
    seen,           \* the stat it took first
    lacks,          \* does its document lack lexical features?
    inFlight,       \* MemoryBudget
    runs, edits, faults

files   == <<disk, stamp>>
stores  == <<cache, lost>>
session == <<completed, saved>>
notes   == <<doc, text, seen, lacks>>
counts  == <<runs, edits, faults>>
vars == <<files, stores, stage, hash, items, normalized, session, pc, notes, inFlight, counts>>

Decodes(derived) == derived \cap (Undecodable \cup {Fault}) = {}

Init ==
    /\ disk \in [Docs -> Contents] /\ stamp = [d \in Docs |-> 0]
    /\ cache = [l \in Layers |-> [k \in Keys |-> None]] /\ lost = {}
    /\ stage = "off" /\ hash = [d \in Docs |-> Missing] /\ items = {}
    /\ normalized = [d \in Docs |-> None]
    /\ completed = {} /\ saved = {}
    /\ pc = [r \in Runners |-> "done"]
    /\ doc = [r \in Runners |-> None] /\ text = [r \in Runners |-> {}]
    /\ seen = [r \in Runners |-> 0] /\ lacks = [r \in Runners |-> FALSE]
    /\ inFlight = 0
    /\ runs = 0 /\ edits = 0 /\ faults = 0

-----------------------------------------------------------------------------
(* One run *)

\* runCorpusScan has acquired its roots; the session is resumed, or replaced.
Begin ==
    /\ stage \in {"off", "ended"} /\ runs < MaxRuns /\ runs' = runs + 1
    /\ stage' = "running" /\ hash' = disk
    /\ items' = {d \in Docs : disk[d] # Missing}
    /\ normalized' = [d \in Docs |-> None]
    /\ completed' \in {saved, {}} /\ saved' = completed'
    /\ pc' = [r \in Runners |-> "free"]
    /\ doc' = [r \in Runners |-> None] /\ text' = [r \in Runners |-> {}]
    /\ seen' = [r \in Runners |-> 0] /\ lacks' = [r \in Runners |-> FALSE]
    /\ inFlight' = 0
    /\ UNCHANGED <<files, stores, edits, faults>>

End ==
    /\ stage = "running" /\ \A r \in Runners : pc[r] = "done"
    /\ stage' = "ended" /\ saved' = completed
    /\ UNCHANGED <<files, stores, hash, items, normalized, completed, pc, notes, inFlight, counts>>

\* The caller saves the session and exits; till then the other runners go on.
Exit ==
    /\ stage = "failed"
    /\ stage' = "off" /\ saved' = completed
    /\ pc' = [r \in Runners |-> "done"] /\ inFlight' = 0
    /\ UNCHANGED <<files, stores, hash, items, normalized, completed, notes, counts>>

-----------------------------------------------------------------------------
(* MemoryBudget *)

Admits(d) == inFlight = 0 \/ inFlight + Size[d] <= Memory

\* Mutant: nobody is told of the room.
Mutant_Unheard(r, l) ==
    /\ inFlight' = inFlight - Size[doc[r]]
    /\ pc' = [pc EXCEPT ![r] = l]

\* release: whoever waits looks again.
Release(r, l) ==
    /\ inFlight' = IF Size[doc[r]] < inFlight THEN inFlight - Size[doc[r]] ELSE 0
    /\ pc' = [q \in Runners |->
                IF q = r THEN l ELSE IF pc[q] = "waiting" THEN "woken" ELSE pc[q]]

Reserve(r, d) ==
    \/ /\ Admits(d) /\ inFlight' = inFlight + Size[d]
       /\ pc' = [pc EXCEPT ![r] = "reserved"]
    \/ /\ ~Admits(d) /\ pc' = [pc EXCEPT ![r] = "waiting"]
       /\ UNCHANGED inFlight

-----------------------------------------------------------------------------
(* deriveDocumentLayers, up to the read *)

Inside == {"hash", "open", "decode", "settle", "store", "derive"}
Turn(r, l) == pc[r] = l /\ \A q \in Runners : pc[q] \notin Inside
Goto(r, l) == pc' = [pc EXCEPT ![r] = l]

Key(d) == <<hash[d], Kind[d]>>
Stored(l, d) == cache[l][Key(d)]

\* Every layer the document wants is stored, or it is known not to decode.
Hit(d) ==
    /\ Stored("normalized_document", d) # None
    /\ Decodes(Stored("normalized_document", d)) => Stored("lexical_features", d) # None

Take(r, d) ==
    /\ Turn(r, "free") /\ d \in items /\ \A e \in items : d <= e
    /\ items' = items \ {d}
    /\ doc' = [doc EXCEPT ![r] = d]
    /\ \/ /\ Kind[d] = "refused"
          /\ normalized' = [normalized EXCEPT ![d] = {}]
          /\ UNCHANGED <<completed, pc, lacks, inFlight>>
       \/ /\ Kind[d] # "refused" /\ Hit(d)
          /\ normalized' = [normalized EXCEPT ![d] = Stored("normalized_document", d)]
          /\ completed' = completed \cup {Key(d)}
          /\ UNCHANGED <<pc, lacks, inFlight>>
       \/ /\ Kind[d] # "refused" /\ ~Hit(d)
          /\ normalized' = [normalized EXCEPT ![d] = Stored("normalized_document", d)]
          /\ lacks' = [lacks EXCEPT ![r] = Stored("lexical_features", d) = None]
          /\ Reserve(r, d)
          /\ UNCHANGED completed
    /\ UNCHANGED <<files, stores, stage, hash, saved, text, seen, counts>>

NoMore(r) ==
    /\ Turn(r, "free") /\ items = {} /\ Goto(r, "done")
    /\ UNCHANGED <<files, stores, stage, hash, items, normalized, session, notes, inFlight, counts>>

Recheck(r) ==
    /\ Turn(r, "woken") /\ Reserve(r, doc[r])
    /\ UNCHANGED <<files, stores, stage, hash, items, normalized, session, notes, counts>>

-----------------------------------------------------------------------------
(* deriveDocumentLayers, the verified read *)

\* refuseForThisRun: a record of this run, over no cached one, and never cached.
Refuse(r) ==
    /\ normalized' = [normalized EXCEPT ![doc[r]] = IF @ = None THEN {} ELSE @]
    /\ Release(r, "free")
    /\ UNCHANGED <<files, stores, stage, hash, items, session, notes, counts>>

\* Outside JavaScript: the whole file into one buffer.
ReadWhole(r) ==
    /\ pc[r] = "reserved" /\ Kind[doc[r]] = "whole"
    /\ text' = [text EXCEPT ![r] = {disk[doc[r]]} \ {Missing}]
    /\ Goto(r, "read")
    /\ UNCHANGED <<files, stores, stage, hash, items, normalized, session, doc, seen, lacks,
                   inFlight, counts>>

\* Mutant: the buffer is taken for what was acquired.
Mutant_Unverified(r) ==
    /\ Turn(r, "read") /\ text[r] # {} /\ Goto(r, "store")
    /\ UNCHANGED <<files, stores, stage, hash, items, normalized, session, notes, inFlight, counts>>

Verify(r) ==
    /\ Turn(r, "read")
    /\ IF text[r] = {hash[doc[r]]}
       THEN /\ Goto(r, "store")
            /\ UNCHANGED <<files, stores, stage, hash, items, normalized, session, notes, inFlight,
                           counts>>
       ELSE Refuse(r)

\* A container: its stat, its hash, its directory, its parts one by one, its stat.
Stat(r) ==
    /\ Turn(r, "reserved") /\ Kind[doc[r]] = "container"
    /\ IF disk[doc[r]] # Missing
       THEN /\ seen' = [seen EXCEPT ![r] = stamp[doc[r]]]
            /\ text' = [text EXCEPT ![r] = {}]
            /\ Goto(r, "hash")
            /\ UNCHANGED <<files, stores, stage, hash, items, normalized, session, doc, lacks,
                           inFlight, counts>>
       ELSE Refuse(r)

Hash(r) ==
    /\ pc[r] = "hash"
    /\ IF disk[doc[r]] = hash[doc[r]]
       THEN /\ Goto(r, "open")
            /\ UNCHANGED <<files, stores, stage, hash, items, normalized, session, notes, inFlight,
                           counts>>
       ELSE Refuse(r)

\* The decoder opens the file and reads its directory; it passes on the error of a
\* file it cannot open, which nothing on the way to boundedMap catches.
Open(r) ==
    /\ pc[r] = "open"
    /\ IF disk[doc[r]] # Missing
       THEN /\ text' = [text EXCEPT ![r] = {disk[doc[r]]}]
            /\ Goto(r, "decode")
            /\ UNCHANGED <<stage, inFlight>>
       ELSE /\ Release(r, "done") /\ stage' = "failed"
            /\ UNCHANGED text
    /\ UNCHANGED <<files, stores, hash, items, normalized, session, doc, seen, lacks, counts>>

\* One part after another; a part that cannot be read makes the document malformed.
Decode(r) ==
    /\ pc[r] = "decode"
    /\ \E part \in {disk[doc[r]], Fault} :
          /\ \/ part = disk[doc[r]] /\ part # Missing /\ UNCHANGED faults
             \/ part = Fault /\ disk[doc[r]] = Missing /\ UNCHANGED faults
             \/ part = Fault /\ PartFaults /\ faults < MaxFaults /\ faults' = faults + 1
          /\ text' = [text EXCEPT ![r] = @ \cup {part}]
    /\ \/ Goto(r, "settle") \/ UNCHANGED pc
    /\ UNCHANGED <<files, stores, stage, hash, items, normalized, session, doc, seen, lacks,
                   inFlight, runs, edits>>

\* Mutant: what held still at the hash is taken to have held still since.
Mutant_NoSecondStat(r) ==
    /\ pc[r] = "settle" /\ Goto(r, "store")
    /\ UNCHANGED <<files, stores, stage, hash, items, normalized, session, notes, inFlight, counts>>

Settle(r) ==
    /\ pc[r] = "settle"
    /\ IF disk[doc[r]] # Missing /\ stamp[doc[r]] = seen[r]
       THEN /\ Goto(r, "store")
            /\ UNCHANGED <<files, stores, stage, hash, items, normalized, session, notes, inFlight,
                           counts>>
       ELSE Refuse(r)

-----------------------------------------------------------------------------
(* deriveDocumentLayers, what it stores *)

Put(l, d, derived) ==
    /\ cache' = [cache EXCEPT ![l][Key(d)] = derived]
    /\ lost' = lost \ {<<l, Key(d)>>}

\* Mutant: a key is complete once its document is decoded, stored or not.
Mutant_CompletesFirst(r) ==
    /\ pc[r] = "store" /\ Key(doc[r]) \notin completed
    /\ completed' = completed \cup {Key(doc[r])}
    /\ UNCHANGED <<files, stores, stage, hash, items, normalized, saved, pc, notes, inFlight, counts>>

Store(r) ==
    /\ pc[r] = "store"
    /\ Put("normalized_document", doc[r], text[r])
    /\ normalized' = [normalized EXCEPT ![doc[r]] = text[r]]
    /\ completed' = IF Decodes(text[r]) THEN completed \cup {Key(doc[r])} ELSE completed
    /\ IF Decodes(text[r]) /\ lacks[r]
       THEN Goto(r, "derive") /\ UNCHANGED inFlight
       ELSE Release(r, "free")
    /\ UNCHANGED <<files, stage, hash, items, saved, notes, counts>>

Derive(r) ==
    /\ pc[r] = "derive"
    /\ Put("lexical_features", doc[r], text[r])
    /\ Release(r, "free")
    /\ UNCHANGED <<files, stage, hash, items, normalized, session, notes, counts>>

\* Mutant: an error leaves the reservation where it is.
Mutant_KeepsReservation(r) ==
    /\ pc[r] \in {"store", "derive"} /\ faults < MaxFaults /\ faults' = faults + 1
    /\ Goto(r, "done") /\ stage' = "failed"
    /\ UNCHANGED <<files, stores, hash, items, normalized, session, notes, inFlight, runs, edits>>

\* A write to the cache throws: boundedMap rejects, and the runner is gone.
Throw(r) ==
    /\ pc[r] \in {"store", "derive"} /\ faults < MaxFaults /\ faults' = faults + 1
    /\ Release(r, "done") /\ stage' = "failed"
    /\ UNCHANGED <<files, stores, hash, items, normalized, session, notes, runs, edits>>

-----------------------------------------------------------------------------
(* What others do *)

\* A user's edit moves the size or the nanosecond mtime of the file.
Edit(d) ==
    /\ edits < MaxEdits /\ edits' = edits + 1
    /\ \E c \in Contents \cup {Missing} : c # disk[d] /\ disk' = [disk EXCEPT ![d] = c]
    /\ stamp' = [stamp EXCEPT ![d] = @ + 1]
    /\ UNCHANGED <<stores, stage, hash, items, normalized, session, pc, notes, inFlight, runs, faults>>

\* An entry is deleted, or damaged, which its next reader turns into a deletion.
Lose(l, k) ==
    /\ faults < MaxFaults /\ faults' = faults + 1
    /\ cache[l][k] # None /\ cache' = [cache EXCEPT ![l][k] = None]
    /\ lost' = lost \cup {<<l, k>>}
    /\ UNCHANGED <<files, stage, hash, items, normalized, session, pc, notes, inFlight, runs, edits>>

Crash ==
    /\ stage # "off" /\ faults < MaxFaults /\ faults' = faults + 1
    /\ stage' = "off" /\ pc' = [r \in Runners |-> "done"] /\ inFlight' = 0
    /\ UNCHANGED <<files, stores, hash, items, normalized, session, notes, runs, edits>>

Run(r) ==
    \/ \E d \in Docs : Take(r, d)
    \/ NoMore(r) \/ Recheck(r) \/ ReadWhole(r) \/ Verify(r)
    \/ Stat(r) \/ Hash(r) \/ Open(r) \/ Decode(r) \/ Settle(r) \/ Store(r) \/ Derive(r)

Next ==
    \/ Begin \/ End \/ Exit \/ Crash
    \/ \E r \in Runners : Run(r) \/ Throw(r)
    \/ \E d \in Docs : Edit(d)
    \/ \E l \in Layers, k \in Keys : Lose(l, k)

Spec == Init /\ [][Next]_vars

\* The event loop runs every segment that is ready, and every read returns.
FairSpec == Spec /\ WF_vars(End) /\ \A r \in Runners : WF_vars(Run(r))
-----------------------------------------------------------------------------
(* Properties *)

Holders == {r \in Runners : pc[r] \in {"reserved", "read"} \cup Inside}

TypeOK ==
    /\ disk \in [Docs -> Contents \cup {Missing}] /\ stamp \in [Docs -> Nat]
    /\ cache \in [Layers -> [Keys -> {None} \cup Derived]] /\ lost \in SUBSET (Layers \X Keys)
    /\ stage \in {"off", "running", "ended", "failed"}
    /\ hash \in [Docs -> Contents \cup {Missing}] /\ items \in SUBSET Docs
    /\ normalized \in [Docs -> {None} \cup Derived]
    /\ completed \in SUBSET Keys /\ saved \in SUBSET Keys
    /\ pc \in [Runners -> {"free", "waiting", "woken", "reserved", "read", "done"} \cup Inside]
    /\ doc \in [Runners -> Docs \cup {None}]
    /\ text \in [Runners -> Derived] /\ seen \in [Runners -> Nat]
    /\ lacks \in [Runners -> BOOLEAN] /\ inFlight \in Nat
    /\ runs \in Nat /\ edits \in Nat /\ faults \in Nat

(* Cold and warm runs agree (ADR-059): whatever users edit while documents  *)
(* are read, and whoever crashes where, what is stored under a content's    *)
(* key was read from that content and nothing else.                         *)
CacheIsTrue ==
    \A l \in Layers, k \in Keys : cache[l][k] # None => cache[l][k] = {k[1]}

(* What a run reports of a document is about the bytes it was acquired      *)
(* with, or is a refusal.                                                   *)
ReportIsTrue ==
    \A d \in Docs : normalized[d] \notin {None, {}} => normalized[d] = {hash[d]}

(* MemoryBudget: the bytes in flight are those reserved and not yet         *)
(* released, and stay under the ceiling but for one document alone.         *)
BudgetHolds ==
    /\ inFlight = MapThenSumSet(LAMBDA r : Size[doc[r]], Holders)
    /\ inFlight > Memory => Cardinality({r \in Holders : Size[doc[r]] > 0}) = 1

(* A resumed session skips no work that was not done: the document of each  *)
(* completed key is stored, unless the cache has lost it since.             *)
CompletedIsStored ==
    \A k \in completed \cup saved :
        <<"normalized_document", k>> \notin lost => cache["normalized_document"][k] # None

(* Whoever waits for memory is woken: the stage comes to an end.            *)
StageEnds == stage = "running" ~> stage # "running"

=============================================================================
