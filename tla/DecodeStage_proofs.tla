------------------------- MODULE DecodeStage_proofs -------------------------
(***************************************************************************)
(* Proofs about DecodeStage, for any corpus, any number of decoders and any*)
(* memory, and any edits, crashes, failed writes and lost entries: what is *)
(* cached under a content's key, and what a run reports of a document, was *)
(* read from that content.  The truth theorems take PartFaults = FALSE: the*)
(* runs show what one swallowed read error does without it.                *)
(* What a session counts as done was stored, whatever fails.  The memory   *)
(* in flight is what the decoders hold: a sum over them is the number of   *)
(* their bytes, which a step moves by one document's.                      *)
(***************************************************************************)
EXTENDS DecodeStage, FiniteSetTheorems, WellFoundedInduction, TLAPS

ItemsFound == \A d \in items : hash[d] \in Contents

\* Whoever works on a document works on one that was found, and is to be read.
HasDocument(r) ==
    pc[r] \notin {"free", "done"} =>
        doc[r] \in Docs /\ hash[doc[r]] \in Contents /\ Kind[doc[r]] # "refused"

TypeInv == TypeOK /\ ItemsFound /\ \A r \in Runners : HasDocument(r)

Opened == {"open", "decode", "settle"}

\* Stats are monotone; while they stand still since the first, so has the file.
HeldStill(r) ==
    /\ pc[r] \in {"hash"} \cup Opened => seen[r] <= stamp[doc[r]]
    /\ pc[r] \in Opened /\ seen[r] = stamp[doc[r]]
         => disk[doc[r]] = hash[doc[r]] /\ text[r] \subseteq {hash[doc[r]]}
    /\ pc[r] = "hash" => text[r] = {}
    /\ pc[r] = "settle" => text[r] # {}

\* What is about to be stored was read from what the document was acquired with.
Verified(r) == pc[r] \in {"store", "derive"} => text[r] = {hash[doc[r]]}

TrueInv == CacheIsTrue /\ ReportIsTrue /\ \A r \in Runners : HeldStill(r) /\ Verified(r)

-----------------------------------------------------------------------------
(* Type correctness *)

LEMMA KeyIsKey ==
    ASSUME NEW d \in Docs, hash[d] \in Contents, Kind[d] # "refused" PROVE Key(d) \in Keys
BY KindAssumption DEF Key, Keys

LEMMA TypeInit == Init => TypeInv
BY DEF Init, TypeInv, TypeOK, ItemsFound, HasDocument, Derived

\* A release moves its runner, and wakes runners that keep their document.
LEMMA ReleaseMoves ==
    ASSUME TypeOK, NEW r \in Runners, NEW l \in {"free", "done"}, Release(r, l), doc[r] \in Docs
    PROVE  /\ inFlight' \in Nat
           /\ pc' \in [Runners -> {"free", "waiting", "woken", "reserved", "read", "done"} \cup Inside]
           /\ pc'[r] = l
           /\ \A q \in Runners \ {r} :
                 pc'[q] = pc[q] \/ (pc[q] = "waiting" /\ pc'[q] = "woken")
BY SizeAssumption DEF Release, TypeOK, Inside

LEMMA ReserveMoves ==
    ASSUME TypeOK, NEW r \in Runners, NEW d \in Docs, Reserve(r, d)
    PROVE  /\ inFlight' \in Nat
           /\ \E l \in {"reserved", "waiting"} : pc' = [pc EXCEPT ![r] = l]
BY SizeAssumption DEF Reserve, TypeOK, Inside

LEMMA TypeStep == TypeInv /\ [Next]_vars => TypeInv'
<1> SUFFICES ASSUME TypeInv, [Next]_vars PROVE TypeInv'
  OBVIOUS
<1> USE DEF TypeInv, TypeOK, files, stores, session, notes, counts
<1>1. CASE Begin
  BY <1>1 DEF Begin, ItemsFound, HasDocument, Derived
<1>2. CASE End
  BY <1>2 DEF End, ItemsFound, HasDocument
<1>3. CASE Exit \/ Crash
  BY <1>3 DEF Exit, Crash, ItemsFound, HasDocument, Inside
<1>4. ASSUME NEW r \in Runners, Refuse(r), pc[r] \notin {"free", "done"} PROVE TypeInv'
  <2>1. doc[r] \in Docs
    BY <1>4 DEF HasDocument
  <2>2. normalized' \in [Docs -> {None} \cup Derived]
    BY <1>4 DEF Refuse, Derived
  <2> QED BY <1>4, <2>1, <2>2, ReleaseMoves DEF Refuse, ItemsFound, HasDocument
<1>5. ASSUME NEW r \in Runners, NEW d \in Docs, Take(r, d) PROVE TypeInv'
  <2>1. hash[d] \in Contents
    BY <1>5 DEF Take, ItemsFound
  <2>2. CASE Kind[d] = "refused"
    BY <1>5, <2>1, <2>2 DEF Take, Derived, ItemsFound, HasDocument, Turn
  <2>3. CASE Kind[d] # "refused"
    <3>1. Key(d) \in Keys
      BY <2>1, <2>3, KeyIsKey
    <3>2. Stored("normalized_document", d) \in {None} \cup Derived
      BY <3>1 DEF Stored, Layers
    <3>3. CASE Hit(d)
      BY <1>5, <2>1, <2>3, <3>1, <3>2, <3>3 DEF Take, ItemsFound, HasDocument, Turn
    <3>4. CASE ~Hit(d)
      <4>1. Reserve(r, d)
        BY <1>5, <2>3, <3>4 DEF Take
      <4>2. PICK l \in {"reserved", "waiting"} : pc' = [pc EXCEPT ![r] = l]
        BY <4>1, ReserveMoves
      <4>3. inFlight' \in Nat
        BY <4>1, ReserveMoves
      <4>4. lacks' \in [Runners -> BOOLEAN] /\ completed' = completed /\ doc' = [doc EXCEPT ![r] = d]
        BY <1>5, <2>3, <3>4 DEF Take
      <4>5. normalized' \in [Docs -> {None} \cup Derived]
        BY <1>5, <2>3, <3>2, <3>4 DEF Take
      <4>6. TypeOK'
        BY <1>5, <4>2, <4>3, <4>4, <4>5 DEF Take
      <4>7. ItemsFound' /\ \A q \in Runners : HasDocument(q)'
        BY <1>5, <2>1, <2>3, <4>2, <4>4 DEF Take, ItemsFound, HasDocument
      <4> QED BY <4>6, <4>7
    <3> QED BY <3>3, <3>4
  <2> QED BY <2>2, <2>3
<1>6. ASSUME NEW r \in Runners, NoMore(r) PROVE TypeInv'
  BY <1>6 DEF NoMore, Goto, ItemsFound, HasDocument
<1>7. ASSUME NEW r \in Runners, Recheck(r) PROVE TypeInv'
  <2>1. doc[r] \in Docs
    BY <1>7 DEF Recheck, Turn, HasDocument
  <2>2. PICK l \in {"reserved", "waiting"} : pc' = [pc EXCEPT ![r] = l]
    BY <1>7, <2>1, ReserveMoves DEF Recheck
  <2>3. inFlight' \in Nat
    BY <1>7, <2>1, ReserveMoves DEF Recheck
  <2>4. TypeOK' /\ ItemsFound'
    BY <1>7, <2>2, <2>3 DEF Recheck, ItemsFound
  <2>5. \A q \in Runners : HasDocument(q)'
    BY <1>7, <2>2 DEF Recheck, Turn, HasDocument
  <2> QED BY <2>4, <2>5
<1>8. ASSUME NEW r \in Runners, ReadWhole(r) PROVE TypeInv'
  <2>1. text' \in [Runners -> Derived]
    BY <1>8 DEF ReadWhole, HasDocument, Derived
  <2> QED BY <1>8, <2>1 DEF ReadWhole, Goto, ItemsFound, HasDocument
<1>9. ASSUME NEW r \in Runners, Verify(r) PROVE TypeInv'
  BY <1>4, <1>9 DEF Verify, Turn, Goto, ItemsFound, HasDocument, Inside
<1>10. ASSUME NEW r \in Runners, Stat(r) PROVE TypeInv'
  <2>1. CASE disk[doc[r]] # Missing
    BY <1>10, <2>1 DEF Stat, Turn, Goto, ItemsFound, HasDocument, Inside, Derived
  <2> QED BY <1>4, <1>10, <2>1 DEF Stat, Turn
<1>11. ASSUME NEW r \in Runners, Hash(r) PROVE TypeInv'
  BY <1>4, <1>11 DEF Hash, Goto, ItemsFound, HasDocument, Inside
<1>12. ASSUME NEW r \in Runners, Open(r) PROVE TypeInv'
  <2>1. doc[r] \in Docs
    BY <1>12 DEF Open, HasDocument
  <2>2. CASE disk[doc[r]] # Missing
    <3>1. text' \in [Runners -> Derived]
      BY <1>12, <2>1, <2>2 DEF Open, Derived
    <3> QED BY <1>12, <2>2, <3>1 DEF Open, Goto, ItemsFound, HasDocument, Inside
  <2>3. CASE disk[doc[r]] = Missing
    BY <1>12, <2>1, <2>3, ReleaseMoves DEF Open, ItemsFound, HasDocument
  <2> QED BY <2>2, <2>3
<1>13. ASSUME NEW r \in Runners, Decode(r) PROVE TypeInv'
  <2>1. doc[r] \in Docs
    BY <1>13 DEF Decode, HasDocument
  <2>2. PICK part \in Contents \cup {Fault} : text' = [text EXCEPT ![r] = @ \cup {part}]
    BY <1>13, <2>1 DEF Decode
  <2>3. text' \in [Runners -> Derived]
    BY <2>2 DEF Derived
  <2>4. faults' \in Nat
    BY <1>13 DEF Decode
  <2>5. PICK l \in {"decode", "settle"} : pc' = [pc EXCEPT ![r] = l]
    BY <1>13 DEF Decode, Goto
  <2> QED BY <1>13, <2>3, <2>4, <2>5 DEF Decode, ItemsFound, HasDocument, Inside
<1>14. ASSUME NEW r \in Runners, Settle(r) PROVE TypeInv'
  BY <1>4, <1>14 DEF Settle, Goto, ItemsFound, HasDocument, Inside
<1>15. ASSUME NEW r \in Runners, Store(r) \/ Derive(r) PROVE TypeInv'
  <2>1. doc[r] \in Docs /\ Key(doc[r]) \in Keys
    BY <1>15, KeyIsKey DEF Store, Derive, HasDocument
  <2>2. cache' \in [Layers -> [Keys -> {None} \cup Derived]]
    BY <1>15, <2>1 DEF Store, Derive, Put, Layers
  <2>3. normalized' \in [Docs -> {None} \cup Derived] /\ completed' \in SUBSET Keys
    BY <1>15, <2>1 DEF Store, Derive
  <2>4. lost' \in SUBSET (Layers \X Keys)
    BY <1>15 DEF Store, Derive, Put
  <2>5. CASE Release(r, "free")
    BY <1>15, <2>1, <2>2, <2>3, <2>4, <2>5, ReleaseMoves DEF Store, Derive, ItemsFound, HasDocument
  <2>6. CASE Goto(r, "derive") /\ UNCHANGED inFlight
    BY <1>15, <2>2, <2>3, <2>4, <2>6 DEF Store, Derive, Goto, ItemsFound, HasDocument, Inside
  <2> QED BY <1>15, <2>5, <2>6 DEF Store, Derive
<1>16. ASSUME NEW r \in Runners, Throw(r) PROVE TypeInv'
  BY <1>16, ReleaseMoves DEF Throw, ItemsFound, HasDocument
<1>17. ASSUME NEW d \in Docs, Edit(d) PROVE TypeInv'
  BY <1>17 DEF Edit, ItemsFound, HasDocument
<1>18. ASSUME NEW l \in Layers, NEW k \in Keys, Lose(l, k) PROVE TypeInv'
  BY <1>18 DEF Lose, ItemsFound, HasDocument
<1>19. CASE UNCHANGED vars
  BY <1>19 DEF vars, ItemsFound, HasDocument
<1> QED BY <1>1, <1>2, <1>3, <1>5, <1>6, <1>7, <1>8, <1>9, <1>10, <1>11, <1>12, <1>13, <1>14,
           <1>15, <1>16, <1>17, <1>18, <1>19 DEF Next, Run

(* Every variable stays in its type, whoever edits or crashes.              *)
THEOREM TypeCorrect == Spec => []TypeOK
<1>1. TypeInv => TypeOK
  BY DEF TypeInv
<1> QED BY <1>1, TypeInit, TypeStep, PTL DEF Spec
-----------------------------------------------------------------------------
(* What is stored and reported is true *)

LEMMA TrueInit == Init => TrueInv
BY DEF Init, TrueInv, CacheIsTrue, ReportIsTrue, HeldStill, Verified, Opened, Keys

\* A runner that keeps its place, its document and what it read is not disturbed.
LEMMA Undisturbed ==
    ASSUME NEW r \in Runners, HeldStill(r), Verified(r), UNCHANGED <<files, hash>>,
           pc'[r] = pc[r] \/ pc'[r] \in {"free", "waiting", "woken", "reserved", "read", "done"},
           doc'[r] = doc[r], text'[r] = text[r], seen'[r] = seen[r]
    PROVE  HeldStill(r)' /\ Verified(r)'
BY DEF HeldStill, Verified, Opened, files

\* What is stored under a key is what was read from the key's own content.
LEMMA PutIsTrue ==
    ASSUME CacheIsTrue, NEW l \in Layers, NEW d \in Docs, NEW derived, derived = {hash[d]},
           cache \in [Layers -> [Keys -> {None} \cup Derived]], Put(l, d, derived)
    PROVE  CacheIsTrue'
<1> SUFFICES ASSUME NEW m \in Layers, NEW k \in Keys, cache'[m][k] # None
             PROVE  cache'[m][k] = {k[1]}
  BY DEF CacheIsTrue
<1>1. CASE m = l /\ k = Key(d)
  BY <1>1 DEF Put, Key, Keys
<1>2. CASE ~(m = l /\ k = Key(d))
  <2>1. cache'[m][k] = cache[m][k]
    BY <1>2 DEF Put
  <2> QED BY <2>1 DEF CacheIsTrue
<1> QED BY <1>1, <1>2

LEMMA TrueStep ==
    ASSUME ~PartFaults, TypeInv, TrueInv, [Next]_vars PROVE TrueInv'
<1> USE DEF TypeInv, TrueInv, files, stores, session, notes, counts
<1>t. TypeOK /\ TypeOK'
  BY TypeStep
<1>0. ASSUME UNCHANGED <<files, cache, hash, normalized, doc, text, seen>>,
             \A r \in Runners : pc'[r] = pc[r]
                \/ pc'[r] \in {"free", "waiting", "woken", "reserved", "read", "done"}
      PROVE  TrueInv'
  BY <1>0, Undisturbed DEF CacheIsTrue, ReportIsTrue
<1>1. CASE Begin
  BY <1>1 DEF Begin, CacheIsTrue, ReportIsTrue, HeldStill, Verified, Opened
<1>2. CASE End \/ Exit \/ Crash
  BY <1>0, <1>2 DEF End, Exit, Crash
<1>3. ASSUME NEW r \in Runners, doc[r] \in Docs, Release(r, "free") \/ Release(r, "done")
      PROVE  \A q \in Runners : pc'[q] = pc[q]
                \/ pc'[q] \in {"free", "waiting", "woken", "reserved", "read", "done"}
  BY <1>t, <1>3, ReleaseMoves
<1>4. ASSUME NEW r \in Runners, Refuse(r), pc[r] \notin {"free", "done"} PROVE TrueInv'
  <2>1. doc[r] \in Docs
    BY <1>4 DEF HasDocument
  <2>2. ReportIsTrue'
    BY <1>t, <1>4, <2>1 DEF Refuse, ReportIsTrue, TypeOK
  <2>3. \A q \in Runners : HeldStill(q)' /\ Verified(q)'
    BY <1>3, <1>4, <2>1, Undisturbed DEF Refuse
  <2> QED BY <1>4, <2>2, <2>3 DEF Refuse, CacheIsTrue
<1>5. ASSUME NEW r \in Runners, NEW d \in Docs, Take(r, d) PROVE TrueInv'
  <2>1. \A q \in Runners : pc'[q] = pc[q] \/ pc'[q] \in {"reserved", "waiting"}
    BY <1>t, <1>5, ReserveMoves DEF Take, TypeOK
  <2>2. pc'[r] \in {"free", "reserved", "waiting"}
    BY <1>t, <1>5, ReserveMoves DEF Take, Turn, TypeOK
  <2>3. HeldStill(r)' /\ Verified(r)'
    BY <2>2 DEF HeldStill, Verified, Opened
  <2>4. \A q \in Runners \ {r} : HeldStill(q)' /\ Verified(q)'
    <3> SUFFICES ASSUME NEW q \in Runners \ {r} PROVE HeldStill(q)' /\ Verified(q)'
      OBVIOUS
    <3>1. doc'[q] = doc[q] /\ UNCHANGED <<text, seen, files, hash>>
      BY <1>t, <1>5 DEF Take, TypeOK
    <3> QED BY <2>1, <3>1, Undisturbed
  <2>5. ReportIsTrue'
    <3>1. hash[d] \in Contents
      BY <1>5 DEF Take, ItemsFound
    <3>2. Kind[d] # "refused" => Stored("normalized_document", d) \in {None, {hash[d]}}
      BY <3>1, KeyIsKey DEF Stored, CacheIsTrue, Layers, Key
    <3>3. \E n \in {None, {}, {hash[d]}} : normalized' = [normalized EXCEPT ![d] = n]
      BY <1>5, <3>2 DEF Take
    <3> QED BY <1>t, <1>5, <3>3 DEF ReportIsTrue, Take, TypeOK
  <2> QED BY <1>5, <2>3, <2>4, <2>5 DEF Take, CacheIsTrue
<1>6. ASSUME NEW r \in Runners, NoMore(r) PROVE TrueInv'
  BY <1>0, <1>t, <1>6 DEF NoMore, Goto, TypeOK
<1>7. ASSUME NEW r \in Runners, Recheck(r) PROVE TrueInv'
  <2>1. doc[r] \in Docs
    BY <1>7 DEF Recheck, Turn, HasDocument
  <2>2. PICK l \in {"reserved", "waiting"} : pc' = [pc EXCEPT ![r] = l]
    BY <1>t, <1>7, <2>1, ReserveMoves DEF Recheck
  <2> QED BY <1>0, <1>t, <1>7, <2>2 DEF Recheck, TypeOK
<1>8. ASSUME NEW r \in Runners, ReadWhole(r) PROVE TrueInv'
  <2>1. HeldStill(r)' /\ Verified(r)'
    BY <1>t, <1>8 DEF ReadWhole, Goto, HeldStill, Verified, Opened, TypeOK
  <2>2. \A q \in Runners \ {r} : HeldStill(q)' /\ Verified(q)'
    BY <1>t, <1>8, Undisturbed DEF ReadWhole, Goto, TypeOK
  <2> QED BY <1>8, <2>1, <2>2 DEF ReadWhole, CacheIsTrue, ReportIsTrue
<1>9. ASSUME NEW r \in Runners, Goto(r, "store"), text[r] = {hash[doc[r]]},
             UNCHANGED <<files, cache, hash, normalized, notes>>
      PROVE  TrueInv'
  <2>1. HeldStill(r)' /\ Verified(r)'
    BY <1>t, <1>9 DEF Goto, HeldStill, Verified, Opened, TypeOK
  <2>2. \A q \in Runners \ {r} : HeldStill(q)' /\ Verified(q)'
    BY <1>t, <1>9, Undisturbed DEF Goto, TypeOK
  <2> QED BY <1>9, <2>1, <2>2 DEF CacheIsTrue, ReportIsTrue
<1>10. ASSUME NEW r \in Runners, Verify(r) PROVE TrueInv'
  BY <1>4, <1>9, <1>10 DEF Verify, Turn
<1>11. ASSUME NEW r \in Runners, Stat(r) PROVE TrueInv'
  <2>1. CASE disk[doc[r]] = Missing
    BY <1>4, <1>11, <2>1 DEF Stat, Turn
  <2>2. CASE disk[doc[r]] # Missing
    <3>1. /\ seen'[r] = stamp[doc[r]] /\ text'[r] = {} /\ pc'[r] = "hash"
          /\ doc' = doc /\ stamp' = stamp
      BY <1>t, <1>11, <2>2 DEF Stat, Goto, TypeOK
    <3>2. stamp[doc[r]] \in Nat
      BY <1>t, <1>11 DEF Stat, Turn, HasDocument, TypeOK
    <3>3. HeldStill(r)' /\ Verified(r)'
      BY <3>1, <3>2 DEF HeldStill, Verified, Opened
    <3>4. \A q \in Runners \ {r} : HeldStill(q)' /\ Verified(q)'
      BY <1>t, <1>11, <2>2, Undisturbed DEF Stat, Goto, TypeOK
    <3> QED BY <1>11, <2>2, <3>3, <3>4 DEF Stat, CacheIsTrue, ReportIsTrue
  <2> QED BY <2>1, <2>2
<1>12. ASSUME NEW r \in Runners, Hash(r) PROVE TrueInv'
  <2>1. CASE disk[doc[r]] # hash[doc[r]]
    BY <1>4, <1>12, <2>1 DEF Hash
  <2>2. CASE disk[doc[r]] = hash[doc[r]]
    <3>1. HeldStill(r)' /\ Verified(r)'
      BY <1>t, <1>12, <2>2 DEF Hash, Goto, HeldStill, Verified, Opened, TypeOK
    <3>2. \A q \in Runners \ {r} : HeldStill(q)' /\ Verified(q)'
      BY <1>t, <1>12, <2>2, Undisturbed DEF Hash, Goto, TypeOK
    <3> QED BY <1>12, <2>2, <3>1, <3>2 DEF Hash, CacheIsTrue, ReportIsTrue
  <2> QED BY <2>1, <2>2
<1>13. ASSUME NEW r \in Runners, Open(r) PROVE TrueInv'
  <2>1. doc[r] \in Docs
    BY <1>13 DEF Open, HasDocument
  <2>2. CASE disk[doc[r]] = Missing
    BY <1>0, <1>3, <1>13, <2>1, <2>2 DEF Open
  <2>3. CASE disk[doc[r]] # Missing
    <3>1. HeldStill(r)' /\ Verified(r)'
      BY <1>t, <1>13, <2>3 DEF Open, Goto, HeldStill, Verified, Opened, TypeOK
    <3>2. \A q \in Runners \ {r} : HeldStill(q)' /\ Verified(q)'
      BY <1>t, <1>13, <2>3, Undisturbed DEF Open, Goto, TypeOK
    <3> QED BY <1>13, <2>3, <3>1, <3>2 DEF Open, CacheIsTrue, ReportIsTrue
  <2> QED BY <2>2, <2>3
<1>14. ASSUME NEW r \in Runners, Decode(r) PROVE TrueInv'
  <2>1. doc[r] \in Docs /\ hash[doc[r]] # Missing
    BY <1>14, ContentsAssumption DEF Decode, HasDocument
  <2>2. PICK part \in {disk[doc[r]], Fault} :
           /\ part = disk[doc[r]] \/ disk[doc[r]] = Missing
           /\ text' = [text EXCEPT ![r] = @ \cup {part}]
    BY <1>14 DEF Decode
  <2>3. PICK l \in {"decode", "settle"} : pc' = [pc EXCEPT ![r] = l]
    BY <1>t, <1>14 DEF Decode, Goto, TypeOK
  <2>4. text'[r] = text[r] \cup {part} /\ pc'[r] = l
    BY <1>t, <2>2, <2>3 DEF TypeOK
  <2>5. HeldStill(r)' /\ Verified(r)'
    BY <1>14, <2>1, <2>2, <2>4 DEF Decode, HeldStill, Verified, Opened
  <2>6. \A q \in Runners \ {r} : HeldStill(q)' /\ Verified(q)'
    BY <1>t, <1>14, <2>2, <2>3, Undisturbed DEF Decode, TypeOK
  <2> QED BY <1>14, <2>5, <2>6 DEF Decode, CacheIsTrue, ReportIsTrue
<1>15. ASSUME NEW r \in Runners, Settle(r) PROVE TrueInv'
  <2>1. CASE disk[doc[r]] # Missing /\ stamp[doc[r]] = seen[r]
    <3>1. text[r] = {hash[doc[r]]}
      BY <1>15, <2>1 DEF Settle, HeldStill, Opened
    <3> QED BY <1>9, <1>15, <2>1, <3>1 DEF Settle
  <2> QED BY <1>4, <1>15, <2>1 DEF Settle
<1>16. ASSUME NEW r \in Runners, Store(r) \/ Derive(r) PROVE TrueInv'
  <2>1. doc[r] \in Docs /\ text[r] = {hash[doc[r]]}
    BY <1>16 DEF Store, Derive, HasDocument, Verified
  <2>2. CacheIsTrue'
    BY <1>t, <1>16, <2>1, PutIsTrue DEF Store, Derive, Layers, TypeOK
  <2>3. ReportIsTrue'
    BY <1>t, <1>16, <2>1 DEF Store, Derive, ReportIsTrue, TypeOK
  <2>4. CASE Release(r, "free")
    BY <1>3, <1>16, <2>1, <2>2, <2>3, <2>4, Undisturbed DEF Store, Derive
  <2>5. CASE Goto(r, "derive")
    <3>1. HeldStill(r)' /\ Verified(r)'
      BY <1>t, <1>16, <2>1, <2>5 DEF Store, Derive, Goto, HeldStill, Verified, Opened, TypeOK
    <3>2. \A q \in Runners \ {r} : HeldStill(q)' /\ Verified(q)'
      BY <1>t, <1>16, <2>5, Undisturbed DEF Store, Derive, Goto, TypeOK
    <3> QED BY <2>2, <2>3, <3>1, <3>2
  <2> QED BY <1>16, <2>4, <2>5 DEF Store, Derive
<1>17. ASSUME NEW r \in Runners, Throw(r) PROVE TrueInv'
  <2>1. doc[r] \in Docs
    BY <1>17 DEF Throw, HasDocument
  <2> QED BY <1>0, <1>3, <1>17, <2>1 DEF Throw
<1>18. ASSUME NEW d \in Docs, Edit(d) PROVE TrueInv'
  <2>1. stamp' = [stamp EXCEPT ![d] = @ + 1] /\ stamp[d] \in Nat
    BY <1>t, <1>18 DEF Edit, TypeOK
  <2>2. ASSUME NEW r \in Runners PROVE HeldStill(r)' /\ Verified(r)'
    <3>1. UNCHANGED <<pc, doc, text, seen, hash>>
      BY <1>18 DEF Edit
    <3>2. seen[r] \in Nat
      BY <1>t DEF TypeOK
    <3>3. CASE doc[r] = d
      BY <1>t, <2>1, <3>1, <3>2, <3>3 DEF HeldStill, Verified, Opened, TypeOK
    <3>4. CASE doc[r] # d
      <4>1. doc[r] \in Docs => stamp'[doc[r]] = stamp[doc[r]] /\ disk'[doc[r]] = disk[doc[r]]
        BY <1>t, <1>18, <2>1, <3>4 DEF Edit, TypeOK
      <4> QED BY <3>1, <4>1 DEF HeldStill, Verified, Opened, HasDocument
    <3> QED BY <3>3, <3>4
  <2> QED BY <1>18, <2>2 DEF Edit, CacheIsTrue, ReportIsTrue
<1>19. ASSUME NEW l \in Layers, NEW k \in Keys, Lose(l, k) PROVE TrueInv'
  <2>1. CacheIsTrue'
    BY <1>t, <1>19 DEF Lose, CacheIsTrue, TypeOK
  <2>2. \A r \in Runners : HeldStill(r)' /\ Verified(r)'
    BY <1>19, Undisturbed DEF Lose
  <2> QED BY <1>19, <2>1, <2>2 DEF Lose, ReportIsTrue
<1>20. CASE UNCHANGED vars
  BY <1>0, <1>20 DEF vars
<1> QED BY <1>1, <1>2, <1>5, <1>6, <1>7, <1>8, <1>10, <1>11, <1>12, <1>13, <1>14, <1>15, <1>16,
           <1>17, <1>18, <1>19, <1>20 DEF Next, Run

(* What is stored under a content's key was read from that content alone,   *)
(* whatever is edited, replaced or deleted while documents are read.        *)
THEOREM CacheHoldsTheTruth == ASSUME ~PartFaults PROVE Spec => []CacheIsTrue
<1>1. Init => TypeInv /\ TrueInv
  BY TypeInit, TrueInit
<1>2. TypeInv /\ TrueInv /\ [Next]_vars => (TypeInv /\ TrueInv)'
  BY TypeStep, TrueStep
<1>3. TrueInv => CacheIsTrue
  BY DEF TrueInv
<1> QED BY <1>1, <1>2, <1>3, PTL DEF Spec

(* What a run says of a document is about the bytes it was acquired with,   *)
(* or is a refusal: hits, and layers read before an edit, included.         *)
THEOREM ReportsTellTheTruth == ASSUME ~PartFaults PROVE Spec => []ReportIsTrue
<1>1. Init => TypeInv /\ TrueInv
  BY TypeInit, TrueInit
<1>2. TypeInv /\ TrueInv /\ [Next]_vars => (TypeInv /\ TrueInv)'
  BY TypeStep, TrueStep
<1>3. TrueInv => ReportIsTrue
  BY DEF TrueInv
<1> QED BY <1>1, <1>2, <1>3, PTL DEF Spec
-----------------------------------------------------------------------------
(* What is completed is stored *)

\* What is derived is never nothing.
LEMMA DerivedIsSome == \A derived \in Derived : derived # None
BY NoneAssumption DEF Derived

LEMMA StoredStep == TypeInv /\ CompletedIsStored /\ [Next]_vars => CompletedIsStored'
<1> SUFFICES ASSUME TypeInv, CompletedIsStored, [Next]_vars PROVE CompletedIsStored'
  OBVIOUS
<1> USE DEF stores, session
<1>t. TypeOK
  BY DEF TypeInv
<1>1. ASSUME UNCHANGED stores, completed' \cup saved' \subseteq completed \cup saved
      PROVE  CompletedIsStored'
  BY <1>1 DEF CompletedIsStored
<1>2. CASE Begin \/ End \/ Exit \/ Crash
  BY <1>1, <1>2 DEF Begin, End, Exit, Crash
<1>3. ASSUME NEW r \in Runners, NEW d \in Docs, Take(r, d) PROVE CompletedIsStored'
  <2>1. CASE completed' = completed
    BY <1>1, <1>3, <2>1 DEF Take
  <2>2. CASE Hit(d) /\ completed' = completed \cup {Key(d)}
    BY <1>3, <2>2 DEF Take, Hit, Stored, CompletedIsStored
  <2> QED BY <1>3, <2>1, <2>2 DEF Take
<1>4. ASSUME NEW r \in Runners, Store(r) PROVE CompletedIsStored'
  <2>1. doc[r] \in Docs /\ Key(doc[r]) \in Keys /\ text[r] # None
    BY <1>t, <1>4, KeyIsKey, DerivedIsSome DEF Store, TypeInv, HasDocument, TypeOK
  <2>2. cache'["normalized_document"] = [cache["normalized_document"] EXCEPT ![Key(doc[r])] = text[r]]
    BY <1>t, <1>4 DEF Store, Put, Layers, TypeOK
  <2>3. completed' \subseteq completed \cup {Key(doc[r])} /\ saved' = saved
    BY <1>4 DEF Store
  <2>4. lost' = lost \ {<<"normalized_document", Key(doc[r])>>}
    BY <1>4 DEF Store, Put
  <2>5. DOMAIN cache["normalized_document"] = Keys /\ completed \cup saved \subseteq Keys
    BY <1>t DEF TypeOK, Layers
  <2> SUFFICES ASSUME NEW k \in completed' \cup saved', <<"normalized_document", k>> \notin lost'
               PROVE  cache'["normalized_document"][k] # None
    BY DEF CompletedIsStored
  <2>6. CASE k = Key(doc[r])
    BY <2>1, <2>2, <2>5, <2>6
  <2>7. CASE k # Key(doc[r])
    BY <2>2, <2>3, <2>4, <2>5, <2>7 DEF CompletedIsStored
  <2> QED BY <2>6, <2>7
<1>5. ASSUME NEW r \in Runners, Derive(r) PROVE CompletedIsStored'
  <2>1. cache'["normalized_document"] = cache["normalized_document"]
    BY <1>t, <1>5 DEF Derive, Put, Layers, TypeOK
  <2>2. \A k : <<"normalized_document", k>> \in lost' <=> <<"normalized_document", k>> \in lost
    BY <1>5 DEF Derive, Put
  <2> QED BY <1>5, <2>1, <2>2 DEF Derive, CompletedIsStored
<1>6. ASSUME NEW l \in Layers, NEW k \in Keys, Lose(l, k) PROVE CompletedIsStored'
  <2>1. lost' = lost \cup {<<l, k>>} /\ UNCHANGED session
    BY <1>6 DEF Lose
  <2>2. \A j \in Keys : <<"normalized_document", j>> # <<l, k>>
           => cache'["normalized_document"][j] = cache["normalized_document"][j]
    BY <1>t, <1>6 DEF Lose, Layers, TypeOK
  <2> QED BY <1>t, <2>1, <2>2 DEF CompletedIsStored, TypeOK
<1>7. ASSUME NEW r \in Runners, Refuse(r) PROVE CompletedIsStored'
  BY <1>1, <1>7 DEF Refuse
<1>8. ASSUME NEW r \in Runners,
             \/ NoMore(r) \/ Recheck(r) \/ ReadWhole(r) \/ Verify(r) \/ Stat(r) \/ Hash(r)
             \/ Open(r) \/ Decode(r) \/ Settle(r) \/ Throw(r)
      PROVE  CompletedIsStored'
  BY <1>1, <1>7, <1>8
     DEF NoMore, Recheck, ReadWhole, Verify, Stat, Hash, Open, Decode, Settle, Throw
<1>9. ASSUME NEW d \in Docs, Edit(d) PROVE CompletedIsStored'
  BY <1>1, <1>9 DEF Edit
<1>10. CASE UNCHANGED vars
  BY <1>1, <1>10 DEF vars
<1> QED BY <1>2, <1>3, <1>4, <1>5, <1>6, <1>8, <1>9, <1>10 DEF Next, Run

(* Crashed, failed or resumed, no session claims a document whose decoding  *)
(* was never stored: a resumed run skips nothing that was not done.         *)
THEOREM NothingSkippedUndone == Spec => []CompletedIsStored
<1>1. Init => TypeInv /\ CompletedIsStored
  BY TypeInit DEF Init, CompletedIsStored
<1>2. TypeInv /\ CompletedIsStored /\ [Next]_vars => (TypeInv /\ CompletedIsStored)'
  BY TypeStep, StoredStep
<1> QED BY <1>1, <1>2, PTL DEF Spec

-----------------------------------------------------------------------------
(* Sums.  The sum of the sizes of what runners hold is the number of their *)
(* bytes, each a byte of one runner.                                       *)

BytesOf(d, S) == UNION {{r} \X (1 .. Size[d[r]]) : r \in S}
Sized(d, S) == IsFiniteSet(S) /\ \A r \in S : d[r] \in Docs

LEMMA BytesOfOne ==
    ASSUME NEW r, NEW n \in Nat
    PROVE  IsFiniteSet({r} \X (1 .. n)) /\ Cardinality({r} \X (1 .. n)) = n
<1>1. IsFiniteSet({r}) /\ Cardinality({r}) = 1
  BY FS_Singleton
<1>2. IsFiniteSet(1 .. n) /\ Cardinality(1 .. n) = n
  BY FS_Interval
<1> DEFINE one == {r}
           bytes == 1 .. n
<1> HIDE DEF one, bytes
<1>3. IsFiniteSet(one \X bytes) /\ Cardinality(one \X bytes) = Cardinality(one) * Cardinality(bytes)
  BY <1>1, <1>2, FS_Product, Zenon DEF one, bytes
<1>4. Cardinality(one) * Cardinality(bytes) = n
  BY <1>1, <1>2 DEF one, bytes
<1> QED BY <1>3, <1>4, Zenon DEF one, bytes

LEMMA BytesAreFinite ==
    ASSUME NEW d, NEW S, Sized(d, S)
    PROVE  IsFiniteSet(BytesOf(d, S)) /\ Cardinality(BytesOf(d, S)) \in Nat
<1> DEFINE part == [r \in S |-> {r} \X (1 .. Size[d[r]])]
           parts == {{r} \X (1 .. Size[d[r]]) : r \in S}
<1>1. part \in Surjection(S, parts)
  BY DEF Surjection
<1>2. IsFiniteSet(parts)
  BY <1>1, FS_Surjection DEF Sized
<1>3. \A P \in parts : IsFiniteSet(P)
  <2>1. ASSUME NEW r \in S PROVE IsFiniteSet({r} \X (1 .. Size[d[r]]))
    <3>1. Size[d[r]] \in Nat
      BY SizeAssumption DEF Sized
    <3> QED BY <3>1, BytesOfOne
  <2> QED BY <2>1
<1>4. IsFiniteSet(UNION parts)
  BY <1>2, <1>3, FS_UNION
<1> QED BY <1>4, FS_CardinalityType DEF BytesOf

LEMMA OneMore ==
    ASSUME NEW d, NEW S, NEW r, r \notin S, Sized(d, S \cup {r})
    PROVE  Cardinality(BytesOf(d, S \cup {r})) = Cardinality(BytesOf(d, S)) + Size[d[r]]
<1> DEFINE old == BytesOf(d, S)
           new == {r} \X (1 .. Size[d[r]])
<1>1. BytesOf(d, S \cup {r}) = old \cup new
  BY DEF BytesOf
<1>2. old \cap new = {}
  BY DEF BytesOf
<1>3. Size[d[r]] \in Nat /\ Sized(d, S)
  BY SizeAssumption, FS_Subset DEF Sized
<1>4. /\ IsFiniteSet(old) /\ Cardinality(old) \in Nat
      /\ IsFiniteSet(new) /\ Cardinality(new) = Size[d[r]]
  BY <1>3, BytesAreFinite, BytesOfOne
<1> HIDE DEF old, new
<1>5. Cardinality(old \cup new) = Cardinality(old) + Cardinality(new) - Cardinality(old \cap new)
  BY <1>4, FS_Union
<1>6. Cardinality(old \cap new) = 0
  BY <1>2, FS_EmptySet
<1>7. Cardinality(old \cup new) = Cardinality(old) + Size[d[r]]
  BY <1>3, <1>4, <1>5, <1>6
<1> QED BY <1>1, <1>7 DEF old

LEMMA NoBytes ==
    ASSUME NEW d
    PROVE  Cardinality(BytesOf(d, {})) = 0
BY FS_EmptySet DEF BytesOf

LEMMA LeastNatural ==
    ASSUME NEW N \in SUBSET Nat, N # {}
    PROVE  \E m \in N : \A n \in N : m <= n
<1>1. PICK m \in N : \A n \in N : ~(<<n, m>> \in OpToRel(<, Nat))
  BY NatLessThanWellFounded, WFMin
<1>2. \A n \in N : ~(n < m)
  BY <1>1 DEF OpToRel
<1> QED BY <1>2

\* The recursion that a fold over a set is, and its only solution.
IsSum(f, d, S) ==
    f = [s \in SUBSET S |->
            IF s = {} THEN 0
            ELSE LET r == CHOOSE x \in s : TRUE IN Size[d[r]] + f[s \ {r}]]

LEMMA SumExists ==
    ASSUME NEW d, NEW S, Sized(d, S)
    PROVE  IsSum([s \in SUBSET S |-> Cardinality(BytesOf(d, s))], d, S)
<1> DEFINE w == [s \in SUBSET S |-> Cardinality(BytesOf(d, s))]
<1>1. ASSUME NEW s \in SUBSET S
      PROVE  w[s] = IF s = {} THEN 0
                    ELSE LET r == CHOOSE x \in s : TRUE IN Size[d[r]] + w[s \ {r}]
  <2>1. CASE s = {}
    BY <2>1, NoBytes
  <2>2. CASE s # {}
    <3> DEFINE r == CHOOSE x \in s : TRUE
               rest == s \ {r}
    <3>1. r \in s
      BY <2>2
    <3> HIDE DEF r
    <3>2. r \notin rest /\ s = rest \cup {r} /\ rest \in SUBSET S /\ Sized(d, s)
      BY <3>1, FS_Subset DEF Sized
    <3>3. Cardinality(BytesOf(d, rest \cup {r})) = Cardinality(BytesOf(d, rest)) + Size[d[r]]
      <4> HIDE DEF rest
      <4> QED BY <3>2, OneMore
    <3>4. w[s] = w[rest] + Size[d[r]]
      BY <3>2, <3>3
    <3>5. w[rest] \in Nat /\ Size[d[r]] \in Nat
      <4>1. Sized(d, rest)
        BY <3>2, FS_Subset DEF Sized
      <4> QED BY <3>1, <3>2, <4>1, BytesAreFinite, SizeAssumption DEF Sized
    <3>6. w[s] = Size[d[r]] + w[rest]
      <4> HIDE DEF w, rest
      <4> QED BY <3>4, <3>5
    <3> QED BY <2>2, <3>6 DEF r
  <2> QED BY <2>1, <2>2
<1> QED BY <1>1 DEF IsSum

LEMMA SumIsUnique ==
    ASSUME NEW d, NEW S, Sized(d, S), NEW f, NEW g, IsSum(f, d, S), IsSum(g, d, S)
    PROVE  f[S] = g[S]
<1> DEFINE N == {n \in Nat : \E s \in SUBSET S : Cardinality(s) = n /\ f[s] # g[s]}
<1>1. SUFFICES ASSUME f[S] # g[S] PROVE FALSE
  OBVIOUS
<1>2. Cardinality(S) \in N
  BY <1>1, FS_CardinalityType DEF Sized
<1>3. PICK m \in N : \A n \in N : m <= n
  <2>1. N \in SUBSET Nat /\ N # {}
    BY <1>2
  <2> HIDE DEF N
  <2> QED BY <2>1, LeastNatural
<1>4. PICK s \in SUBSET S : Cardinality(s) = m /\ f[s] # g[s]
  BY <1>3
<1>5. s # {}
  BY <1>4 DEF IsSum
<1> DEFINE r == CHOOSE x \in s : TRUE
           rest == s \ {r}
<1>6. r \in s
  BY <1>5
<1>7. f[s] = Size[d[r]] + f[rest] /\ g[s] = Size[d[r]] + g[rest]
  BY <1>5 DEF IsSum
<1> HIDE DEF r
<1>8. IsFiniteSet(s) /\ Cardinality(rest) = m - 1 /\ Cardinality(rest) \in Nat /\ rest \in SUBSET S
  <2>1. IsFiniteSet(s)
    BY FS_Subset DEF Sized
  <2>2. IsFiniteSet(rest) /\ Cardinality(rest) = m - 1
    BY <1>4, <1>6, <2>1, FS_RemoveElement
  <2>3. Cardinality(rest) \in Nat
    BY <2>2, FS_CardinalityType
  <2> QED BY <2>1, <2>2, <2>3
<1>9. f[rest] # g[rest]
  BY <1>4, <1>7
<1>10. m - 1 \in N
  BY <1>8, <1>9
<1> QED BY <1>3, <1>10

\* The sum over runners is the number of their bytes.
LEMMA SumIsBytes ==
    ASSUME NEW S, Sized(doc, S)
    PROVE  MapThenSumSet(LAMBDA r : Size[doc[r]], S) = Cardinality(BytesOf(doc, S))
<1> DEFINE sum == CHOOSE f : IsSum(f, doc, S)
           w   == [s \in SUBSET S |-> Cardinality(BytesOf(doc, s))]
<1>1. IsSum(w, doc, S)
  BY SumExists
<1>2. IsSum(sum, doc, S)
  BY <1>1
<1>3. MapThenSumSet(LAMBDA r : Size[doc[r]], S) = sum[S]
  BY DEF MapThenSumSet, MapThenFoldSet, IsSum
<1>4. sum[S] = w[S]
  <2> HIDE DEF sum, w
  <2> QED BY <1>1, <1>2, SumIsUnique
<1> QED BY <1>3, <1>4

-----------------------------------------------------------------------------
(* The memory budget                                                       *)

Heavy == {r \in Holders : Size[doc[r]] > 0}

BudgetInv ==
    /\ inFlight = Cardinality(BytesOf(doc, Holders))
    /\ inFlight > Memory => \E r \in Holders : Heavy = {r}

LEMMA HoldersAreSized ==
    TypeInv => Sized(doc, Holders)
<1> SUFFICES ASSUME TypeInv PROVE Sized(doc, Holders)
  OBVIOUS
<1>1. IsFiniteSet(Runners) /\ Holders \in SUBSET Runners
  BY FS_Interval, LimitAssumption DEF Runners, Holders
<1>2. IsFiniteSet(Holders)
  BY <1>1, FS_Subset
<1>3. \A r \in Holders : doc[r] \in Docs
  BY DEF TypeInv, HasDocument, Holders, Inside
<1> QED BY <1>2, <1>3 DEF Sized

LEMMA SameBytes ==
    ASSUME NEW d, NEW e, NEW S, \A r \in S : d[r] = e[r]
    PROVE  BytesOf(d, S) = BytesOf(e, S)
BY DEF BytesOf

\* Every runner keeps its document and what it holds.
LEMMA BudgetKept ==
    ASSUME BudgetInv, Holders' = Holders, \A r \in Holders : doc'[r] = doc[r], inFlight' = inFlight
    PROVE  BudgetInv'
<1>1. BytesOf(doc', Holders') = BytesOf(doc, Holders)
  BY SameBytes
<1>2. Heavy' = Heavy
  BY DEF Heavy
<1> QED BY <1>1, <1>2 DEF BudgetInv

LEMMA BudgetReset ==
    ASSUME Holders' = {}, inFlight' = 0
    PROVE  BudgetInv'
<1>1. Cardinality(BytesOf(doc', Holders')) = 0
  BY NoBytes
<1> QED BY <1>1, SizeAssumption DEF BudgetInv

LEMMA BudgetReserved ==
    ASSUME BudgetInv, TypeInv, NEW r \in Runners, r \notin Holders, NEW d \in Docs, Reserve(r, d),
           doc' = [doc EXCEPT ![r] = d]
    PROVE  BudgetInv'
<1>1. doc'[r] = d /\ \A q \in Holders : doc'[q] = doc[q]
  BY DEF TypeInv, TypeOK, Holders
<1>2. Size[d] \in Nat /\ Memory \in Nat /\ inFlight \in Nat
  BY SizeAssumption DEF TypeInv, TypeOK
<1>3. CASE ~Admits(d)
  <2>1. Holders' = Holders /\ inFlight' = inFlight
    BY <1>3 DEF Reserve, Holders, TypeInv, TypeOK, Inside
  <2> QED BY <1>1, <2>1, BudgetKept
<1>4. CASE Admits(d)
  <2>1. Holders' = Holders \cup {r} /\ inFlight' = inFlight + Size[d]
    BY <1>4 DEF Reserve, Holders, TypeInv, TypeOK, Inside
  <2>2. Sized(doc', Holders \cup {r})
    BY <1>1, HoldersAreSized, FS_AddElement DEF Sized
  <2>3. Cardinality(BytesOf(doc', Holders \cup {r})) = Cardinality(BytesOf(doc', Holders)) + Size[d]
    <3> DEFINE e == doc'
    <3>1. e[r] = d /\ Sized(e, Holders \cup {r})
      BY <1>1, <2>2
    <3> HIDE DEF e
    <3>2. Cardinality(BytesOf(e, Holders \cup {r})) = Cardinality(BytesOf(e, Holders)) + Size[e[r]]
      BY <3>1, OneMore
    <3> QED BY <3>1, <3>2 DEF e
  <2>4. BytesOf(doc', Holders) = BytesOf(doc, Holders)
    BY <1>1, SameBytes
  <2>5. inFlight' = Cardinality(BytesOf(doc', Holders'))
    BY <1>2, <2>1, <2>3, <2>4 DEF BudgetInv
  <2>6. ASSUME inFlight' > Memory PROVE Heavy' = {r}
    <3>1. inFlight = 0 /\ Size[d] > 0
      BY <1>2, <1>4, <2>1, <2>6 DEF Admits
    <3>2. ASSUME NEW q \in Holders PROVE Size[doc[q]] = 0
      <4>1. IsFiniteSet(BytesOf(doc, Holders)) /\ Cardinality(BytesOf(doc, Holders)) = 0
        BY <3>1, HoldersAreSized, BytesAreFinite DEF BudgetInv
      <4>2. BytesOf(doc, Holders) = {}
        BY <4>1, FS_EmptySet
      <4>3. \A n \in 1 .. Size[doc[q]] : <<q, n>> \in BytesOf(doc, Holders)
        BY DEF BytesOf
      <4>4. Size[doc[q]] \in Nat
        BY HoldersAreSized, SizeAssumption DEF Sized
      <4>5. Size[doc[q]] > 0 => 1 \in 1 .. Size[doc[q]]
        BY <4>4
      <4> QED BY <4>2, <4>3, <4>4, <4>5
    <3> QED BY <1>1, <2>1, <3>1, <3>2 DEF Heavy
  <2> QED BY <2>1, <2>5, <2>6 DEF BudgetInv
<1> QED BY <1>3, <1>4

LEMMA BudgetReleased ==
    ASSUME BudgetInv, TypeInv, NEW r \in Holders, NEW l \in {"free", "done"}, Release(r, l),
           doc' = doc
    PROVE  BudgetInv'
<1> DEFINE rest == Holders \ {r}
<1>1. Holders' = rest
  BY DEF Release, Holders, TypeInv, TypeOK, Inside
<1>2. Sized(doc, Holders) /\ Sized(doc, rest) /\ Holders = rest \cup {r}
  BY HoldersAreSized, FS_Subset DEF Sized
<1>3. Size[doc[r]] \in Nat /\ Memory \in Nat /\ Cardinality(BytesOf(doc, rest)) \in Nat
  BY <1>2, SizeAssumption, BytesAreFinite DEF Sized
<1>4. inFlight = Cardinality(BytesOf(doc, rest)) + Size[doc[r]]
  <2>1. Cardinality(BytesOf(doc, rest \cup {r})) = Cardinality(BytesOf(doc, rest)) + Size[doc[r]]
    <3>1. r \notin rest
      OBVIOUS
    <3> HIDE DEF rest
    <3> QED BY <1>2, <3>1, OneMore
  <2> QED BY <1>2, <2>1 DEF BudgetInv
<1>5. inFlight' = Cardinality(BytesOf(doc, rest))
  <2>1. inFlight' = IF Size[doc[r]] < inFlight THEN inFlight - Size[doc[r]] ELSE 0
    BY DEF Release
  <2> HIDE DEF rest
  <2> QED BY <1>3, <1>4, <2>1
<1>6. ASSUME inFlight' > Memory PROVE \E q \in rest : Heavy' = {q}
  <2>1. inFlight > Memory
    BY <1>3, <1>4, <1>5, <1>6
  <2>2. PICK q \in Holders : Heavy = {q}
    BY <2>1 DEF BudgetInv
  <2>3. Heavy' = Heavy \ {r}
    BY <1>1 DEF Heavy
  <2>4. CASE q # r
    BY <2>2, <2>3, <2>4
  <2>5. CASE q = r
    <3>1. \A p \in rest : Size[doc[p]] = 0
      <4>1. \A p \in rest : Size[doc[p]] \in Nat /\ ~(Size[doc[p]] > 0)
        BY <1>2, <2>2, <2>5, SizeAssumption DEF Heavy, Sized
      <4> QED BY <4>1
    <3>2. BytesOf(doc, rest) = {}
      BY <3>1 DEF BytesOf
    <3>3. inFlight' = 0
      BY <1>5, <3>2, FS_EmptySet
    <3> QED BY <1>3, <1>6, <3>3
  <2> QED BY <2>4, <2>5
<1> QED BY <1>1, <1>5, <1>6 DEF BudgetInv

LEMMA BudgetStep == BudgetInv /\ TypeInv /\ [Next]_vars => BudgetInv'
<1> SUFFICES ASSUME BudgetInv, TypeInv, [Next]_vars PROVE BudgetInv'
  OBVIOUS
<1> USE DEF files, stores, session, notes, counts
<1>0. pc \in [Runners -> {"free", "waiting", "woken", "reserved", "read", "done"} \cup Inside]
      /\ doc \in [Runners -> Docs \cup {None}]
  BY DEF TypeInv, TypeOK
<1>1. CASE Begin \/ Exit \/ Crash
  <2>1. Holders' = {} /\ inFlight' = 0
    BY <1>1 DEF Begin, Exit, Crash, Holders, Inside
  <2> QED BY <2>1, BudgetReset
<1>2. CASE End \/ UNCHANGED vars \/ (\E d \in Docs : Edit(d))
           \/ (\E lay \in Layers, k \in Keys : Lose(lay, k))
  <2>1. pc' = pc /\ doc' = doc /\ inFlight' = inFlight
    BY <1>2 DEF End, vars, Edit, Lose
  <2> QED BY <2>1, BudgetKept DEF Holders
<1>3. ASSUME NEW r \in Holders, NEW l \in {"free", "done"}, Release(r, l), doc' = doc
      PROVE  BudgetInv'
  BY <1>3, BudgetReleased
<1>4. ASSUME NEW r \in Holders, NEW l \in {"read"} \cup Inside, Goto(r, l), doc' = doc,
             inFlight' = inFlight
      PROVE  BudgetInv'
  <2>1. Holders' = Holders
    BY <1>0, <1>4 DEF Goto, Holders, Inside
  <2> QED BY <1>4, <2>1, BudgetKept
<1>5. ASSUME NEW r \in Runners, NEW d \in Docs, Take(r, d) PROVE BudgetInv'
  <2>1. r \notin Holders /\ doc' = [doc EXCEPT ![r] = d]
    BY <1>5 DEF Take, Turn, Holders, Inside
  <2>2. CASE Reserve(r, d)
    BY <2>1, <2>2, BudgetReserved
  <2>3. CASE UNCHANGED <<pc, inFlight>>
    <3>1. Holders' = Holders /\ \A q \in Holders : doc'[q] = doc[q]
      BY <1>0, <2>1, <2>3 DEF Holders
    <3> QED BY <2>3, <3>1, BudgetKept
  <2> QED BY <1>5, <2>2, <2>3 DEF Take
<1>6. ASSUME NEW r \in Runners, NoMore(r) PROVE BudgetInv'
  <2>1. Holders' = Holders /\ doc' = doc /\ inFlight' = inFlight
    BY <1>0, <1>6 DEF NoMore, Turn, Goto, Holders, Inside
  <2> QED BY <2>1, BudgetKept
<1>7. ASSUME NEW r \in Runners, Recheck(r) PROVE BudgetInv'
  <2>1. r \notin Holders /\ doc[r] \in Docs /\ doc' = doc /\ Reserve(r, doc[r])
    BY <1>7 DEF Recheck, Turn, Holders, Inside, TypeInv, HasDocument
  <2>2. doc' = [doc EXCEPT ![r] = doc[r]]
    BY <1>0, <2>1
  <2> QED BY <2>1, <2>2, BudgetReserved
<1>8. ASSUME NEW r \in Runners, Refuse(r), r \in Holders PROVE BudgetInv'
  BY <1>3, <1>8 DEF Refuse
<1>9. ASSUME NEW r \in Runners, ReadWhole(r) \/ Verify(r) \/ Stat(r) PROVE BudgetInv'
  <2>1. r \in Holders
    BY <1>9 DEF ReadWhole, Verify, Stat, Turn, Holders
  <2> QED BY <1>4, <1>8, <1>9, <2>1 DEF ReadWhole, Verify, Stat, Inside
<1>10. ASSUME NEW r \in Runners, Hash(r) \/ Open(r) \/ Decode(r) \/ Settle(r) PROVE BudgetInv'
  <2>1. r \in Holders
    BY <1>10 DEF Hash, Open, Decode, Settle, Holders, Inside
  <2>2. CASE Hash(r) \/ Settle(r)
    BY <1>4, <1>8, <2>1, <2>2 DEF Hash, Settle, Inside
  <2>3. CASE Open(r)
    BY <1>3, <1>4, <2>1, <2>3 DEF Open, Inside
  <2>4. CASE Decode(r)
    <3>1. doc' = doc /\ inFlight' = inFlight /\ (Goto(r, "settle") \/ pc' = pc)
      BY <2>4 DEF Decode
    <3>2. CASE pc' = pc
      BY <3>1, <3>2, BudgetKept DEF Holders
    <3> QED BY <1>4, <2>1, <3>1, <3>2 DEF Inside
  <2> QED BY <1>10, <2>2, <2>3, <2>4
<1>11. ASSUME NEW r \in Runners, Store(r) \/ Derive(r) \/ Throw(r) PROVE BudgetInv'
  <2>1. r \in Holders /\ doc' = doc
    BY <1>11 DEF Store, Derive, Throw, Holders, Inside
  <2> QED BY <1>3, <1>4, <1>11, <2>1 DEF Store, Derive, Throw, Inside
<1> QED BY <1>1, <1>2, <1>5, <1>6, <1>7, <1>9, <1>10, <1>11 DEF Next, Run

LEMMA BudgetIsSum == TypeInv /\ BudgetInv => BudgetHolds
<1> SUFFICES ASSUME TypeInv, BudgetInv PROVE BudgetHolds
  OBVIOUS
<1>1. MapThenSumSet(LAMBDA r : Size[doc[r]], Holders) = Cardinality(BytesOf(doc, Holders))
  BY HoldersAreSized, SumIsBytes
<1>2. inFlight = MapThenSumSet(LAMBDA r : Size[doc[r]], Holders)
  BY <1>1 DEF BudgetInv
<1>3. inFlight > Memory => Cardinality({r \in Holders : Size[doc[r]] > 0}) = 1
  BY FS_Singleton DEF BudgetInv, Heavy
<1> QED BY <1>2, <1>3 DEF BudgetHolds

\* MemoryBudget (corpus_scan.ts): the bytes in flight are at any time those of
\* the documents reserved and not yet released, whoever waits, fails or dies;
\* over the ceiling there is one document alone.
THEOREM MemoryIsKept == Spec => []BudgetHolds
<1>1. Init => BudgetInv
  <2>1. Init => Holders = {} /\ inFlight = 0
    BY DEF Init, Holders, Inside
  <2> QED BY <2>1, NoBytes, SizeAssumption DEF BudgetInv
<1> QED BY <1>1, TypeInit, TypeStep, BudgetStep, BudgetIsSum, PTL DEF Spec
=============================================================================
