------------------------ MODULE InventoryAnnotation ------------------------
(***************************************************************************)
(* inventoryTree (inventory.ts): a run walks a tree and describes every    *)
(* entry in a carrier -- a header inside a text file, a sidecar beside a   *)
(* plain one or an archive, a member inside the archive, a sidecar in a    *)
(* folder -- and later runs read those carriers back.  People edit files   *)
(* and carriers before, between and during runs; writes fail and processes *)
(* die.                                                                    *)
(*                                                                         *)
(* A carrier is the hash and the clock it records, the time of inspection, *)
(* and one note for all that an operator may have written there.  The read *)
(* of a file and its replacement by a new rendering are one step.          *)
(***************************************************************************)
EXTENDS Naturals, Sequences, FiniteSets

CONSTANTS
    WalkOrder,     \* the entries, each directory before what it holds
    KindOf,        \* entry -> "text", "plain", "archive" or "folder"
    Bodies,        \* contents of a file, without any carrier
    Notes,         \* what an operator may write in a carrier
    Nows,          \* InventoryConfig.now
    Absent,        \* no carrier, no hash, no note, no run
    MaxTime, MaxTouches, MaxRuns      \* bounds on the run, not on the program

VARIABLES
    tree,          \* entry -> [body, header, member, sidecar, mtime]
    time,
    run,           \* the run under way: [now, queue, phase, harvest, record]
    settled,       \* history: the `now` of the last run, if nothing disturbed it since it began
    disturbed,     \* history: did anything happen to the run under way?
    born,          \* history: what was put there and when, entry by entry
    torn,          \* history: edited between a run's look at it and its writing there
    touches, runs  \* spent of the bounds

annotationVars == <<tree, time, run, settled, disturbed, born, torn, touches, runs>>

Entries == {WalkOrder[i] : i \in DOMAIN WalkOrder}
Of(kind) == {e \in Entries : KindOf[e] = kind}

Carrier == [hash |-> Absent, modified |-> Absent, inspected |-> Absent, note |-> Absent,
            tool |-> FALSE]
ByHand(note) == [Carrier EXCEPT !.note = note]

MemberRecords ==
    [hash : {Absent}, modified : {Absent}, inspected : Nows, note : Notes \cup {Absent},
     tool : {TRUE}]
Digests == {<<b>> : b \in Bodies} \cup Bodies \X (MemberRecords \cup {Absent})
CarrierRecords ==
    [hash : Digests \cup {Absent}, modified : Nat \cup {Absent}, inspected : Nows \cup {Absent},
     note : Notes \cup {Absent}, tool : BOOLEAN]

ASSUME WalkAssumption ==
    /\ WalkOrder \in Seq(Entries)
    /\ KindOf \in [Entries -> {"text", "plain", "archive", "folder"}]
ASSUME AbsentAssumption ==
    /\ Absent \notin Nat \cup Notes \cup Nows
    /\ Absent \notin Digests /\ Absent \notin CarrierRecords

\* What a content hash is taken over: the body without its carrier, or every
\* byte of an archive, the embedded member included.  A folder has none.
Digest(e) ==
    CASE KindOf[e] = "folder"  -> Absent
      [] KindOf[e] = "archive" -> <<tree[e].body, tree[e].member>>
      [] OTHER                 -> <<tree[e].body>>

-----------------------------------------------------------------------------
(* What a run reads                                                        *)

\* Later layers win, field by field.
MergeHarvested(below, above) ==
    [f \in DOMAIN Carrier |-> IF above[f] # Absent THEN above[f] ELSE below[f]]

Layer(carrier) == IF carrier = Absent THEN Carrier ELSE carrier

HarvestExistingMeta(e) ==
    IF KindOf[e] = "folder" THEN Layer(tree[e].sidecar)
    ELSE MergeHarvested(MergeHarvested(Layer(tree[e].member), Layer(tree[e].sidecar)),
                        Layer(tree[e].header))

BuildRecord(e) == [hash |-> Digest(e), modified |-> tree[e].mtime]

\* carrierClocks: the clock is carried while the content is what it was.
CarrierClock(record, harvest) ==
    IF record.hash # Absent /\ harvest.hash = record.hash /\ harvest.modified # Absent
    THEN harvest.modified ELSE record.modified

\* annotationFields
MetaOf(record, harvest, now) ==
    [hash |-> record.hash, modified |-> CarrierClock(record, harvest), inspected |-> now,
     note |-> harvest.note, tool |-> TRUE]

Meta == MetaOf(run.record, run.harvest, run.now)

-----------------------------------------------------------------------------
(* What a run writes                                                       *)

Here == Head(run.queue)

\* Every replacement inside a folder moves the folder's own clock.
Put(e, entry) ==
    /\ time < MaxTime /\ time' = time + 1
    /\ tree' = [f \in Entries |->
                    IF f = e THEN entry
                    ELSE IF KindOf[f] = "folder" THEN [tree[f] EXCEPT !.mtime = time + 1]
                    ELSE tree[f]]

Keep == UNCHANGED <<tree, time>>

Rewritten(e, field, carrier) ==
    [tree[e] EXCEPT ![field] = carrier, !.mtime = IF field = "sidecar" /\ KindOf[e] # "folder"
                                                   THEN @ ELSE time + 1]

\* inspectExistingSidecar: one that is not in the tool's own format is held.
Held(e) == tree[e].sidecar # Absent /\ ~tree[e].sidecar.tool

WriteSidecar(e, meta) ==
    IF Held(e) \/ tree[e].sidecar = meta THEN Keep
    ELSE Put(e, Rewritten(e, "sidecar", meta))

WithoutClock(carrier) == [carrier EXCEPT !.modified = Absent]

Mutant_EveryFolderClock(e, meta) == WriteSidecar(e, meta)

\* A folder's clock moves with every write inside it, so a sidecar that differs
\* in the clock alone is left.
WriteFolderSidecar(e, meta) ==
    IF tree[e].sidecar # Absent /\ WithoutClock(tree[e].sidecar) = WithoutClock(meta) THEN Keep
    ELSE WriteSidecar(e, meta)

\* A member records nothing that its own writing changes.
Embedded(meta) == [meta EXCEPT !.hash = Absent, !.modified = Absent]

-----------------------------------------------------------------------------
(* The run                                                                 *)

Idle == run = Absent
At(phase) == ~Idle /\ run.phase = phase

StartAnnotation(now) ==
    /\ Idle /\ runs < MaxRuns /\ runs' = runs + 1
    /\ run' = [now |-> now, queue |-> WalkOrder, phase |-> "harvest",
               harvest |-> Carrier, record |-> Absent]
    /\ disturbed' = FALSE
    /\ settled' = IF now = settled THEN settled ELSE Absent
    /\ UNCHANGED <<tree, time, born, torn, touches>>

Still == UNCHANGED <<settled, disturbed, born, torn, touches, runs>>

Harvest ==
    /\ At("harvest") /\ run.queue # <<>>
    /\ run' = [run EXCEPT !.phase = "observe", !.harvest = HarvestExistingMeta(Here)]
    /\ Keep /\ Still

ObserveEntry ==
    /\ At("observe")
    /\ run' = [run EXCEPT !.phase = IF KindOf[Here] = "archive" THEN "member" ELSE "write",
                          !.record = BuildRecord(Here)]
    /\ Keep /\ Still

Mutant_NoSecondLook == run.record

\* The record of an archive whose bytes have just been replaced.
Reobserved == BuildRecord(Here)

\* annotateArchive: the member is upserted before the sidecar is written.
UpsertMember ==
    /\ At("member")
    /\ IF tree[Here].member = Embedded(Meta)
       THEN Keep /\ run' = [run EXCEPT !.phase = "write"] /\ UNCHANGED born
       ELSE /\ Put(Here, Rewritten(Here, "member", Embedded(Meta)))
            /\ run' = [run EXCEPT !.phase = "reobserve"]
            /\ born' = [born EXCEPT ![Here] = @ \cup
                                   {<<<<tree[Here].body, Embedded(Meta)>>, time + 1>>}]
    /\ UNCHANGED <<settled, disturbed, torn, touches, runs>>

Reobserve ==
    /\ At("reobserve")
    /\ run' = [run EXCEPT !.phase = "write", !.record = Reobserved]
    /\ Keep /\ Still

Turn == run' = [run EXCEPT !.queue = Tail(run.queue), !.phase = "harvest",
                           !.harvest = Carrier, !.record = Absent]

\* injectFile: rendered over the bytes the file has by now.
WriteCarrier ==
    /\ At("write") /\ Turn
    /\ CASE KindOf[Here] = "folder" -> WriteFolderSidecar(Here, Meta)
         [] KindOf[Here] = "text"   -> IF tree[Here].header = Meta THEN Keep
                                       ELSE Put(Here, Rewritten(Here, "header", Meta))
         [] OTHER                   -> WriteSidecar(Here, Meta)
    /\ Still

\* A refused injection falls back on a sidecar; any other failed write, and a
\* member that cannot be written, is recorded and the walk goes on.
WriteFails ==
    /\ touches < MaxTouches /\ touches' = touches + 1 /\ disturbed' = TRUE
    /\ \/ /\ At("write") /\ Turn
          /\ IF KindOf[Here] = "text" THEN WriteSidecar(Here, Meta) ELSE Keep
       \/ /\ At("member") /\ Keep
          /\ run' = [run EXCEPT !.phase = "write"]
    /\ UNCHANGED <<settled, born, torn, runs>>

Dies ==
    /\ ~Idle /\ touches < MaxTouches /\ touches' = touches + 1
    /\ run' = Absent /\ settled' = Absent
    /\ UNCHANGED <<tree, time, disturbed, born, torn, runs>>

EndAnnotation ==
    /\ At("harvest") /\ run.queue = <<>>
    /\ settled' = IF disturbed THEN Absent ELSE run.now
    /\ run' = Absent
    /\ UNCHANGED <<tree, time, disturbed, born, torn, touches, runs>>

-----------------------------------------------------------------------------
(* People                                                                  *)

\* New contents, or the old ones saved again; an archive is built anew.
Rewrites(e, body) ==
    /\ KindOf[e] # "folder"
    /\ Put(e, [tree[e] EXCEPT !.body = body, !.member = Absent, !.mtime = time + 1])
    /\ born' = [born EXCEPT ![e] = @ \cup {<<Digest(e)', time + 1>>}]

\* A note in the header of a text, or a sidecar of one's own making.
Jots(e, note) ==
    \/ /\ KindOf[e] = "text"
       /\ Put(e, Rewritten(e, "header", [Layer(tree[e].header) EXCEPT !.note = note]))
       /\ born' = [born EXCEPT ![e] = @ \cup {<<Digest(e)', time + 1>>}]
    \/ Put(e, Rewritten(e, "sidecar", ByHand(note))) /\ UNCHANGED born

Person(e) ==
    /\ touches < MaxTouches /\ touches' = touches + 1
    /\ (\E b \in Bodies : Rewrites(e, b)) \/ (\E n \in Notes : Jots(e, n))
    /\ settled' = Absent /\ disturbed' = TRUE
    /\ torn' = IF ~Idle /\ run.phase # "harvest" /\ Here = e THEN torn \cup {e} ELSE torn
    /\ UNCHANGED <<run, runs>>

AnnotationInit ==
    /\ \E b \in Bodies : tree = [e \in Entries |-> [body |-> b, header |-> Absent,
                                    member |-> Absent, sidecar |-> Absent, mtime |-> 1]]
    /\ time = 1 /\ run = Absent /\ settled = Absent /\ disturbed = FALSE
    /\ born = [e \in Entries |-> {<<Digest(e), 1>>}] /\ torn = {} /\ touches = 0 /\ runs = 0

AnnotationNext ==
    \/ \E now \in Nows : StartAnnotation(now)
    \/ Harvest \/ ObserveEntry \/ UpsertMember \/ Reobserve \/ WriteCarrier
    \/ WriteFails \/ Dies \/ EndAnnotation
    \/ \E e \in Entries : Person(e)

AnnotationSpec == AnnotationInit /\ [][AnnotationNext]_annotationVars

-----------------------------------------------------------------------------
(* Properties                                                              *)

\* The carrier a reader would believe.
CarrierOf(e) == IF KindOf[e] = "text" THEN tree[e].header ELSE tree[e].sidecar

\* After a run that nothing disturbed, whatever happened before it, every
\* carrier of the tool's names the bytes beside it and dates them by when
\* those very bytes were put there, and not by the tool's later writing --
\* unless somebody once edited that file between a run's look at it and its
\* writing there.
CarriersTellTheTruth ==
    settled # Absent =>
        \A e \in Entries \ Of("folder") :
            CarrierOf(e) # Absent /\ CarrierOf(e).tool =>
                /\ CarrierOf(e).hash = Digest(e)
                /\ <<Digest(e), CarrierOf(e).modified>> \in born[e] \/ e \in torn

\* ADR-060: one such run and the tree is at rest.  Another with the same `now`
\* writes nothing; and what somebody wrote by hand no run ever replaces.
RunsSettle ==
    [][/\ ~Idle /\ run.now = settled /\ touches' = touches => tree' = tree
       /\ \A e \in Entries : Held(e) /\ touches' = touches => tree'[e].sidecar = tree[e].sidecar
      ]_annotationVars
=============================================================================
