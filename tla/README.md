# A TLA+ model of l9-meta-injector

`l9-meta-injector` (TypeScript, `src/src/`) works on other people's files. It
**injects** metadata headers into the files of a repository, and keeps an index of
them, under an authority the repository declares and under a journal, so that a run
replaces a whole set of files or nothing; a **check** says whether there is anything
to do. It **scans** corpora of documents on drives that come and go, caches what it
derives under keys of their content, **publishes** the reports as generations, and
**embeds** documents through an HTTP server. And for a tree of local files it
**expands archives** and keeps an **inventory**, in headers and sidecars beside the
files.

This directory models the parts of it where an unlucky order of events could lose a
user's work, record a falsehood, or show a reader half a result. TLC checks the
models on small instances; TLAPS proves all but one of the invariants they check, and
the central action properties, for every instance and from the hypotheses section 4 names.

## 1. Inventory

| Component | State it keeps | Operations | What is hard |
|---|---|---|---|
| governed apply transaction (`file_transaction.ts`) | targets, staging files, backups, one journal | recover, prepare, stage, commit, validate, clean up, roll back | crashes and failing calls between any two system calls; user edits at any time; recovery of a recovery |
| governed runs (`check.ts`, `apply.ts`, `carrier_operation.ts`, `mutation_policy.ts`, `retrieval.ts`, `pipeline.ts`, `metadata_index.ts`) | the index file; a plan in memory | discover, read, plan, merge, compare, intend, commit | files, authority and index are read one after another while people and other runs change them; scopes |
| publisher lock (`corpus_publish.ts` 146-316) | lock, takeover guard, guards renamed aside | create, judge, take over, reap, link back, release | every step is check-then-act against other processes; pids that die |
| generational publication (`corpus_publish.ts` 433-575) | `generations/<id>/…`, `CURRENT.json` with its record | write, switch, retain, prune | crashes half-way; re-publication |
| corpus scan (`corpus_scan.ts`, `corpus_roots.ts`, `corpus_root_history.ts`, `local_source.ts`) | snapshots, hashes carried forward | identify roots, enumerate, hash, re-enumerate, bind, compare | drives swapped behind a mount point; files rewritten while hashed; stats that lie |
| corpus diff (`corpus_diff.ts`) | none | classify, pair renames | several copies of one content |
| decode stage (`corpus_scan.ts` 778-1185, `corpus_session.ts`, `corpus_cache.ts`, `documents/ooxml.ts`) | the cache, the session's completions, bytes in flight | look up, reserve, read and verify, decode, store, release | state read before an `await` and used after; errors half-way |
| interpretation (`corpus_scan.ts` 547-561, 868-885, 1136-1175) | two levels of cache keys | look up, interpret, put | a result that depends on the rest of the root |
| archives (`archives.ts`, `archive_execution.ts`, `archive_preflight.ts`, `local_archive_policy.ts`) | candidates, marked extractions, a budget | admit, write, mark, swap, restore | budget over nesting; crash between renames; names that collide |
| embeddings (`corpus_embeddings.ts`, `corpus_embedding_http.ts`) | vectors, a cache | draw, send, read capped, time out, end | workers in parallel; a deadline racing an answer; a server upgraded meanwhile |
| inventory (`inventory.ts`, `inventory_existing_meta.ts`, `inject.ts`) | headers, sidecars, archive members | harvest, observe, write, carry over | its own writes are what the next run reads |
| metadata carriers (`comment.ts`, `frontmatter_patch.ts`) | none | find, strip, write a block; read and patch a header | every other byte of a user's file must stay; hosts that read the first lines; repeated runs |
| similarity joins (`corpus_analysis.ts`, `corpus_candidates.ts`) | none | index, filter, score | pruning must lose no pair |
| candidate fusion, semantic reasoning (`corpus_semantics.ts`, `corpus_pairs.ts`, `corpus_fusion.ts`, `corpus_reasoning.ts`) | none | weigh, pair, classify, route, pack | four stages that must agree on what a strong pair is; a budget shared by all of a queue |
| readiness, repository model | none | classify | data, not control |
| decoders, extractors, archive formats, YAML values, CLI | none | parse, render | grammars |

The parts meet in few places. The CLI runs one `runCorpusScan`, then one
`publishCorpusGeneration`; the scan shares its cache with earlier and later runs;
publishers share the output root with each other and with readers; a check or an
apply shares the repository with its users and with each other; archive expansion
and inventory share a tree with whoever works in it. Each module below models one
such meeting.

## 2. The modules

```
FileTransaction ──implements──> AtomicApply          (user's tree, one atomic replacement)
   ├─ FileTransactionInv, FileTransaction_proofs           ▲
   └─ MCFileTransaction                                    │ one step of
GovernedRuns  (check and apply, scopes, authority, index) ─┘
   └─ GovernedRuns_proofs

PublishLock ──implements──> ExclusiveLock            (at most one holder)
   │                                  ▲
   │                                  │ uses, as its lock
   │  CorpusPublish ──implements──> AtomicPublish    (a reader's view switches in one step)
   └──┴─ Publishing_proofs, MCPublishing

DecodeStage          + DecodeStage_proofs, MCDecodeStage
ArchivePreflight <──extended by── ArchiveExpansion   + Archives_proofs, MCArchiveExpansion
CorpusHistory        + CorpusHistory_proofs, MCCorpusHistory
SimilarityJoin, SemanticPass, EmbeddingPass   + Semantics_proofs, MCSemanticPass, MCEmbeddingPass
InterpretationCache, InventoryAnnotation      + Parts_proofs
CommentCarrier, FrontMatter                   + Parts_proofs; extended by MCCarriers

MCPublishing: PublishLock and CorpusPublish, one of them in each behaviour
MCTrees: ArchiveExpansion and CorpusHistory, likewise
MCParts: SimilarityJoin, ArchivePreflight, InterpretationCache, InventoryAnnotation,
         GovernedRuns, SemanticPass and MCCarriers, likewise
```

Operators named `Mutant_…` are slips a programmer could make in the definition that
follows them. No action uses them; each shows that some property would notice.

### FileTransaction — `file_transaction.ts`, and `apply.ts` around it

One process runs apply again and again: `Start` (`recoverPendingTransactions`),
`Plan`, `Prepare`, and then the protocol of `executeFileTransaction`. Every system
call a crash or another process can fall behind is a step: the journal's `.next`
write and rename are one (`Mark`), staging, rename to backup, re-verification, link
and unlink, and so on. `pc` names the next call, `todo` what the loop has still to
visit, `tx` the journal in memory against `journal` on disk. A content is a record:
whose words it holds (`body`) and whether the header is in place. That rendering
keeps the body (`Render`) is assumed here, and is what CommentCarrier and
FrontMatter are about. Users write, delete and create targets at any
time, and a program with an old descriptor writes into a backup (`StaleWrite`).

`CheckActRace` lets a write fall between a check and the deletion it allows; POSIX
offers no call that excludes this. With it `UserWorkSurvives` fails; every run and
proof excludes exactly that window (`TargetWindow`, `BackupWindow`).

*Left out*: power loss and fsync order (a crash is a process dying), symbolic
links, modes, tampered journals, file systems without hard links, two applies at
once (nothing in the code defends against them: each would recover the other's
live journal, `apply.ts` 188).

### GovernedRuns — `check.ts`, `apply.ts`, `carrier_operation.ts`, …

At most one check and one apply are under way. Each begins with the authority's
rules (`Begin`; a check takes its first snapshot there), then discovers, reads
every file (`Read`: the subjects), reads it again to plan its header (`Plan`), and
once more to learn what would be replaced (`Weigh`): three reads that people may
fall between, as in the code. `Compile` merges with the index as it is then, if
the run's ledger filtered anything; an apply that must refuse does so here.
`Compare` and `EndCheck` end a check, `Intents` and `Commit` an apply.
`Commit` is the whole of `executeFileTransaction`, which FileTransaction shows to be
one step or none, with its comparison of what is replaced against the plan.

A body is a version number that is never used again, `head` the body the header
describes, `form` what matters of the format: prose that may carry a header, other
text, frontmatter too damaged (`malformed`) or too unusual (`limited`) to patch,
binary, unreadable (`sealed`). Rules are the patterns of policy and authority a path
matches; `CarrierDecision` is the policy's order. Comment carriers count as prose.

*Left out*: authority conflicts, archives and LLM assistance in governed runs,
tracked (v2) operations, I/O faults, the first pass over the files (`scanFiles`
reads each once for its shape), somebody restoring old bytes between two steps, two
applies at once.

### PublishLock — `corpus_publish.ts` 146-316, 447-453

Each publisher runs `publishCorpusGeneration` once. `lock` and `guard` name the
publisher whose file stands there; `written` and `vouched` say whether its text has
been written. `Leftover` are publishers that crashed before the instance begins.
`Dead(p)` is what `process.kill(pid, 0)` finds, publishers that ended by themselves
included. `alone` is history: who has run beside no other.

*Left out*: pids that are reused; an fsync that fails after a complete write.

### CorpusPublish — `corpus_publish.ts` 433-575, `durable_write.ts`

`Begin` to `End` is one `publishUnderLock`; `rmSync` deletes file by file,
`writeFileDurably` is an open and a write, `CURRENT.json` moves with one rename.
`Stop` is a crash or a thrown error anywhere; `keep` varies from publish to publish.
The lock is `ExclusiveLock`. `order` is history: when each generation was last
switched to, against which the record in the pointer is judged.

*Left out*: the staging name of the pointer a crash may leave, `beforeSwitch` hooks
that change files, records edited by hand, ids no directory can have.

### DecodeStage — `corpus_scan.ts` 778-1135, `corpus_session.ts`, `corpus_cache.ts`, `ooxml.ts`

`Begin` is the scan up to `boundedMap`. Runners take documents in order, look the
cache up, reserve memory, read, verify, decode and store. JavaScript runs one
segment from `await` to `await`, so a runner inside a synchronous stretch
(`Inside`) excludes the others (`Turn`) but not users. What is derived is modelled as
the *set of contents it was read from*: `{c}` is the truth about `c`, `{c, d}` a
mixture, a set with `Fault` something an unreadable part is missing from.

*Left out*: declared identifiers, the cache's accounting, an edit that moves neither
size nor mtime (the code's own standard of evidence).

### InterpretationCache — `corpus_scan.ts` 547-561, 868-885, 1136-1175

An interpretation asks whether other paths exist in the root. A document's
`Transcripts` are the conversations it may have, each with its result; level one
stores either the result or the list of questions, level two the result under the
document, the questions and this root's answers. Workers of any number of
processes share the cache; entries get lost.

### CorpusHistory — `corpus_scan.ts`, `local_source.ts`, `corpus_roots.ts`, `corpus_diff.ts`

Drives are plugged in behind mount points, files are written, moved, locked and
their mtimes restored while a scan enumerates, hashes (two stats around a read),
enumerates again, binds roots to keys and compares. A read over a write hashes to
`Torn`. All files have one size, the worst case for the stat comparison.
`truth`, `doubt` and `moved` in a snapshot are history.

*Left out*: archive members, omit patterns, Git trees, reports.

### ArchivePreflight, ArchiveExpansion — `archive_preflight.ts`, `archives.ts`, …

Preflight is a fold over the central directory that collects holds. A name is a
sequence of segments, folding and normalization are constants. The expansion
walks the tree, stages an archive, admits it, writes its members to a candidate,
marks it and swaps it into place, and queues what it finds inside, under one budget.
Members may yield another size than they declare. Users put, remove and make things
between any two system calls, and the process may die or a call fail there.

*Left out*: omit patterns, the sidecar file, a file or symlink at the target as
distinct from a user's directory, CRC (a member that yields other than it declares
stands for it), a user removing an extraction while an archive inside it is being
expanded. One window is excused: a user's directory made between the ownership
check and the rename (`archives.ts` 286-291).

### EmbeddingPass — `corpus_embeddings.ts`, `corpus_embedding_http.ts`

Workers draw documents from a cursor and send chunk after chunk; a server answers,
refuses, stalls before or after its headers, sends nonsense, or is upgraded. The
deadline timer is an action of its own. Vectors are the revisions that answered and
the number of chunks. A cached vector carries no revision, as in the code: what the
server is now is compared only with what it said in this pass.

A server need not say which revision it runs (`Reported`): such an answer is not
compared with any other (`corpus_embeddings.ts` 499, `corpus_embedding_http.ts`
161-175), as `tests/corpus_embedding_http.test.ts` 127-149 has it. So a pass against
such a server may mix revisions of one vector length unnoticed, and
`OneRevisionAnswers` is about the answers that report one.

### InventoryAnnotation — `inventory.ts`, `inject.ts`

A run visits the entries in order: harvest what carriers hold, observe, write.
Writes move the clocks that carriers record. People edit files and carriers.
The read of a file and its replacement are one step here; in the code an edit
in between is lost (`inject.ts` 232 renames without comparing).

*Left out*: schemas, omit patterns, duplicate clusters, manifests, search indexes.

### SimilarityJoin — `corpus_analysis.ts`, `corpus_candidates.ts`

The prefix-filtered inverted indexes for near-duplicates and topics as operators,
next to the comparison of all pairs. Scores are rounded as the code rounds them, on
a scale that is a parameter.

### SemanticPass — `corpus_semantics.ts`, `corpus_pairs.ts`, `corpus_fusion.ts`, `corpus_reasoning.ts`

`runSemanticAnalysis` is four stages in one pass, and each is an operator on a corpus
of documents, every one a body at a place: the heaviest words of a document
(`Keyphrases`); the pairs that some index proposes and the ten signals of each
(`SemanticPairs`); what the signals make of a pair (`ConfidenceClass`, where a strong
pair takes two strong families) and the topics, projects and consolidations made
of pairs (`TopicCandidates` …); where each goes (`RouteTopic` …), and the evidence a
reasoner gets under the budget (`EvidencePack`). What is read out of a body, near
scores and cosines are inputs: SimilarityJoin and EmbeddingPass are about them.

*Left out*: tokenizing, how often a word occurs, relationship context and coverage
gaps, identities and diagnostics, the files written.

### CommentCarrier, FrontMatter — `comment.ts`, `frontmatter_patch.ts`

Pure functions on a text, which is its lines: what a line says, as far as any rule
asks, and how it ends. `CarrierPosition` is how many lines must stay in front of a
comment block (shebang, encoding cookie, `<?php`, XML declaration, `@charset`, parser
directives), `FindHeadBlock` where a block is, in its present or its earlier form,
there or at the very start; `StripInjectedBlock` and `ApplyCommentInjection` take it
out and put it in, with the line feed a prologue may lack. `Safe` is what
`inspectFrontMatterDocument` accepts, `Patched` what `patchManagedFrontMatter` writes
and `Patchable` when it does not refuse to: what it wrote is inspected again, so each managed
item must read back as it is rendered (`ReadsBack`). Which items do is two sets, `Legible`
in a line of their own and `LegibleInline` between brackets. `HostReads` is the reference for comments: what an interpreter, a parser
or a build tool looks for in the first lines.

*Left out*: the grammar of scalars and of comments behind them, the escaping of
values (`carrierForbiddenSequences`), a byte order mark, which stays in front and
moves nothing, and the indentation of list items.

## 3. What TLC checks

"Violation" runs show the code doing something its own documents exclude; each is a
finding in `PROJECT.json`, with the sentence quoted.

| Run | Instance | Shows |
|---|---|---|
| `apply_user` | 2 files (one may be created), 2 bodies, 2 edits, 2 crashes, 1 fault, stale writers | no user's words are lost; leftovers are journaled; rollback restores all; `complete` is final |
| `apply_live` | 1 edit, 1 crash, 1 fault, fair | implements `AtomicApply`; a journal is resolved unless a user interfered; no run loops |
| `publishing`, lock | 3 live publishers and a dead one here, 1 and a dead one elsewhere, 1 crash or cut write, in a takeover too | one publisher at a time (implements `ExclusiveLock`); locks taken from the dead only, never another host's; who runs alone is not refused |
| `publishing`, generations | 4 generations of 2 files, 4 publishes, 2 stops, keep 1 or 2, record of 2 | the pointer's generation is whole; the switch is atomic; retention follows the order of the switches |
| `decode_edits` | 2 whole files and a container, 2 decoders, 2 runs, 2 edits, 1 crash, failure or loss | nothing untrue is cached or reported; completed keys are stored |
| `decode_memory` | 4 documents (one above the budget, one refused unread), 3 decoders, fair | bytes in flight are the reservations and bounded; the stage ends |
| `decode_parts` (violation) | 1 read error inside a container | the error is cached as a fact about the bytes |
| `trees`, expansion | 2 runs, dry or real, 3 user acts, 1 crash or error; flat, self-containing, lying and too-large archives | users' directories stay; marked extractions are whole and not lost; strays are accounted for; one budget; a dry run foretells |
| `trees`, history | 2 drives, 2 mounts, 2 paths, 2 scans, 2 user acts, restored mtimes and locks | a snapshot is of one moment; "fully verified" is true; a diff replays; no drive inherits another's hashes unclaimed |
| `history_sealed` (violation) | a root that cannot be listed | the corpus is called complete |
| `history_putback` (violation) | a file moved over another while it is hashed, and back | the source is said to have held still, and the snapshot holds the other file's hash |
| `semantics_copies` (violation) | 3 documents of the library of `MCSemanticPass` | exact copies of a file with a name reach a reasoner |
| `embedding_pool` | 2 workers, 3 documents, 2 passes, 2 upgrades among 4 revisions (one of another vector length, one that does not report itself), 1 read per body, fair | one *reported* revision per pass; nothing half embedded; every pass ends |
| `parts` | see below | `MCParts` |

`publishing` (`MCPublishing`) and `trees` (`MCTrees`) hold two instances each, one chosen
at the start of each behaviour; they share no state. `parts` (`MCParts`) holds seven in the same way: every corpus of up to
three documents over four terms at every threshold (`ReferencesAgree`); every archive of
up to three of 28 entries, among them case and Unicode twins, `..`, absolute and drive
names (`ReferencesAgree`, too); every corpus of up to four documents, of a library of
seven bodies, at four places (`ReferencesAgree` holds `StagesAgree` for it); every text
of up to four lines in seven file types with comments and in Markdown, with whole,
missing and half line ends (`CarriersAgree`, likewise); two
documents, two roots and two workers over one cache that loses an entry
(`InterpretationsAreCurrent`); three entries, one folder, text and archive, in three
runs with two acts of people (`CarriersTellTheTruth`, `RunsSettle`); and two paths,
three scopes, one act of a person on a file, the authority or the index, and three
governed runs, check and apply interleaved at will. Of the properties:

- `StagesAgree`: what a reasoner would be asked without an embedding model it is asked
  with one, of the same kind and about those documents at least; and an evidence pack
  stays within its budget, accounts for every unit it leaves out of the documents it selects (those
  beyond `maxArtifactsPerPack` are counted apart), and leaves out
  nothing of them that would have fitted behind what is more pressing;
- `CarriersAgree`: a block that is written is found, read back and stripped to the
  byte, as is one of an earlier version, and the host still reads in the first lines
  what it read before (ADR-057); patching a header sets what is managed, keeps every
  other line and the notes behind the values, settles at once, and refuses no header
  it can read unless a list would end or another header seem to follow;
- `AppliedIsCurrent`: an apply that passes leaves what nobody touched meanwhile
  indexed and headed for what it holds;
- `AppliesKeepToTheirScope`: no body and no record out of scope is ever changed,
  even if the index changed under the run;
- `PassedMeansClean`: a check that passes is right of the tree as it *then* stands,
  though it read it piece by piece (INV-015), but for what was undone behind it (last
  list of this section);
- `AppliedStaysClean`: applies that together cover every path leave a tree any
  check, of any scope, passes (ADR-058).

**Why the bounds are enough to be interesting.** Two files give an order of commits and
a proper prefix of it, one existing and one created file both kinds of rollback; two
crashes reach a crashed recovery of a crashed run. A guard can only be misjudged between
two live takers, and its victim is a third. Four publishes with a record of two reach a
record that has forgotten a generation still on disk. Two runs are one that writes the
cache and one that reads it; two files of one kind may share a key; two edits take a
file away from its hashed content and back, with another stat. Two scans of two drives
reach every swap of one drive for another, and two acts a write during a hash whose
mtime is then restored. Two archive runs are one that extracts and one that replaces, or
a dry one and the real one it foretells. Two workers suffice for one to fail or meet an
upgrade while the other is between two chunks. Three governed runs are two applies of
different scopes with a check beside or behind them; two paths are one in scope and one
out of it. Three documents make a topic that is no clique, four one with a bridge, and a
posting ceiling of two makes a word too common; a pack of six units for two documents is
too small for two full ones. Four lines hold a prologue of two and a whole block, or a
block list with something in front of its items and behind them. Counters of edits, crashes, faults, runs and acts only
bound the environment.

`CHECK_DEADLOCK FALSE` stands where the system stops by itself: publishers, scans,
passes, checks are command-line runs. FileTransaction is checked for deadlock.
Symmetry is used only for publishers and files of a generation, in runs without
liveness.

**Fairness.** `FileTransaction!FairSpec` asks weak fairness of the process: someone
runs apply again and the machine runs it. `DecodeStage!FairSpec` asks it of each
runner's next step and of the end of the stage: the event loop runs what is ready,
and local reads return. `EmbeddingPass!Spec` asks it of the workers' own turns, of
the timer and of the end of the pass; *not* of the network or the server, which may
stall for ever. Users, crashes and faults are never fair.

**What the models made visible**, beyond the findings:

- a write between the read at `file_transaction.ts` 295 and the rename at 302 is
  lost, though 292-293 promise compare-and-swap;
- recovery of a `complete` journal refuses once a committed target was edited
  (621), though every backup is gone: 81-82 and `apply.ts` 245 announce it is
  finalized;
- four live publishers of one host can overlap with no crash inside a takeover
  (`corpus_publish.ts` 258), which ADR-077 (84-85) thinks necessary;
- with three publishers of one host and a crash, a guard moved aside by mistake can
  be linked back after its owner has ended (269), and stays until the next takeover;
- a publisher killed between open and write of a lock leaves an empty file that
  refuses every later publisher (197-203); `LonersPublish` excuses this, and the guard of
  the item before, which refuses a publisher that runs alone;
- retention knows the order of the switches on record only, of which there are at most
  `HistoryLength` or as many as are to be kept: a generation that has fallen off is pruned
  first, even where fewer than were to be kept of those after it still stand, as some were
  pruned and published again (`RetainsTheLatest` allows it);
- of two archives that share an extraction directory a dry run charges both and a real run
  only one, so that a third may be refused that the dry run foretold, or pass;
- a retained generation published again is deleted and rewritten (482) under readers
  that resolved it earlier;
- a container deleted before its decoder opens it fails the whole scan
  (`corpus_scan.ts` 1033; ADR-059, 54-58, says the run continues);
- two artifacts without a hash compare as unchanged (`corpus_diff.ts` 8-11 says
  otherwise), and a file replaced during an observation by one of equal size and
  mtime keeps the old hash until a full run;
- `A.zip` and `A.ZIP` share one extraction directory; what a crash left of a nested
  expansion is visited by the next run as if it stood at the root's depth; an empty
  member is refused once the allowance is used up exactly (`zip_reader.ts` 642);
- a *file* that cannot be read makes a check throw out of its first snapshot
  (`check.ts` 75, before the `try`) instead of being reported as drift, which the
  comment at 56 and INV-017 ask for;
- the two snapshots of a check compare contents, so that what is changed and changed
  back goes unnoticed. That shows where an apply worked under the check on what somebody
  had made of a path, or on an index somebody had changed: a path is put under a
  protecting rule, the apply drops its record, the rule is taken back, and the check,
  which compared before, passes over a path that is no longer indexed. `PassedMeansClean`
  excuses these (`UndoneBehind`) and, as the proof shows, nothing else is needed; it takes
  two acts of a person, which is beyond the bounds of `parts`;
- a metadata value that holds `?>` ends PHP mode inside a `//` carrier:
  `carrierForbiddenSequences` (`comment.ts` 212-220) has no entry for it, though
  `inject.ts` 157-159 says that no value can end the comment it stands in;
- a block list cannot be patched to the empty list: what is written reads as an empty
  block and is refused (`frontmatter_patch.ts` 467), so the old list stays;
- a managed string such as `R &D` or `use *args` is refused: its quoted rendering is
  inspected again and the word taken for an anchor or alias (`frontmatter_patch.ts` 275,
  662-663), and in an inline list so is an item that ends in a backslash (224);
- a server that reports no revision and is upgraded in the middle of a pass has its vectors
  mixed unnoticed where their lengths agree (`corpus_embeddings.ts` 499);
- a sidecar written as a fallback stays, stale, when a later run succeeds in writing
  the header; an edit between a run's look and its write leaves a carrier dated by
  the tool's own write.

## 4. What is proved

TLAPS checks each of these for all values of the constants, so for any number of files,
processes, runs, edits, crashes and faults.

| Theorem | Says | Rests on |
|---|---|---|
| `FileTransaction_proofs!TypeCorrect` | `TypeOK` | – |
| `…!CompleteIsNeverUndone` | `CompleteIsFinal` | where `pc` can be while the journal says `complete` |
| `…!UserWorkIsSafe`, `…!RollbackIsModest` | `UserWorkSurvives`, `RollbackTakesOnlyItsOwn` | `~CheckActRace`; `IInv` of `FileTransactionInv` |
| `…!NothingIsOrphaned`, `…!RollbackIsWhole` | `LeftoversAreJournaled`, `RollbackRestoresAll` | `HInv` of `FileTransactionInv`, the race allowed |
| `…!ApplyIsAtomic` | `IsAtomic`, the refinement of `AtomicApply` | `~CheckActRace`, `~StaleWriters`; `SInv` of `FileTransactionInv` |
| `GovernedRuns_proofs!ScopeInvariant`, `…!AppliesStayInScope` | `AppliesKeepToTheirScope` | – |
| `…!PassedChecksAreRight`, `…!AppliesMakeCurrent` | `PassedMeansClean`, `AppliedIsCurrent` | `RanksAreApart`, `ScopesAreOfPaths`, `PeopleWriteNoIndex` |
| `…!AppliedRepositoriesPass` | `AppliedStaysClean` | the same, `PathsExist` |
| `Publishing_proofs!TypeCorrect` | `TypeOK` of the lock | – |
| `…!OnePublisher`, `…!LivingKeepTheirLock`, `…!OtherHostsAreLeftAlone`, `…!LockIsExclusive` | `AtMostOnePublisher`, `TakenOnlyFromTheDead`, `OtherHostsKeepTheirs`, the refinement of `ExclusiveLock` | `[][JudgedOnly]_vars` |
| `…!NothingLeftWedgesALoner` | `LonersPublish` | `LeftoverAssumption` |
| `…!ReadersFindAWholeGeneration`, `…!PublishIsAtomic` | `CurrentIsWhole`, the refinement of `AtomicPublish` | an exclusive lock |
| `…!PublishingRetainsTheLatest` | `RetainsTheLatest` | the same |
| `DecodeStage_proofs!TypeCorrect` | `TypeOK` | – |
| `…!CacheHoldsTheTruth`, `…!ReportsTellTheTruth` | `CacheIsTrue`, `ReportIsTrue` | `~PartFaults` |
| `…!NothingSkippedUndone`, `…!MemoryIsKept` | `CompletedIsStored`, `BudgetHolds` | – |
| `CorpusHistory_proofs!HistoryInvariant`, `…!OneMoment`, `…!VerifiedIsRead`, `…!ContinuityIsSomebodysClaim` | `SnapshotIsOneMoment`, `VerifiedMeansRead`, `ContinuityIsClaimed` | `HistoryAssumption` |
| `…!DiffIsComplete` | `DiffReplays` | `HistoryAssumption` |
| `Archives_proofs!BudgetIsKept` | `BudgetHolds` | `PolicyAssumption` |
| `…!PreflightIsExact` | `AcceptsWhatIsSafe`, of any central directory | `PolicyAssumption` |
| `…!UserDataIsSafe`, `…!ExtractionsSurvive`, `…!StraysAccounted` | `UserDataSurvives`, `ExtractionSurvives`, `StraysAreAccountedFor` | `PolicyAssumption`, `DirectoryAssumption`, `ContentsAssumption`, `ExtractDirAssumption` |
| `…!MarkedAreWhole`, `…!DryRunsForetell` | `ExtractionsAreWhole`, `DryRunForetells` | the same |
| `Parts_proofs!InterpretationsStayCurrent` | `InterpretationsAreCurrent` | a document has one transcript per set of paths |
| `…!CarriersAreTrue`, `…!OneRunSettles` | `CarriersTellTheTruth`, `RunsSettle` | `WalkAssumption`, `AbsentAssumption` |
| `…!EveryCarrierRoundTrips` | `CarriersRoundTrip`, for any metadata, file type and text | `NowhereAssumption`, and what a file type is (below) |
| `…!EveryPatchIsExact` | `PatchesAreExact`, for any document, managed fields and order of keys, and any sets of values that read back | what a line and a request are (below) |
| `Semantics_proofs!NearDuplicatesAreExact`, `…!TopicPairsAreOffered`, `…!TheJoinsAreExact` | the indexes lose no pair and no topic, for any corpus, scale and threshold | `JoinAssumption` |
| `…!AModelOnlyAdds` | `EmbeddingsOnlyAdd`, for any corpus, readings and keyphrases | `FeaturesAssumption` |
| `…!EveryPackAddsUp` | `PacksAddUp`, likewise, for any budget | the same, `ClaimsAssumption`, `BudgetAssumption` |
| `…!OneRevision`, `…!ComparableVectors`, `…!NoHalfEmbeddings`, `…!LateAnswersDropped` | `OneRevisionAnswers`, `VectorsAreComparable`, `NothingHalfEmbedded`, `LateAnswersAreDropped` | `PassAssumption` |

The assumptions on constants are mostly typing: a policy and a budget hold numbers, a
central directory is a list of entries with names, kinds and sizes, `None` and `Nowhere`
are none of the values they stand beside. Those of GovernedRuns say besides that paths are taken one after another (they
are sorted, and different), that a scope is of paths, that nobody but an apply makes an
index valid (people remove, damage, upgrade it or take a record away), and that there is a path at all: a repository without any is covered before
an apply has written its index. They stand in the modules that declare the constants, and TLC evaluates them.

*FileTransaction.* `UserWorkSurvives` is not inductive: that a step may delete a
backup follows from what an earlier step verified. `IInv` adds, per `pc`, what has
been established and is still true because no write falls into the excluded
windows: the verified backup holds the planned original, a staged file the new
bytes, and an entry's mark never runs ahead of the disk. `HInv` needs no such window. It
follows the two kinds of leftovers by the loop that disposes of them: a file with no
entry still to visit has no staging file, and as long as the transaction may be rolled
back, a backup or, without one, the target is what was planned from or what its user
left since. So what a rollback has visited without a complaint is restored.
The refinement maps each file to what a rollback at this moment would leave of it.
`SInv` adds what that is at each step: an entry that is done holds the replacement, or
what its user made of it since (`ReplacedInv`), and one that has been rolled back stands
for itself (`ReturnedInv`). A lemma per action then names its abstract step: the first
journal written is `Begin`, be it by the run or, if that write failed, by its rollback;
renaming and linking are `TakeOver`, the ways back `GiveBack`, the mark `complete` is
`Commit` and the removal of an incomplete journal `Abort`; a user's acts are themselves
and all else, a crash included, changes nothing. With `StaleWriters` the mapping does not
hold: a program that writes into a backup changes the file as a rollback would leave it.

*GovernedRuns.* That a commit changes no body has to be carried over three reads of
a file between which it may be rewritten. An edit never brings a body back, so
bodies at one path only grow, and planned body ≤ weighed body ≤ present body
(`HeldOK`); what is rendered as planned is therefore what was weighed (`RenderedOK`),
and the commit compares that with the disk. Records out of scope are those of the
index the plan was merged with (`RecordsOK`), which the commit compares as well.
What a run holds was read at different moments, and is right all the same of every path
nobody touched since it began: `SightInv` says so of the ledger, what was seen and what
is planned (`View`), and of a check also for a path somebody touched whose body is still,
or again, that of the first snapshot, as then it has stood all along (`Stood`). So an
apply leaves current what it took and nobody touched. For a check, `CheckInv` adds what
the applies under it may have done. If none changed a thing, whoever else touched the
index took records away, so that an index equal to the snapshot's was whole when it was
compared (`NoApplyOK`). If one did, nobody touched the path or the index: then either
the snapshot's index was already right of the path, or an apply that began after the
check has made it so, and an apply never undoes that (`AppliesOK`). `CoveredInv` keeps what applies covered
current until somebody touches it; a check that nothing happens under then finds its
first snapshot at every step (`StillOK`), nothing refuses it, and what it compiles is
the index itself, record by record.

*PublishLock.* The hypothesis of the first four, `JudgedOnly`, says of a rename that the
guard it moves aside is the one that was judged dead, or is gone; that the dead are reaped,
any number of times, is allowed. Then a guard stands for whoever works under it (`GuardInv`),
so between the second look at the lock and its removal nobody else evicts, and what was
judged dead stays dead and ran on this host (`StaleInv`). Without the hypothesis the
theorems are false from four live publishers of one host on; `publishing` shows that three
are safe whoever reaps. `NothingLeftWedgesALoner` needs no such hypothesis: a publisher
that runs alone sees files nobody moves any more (`AloneInv`), so what it has read still
stands there at each of its steps (`SeenInv`), and what any publisher can have left behind
on its way to where it ended is known (`TrailInv`).

*CorpusPublish.* What is being rewritten is never what the pointer names
(`ApartInv`), what has been written is whole (`WrittenInv`), and the pointer's
generation is never on the list to prune (`PruneInv`). Retention counts: the record
lists generations by their latest switch (`OrderInv`, `RecordInv`), what has fallen off it
has more than `HistoryLength` later ones (`ForgottenInv`), and what is put on the list to
prune comes behind `keep` that stand and are not (`ListedInv`). A generation published
again moves to the front, so its old place must be left out of the record and nothing else
(`LeavingOneOut`).

*DecodeStage.* The heart is `HeldStill`: stats only grow, and while a container's
stat equals the first one taken, the file still holds the hashed content and
everything read since came from it. With `PartFaults`, `decode_parts` shows how it
fails. `CompletedIsStored` needs neither: with the types it is inductive, as a session
is told of a document only after its stores. For the memory, a sum over the runners is
counted: the bytes of a document are numbered, `inFlight` is the cardinality of the set
of numbered bytes of those that hold memory (`BudgetInv`), and a step adds or removes
those of one document.

*CorpusHistory.* The invariant follows a hash through four places. While a root is
hashed, what has been listed is hashed or will be (`ListedInv`), a hash that was read is
that of a version the file has had since the listing, under the time it was read at
(`ReadInv`), and one that was not read is what the run before knew of the root with this
key, under the listed time (`CarriedInv`). When the second listing agrees, the root tells
what the mount point showed then, but for the doubts (`RootGood`). And a comparison goes
on only with the keys an operator vouched for (`AskInv`). The diff is proved as a
function: artifacts of one hash are paired by their rank, which is a bijection between
as many of each side as the shorter one has.

*ArchivePreflight.* What the accumulator holds after `n` entries is what the first `n`
entries say: each of its parts is proved by a walk over the fold, so the verdict is that
of the reference, which asks of all pairs at once.

*ArchiveExpansion.* `RunInv` says where the run is and that what it works on has been
accepted. The other parts rest on it and on one fact about names, `FreshInv`: whatever
bears the mark of this very run is at its candidate or its backup, so the two places it
writes at are its own, and anything else marked is left of an earlier run and never
touched. `UserInv` adds that a user's directory stands at the top and is never the target
while it is moved out: `MayReplace` is asked again behind the last call a user can fall
behind. `CandInv` says that the candidate holds the first `written` members and nothing
else; as members stand apart (`PreflightIsExact`), none replaces another, and what is
marked is whole. A whole directory stays so because a step changes it only by moving all
of it. `SafeInv` finds every extraction in place, set aside for a moment, or astray, which
takes a crash or a failure; `StrayInv` counts what is astray. `BudgetInv` is that of the
numbers: what is kept is at most what is accounted for and what is being written.
That a dry run foretells a real one relates two runs. The first makes out a bill: what is
charged for each archive of its list, in the order of the list, and which pass (`DryRun`).
The second finds every archive, and every directory that was free, as the first found them
(`Alike`): all that has changed is below a directory one of the visited archives may
replace, and an archive that a walk finds is not below one. So it keeps step with the bill,
entry by entry and member by member (`RealRun`), until it comes to the archives it
extracted itself, which the first foretold nothing of (`Beyond`).

*InterpretationCache.* An entry of level two stands under its own questions and
answers, whoever put it there, and a document has one interpretation that agrees
with a given root: so a hit is right.

*InventoryAnnotation.* A digest and the time beside it in any carrier, or in the hands of
the run, were once true together, of this entry (`TreeTellsTrue`, `LookIsTrue`); behind an
undisturbed run stands what a run of that time would write again (`BehindIsFinal`), and
so does everything once one has ended (`SettledIsFinal`).

*EmbeddingPass.* The invariant ties each worker's partial answers to the revisions
it was told of, silent ones aside, and to the dimension of the pass, and every document
before the cursor to a vector or to the worker that holds it.

*SimilarityJoin.* Two sets that reach the threshold share more elements than lie
beyond the prefix of either, so the rarest shared element is in both prefixes; the
length of the prefix is cut for the lowest exact score that still *rounds* to the
threshold. A topic is a component. A label is the same for two documents only if no closed
set holds one of them without the other, which every union keeps; and two documents the
threshold joins have one label once the later of them has been visited, whether it found
the other in the index or skipped it because they were together already.

*SemanticPass.* With embeddings every pair keeps its signals and may get one more
(`Enlarges`). A signal more never lowers a class nor takes an edge from a project
(`ClassesGrow`); more edges join components and split none (`ComponentsGrow`); and a
candidate that has grown is still asked about: names, statuses, ancestries and bodies only
become more, a document more brings at most one cluster more (`MixedStaysMixed`), and a
sum over more documents is no smaller. A pack is a walk through its items in the order
they are charged in, which is a listing of all of them as ranks are a bijection
(`RanksList`); at each step what is used is the sum of what is kept, and what was left out
did not fit behind what was kept before it (`SpentWell`).

*CommentCarrier.* The rules about how a file begins cannot tell a file with its block from
the same file without: up to the carrier position it says the same, and then comes a line
no rule asks for (`BeginsAs`). So the position stays where it was, under each of the six
prologues (`PositionKept`); the block laid there is the first one found, by the form it is
written in (`BlockFound`, `HeadIsFirstHit`); and what a host reads for where it stands is
in front of it (`CountsWithin`). What is taken out again is what was put in, the end
supplied to a last line included (`SupplyTakenBack`). The hypotheses say what a file type,
a text and the metadata are. The delimiters of a form are lines of their own: they are no
line of the metadata, which is escaped, and no line that must come first; and two forms of
one type open differently. A word that must come first is found in files of its own
language. Only the last line of a text may lack its line feed. And the first line of the
metadata is not a PEP 263 cookie: it is the record's `id` (`schema.ts` 71), and behind an
opening delimiter it would stand in the file's second line. Every text the run checks meets them.

*FrontMatter.* A patched header is the old one, moved. Each of its lines stays where its
predecessors leave it, or is set, or belongs to a list that is written anew (`ComesFrom`);
so fields and lists are found again at known places (`FieldMoves`, `ListMoves`), and the
flattened sequence the patch builds is the one laid out so (`FlattenIs`). What is not
managed is walked over in the same order before and after (`OthersStay`). The new header
reads as the old one did, with its fences, one newline and no key twice, unless a list has
become empty, which no header can say (`ReadStays`, `EmptiedIsUnread`). What reads back as
rendered does so again on the new header, where a list stands as it stood (`ReadingStays`);
what does not is refused, and excused from the claim that a readable header is patched. And every line of
it is what a second patch would put there (`PatchSettles`, `PatchedOnce`), so two runs
write what one writes. A document without a header is patched as if it had an empty one
(`PatchOfNone`), which is refused where the text behind it looks like another. The
hypotheses are that a value is a sequence of items, one if it is no list, and that
`KeyOrder` names each key asked for, once. Every text and request the run checks meets them.

**Folds and recursive functions.** The library's induction rules take an operator as a
parameter and cannot be used here. What is proved of a fold is proved for the one fold at
hand: its value is the end of a walk of partial results, and if some prefix broke the
claim, the shortest that does (a least element, by `WFMin` of `WellFoundedInduction`)
would be one step behind one that keeps it.

**Only model-checked**: liveness, where fairness and ENABLED are out of the prover's reach
(`PendingIsResolved`, `RunsEnd`, `StageEnds`, `EveryPassEnds`). Every other property a
passing run checks is a theorem, or is the sum of some: `ReferencesAgree`, which puts six algorithms of `MCParts`
side by side on their small instances, is six: `TheJoinsAreExact`, `PreflightIsExact`,
`AModelOnlyAdds`, `EveryPackAddsUp`, `EveryCarrierRoundTrips` and `EveryPatchIsExact`, each
for every input and not only for those of its instance. `TypeOK` of the modules without a
`TypeCorrect` was checked with TLC while they were written; where an inductive invariant
needs types it states them itself.

## 5. Not modelled, and what is left

Not modelled: the grammars of decoders, extractors, archive formats and YAML (text
in, data out; nothing persists); classification, report assembly and readiness
(one run's data, without control to interleave); Git subprocesses; the command
line's arguments; the remote models behind `llm.ts`; the Darwin search index. Of the
modelled components, what each *Left out* above names.

Next, in order of what could go wrong most expensively:

1. Two applies of one repository at once, over FileTransaction's steps.
2. Tracked (v2) operations: `runTrackedCheck`, `runTrackedApply`, migration of the
   index, with the Git snapshot they are bound to.
3. The remaining completion sets of the resume session and the cache's accounting.
4. Pure algorithms against references: the grammar and
   escaping of YAML values, `glob.ts`, lineage and version candidates, the readiness gates.
