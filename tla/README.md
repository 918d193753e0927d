# Multimodal Knowledge Engine: TLA+ specifications and proofs

The engine ingests PDF, video and audio files into a local SQLite *Library*, turns each file into
*Evidence* (text with a page or a time range) and serves that Evidence to Search, browsing, exact
reads and export, through a command line and an MCP server. Its promise is about *Publication*: a
Run that failed, was cancelled, is partial or was overtaken must never become searchable, and
whatever is searchable comes with its provenance.

This directory models that promise and the machinery that keeps it, checks the models with TLC on
small instances, and proves the most important results with TLAPS for all instances. Source paths
below are relative to `src/mke/` of the repository.

## 1. Inventory

| Component | State it keeps | Operations | Interacts through |
|---|---|---|---|
| **Store** `adapters/sqlite`, `domain` | Libraries, Assets, Sources (active Publication, active revision, requested generation), Runs and their events, Evidence, RunManifests, Publications, active FTS rows, intake reports | `create_run`, `mark_*`, `interrupt_unfinished_runs`, `persist_validated_candidate`, `persist_pdf_intake_report`, `activate_publication`, `ensure_source`; reads | one SQLite file in WAL mode, shared by all engines, threads and processes |
| **Pipeline** `application` | a Run in the hands of one call | `ingest_pdf/video/audio/file`, `reprocess_pdf`, `retry_pdf`, `prepare_pdf_candidate` | calls the store, extractors, providers, the admission controller and the commit claim |
| **Supervision and cancellation** `adapters/video/process`, `adapters/video/providers`, `interfaces/mcp_server` | registered children per operation, cancelled and committing operations, the shutdown latch | `begin_/end_operation`, `register`, `unregister`, `begin_publication_commit`, `cancel_operation`, `shutdown`, `run_supervised_process`; the ingest coroutine | one lock; worker threads, event loop, child processes |
| **Admission** `runtime_owner` | active leases, waiting threads | `acquire`, `release`, `snapshot` | a condition variable shared by all engines of an owner |
| **Owner state** `runtime_owner`, `runtime` | databases already recovered, cursor key and epoch | `recover_unfinished_runs_once`, `build_engine` | runs the store's recovery when an engine is built |
| **Catalog** `adapters/sqlite` | Assets by digest, Sources by Asset | `ensure_default_library`, `_ensure_asset`, `ensure_source` | several transactions per ingest |
| **Loss-aware reads** `application/evidence_access`, `mcp_cursor`, `source_cursor`, `source_search_cursor`, `interfaces/mcp_completeness_contract`, `source_discovery`, `source_search` | nothing; the cursor carries the position | search page, exact read by chunks, list and browse Sources | cursors signed with the owner's key, bound to the set of active Publications |
| **Retrieval** `retrieval`, `adapters/sqlite` | nothing | FTS query, CJK scan, ranking, caps | reads the active projection |
| **Library export** `adapters/filesystem/library_export`, `application/library_export` | a directory being written | `publish_compiled_library` | renames the manifest last, as commit marker |
| **Artifact refresh** `evaluation/artifact_refresh` | the checked-in retrieval artifacts, a transaction directory with backups and a journal | `refresh_artifact_set`, `recover_artifact_refresh` | the file system; a call recovers what an earlier one left |
| **Input authority** `interfaces/input_authority`, `adapters/audio/inspection` | bound descriptors, private copies | `bind_allowed_file`, `materialize`, audio snapshot | the file system, which others change meanwhile |
| Embeddings, vectors, evaluation, proof demos, CLI, scripts | offline | measurements | use the engine, keep no state in it |

What is hard, and what makes each component correct:

* **Store.** Two Runs of one Source are created, validated and activated in any order, by threads
  and processes that do not know of each other; recovery sweeps Runs a live worker still holds.
  Correct: one gapless Publication history per Source, the newest request wins, no lost update, the
  FTS projection is exactly the active Evidence, candidates are immutable once validated, settled
  Runs stay settled, the event log explains the state, every Publication passes the provenance checks.
* **Cancellation.** Commit and cancellation race; a child may be started but not yet registered; a
  child may hang; a terminator may fail; shutdown overtakes all of it. Correct: one winner, a
  truthful answer, nothing left behind, termination hits only the cancelled operation, and the
  cancelled call ends.
* **Admission.** Deadlines, notifications and newcomers meet at one condition variable. Correct:
  both counters exact and bounded, no lost wakeup, overdue waiters leave.
* **Owner state and catalog.** A crash between two transactions, a second owner, two processes that
  register one file. Correct: recovery once per owner and never against its own Runs; one Asset and
  one Source per file.
* **Reads.** The Library changes between two pages, or the owner restarts. Correct: pages and chunks
  of one cursor chain belong to one set of Publications, each item exactly once; otherwise expired.
* **Artifact refresh.** Five files must change together; the process may die between two of them, or in
  the recovery from that. Correct: a mixed set can always be restored, and success means the whole new set.
* **Export, input authority.** A failure after any file; a file replaced while it is read. Correct: a
  directory with a manifest is complete; the bytes ingested are the bytes whose digest names the Asset.

The hazards, each at its line and with the properties that watch it, are in `PROJECT.json`.

## 2. Modules

| Module | What it is |
|---|---|
| `ActivePublication` | abstract specification: what Search is promised, Source by Source |
| `RunLifecycle` | the store; one action per committed transaction |
| `MCRunLifecycle`, `lifecycle_*.cfg` | its instances |
| `RunLifecycleProofs`, `RunLifecycleStepProofs` | its proofs: invariants; action properties, event logs and refinement |
| `CancellableIngest` | abstract specification: what the caller of a cancellable ingest is promised |
| `IngestOperation` | ingest calls of one MCP owner: coroutine, thread, children, controller |
| `MCIngestOperation`, `operation_*.cfg` | its instances |
| `IngestOperationProofs` | its proofs |
| `AdmissionController` | the bounded admission controller and its leases |
| `MCAdmissionController`, `admission.cfg` | its instance |
| `AdmissionControllerProofs` | its proofs |
| `LibraryExport` | the publication of an export directory, with its clean-up |
| `MCLibraryExport`, `export.cfg` | its instance |
| `LibraryExportProofs` | its proofs |
| `StoreConnections` | ingest calls of several owner processes at the level of SQL statements: snapshots, catalog, recovery latch; shown to implement `RunLifecycle` |
| `MCStoreConnections`, `connections.cfg` | its instance |
| `StoreConnectionsProofs` | its proofs |
| `EvidencePaging` | the five paged reads: cursors, pages, chunks, budgets, restarts and publications in between |
| `MCEvidencePaging`, `paging.cfg` | its instance |
| `EvidencePagingProofs` | its proofs |
| `AtomicReplacement` | abstract specification: what the replacement of a set of files promises |
| `ArtifactRefresh` | the journaled replacement of the checked-in retrieval artifacts |
| `MCArtifactRefresh`, `refresh*.cfg` | its instance |
| `ArtifactRefreshProofs` | its proofs |

`StoreConnections` instantiates `RunLifecycle`, which instantiates `ActivePublication`: three levels,
from SQL statements of interleaved connections to what Search is promised. `StoreConnectionsProofs` cites
the theorems of the level below for the instance its tables make, so that they hold of connections too.
`IngestOperation` and `ArtifactRefresh` each implement an abstract specification of their own.

### RunLifecycle

Each variable is one or two tables: `source` holds the three columns of `sources` that Publication
uses, `run`, `evidence`, `manifest`, `publication` (the revision of the Run's Publication row),
`fts`, `pdfReport` (intake report with its raster observation), `transcript`, `events`. Each action
is one method of `SQLiteStore`, from its first statement to its commit. An operation that raises
rolls back and is a stuttering step, so an error path of the store is the *absence* of a step; the
failure points that tests inject inside a transaction need no step of their own.

That a store operation may be taken as one atomic step is not assumed: `StoreConnections` takes the
operations apart and shows it (`ImplementsLifecycle`).

`_transition_run` is `CompareAndSet`; the event it appends belongs to the same step.
`activate_publication` is `Supersede` or `Publish`, with every check of its body as a guard. Evidence
text is an opaque item; what a report tells the store apart is a record of three or two fields. The
inputs are those the pipeline can hand over: non-empty candidates, the Source's own Asset or, for
`reprocess_pdf` and `retry_pdf`, any file (`ProcessedAssets`); reports by kind of Run (`Offered`).
`pdfReport.raster` says that flags were observed; a row is never updated once it has them.

`VisibleRows` and `GraphValid` are what readers compute: the join of Search, and the provenance
check in front of list, paged search, browse and export.

`ActivePublication` has two actions, `Request` and `Switch`. `ImplementsPromise` is the refinement:
what Search sees (`VisibleRows`) changes in one step from one complete candidate to another, always
to the newest request.

### IngestOperation

Each operation has a coroutine (`client`), a thread (`worker` with the stages it still has to run),
its last child process and its Run as the worker sees it; the controller's four fields are shared.
One action is one critical section of the controller's lock, one store transaction, or one step of a
child. What the source does after the unlock is a separate action: the terminators of
`cancel_operation` and `shutdown` run one at a time (`CancelTerminates`, `ShutdownTerminates`), and
`register` calls its terminator in a step of its own (`TerminateRefused`). While a terminator waits
on the event loop's thread no other coroutine moves (`LoopFree`), worker threads do.

Routes are `Stages`: a PDF is extracted in the thread, a video has one child, an audio file is
inspected by one child before its Run exists and transcribed by another after. `Stubborn` operations
have a process group that may outlive SIGKILL for longer than the grace period, where
`terminate_process_group` raises. `Settle` is the exception handlers, with the differences between
routes: only audio gives up a validated Run, and an SQLite error of a PDF's candidate is caught by
nobody. `OtherOwnerRecovers` is a second owner on the same database.

`CancellableIngest` is the race reduced to one latch per call: `Cancel` or `Claim` takes it, for good; only
who holds the commit may `Publish`; one `Answer` says who won. `Fate` is the refinement mapping: the latch
is what the controller's two sets say until the caller is answered, and over from then on, also where
`end_operation` raises and forgets nothing.

Left out: operations without an id (command line), tear-down of the event loop (which would cancel
the worker task itself), the sampling of memory footprints and output limits (each is `GiveUp`), and
admission (a refusal is a stage that fails).

### AdmissionController

One action is what a thread does while it holds the condition's lock. `sleeping` is the wait set of
the condition; `notify(1)` removes any one sleeper. `expired` says whose deadline passed. A wait that
timed out stays in the set until its thread has the lock again, so that a notification may still hit
it. `AdmissionLease.release` takes two locks, hence `Release` and `ReturnSlot`. A call with timeout 0
(the only one the pipeline makes today) is `AcquireAtOnce` or changes nothing; `AcquireWaits` is the
contract the class offers and its tests use. `snapshot` only reads.

### LibraryExport

A call works through descriptors, which are bound to its own directory whatever the output name
leads to; hence one `tree` for each export and one `target` for the name. `Plan` is the order of
creation; `owned` is the code's list, which the clean-up empties from its end, and in which
`_rebind_published_manifest` renames one entry (`Rebound`). An entry is absent, the call's own
(being written, as planned, or with bytes changed in place: same inode) or somebody else's. Each creation,
write, check, removal and the rename is an action. A check that does not hold raises, and so may
every system call: `Fail` stands for both, `LoseNewEntry` for a failing `stat` of what has just been
made, `Kill` for a kill or an exception no handler names. `_cleanup` notes an error in `complete` and
goes on; the outcome is `cleanup_failed` if anything was noted or the last `rmdir` fails.

`DisturbFile` and `DisturbTarget` are everybody else: a file put there, replaced, removed or changed,
the directory moved away. The files of a revalidation are read in one step: with every disturbance
placed before or after the step by whether its own file had been read, the outcome is the same.
Taken together with the call they guard are `mkdir` and the `lstat` of the new directory, and an
identity check and the `unlink` or `rmdir` after it; replacement between those two is outside the
repository's stated scope ("exhaustive same-account inode replacement at every internal micro-step
is not a core-PR blocker", export implementation plan). So is a replaced `sources/` or `evidence/`
directory outside the model. The rename puts the manifest over a file of that name that somebody else
placed after the first inventory; `ForeignSurvives` leaves that path out. No file is synced to disk,
so that the crash here is that of the process, as in the documentation, not of the machine.

### StoreConnections

Each ingest call has an engine and a connection of its own in one of several `Owners`, which are
incarnations of a process: they start, die, and are replaced by others, also side by side. `db` holds
the committed tables, `view` what each connection has in its snapshot. With autocommit off a
connection is always inside a deferred transaction: its first SELECT (`TakeSnapshot`) takes a snapshot that
outlives the method which read, and a write is accepted (`MayWrite`) only if nobody has committed
since; otherwise SQLite refuses at once, which raises. From its first accepted write to its commit a
connection holds the write lock, so the rest of the transaction is one step (`Commit`). Looking an
Asset or a Source up and inserting it are separate transactions (`EnsureLibrary`, `EnsureAsset`,
`EnsureSource`), so that calls on the same file interleave at every gap; `Selected` is the Source the
call then uses, which for `reprocess_pdf` is the first of the Library whatever file was given. It asks
for that one once, before it has inserted anything (`Reuses`, in phase "selecting"); a call that had to
make a row of its own ("ensuring") uses the Source of its file, even if another has appeared meanwhile.

`EnterRecovery` and `Recover` are the two halves of `recover_unfinished_runs_once`: the lock is held
while the sweep runs, and the latch is set only if it committed, so a refused sweep is tried again by
the next call. The death of an owner (`KillOwner`) ends its calls where they are and leaves the tables.

`ImplementsLifecycle` maps the tables to `RunLifecycle`, a row being named by the call that inserted
it. Cursors, reports and children are not in this module; `prepare_pdf_candidate` and `retry_pdf`'s
choice of a Source (the Run's own) neither. One thing to know that no property here forbids: after an
SQLite error in the persist of a PDF candidate the Run of a *live* owner stays running, until another
owner starts (`LoseRun`). A Run left validated by a dead owner is not swept; ADR-0002 keeps it for a
retry, and no code retries it.

### EvidencePaging

A call is two steps of one read transaction: `Validate` takes the snapshot and checks in it first the
active set and then the cursor, `Select` reads the page from that same snapshot. Publications, a restart
of the owner (new key, new epoch) and a lost answer come between any two steps. The server keeps nothing
between calls: `cursor` is the epoch, the fingerprint of the active set and a position. `Verdict` is the
order of the checks, `Refusal` that in which a cursor is refused. `final` is a history variable: the
snapshot of the call that ended a chain.

The check of the active set (`AuthorityProblem`) looks at *every* active Publication, whatever the call
asks for. One made from other bytes than its Source's, which `lifecycle_revised` reaches by legal calls,
makes it raise before the cursor is looked at (`Trusted`): `source_search` then answers
`evidence_not_found`, the other tools `internal_error`, and none of them `active_set_changed`, though that
is what happened to the client's chain. For `list_sources` and `browse_source_evidence` a label of any
active Source beyond its limit has the same effect, as `response_too_large` (`LongLabels`). No file that
the pipeline ingests makes a label that long; a row that has one is what
`tests/adapters/test_sqlite_source_discovery.py` puts into the store (lines 271 to 293), and so does the
model. An `extraction_mode` beyond its limit (`LongMode`) refuses the pages that describe its Source.

What there is to hand out is `Pool`: Evidence rows, Sources, or for an exact read the code points of
one text. `PageLength` shrinks a page of excerpts until its envelope fits (`Shrinks`). `search_library_v2`
does not do this and refuses a page of which a shorter one would fit, although the design of 2026-07-25
foresees `response_too_large` only "if mandatory metadata cannot fit"; `RefusedOnlyIfItMust` says of each
tool what it does (`TooLarge`). `ChunkLength` is the byte
arithmetic of `read_utf8_chunk`, with texts given by the offsets of their code points. `Candidates`,
`Oversized` and `ScanRefused` are the limits of the preflight: a text beyond the readable limit among
a page's rows refuses the whole page, as `internal_error` in `search_library_v2` (no handler names
that exception) and as `response_too_large` elsewhere. `Discarded` is the cap of the scan strategies,
which only a search of the whole Library can meet: within one Source their limit is the candidate pool.

Which rows an active set selects for a request, and their order, is the constant `Selected`: retrieval is a
pure function of the active set. Left out: malformed, foreign and altered cursors, matching an excerpt to a
query, JSON, locator filters, and of what the check of the active set looks for all that no operation of the
store brings about (a missing or ill-typed row, a wrong count, a second Library). Sizes are numbers of
bytes; an excerpt takes the smaller of text and limit, where the code may stop up to three bytes short.
`retrieval_policy_changed` cannot happen without a new owner, and `evidence_changed` not at all, as Evidence
rows are never rewritten.

### ArtifactRefresh

`target`, `backup`, `journal` and `directory` are the disk, `pc` and `index` the place in
`refresh_artifact_set` or `recover_artifact_refresh`; a file's content is the number of the call that
staged it. Every write, replacement and removal is an action; `shutil.rmtree` removes entries one by one
in any order (`RemoveBackup`, `RemoveJournal`, `RemoveDirectory`). `FailRefresh` and `FailRecovery`
are an exception or handled signal at any of them, `Kill` the death of the process. `torn` is a history
variable: a removal was cut short after a backup had gone and before the journal had. What staging
and validation compute is a step that may fail.

`AtomicReplacement` gives the set one version, which changes in one step. The refinement places that step at
the first removal from the transaction directory: until then a recovery would restore the old set, and after
it the new set stands whatever is cut off. A version may be lost only as in `torn`. Loss of power and two
calls at once, which nothing in the code excludes, are not modelled.

## 3. Runs

| Run | Bounds | Distinct states | Question |
|---|---|---|---|
| `lifecycle_requests` | 1 Source, 4 Runs, 1 item | 180,086 | Is the history gapless, and does the newest request win, in every order? |
| `lifecycle_sources` | 2 Sources, 2 Runs, 2 items, 3 kinds, 3 PDF reports | 165,393 | Is the projection exact, the abstract specification implemented, every transcript backed, nothing validated rewritten? |
| `lifecycle_revised` | 1 Source, 2 Runs, 1 item, 2 files | violation | May a Source be reprocessed from other bytes? |
| `connections` | 2 calls on one file, 3 owners, 4 routes | 233,792 | Are rows unique, dead owners' Runs swept, own Runs spared, and is `RunLifecycle` implemented? |
| `operation_race` | a video and an audio call, audio stubborn | 655,761 | Is the race between commit and cancellation that of `CancellableIngest`, is the caller told the truth, is anything left behind? |
| `operation_live` | a PDF and an audio call, fairness | 105 thousand | Does a cancelled call end, does shutdown leave no child? |
| `operation_shutdown` | as `operation_race` | violation | Does shutdown reach every child when a terminator raises? |
| `admission` | 4 threads, 2 leases, 2 waiting places | 4,080 | Are the counters exact, and is no wakeup lost? |
| `paging` | 2 Sources, 10 requests, 2 Publications each out of 4 and 3 candidates, a restart, a lost answer | 127,344 | Do pages add up to one answer, and does each chain end for the reason given? |
| `export` | 2 exports of 2 Sources, 1 disturbance | 1,451,493 | Is anything left behind or removed that should not be, is a committed tree whole, and success exact? |
| `refresh` | 4 targets, 2 refreshes | 6,928 | Is `AtomicReplacement` implemented, and are the targets ever mixed for good? |
| `refresh_torn` | 3 targets, 1 refresh | violation | Can a mixed set be restored without exception? |

**Why the bounds suffice.** Four Runs of a Source are one more than any argument about the store needs (a
published one, one based on it, a newer request, and one that was overtaken while it ran). Two Sources show
that activation of one leaves the other alone, with two items so that a candidate can be a proper part of
another. Two operations are what targeting needs: one that is cancelled and one that must not be hit; an
audio call alone has two children, so a late registration follows an earlier one. Two leases with four
threads give a waiter that is notified, one that sleeps on and a newcomer. Two exports are needed for the
name to change hands; two Sources give a file that is neither the first nor the last. Two calls on one file
are what a race for its rows needs, and three owners let one die before, one sweep and one live on; routes
differ between the calls, as what they share is the catalog. One chain of cursors is enough, since chains
meet only in the database; its texts, of three sizes with code points of one to four bytes, lie on both
sides of every budget (page text 13, excerpt 2, content 8, model 7, pool 4, scan 44 bytes or rows), and two
Publications of a Source give one that changes under a chain. Beside two ordinary candidates each Source has
odd ones: an unsound one, one with too long a label, one with too long a mode. Four targets leave two
between the first and the last, and a second refresh starts from what the first has left, whole, mixed or
torn.

Runs are drawn from a finite pool, and this is the only bound on the store: it makes the system stop,
hence `CHECK_DEADLOCK FALSE` there and in `connections`; an operation or an export is called once and a
chain ends, hence the same in `operation_*`, `export` and `paging`. `admission` never stops and is
checked for deadlock, and so is `refresh`, where recovery can always be called again. Run ids are
symmetric in `lifecycle_requests` and `lifecycle_sources`, owners in `connections` and exports in
`export`, which check no liveness.

The type invariants are proved for every instance (section 5) and not repeated in the runs.

**Violations.**

* `lifecycle_revised`. `reprocess_pdf` and `retry_pdf` reuse a Source for any file. Activation does
  not compare the RunManifest's digest with the Source's Asset, the provenance check of the readers
  does: after a legal ingest and a legal reprocess of a revised file, list, paged search, browse and
  export raise for the whole Library. The tests and the command line of the repository expect
  reprocessing a revised file to work, and look only at plain Search.
* `operation_shutdown`. The owner-lifecycle plan says that `shutdown()` "terminates every child". Its
  loop does not survive a terminator that raises, so that children of other operations stay alive.
  `operation_live` shows that no child outlives a shutdown when no terminator raises.
* `refresh_torn`. A refresh commits by removing its transaction directory, journal included, with
  `shutil.rmtree`. A signal or failure after a backup is gone and before the journal is starts a
  rollback: it restores the targets whose backups are left, fails at the first missing one, and leaves
  the set mixed; every later recovery fails at the same place. The plan of that workflow says that a
  mixed set is always rolled back. `MixedIsRecoverable` is the same claim without that window.

## 4. Fairness

Safety runs need none. `IngestOperation` assumes weak fairness of each thread's own steps, of each
coroutine's ready callbacks and of the terminators of `shutdown`: threads are scheduled by the operating
system, asyncio runs ready callbacks in order, and a terminator has a deadline. It does *not* assume that a
child ever exits, that anybody cancels, that a deadline passes in time (`GiveUp`), or that shutdown is
called. `AdmissionController` assumes that a thread whose wait returned gets the lock; not that a lease is
released or that a deadline passes. `EvidencePaging` assumes that the client asks for the next page and that
the server takes the next step of the call (`Validate` or `Select`); restarts, publications and lost answers
are bounded in number, not fair. Weak fairness is enough for admission because a thread that may resume
stays able to: only its own step takes it back to sleep, when another took the slot.

## 5. Proofs

The constants carry named assumptions only: `ConstantsAssumption` (finitely many items, `None` apart
from everything else, disjoint fingerprint classes), `OpsAssumption` (each operation has a route),
`AdmissionAssumption` (finitely many threads, capacity at least 1), `ExportAssumption` (a number of
Sources; the two values that stand for no export are none), `RefreshAssumption` (at least one target),
the `ConstantsAssumption` of `StoreConnections` (a file and routes for each call; `None` is no row),
and in `EvidencePaging` that a text is a rising sequence of offsets at most four apart, that a read asks
for at least four bytes (the schema's minimum is larger), that an excerpt fits its content limit and that
Publications are records of their type: sound or not, with labels and modes of any length.
Runs, Sources, operations, threads, exports, calls, owners, chains, texts, budgets and the retrieval
function are arbitrary.

| Theorem | Module | States |
|---|---|---|
| `TypeCorrect` | `RunLifecycleProofs` | `Spec => []TypeOK` |
| `ProjectionIsActiveEvidence` | | `Spec => []ActiveProjection` |
| `HistoryIsGapless` | | `Spec => []PublicationHistory` |
| `NewestRequestWins` | | `Spec => []LatestRequestWins` |
| `NoLostUpdate` | | `Spec => []BasedOnPredecessor` |
| `EventsTellTheTruth` | `RunLifecycleStepProofs` | `Spec => []EventsExplainState` |
| `CandidatesAreImmutable` | | `Spec => CandidateFrozen` |
| `SettledRunsStaySettled` | | `Spec => NoResurrection` |
| `StoreKeepsPromise` | | `Spec => ImplementsPromise` |
| `RevisionNamesAnAnswer` | | a Source's `Authority` is the same whenever its revision is |
| `CancellationWins` | `IngestOperationProofs` | `Spec => []CancellationIsFinal` |
| `CallerIsToldTheTruth` | | `Spec => []ReplyIsTruthful`, on the PDF route too, which `operation_race` leaves out |
| `LeasesAreExact` | `AdmissionControllerProofs` | `Spec => []SlotsMatchLeases` |
| `WaitersAreExact` | | `Spec => []WaitersAreCounted` |
| `WakeupsAreEnough` | | `Spec => []NoLostWakeup` |
| `ExportTypeCorrect` | `LibraryExportProofs` | `Spec => []TypeOK` |
| `CommitIsAtomic` | | `Spec => []MarkerMeansComplete` |
| `SuccessMeansExact` | | `Spec => []SuccessIsExact` |
| `FailureIsClean` | | `Spec => []FailureLeavesNothing` |
| `OthersSurvive` | | `Spec => ForeignSurvives` |
| `ObservationsAreImmutable` | `RunLifecycleStepProofs` | `Spec => ObservationFrozen` |
| `TranscriptsAreBacked` | | `Spec => []TranscriptBacked` |
| `OnlyRevisionsBreakReads` | | `Spec => []ReadableButForRevisions` |
| `LibraryStaysReadable` | | `RevisedAssets = {} => (Spec => []LibraryReadable)` |
| `AnswersLeaveNothingBehind` | `IngestOperationProofs` | `Spec => []NothingLeftBehind` |
| `OnlyTheCancelledAreKilled` | | `Spec => TerminationIsTargeted` |
| `ShutdownSweeps` | | `Stubborn = {} => (Spec => []ShutdownTerminatesEveryChild)` |
| `OperationTypeCorrect` | | `Spec => []TypeOK` |
| `CancellationIsARace` | | `Spec => ImplementsCancellation` |
| `CleanupMovesOn` | | `Spec => []CleanupNeverStalls` |
| `ThreadsAreFinite` | | `Spec => ThreadsRunDown`, from at most 24 steps |
| `ShutdownLeavesLatecomers` | | `Stubborn = {} =>` after shutdown a living child is about to be refused |
| `AdmissionTypeCorrect` | `AdmissionControllerProofs` | `Spec => []TypeOK` |
| `FreeSlotsHaveTakers` | | `Spec => FreeSlotDrains` |
| `OverdueCanLeave` | | `Spec => OverdueLeavesOnce` |
| `ConnectionsTypeCorrect` | `StoreConnectionsProofs` | `Spec => []TypeOK` |
| `KeysStayUnique` | | `Spec => []OneRowPerKey` |
| `RecoveryReachesDeadOwners` | | `Spec => []DeadOwnersRunsEnd` |
| `OwnRunsAreSpared` | | `Spec => RecoverySparesOwnRuns` |
| `RowsReferToRows` | | `Spec => []FilesInv`: what a row refers to is there, with the file it should have |
| `ConnectionsImplementLifecycle` | | `Spec => ImplementsLifecycle` |
| `ConnectionsKeepHistory` | | `PublicationHistory`, `LatestRequestWins`, `BasedOnPredecessor` of `RunLifecycle` |
| `ConnectionsServeActiveRuns` | | its `ActiveProjection` and `EventsExplainState` |
| `ConnectionsNeverRevive` | | its `NoResurrection` and `CandidateFrozen` |
| `ConnectionsKeepPromise` | | its `ImplementsPromise`: the three levels joined |
| `ReadableWithoutReprocess` | | its `LibraryReadable`, if no call reprocesses |
| `ConnectionsNameAnswers` | | `RevisionNamesAnAnswer` for what connections commit |
| `TypeCorrect` | `EvidencePagingProofs` | `Spec => []TypeOK` |
| `PagesAgree` | | `Spec => []PagesAreOneAnswer` |
| `CompleteAnswers` | | `Spec => []CompleteIsExhaustive` |
| `ExpiryHasCause` | | `Spec => []ExpiredForCause` |
| `RefusalsAreForced` | | `Spec => []RefusedOnlyIfItMust` |
| `CallsAdvance` | | `Spec => EveryCallAdvances` |
| `RefreshTypeCorrect` | `ArtifactRefreshProofs` | `Spec => []TypeOK` |
| `RemovalCommitsAWholeSet` | | `Spec => []SettledIsWhole` |
| `MixedCanBeRestored` | | `Spec => []MixedIsRecoverable` |
| `RollbackIsComplete` | | `Spec => []FailureRollsBack` |
| `SuccessReplacesAll` | | `Spec => []SuccessIsWhole` |
| `RefreshIsAtomic` | | `Spec => ImplementsReplacement` |

**The store.** `LatestRequestWins` and `PublicationHistory` are not inductive: they say nothing of a
Run that is about to be activated. `IInv` of `RunLifecycleProofs` adds that a Publication row is there
exactly for published Runs, that no Run carries a request number its Source has not given out, that
revisions are bounded by the Source's, gapless and unique, and that the active pointer names the row
with the highest revision. Activation requires the Run to be the newest request and based on the
active revision, so its number exceeds those of all earlier Publications and its revision is the next.
The refinement follows step by step: `CreateRun` is `Request`, `Publish` is `Switch` (because of
`ActiveProjection`, the visible rows are exactly the candidate), everything else stutters.

**Cancellation.** `IInv` of `IngestOperationProofs` relates the worker's position to the controller:
while the operation is known, a worker past its claim holds the commit (`CommitHeld`); commit and
cancellation exclude each other and are forgotten together (`OneWinner`); a child is registered only
while its output is read (`ChildrenRead`); an answered caller has the result of a worker that ended,
or the worker can no longer claim (`Answered`). The last part is what makes the answer of a
coroutine that a failing terminator ended early still true.

`CancellationIsARace` needs two facts more (`RaceInv`): a recorded cancellation means that the coroutine no
longer takes the worker's result for its own, and a published Run is its worker's last step. Then
`Cancel` and `ClaimCommit` take a free latch, `Activate` publishes under a held commit, and each of the
three ways a coroutine ends is the one `Answer`, with the latch deciding between its values.

**Admission.** `IInv` of `AdmissionControllerProofs` adds to the counters that a waiter holds no lease
and that only waiters sleep. `NoLostWakeup` is then inductive: `notify` moves one thread to the
notified ones whenever a slot becomes free, and a notified thread leaves only with a slot, or when
there is none.

`FreeSlotDrains` and `OverdueLeavesOnce` are what the two liveness properties rest on besides fairness:
beside a free slot nobody goes to sleep, a notified thread stays able to go on until somebody takes a
slot, and a slot given back wakes one sleeper, so that (sleepers, free slots) falls with each step that
matters; an overdue waiter leaves with its own next step, whatever the others do.

**Export.** `IInv` of `LibraryExportProofs` is one statement about each export: while it is built,
`owned` is a prefix of `Plan` (`Prefix`) and, untouched, all of it but the file being written is whole
(`WrittenHolds`); after the rename it is `Plan` with the last entry renamed (`Renamed`); the marker is
there only from then until the clean-up takes the last owned entry, which is the marker
(`MarkerInPlace`: this is where the place of the rebound entry matters); what the last checks have
seen stands unless a disturbance came after them (`CheckedHolds`). A step of one export leaves every
other export's view alone (`OthersUntouched`), so one lemma per kind of step is enough.

A failing removal is the exception in `MarkerMeansComplete`: `_cleanup` goes on after an error, so
that an export whose manifest could not be unlinked loses its content all the same. It is then
reported as `cleanup_failed`, and the digests in the manifest tell a reader that the files are gone.

**Reports and readability.** The report of a transcribed Publication is written by the transaction that
publishes it and never replaced. `CandidatesHold` says of every validated Run what the readers will check
after activation: it has Evidence and a manifest with its count. The digest in the manifest is that of one
of `ProcessedAssets`, the files the Source may be processed from. Hence `OnlyRevisionsBreakReads`, without
any assumption: an active Publication passes the readers' check or was made from a revised file.
`LibraryStaysReadable` is its corollary under `RevisedAssets = {}`, and `lifecycle_revised` shows that the
assumption is needed.

`RevisionNamesAnAnswer` justifies a cursor's fingerprint. `Authority` is what readers are served of a
Source: Publication, revision, manifest, Evidence, visible rows. A step leaves it alone or gives the next
revision (`AuthorityStep`), so an equal revision later means an equal answer. The code hashes the whole
record; `EvidencePaging` compares revisions, which by this theorem is the same.

**Children and terminators.** `TInv` stands on `IInv`. A terminator blocks the event loop and a
cancellation selects only its own operation's children (`OneTerminator`); a selected child that still lives
is registered, or its worker has given it up for good (`DoomedWasRegistered`), so a terminator that is
late finds the child it was meant for or none; a worker leaves a living child behind only if SIGKILL
does not end it (`ChildMinded`); the controller forgets an operation only when its worker has nothing
left but its exception handler (`ForgottenIsOver`). `ShutdownSweeps` has the hypothesis `Stubborn = {}`,
without which `operation_shutdown` refutes it.

`RInv` serves the liveness properties: a thread that has begun has a stage left (`StagesRemain`), a living
child whose output is read is registered, and a terminator is called for it before its cancelled call
waits for the thread (`BlockedIsSelected`), which it does only once the latch is decided
(`CleanupIsDecided`). So nobody waits in cleanup for a child that nobody kills (`CleanupMovesOn`), each
step of a thread lowers `StepsLeft` (`ThreadsAreFinite`), and a child that outlives shutdown is one its
worker is about to register (`ShutdownLeavesLatecomers`). The step from there to "eventually", by
fairness, is TLC's.

**Connections.** A snapshot in which a write is accepted is the latest state of the tables, so every
commit is a step of `RunLifecycle` from the state it is applied to; what is left to show is that the
call's place agrees with its Run (`RunAt`). `OneRowPerKey` needs nothing but that: an INSERT is let
through only if the SELECT before it saw all rows. Recovery is the subtle one. `SweepInv` says that the
snapshot of a sweep holds every unfinished Run of an owner that was dead when the sweeping owner began:
such a Run cannot become unfinished later, since its calls have ended. `LatchInv` says that no call of
the same owner is past recovery while one is in it, so there is no Run of its own to sweep.

For the refinement `FilesInv` adds that a row refers to rows that are there and to the right file
(`RowsReferToRows`). TLC's calls share one file; the proof has any number of files, and with them Sources
that a call does not use. `LifecycleCommitted` then takes the instance of `RunLifecycleStepProofs` that the
tables make: its assumptions hold (`LifecycleConstants`), so that the theorems of the store can be cited for
connections (`ConnectionsKeepHistory` to `ConnectionsNameAnswers`).

**Paging.** `IInv` of `EvidencePagingProofs` is one statement about each chain, given the snapshot of
its first page (`begun`): what was put together is a prefix of the pool of that snapshot, and the cursor's
position is what comes after that prefix (`Bound`). Revisions only grow, so an equal fingerprint means an
equal active set: a cursor that is accepted reads the pool it began with. A first page is served only from
an active set that its tool accepts (`Accepted`), so a chain that fails for the set it meets has met another
one (`ExpiryHasCause`); what a refusal says is explained by the snapshot it was made in (`RefusedFor`,
`RefusalsAreForced`). The arithmetic stands in lemmas:
each page and each chunk is at least one unit and at most what is left.

Each answer that leaves the chain open adds at least one unit and stays short of the pool's end
(`CallsAdvance`), so a chain has no more answers than its pool has units. This is where the least budget
matters: a chunk of four bytes holds a code point.

**Refresh.** `IInv` of `ArtifactRefreshProofs` follows the directory through its life: before the
journal the targets are untouched; from then on every backup is there, and targets below `index` are
new and the others old; in a rollback the ones below `index` are restored. A removal begins only when
the targets are whole, and stays so unless it is cut short between backups and journal, which `torn`
records. `RefreshIsAtomic` needs in addition that what the targets hold is numbered by the refreshes so
far, each of which has a number of its own (`Numbered`), so that the version a refresh commits is its own;
the first removal is the commit, and every other step happens while the set is not to be read, or answers.

**Only model-checked.** Liveness (`FreeSlotIsTaken`, `OverdueWaiterLeaves`, `CancelledIngestEnds`,
`ShutdownReapsChildren`, `ChainEnds`), which is beyond the prover: it needs ENABLED. What those properties
need besides fairness is proved, as said above. Every other property of a passing run is proved.

## 6. Not modelled, and what is left

* **Input authority and the audio snapshot.** One process opens, hashes, copies and re-stats one file in
  a fixed order. Whether the copy can be torn rests on what `stat` reports while somebody writes.
* **Tear-down of the event loop.** It cancels worker tasks directly; asyncio decides what is run then.
* **`migrate`**, which creates the tables or extends those of an older database when a store opens.
* **Ranking.** FTS5, the CJK scan and query policy are pure functions of text; which rows they find is
  a constant here. Only what their limits do to an answer is modelled.
* **Export rendering**: one read transaction and pure functions of what it returned.
* **Extraction and transcription**: third-party code behind a supervised child or a call.
* **Evaluation, proof demos, benchmark and compatibility scripts**: most of the repository by lines.
  They are single-threaded programs that read fixtures, measure the engine and validate the fields of
  reports one by one; but for the artifact refresh they keep no state that a failure could leave half
  changed. Modelling them would restate their checks.
* **Command line, error texts, schemas, embeddings, vectors.**

Worth doing next: that `EvidencePaging`'s publications are steps of `RunLifecycle` (that they may be told
apart by revisions is proved); an abstract specification of the export, which two directories and an
outsider make less simple than the others; and a proof that `AdmissionController` and the ingest tasks of
one owner cannot block each other.
