--------------------------- MODULE StoreConnections ---------------------------
(***************************************************************************)
(* Ingest calls of several owner processes on one SQLite database, at the  *)
(* level of SQL statements: each call opens a connection of its own        *)
(* (build_engine), and with autocommit off a connection is always inside a *)
(* deferred transaction.  Its first SELECT takes a snapshot of the         *)
(* database, which stays until the next commit or rollback even when the   *)
(* method that read returns; a write of a connection that holds a snapshot *)
(* is accepted only while no other connection has committed since, and is  *)
(* refused at once (SQLITE_BUSY_SNAPSHOT) otherwise.  From its first       *)
(* accepted write to its commit a connection holds the write lock, so the  *)
(* rest of the transaction is one step.                                    *)
(*                                                                         *)
(* RunLifecycle takes every operation of the store as one atomic step and  *)
(* Sources as given; here Library, Asset and Source rows are found or      *)
(* inserted, the operations are taken apart, and ImplementsLifecycle says  *)
(* that what is committed is a behaviour of RunLifecycle all the same.     *)
(*                                                                         *)
(* Row ids are drawn at random in the code; here a row is named by the     *)
(* call that inserted it.  Reports of an extraction, cancellation and the  *)
(* supervised children are left to RunLifecycle and IngestOperation.       *)
(***************************************************************************)
EXTENDS Naturals, Sequences, FiniteSets

CONSTANTS
    Calls,      \* ingest calls, each with its own engine and connection
    Owners,     \* incarnations of an owner process, one OwnerRuntimeState each
    Files,      \* sha256 digests of the input files
    FileOf,     \* [Calls -> Files]: the file each call ingests
    KindsOf,    \* [Calls -> SUBSET Kinds]: the routes a call may take
    None        \* an SQL NULL, a missing row, or no snapshot

\* reprocess_pdf is a PDF ingest that takes the Library's first Source.
Kinds == {"pdf", "reprocess", "video", "audio"}

ASSUME ConstantsAssumption ==
    /\ FileOf \in [Calls -> Files]
    /\ KindsOf \in [Calls -> SUBSET Kinds]
    /\ None \notin Calls \cup Owners
    /\ None \notin [count : Nat, fingerprint : {"extractor"}, asset : Files]
    /\ None \notin [failed : BOOLEAN, pages : SUBSET {"evidence"}, raster : BOOLEAN]

VARIABLES
    db,         \* the committed tables
    view,       \* the snapshot each connection holds, or None
    pc,         \* where each call stands
    kind,       \* the route each call took
    owner,      \* the process each call runs in
    life,       \* unborn, alive or dead
    recovered,  \* the path of the database is in _recovered_databases
    holder,     \* the call that holds OwnerRuntimeState._lock
    before      \* history: the owners that were dead when an owner started

vars == <<db, view, pc, kind, owner, life, recovered, holder, before>>

Pdf == {"pdf", "reprocess"}

MediaType(k) == IF k \in Pdf THEN "application/pdf" ELSE k

NoRun == [state |-> "absent", source |-> None, generation |-> 0, base |-> 0,
          retryOf |-> None]

NoSource == [active |-> None, revision |-> 0, requested |-> 0]

AssetRows == [id : Calls, file : Files, media : {MediaType(k) : k \in Kinds}]

EmptyDatabase ==
    [libraries   |-> {},                            \* ids of default Libraries
     assets      |-> {},                            \* rows of `assets`
     catalog     |-> << >>,                         \* `sources` by rowid
     source      |-> [c \in Calls |-> NoSource],    \* their mutable columns
     run         |-> [c \in Calls |-> NoRun],
     candidate   |-> {},                            \* Runs with Evidence and RunManifest
     publication |-> [c \in Calls |-> 0],
     fts         |-> [c \in Calls |-> None],        \* the Run whose Evidence a Source serves
     events      |-> [c \in Calls |-> << >>]]

Phases == {"idle", "opening", "recovering", "selecting", "ensuring", "created",
           "extracting", "persisting", "activating", "failing", "ended"}

Init ==
    /\ db = EmptyDatabase
    /\ view = [c \in Calls |-> None]
    /\ pc = [c \in Calls |-> "idle"]
    /\ kind = [c \in Calls |-> None]
    /\ owner = [c \in Calls |-> None]
    /\ life = [o \in Owners |-> "unborn"]
    /\ recovered = [o \in Owners |-> FALSE]
    /\ holder = [o \in Owners |-> None]
    /\ before = [o \in Owners |-> {}]

ownerVars == <<kind, owner, life, recovered, holder, before>>

-----------------------------------------------------------------------------
(* Transactions.                                                           *)

Goto(c, phase) == pc' = [pc EXCEPT ![c] = phase]

\* Commit, rollback and the end of the connection drop the snapshot.
DropSnapshot(c) == view' = [view EXCEPT ![c] = None]

\* The phases whose first statement is a SELECT, the one of a failed audio
\* call included (get_run in its handler).
ReadsFirst(c) ==
    \/ pc[c] \in {"recovering", "selecting", "ensuring", "persisting", "activating"}
    \/ pc[c] = "failing" /\ kind[c] = "audio"

\* The first SELECT of a transaction.
TakeSnapshot(c) ==
    /\ ReadsFirst(c)
    /\ view[c] = None
    /\ view' = [view EXCEPT ![c] = db]
    /\ UNCHANGED <<db, pc>> /\ UNCHANGED ownerVars

\* Mutation: a write is accepted after others have committed, as it would be
\* with a transaction of its own for every statement.
StillHolds(c) == view[c] # None

\* The snapshot is still the state of the database: nobody has committed since
\* it was taken, so a write may follow what was read.
MayWrite(c) == view[c] # None /\ view[c] = db

\* `with self._connection`, or an explicit commit().
Commit(c, new, phase) ==
    /\ db' = new
    /\ DropSnapshot(c)
    /\ Goto(c, phase)

\* _transition_run, and the event of create_run.
Moved(d, c, state, event) ==
    [d EXCEPT !.run    = [d.run EXCEPT ![c] = [d.run[c] EXCEPT !.state = state]],
              !.events = [d.events EXCEPT ![c] = Append(d.events[c], event)]]

-----------------------------------------------------------------------------
(* Owners.                                                                 *)

StartOwner(o) ==
    /\ life[o] = "unborn"
    /\ life' = [life EXCEPT ![o] = "alive"]
    /\ before' = [before EXCEPT ![o] = {p \in Owners : life[p] = "dead"}]
    /\ UNCHANGED <<db, view, pc, kind, owner, recovered, holder>>

\* The process dies: its connections are gone and what they had not committed
\* is rolled back.
KillOwner(o) ==
    /\ life[o] = "alive"
    /\ life' = [life EXCEPT ![o] = "dead"]
    /\ pc' = [c \in Calls |-> IF owner[c] = o THEN "ended" ELSE pc[c]]
    /\ view' = [c \in Calls |-> IF owner[c] = o THEN None ELSE view[c]]
    /\ holder' = [holder EXCEPT ![o] = None]
    /\ UNCHANGED <<db, kind, owner, recovered, before>>

StartCall(c, o, k) ==
    /\ pc[c] = "idle"
    /\ life[o] = "alive"
    /\ owner' = [owner EXCEPT ![c] = o]
    /\ kind' = [kind EXCEPT ![c] = k]
    /\ Goto(c, "opening")
    /\ UNCHANGED <<db, view, life, recovered, holder, before>>

\* Mutation: the latch is read without the lock.
EnterUnlocked(c) ==
    LET o == owner[c]
    IN  /\ pc[c] = "opening"
        /\ holder' = [holder EXCEPT ![o] = c]
        /\ Goto(c, IF recovered[o] THEN "selecting" ELSE "recovering")
        /\ UNCHANGED <<db, view, kind, owner, life, recovered, before>>

\* build_engine calls recover_unfinished_runs_once: under the lock, the sweep
\* runs unless this process has swept this database before.
EnterRecovery(c) ==
    LET o == owner[c]
    IN  /\ pc[c] = "opening"
        /\ holder[o] = None
        /\ holder' = IF recovered[o] THEN holder ELSE [holder EXCEPT ![o] = c]
        /\ Goto(c, IF recovered[o] THEN "selecting" ELSE "recovering")
        /\ UNCHANGED <<db, view, kind, owner, life, recovered, before>>

Unfinished(d) == {c \in Calls : d.run[c].state \in {"queued", "running"}}

Swept(d) ==
    [d EXCEPT
        !.run    = [c \in Calls |-> IF c \in Unfinished(d)
                                    THEN [d.run[c] EXCEPT !.state = "interrupted"]
                                    ELSE d.run[c]],
        !.events = [c \in Calls |-> IF c \in Unfinished(d)
                                    THEN Append(d.events[c], "run_interrupted")
                                    ELSE d.events[c]]]

\* interrupt_unfinished_runs: the rows it has read are interrupted; without
\* any it writes nothing, and nothing can refuse it.
Recover(c) ==
    LET o == owner[c]
    IN  /\ pc[c] = "recovering"
        /\ view[c] # None
        /\ Unfinished(view[c]) # {} => MayWrite(c)
        /\ Commit(c, IF Unfinished(view[c]) = {} THEN db ELSE Swept(db), "selecting")
        /\ recovered' = [recovered EXCEPT ![o] = TRUE]
        /\ holder' = [holder EXCEPT ![o] = None]
        /\ UNCHANGED <<kind, owner, life, before>>

-----------------------------------------------------------------------------
(* Catalog: _select_source, ensure_source and create_run.  Each SELECT that *)
(* finds its row leaves the snapshot to the next statement; each INSERT is *)
(* committed by itself.                                                    *)

AssetsFor(d, c) == {a \in d.assets : a.file = FileOf[c]}

SourcesFor(d, c) ==
    {i \in DOMAIN d.catalog : \E a \in AssetsFor(d, c) : d.catalog[i].asset = a.id}

\* _select_source asks for the first Source once, in "selecting"; a call that has
\* inserted a row of its own is in ensure_source and does not ask again.
Cataloguing == {"selecting", "ensuring"}

\* reprocess_pdf takes the first Source there is, whatever its file.
Reuses(c) == pc[c] = "selecting" /\ kind[c] = "reprocess" /\ view[c].catalog # << >>

Selecting(c) == pc[c] \in Cataloguing /\ view[c] # None

EnsureLibrary(c) ==
    /\ Selecting(c)
    /\ ~Reuses(c)
    /\ view[c].libraries = {}
    /\ MayWrite(c)
    /\ Commit(c, [db EXCEPT !.libraries = db.libraries \cup {c}], "ensuring")
    /\ UNCHANGED ownerVars

\* Mutation: the Asset is inserted although others have committed since the
\* SELECT that did not find it.
EnsureAssetStale(c) ==
    /\ Selecting(c)
    /\ ~Reuses(c)
    /\ view[c].libraries # {}
    /\ AssetsFor(view[c], c) = {}
    /\ Commit(c, [db EXCEPT !.assets = db.assets \cup
                    {[id |-> c, file |-> FileOf[c], media |-> MediaType(kind[c])]}],
              "ensuring")
    /\ UNCHANGED ownerVars

EnsureAsset(c) ==
    /\ Selecting(c)
    /\ ~Reuses(c)
    /\ view[c].libraries # {}
    /\ AssetsFor(view[c], c) = {}
    /\ MayWrite(c)
    /\ Commit(c, [db EXCEPT !.assets = db.assets \cup
                    {[id |-> c, file |-> FileOf[c], media |-> MediaType(kind[c])]}],
              "ensuring")
    /\ UNCHANGED ownerVars

\* AssetMediaTypeMismatchError: the same bytes are known as another medium.
RefuseMediaType(c) ==
    /\ Selecting(c)
    /\ ~Reuses(c)
    /\ \E a \in AssetsFor(view[c], c) : a.media # MediaType(kind[c])
    /\ DropSnapshot(c)
    /\ Goto(c, "ended")
    /\ UNCHANGED db /\ UNCHANGED ownerVars

AssetKnown(c) ==
    /\ Selecting(c)
    /\ ~Reuses(c)
    /\ \E a \in AssetsFor(view[c], c) : a.media = MediaType(kind[c])

EnsureSource(c) ==
    /\ AssetKnown(c)
    /\ SourcesFor(view[c], c) = {}
    /\ MayWrite(c)
    /\ \E a \in AssetsFor(db, c) :
          Commit(c, [db EXCEPT !.catalog = Append(db.catalog, [id |-> c, asset |-> a.id])],
                 "ensuring")
    /\ UNCHANGED ownerVars

\* The Sources the call may work on, once they are there.
Selected(c) ==
    IF Reuses(c) THEN {view[c].catalog[1].id}
    ELSE {view[c].catalog[i].id : i \in {j \in SourcesFor(view[c], c) : AssetKnown(c)}}

\* The request number and the base revision are those of the snapshot, which
\* may be the one an earlier SELECT of the catalog took.
NewRun(c, s) ==
    [state |-> "queued", source |-> s,
     generation |-> view[c].source[s].requested + 1,
     base |-> view[c].source[s].revision, retryOf |-> None]

CreateRun(c, s) ==
    /\ Selecting(c)
    /\ s \in Selected(c)
    /\ MayWrite(c)
    /\ Commit(c, [db EXCEPT
           !.source = [db.source EXCEPT ![s] =
               [db.source[s] EXCEPT !.requested = view[c].source[s].requested + 1]],
           !.run    = [db.run EXCEPT ![c] = NewRun(c, s)],
           !.events = [db.events EXCEPT ![c] = Append(db.events[c], "run_created")]],
       "created")
    /\ UNCHANGED ownerVars

-----------------------------------------------------------------------------
(* The Run.  A transaction that begins with its UPDATE takes the write lock *)
(* first and sees the latest commit: it needs no snapshot.                 *)

MarkRunRunning(c) ==
    /\ pc[c] = "created"
    /\ db.run[c].state = "queued"
    /\ Commit(c, Moved(db, c, "running", "run_started"), "extracting")
    /\ UNCHANGED ownerVars

ExtractionSucceeds(c) ==
    /\ pc[c] = "extracting"
    /\ Goto(c, "persisting")
    /\ UNCHANGED <<db, view>> /\ UNCHANGED ownerVars

ExtractionFails(c) ==
    /\ pc[c] = "extracting"
    /\ Goto(c, "failing")
    /\ UNCHANGED <<db, view>> /\ UNCHANGED ownerVars

PersistValidatedCandidate(c) ==
    /\ pc[c] = "persisting"
    /\ MayWrite(c)
    /\ db.run[c].state = "running"
    /\ Commit(c, [Moved(db, c, "validated", "candidate_validated")
                    EXCEPT !.candidate = db.candidate \cup {c}], "activating")
    /\ UNCHANGED ownerVars

\* RunTransitionError: the Run was interrupted by another owner.  PDF and video
\* report it; audio falls into its general handler.
LoseRun(c) ==
    /\ \/ pc[c] = "created" /\ db.run[c].state # "queued"
       \/ pc[c] = "persisting" /\ MayWrite(c) /\ db.run[c].state # "running"
    /\ DropSnapshot(c)
    /\ Goto(c, IF kind[c] = "audio" THEN "failing" ELSE "ended")
    /\ UNCHANGED db /\ UNCHANGED ownerVars

Stale(c) ==
    LET r == view[c].run[c]
        src == view[c].source[r.source]
    IN  r.generation # src.requested \/ r.base # src.revision

\* activate_publication of a Run that is validated: only the call that made a
\* Run moves it from there.
Supersede(c) ==
    /\ pc[c] = "activating"
    /\ MayWrite(c)
    /\ Stale(c)
    /\ Commit(c, Moved(db, c, "superseded", "run_superseded"), "ended")
    /\ UNCHANGED ownerVars

Publish(c) ==
    /\ pc[c] = "activating"
    /\ MayWrite(c)
    /\ ~Stale(c)
    /\ LET s == db.run[c].source
           next == view[c].source[s].revision + 1
       IN  Commit(c, [Moved(db, c, "published", "publication_activated") EXCEPT
                 !.publication = [db.publication EXCEPT ![c] = next],
                 !.fts         = [db.fts EXCEPT ![s] = c],
                 !.source      = [db.source EXCEPT ![s] =
                     [active |-> c, revision |-> next, requested |-> db.source[s].requested]]],
              "ended")
    /\ UNCHANGED ownerVars

-----------------------------------------------------------------------------
(* Failures.                                                               *)

\* The states a handler expects: audio looks at the Run first and marks a
\* validated one too, PDF and video mark an unfinished one.
MayBeFailed(c) ==
    IF kind[c] = "audio" THEN {"queued", "running", "validated"} ELSE {"queued", "running"}

MarkFailed(c) ==
    /\ pc[c] = "failing"
    /\ kind[c] = "audio" => MayWrite(c)
    /\ Commit(c, IF db.run[c].state \in MayBeFailed(c)
                 THEN Moved(db, c, "failed", "run_failed") ELSE db, "ended")
    /\ UNCHANGED ownerVars

\* After an sqlite3.Error a PDF call ends at once; video and audio try to mark
\* a Run they have created.
AfterError(c) ==
    IF kind[c] \notin Pdf /\ pc[c] \in {"created", "persisting", "activating"}
    THEN "failing" ELSE "ended"

WritingPhases ==
    {"recovering", "selecting", "ensuring", "created", "persisting", "activating", "failing"}

\* Mutation: the latch is set before the sweep has succeeded.
RefuseButLatch(c) ==
    /\ pc[c] \in WritingPhases
    /\ DropSnapshot(c)
    /\ Goto(c, AfterError(c))
    /\ recovered' = IF pc[c] = "recovering"
                    THEN [recovered EXCEPT ![owner[c]] = TRUE] ELSE recovered
    /\ holder' = IF holder[owner[c]] = c
                 THEN [holder EXCEPT ![owner[c]] = None] ELSE holder
    /\ UNCHANGED <<db, kind, owner, life, before>>

\* A statement raises sqlite3.Error: the snapshot is stale, another connection
\* holds the write lock, or the disk is full.  The transaction is rolled back
\* and the lock of the owner released; a sweep that failed is not remembered.
Refuse(c) ==
    /\ pc[c] \in WritingPhases
    /\ DropSnapshot(c)
    /\ Goto(c, AfterError(c))
    /\ holder' = IF holder[owner[c]] = c
                 THEN [holder EXCEPT ![owner[c]] = None] ELSE holder
    /\ UNCHANGED <<db, kind, owner, life, recovered, before>>

-----------------------------------------------------------------------------
Step(c) ==
    \/ \E o \in Owners, k \in KindsOf[c] : StartCall(c, o, k)
    \/ EnterRecovery(c)
    \/ TakeSnapshot(c)
    \/ Recover(c)
    \/ EnsureLibrary(c)
    \/ EnsureAsset(c)
    \/ RefuseMediaType(c)
    \/ EnsureSource(c)
    \/ \E s \in Calls : CreateRun(c, s)
    \/ MarkRunRunning(c)
    \/ ExtractionSucceeds(c)
    \/ ExtractionFails(c)
    \/ PersistValidatedCandidate(c)
    \/ LoseRun(c)
    \/ Supersede(c)
    \/ Publish(c)
    \/ MarkFailed(c)
    \/ Refuse(c)

Next ==
    \/ \E o \in Owners : StartOwner(o) \/ KillOwner(o)
    \/ \E c \in Calls : Step(c)

Spec == Init /\ [][Next]_vars

-----------------------------------------------------------------------------
(* Properties.                                                             *)

RunStates == {"absent", "queued", "running", "validated", "published", "failed",
              "superseded", "interrupted"}

EventTypes == {"run_created", "run_started", "run_failed", "run_interrupted",
               "candidate_validated", "publication_activated", "run_superseded"}

RunTable == [Calls -> [state : RunStates, source : Calls \cup {None}, generation : Nat,
                       base : Nat, retryOf : {None}]]

SourceTable == [Calls -> [active : Calls \cup {None}, revision : Nat, requested : Nat]]

Catalogs == Seq([id : Calls, asset : Calls])

FtsTable == [Calls -> Calls \cup {None}]

EventTable == [Calls -> Seq(EventTypes)]

Databases ==
    [libraries : SUBSET Calls, assets : SUBSET AssetRows, catalog : Catalogs,
     source : SourceTable, run : RunTable, candidate : SUBSET Calls,
     publication : [Calls -> Nat], fts : FtsTable, events : EventTable]

TypeOK ==
    /\ db \in Databases
    /\ \A c \in Calls : view[c] = None \/ view[c] \in Databases
    /\ DOMAIN view = Calls
    /\ pc \in [Calls -> Phases]
    /\ kind \in [Calls -> Kinds \cup {None}]
    /\ owner \in [Calls -> Owners \cup {None}]
    /\ life \in [Owners -> {"unborn", "alive", "dead"}]
    /\ recovered \in [Owners -> BOOLEAN]
    /\ holder \in [Owners -> Calls \cup {None}]
    /\ before \in [Owners -> SUBSET Owners]

\* Calls that ingest the same file at the same time look its rows up and insert
\* them in three transactions each, and end with one Library, one Asset per
\* digest and one Source per Asset.  The UNIQUE constraints of migrate() are no
\* guards here: no INSERT that SQLite's snapshots let through ever meets one.
OneRowPerKey ==
    /\ Cardinality(db.libraries) <= 1
    /\ \A a, b \in db.assets : a.file = b.file => a = b
    /\ \A i, j \in DOMAIN db.catalog : db.catalog[i].asset = db.catalog[j].asset => i = j

\* Once a new owner has recovered the database, no Run of an owner that had
\* died before it started is queued or running: a failed sweep is tried again
\* by the next call, and nothing after the sweep brings such a Run back.
DeadOwnersRunsEnd ==
    \A o \in Owners : recovered[o] =>
        \A c \in Unfinished(db) : owner[c] \notin before[o]

\* ADR-0002, "read-only request engine construction after owner startup cannot
\* interrupt work created by another request in the same owner": a Run is only
\* ever interrupted by another process, never by a call of its own.
Interrupts(c, d) ==
    /\ pc[c] = "recovering" /\ pc'[c] = "selecting"
    /\ db.run[d].state # "interrupted" /\ db'.run[d].state = "interrupted"

RecoverySparesOwnRuns ==
    [][\A c, d \in Calls : Interrupts(c, d) => owner[d] # owner[c]]_vars

-----------------------------------------------------------------------------
(* The committed tables, read as the variables of RunLifecycle.  A Source  *)
(* is named by the call that inserted it, and its Asset is that call's     *)
(* file; the Evidence of a Run is one item.                                *)

EvidenceOf(c) == IF c \in db.candidate THEN {"evidence"} ELSE {}

ManifestOf(c) ==
    IF c \in db.candidate
    THEN [count |-> 1, fingerprint |-> "extractor", asset |-> FileOf[c]] ELSE None

FtsRow(s) == [source |-> s, publication |-> db.fts[s], item |-> "evidence"]

\* Only a reprocess call processes another file than its Source's own.
RevisedFiles == {FileOf[c] : c \in {d \in Calls : "reprocess" \in KindsOf[d]}}

Lifecycle == INSTANCE RunLifecycle WITH
    Sources <- Calls, Runs <- Calls, Items <- {"evidence"}, Assets <- Files,
    AssetOf <- FileOf, RevisedAssets <- RevisedFiles, Fingerprints <- {"extractor"},
    VideoWhisper <- {}, AudioWhisper <- {}, PdfReports <- {}, None <- None,
    source <- db.source,
    run <- db.run,
    evidence <- [c \in Calls |-> EvidenceOf(c)],
    manifest <- [c \in Calls |-> ManifestOf(c)],
    publication <- db.publication,
    fts <- {FtsRow(s) : s \in {t \in Calls : db.fts[t] # None}},
    pdfReport <- [c \in Calls |-> None],
    transcript <- [c \in Calls |-> None],
    events <- db.events

\* Every commit is one operation of RunLifecycle applied to the latest state of
\* the tables, however old the rows were that the connection had read: no
\* request number is given twice, no Run is activated on a revision that has
\* moved on, recovery sweeps what is unfinished when it commits, and only a
\* reprocess call gives a Source the output of another file than its own.
ImplementsLifecycle == Lifecycle!Spec

=============================================================================
