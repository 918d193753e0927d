---------------------------- MODULE RunLifecycle ----------------------------
(***************************************************************************)
(* The SQLite store of the engine (SQLiteStore): Sources, Runs, candidate  *)
(* Evidence, RunManifests, Publications, the active FTS projection, intake *)
(* reports and Run events.                                                 *)
(*                                                                         *)
(* Every operation of the store commits in one SQLite transaction, so one  *)
(* action is one committed transaction.  An operation that raises rolls    *)
(* everything back and is a stuttering step; Publication ids are named by  *)
(* their Run, since publications.run_id is UNIQUE.                         *)
(***************************************************************************)
EXTENDS Naturals, Sequences, FiniteSets

CONSTANTS
    Sources,            \* rows of `sources`; each owns one Asset
    Runs,               \* the pool run ids are drawn from
    Items,              \* candidate Evidence: a locator and its text
    Assets,             \* sha256 digests of input files
    AssetOf,            \* [Sources -> Assets]: sources.asset_id
    RevisedAssets,      \* files handed to reprocess_pdf / retry_pdf besides
                        \* the Source's own Asset
    Fingerprints,       \* extractor fingerprints of a RunManifest
    VideoWhisper,       \* those of the faster-whisper video provider
    AudioWhisper,       \* those of the faster-whisper audio provider
    PdfReports,         \* PDF intake reports an extraction produces
    None                \* an SQL NULL or a missing row

\* What a PdfIntakeReport tells the store: whether it carries a failure
\* reason, the pages with text, and whether raster flags were observed.
PdfReportType == [failed : BOOLEAN, pages : SUBSET Items, raster : BOOLEAN]

\* What a TranscriptIntakeReport tells it: its provenance fingerprint and
\* the number of segments.
TranscriptReports ==
    [fingerprint : VideoWhisper \cup AudioWhisper, segments : 1..Cardinality(Items)]

Manifests == [count : Nat, fingerprint : Fingerprints, asset : Assets]

ASSUME ConstantsAssumption ==
    /\ IsFiniteSet(Items)
    /\ AssetOf \in [Sources -> Assets]
    /\ RevisedAssets \subseteq Assets
    /\ VideoWhisper \subseteq Fingerprints
    /\ AudioWhisper \subseteq Fingerprints
    /\ VideoWhisper \cap AudioWhisper = {}
    /\ PdfReports \subseteq PdfReportType
    /\ None \notin Runs
    /\ None \notin PdfReportType
    /\ None \notin TranscriptReports
    /\ None \notin Manifests

VARIABLES
    source,         \* active_publication_id, active_revision, requested_generation
    run,            \* the rows of `runs`
    evidence,       \* the Evidence rows of each Run
    manifest,       \* the RunManifest of each Run
    publication,    \* the revision each Run's Publication row carries, 0: no row
    fts,            \* active_evidence_fts
    pdfReport,      \* pdf_intake_reports with pdf_extraction_observations
    transcript,     \* transcript_intake_reports
    events          \* run_events in event_index order

vars == <<source, run, evidence, manifest, publication, fts, pdfReport,
          transcript, events>>

RunStates == {"queued", "running", "validated", "published", "failed",
              "superseded", "interrupted"}

EventTypes == {"run_created", "run_started", "run_failed", "run_interrupted",
               "candidate_validated", "publication_activated", "run_superseded"}

\* A run id nobody has drawn yet.
Absent == [state |-> "absent", source |-> None, generation |-> 0, base |-> 0,
           retryOf |-> None]

RunRows == [state : RunStates, source : Sources, generation : Nat \ {0},
            base : Nat, retryOf : Runs \cup {None}]

FtsRows == [source : Sources, publication : Runs, item : Items]

Created == {r \in Runs : run[r].state # "absent"}

TypeOK ==
    /\ source \in [Sources -> [active : Runs \cup {None}, revision : Nat,
                               requested : Nat]]
    /\ run \in [Runs -> RunRows \cup {Absent}]
    /\ evidence \in [Runs -> SUBSET Items]
    /\ manifest \in [Runs -> Manifests \cup {None}]
    /\ publication \in [Runs -> Nat]
    /\ fts \subseteq FtsRows
    /\ pdfReport \in [Runs -> PdfReportType \cup {None}]
    /\ transcript \in [Runs -> TranscriptReports \cup {None}]
    /\ events \in [Runs -> Seq(EventTypes)]

Init ==
    /\ source = [s \in Sources |-> [active |-> None, revision |-> 0, requested |-> 0]]
    /\ run = [r \in Runs |-> Absent]
    /\ evidence = [r \in Runs |-> {}]
    /\ manifest = [r \in Runs |-> None]
    /\ publication = [r \in Runs |-> 0]
    /\ fts = {}
    /\ pdfReport = [r \in Runs |-> None]
    /\ transcript = [r \in Runs |-> None]
    /\ events = [r \in Runs |-> << >>]

-----------------------------------------------------------------------------
(* Transitions of one Run: _transition_run is a compare-and-set on the     *)
(* state whose event is appended in the same transaction.                  *)

AppendEvent(r, type) == [events EXCEPT ![r] = Append(@, type)]

\* Mutation: the UPDATE without its `state IN (...)` condition.
BlindSet(r, expected, target, type) ==
    /\ run[r].state # "absent"
    /\ run' = [run EXCEPT ![r].state = target]
    /\ events' = AppendEvent(r, type)

CompareAndSet(r, expected, target, type) ==
    /\ run[r].state \in expected
    /\ run' = [run EXCEPT ![r].state = target]
    /\ events' = AppendEvent(r, type)

\* Mutation: `!=` written as `>`.
StaleIfAhead(r) ==
    LET src == source[run[r].source]
    IN  \/ run[r].generation > src.requested
        \/ run[r].base > src.revision

\* The Run is not the newest request of its Source, or the active Publication
\* has moved since the Run was created.
Stale(r) ==
    LET src == source[run[r].source]
    IN  \/ run[r].generation # src.requested
        \/ run[r].base # src.revision

-----------------------------------------------------------------------------
(* Operations of the store.                                                *)

NewRun(r, s, retryOf) ==
    [state |-> "queued", source |-> s,
     generation |-> source[s].requested + 1, base |-> source[s].revision,
     retryOf |-> retryOf]

CreateRun(r, s, retryOf) ==
    /\ run[r].state = "absent"
    /\ source' = [source EXCEPT ![s] = [@ EXCEPT !.requested = source[s].requested + 1]]
    /\ run' = [run EXCEPT ![r] = NewRun(r, s, retryOf)]
    /\ events' = AppendEvent(r, "run_created")
    /\ UNCHANGED <<evidence, manifest, publication, fts, pdfReport, transcript>>

MarkRunRunning(r) ==
    /\ CompareAndSet(r, {"queued"}, "running", "run_started")
    /\ UNCHANGED <<source, evidence, manifest, publication, fts, pdfReport, transcript>>

MarkRunFailed(r) ==
    /\ CompareAndSet(r, {"queued", "running"}, "failed", "run_failed")
    /\ UNCHANGED <<source, evidence, manifest, publication, fts, pdfReport, transcript>>

MarkValidatedRunFailed(r) ==
    /\ CompareAndSet(r, {"validated"}, "failed", "run_failed")
    /\ UNCHANGED <<source, evidence, manifest, publication, fts, pdfReport, transcript>>

\* Mutation: recovery also sweeps validated Runs.
UnfinishedOrValidated ==
    {r \in Runs : run[r].state \in {"queued", "running", "validated"}}

Unfinished == {r \in Runs : run[r].state \in {"queued", "running"}}

InterruptUnfinishedRuns ==
    /\ Unfinished # {}
    /\ run' = [r \in Runs |-> IF r \in Unfinished
                              THEN [run[r] EXCEPT !.state = "interrupted"]
                              ELSE run[r]]
    /\ events' = [r \in Runs |-> IF r \in Unfinished
                                 THEN Append(events[r], "run_interrupted")
                                 ELSE events[r]]
    /\ UNCHANGED <<source, evidence, manifest, publication, fts, pdfReport, transcript>>

\* A RunManifest that validate_manifest accepts counts the candidate Evidence;
\* it names the digest of the file that was processed.
ManifestFor(items, fingerprint, asset) ==
    [count |-> Cardinality(items), fingerprint |-> fingerprint, asset |-> asset]

\* Mutation: a validated Run may be validated again.
PersistAgain(r, items, fingerprint, asset) ==
    /\ evidence' = [evidence EXCEPT ![r] = items]
    /\ manifest' = [manifest EXCEPT ![r] = ManifestFor(items, fingerprint, asset)]
    /\ CompareAndSet(r, {"running", "validated"}, "validated", "candidate_validated")
    /\ UNCHANGED <<source, publication, fts, pdfReport, transcript>>

PersistValidatedCandidate(r, items, fingerprint, asset) ==
    /\ evidence' = [evidence EXCEPT ![r] = items]
    /\ manifest' = [manifest EXCEPT ![r] = ManifestFor(items, fingerprint, asset)]
    /\ CompareAndSet(r, {"running"}, "validated", "candidate_validated")
    /\ UNCHANGED <<source, publication, fts, pdfReport, transcript>>

\* Mutation: the existing observation is not compared.
AnyReport(r, report) == TRUE

\* A recorded raster observation may only be written again unchanged.
ReportAcceptable(r, report) ==
    pdfReport[r] # None /\ pdfReport[r].raster => pdfReport[r] = report

PersistPdfIntakeReport(r, report) ==
    /\ run[r].state # "absent"
    /\ ReportAcceptable(r, report)
    /\ pdfReport' = [pdfReport EXCEPT ![r] = report]
    /\ UNCHANGED <<source, run, evidence, manifest, publication, fts, transcript, events>>

-----------------------------------------------------------------------------
(* activate_publication.                                                   *)

Supersede(r) ==
    /\ run[r].state = "validated"
    /\ Stale(r)
    /\ CompareAndSet(r, {"validated"}, "superseded", "run_superseded")
    /\ UNCHANGED <<source, evidence, manifest, publication, fts, pdfReport, transcript>>

\* _validate_pdf_intake_report: a successful report that describes the
\* candidate Evidence page by page, and at least one page.
PdfReportMatches(r, report) ==
    /\ ~report.failed
    /\ report.pages # {}
    /\ report.pages = evidence[r]

\* Mutation: only audio is checked, a video may publish without its report.
AudioTranscriptMatches(r, report) ==
    manifest[r].fingerprint \in AudioWhisper =>
        /\ report # None
        /\ report.fingerprint = manifest[r].fingerprint
        /\ report.segments = Cardinality(evidence[r])

\* A faster-whisper Publication needs a transcript report; an audio one also
\* has to match the RunManifest and the candidate Evidence.
TranscriptMatches(r, report) ==
    LET fingerprint == manifest[r].fingerprint
    IN  /\ fingerprint \in VideoWhisper \cup AudioWhisper => report # None
        /\ fingerprint \in AudioWhisper =>
               /\ report.fingerprint = fingerprint
               /\ report.segments = Cardinality(evidence[r])

ActiveRows(s, r) ==
    {[source |-> s, publication |-> r, item |-> i] : i \in evidence[r]}

\* Mutation: the old rows of the Source stay.
AppendFts(s, r) == fts \cup ActiveRows(s, r)

\* Mutation: DELETE without WHERE source_id.
RebuildFts(s, r) == ActiveRows(s, r)

\* The Source's FTS rows are deleted and the Run's Evidence is inserted.
ReplaceFts(s, r) == {row \in fts : row.source # s} \cup ActiveRows(s, r)

\* Mutation: the revision is not incremented after the first Publication.
SameRevision(s) == IF source[s].revision = 0 THEN 1 ELSE source[s].revision

NextRevision(s) == source[s].revision + 1

Publish(r, report, trans) ==
    LET s == run[r].source
        next == NextRevision(s)
    IN  /\ run[r].state = "validated"
        /\ ~Stale(r)
        /\ manifest[r] # None
        /\ TranscriptMatches(r, trans)
        /\ report # None => PdfReportMatches(r, report) /\ ReportAcceptable(r, report)
        /\ publication' = [publication EXCEPT ![r] = next]
        /\ fts' = ReplaceFts(s, r)
        /\ source' = [source EXCEPT ![s] = [active    |-> r,
                                            revision  |-> next,
                                            requested |-> source[s].requested]]
        /\ pdfReport' = IF report = None THEN pdfReport
                        ELSE [pdfReport EXCEPT ![r] = report]
        /\ transcript' = IF trans = None THEN transcript
                         ELSE [transcript EXCEPT ![r] = trans]
        /\ CompareAndSet(r, {"validated"}, "published", "publication_activated")
        /\ UNCHANGED <<evidence, manifest>>

ActivatePublication(r, report, trans) == Supersede(r) \/ Publish(r, report, trans)

-----------------------------------------------------------------------------
\* ingest_* processes the Source's own Asset; reprocess_pdf and retry_pdf
\* reuse a Source for whatever file they are given.
ProcessedAssets(r) == {AssetOf[run[r].source]} \cup RevisedAssets

\* No extractor hands over an empty candidate: a PDF without text and a
\* transcript without segments are refused before the store is called.
Candidates == (SUBSET Items) \ {{}}

\* A PDF Run is activated with a PDF report or none, a faster-whisper Run with
\* a transcript report or none, any other Run with none.
Offered(r, report, trans) ==
    LET whisper == manifest[r] # None /\ manifest[r].fingerprint \in VideoWhisper \cup AudioWhisper
    IN  (whisper => report = None) /\ (~whisper => trans = None)

Next ==
    \/ \E r \in Runs, s \in Sources :
          \E retryOf \in {q \in Created : run[q].source = s} \cup {None} :
              CreateRun(r, s, retryOf)
    \/ \E r \in Runs :
          \/ MarkRunRunning(r)
          \/ MarkRunFailed(r)
          \/ MarkValidatedRunFailed(r)
    \/ InterruptUnfinishedRuns
    \/ \E r \in Created, items \in Candidates, fingerprint \in Fingerprints :
          \E asset \in ProcessedAssets(r) :
              PersistValidatedCandidate(r, items, fingerprint, asset)
    \/ \E r \in Runs, report \in PdfReports : PersistPdfIntakeReport(r, report)
    \/ \E r \in Created, report \in PdfReports \cup {None},
          trans \in TranscriptReports \cup {None} :
              Offered(r, report, trans) /\ ActivatePublication(r, report, trans)

Spec == Init /\ [][Next]_vars

-----------------------------------------------------------------------------
(* What readers see.                                                       *)

\* The rows Search can match: FTS rows joined back through the Source's
\* active Publication (_FTS_MATCHED_CTE).
VisibleRows(s) ==
    {row \in fts : row.source = s /\ row.publication = source[s].active}

\* _read_and_validate_active_publication_rows for one active Source.
GraphValid(s) ==
    LET r == source[s].active
    IN  /\ publication[r] = source[s].revision
        /\ run[r].source = s
        /\ run[r].state = "published"
        /\ manifest[r] # None
        /\ manifest[r].count = Cardinality(evidence[r])
        /\ manifest[r].asset = AssetOf[s]
        /\ evidence[r] # {}

-----------------------------------------------------------------------------
(* Invariants.                                                             *)

PublishedRuns(s) == {r \in Runs : run[r].source = s /\ publication[r] # 0}

\* The active FTS projection is, Source by Source, exactly the Evidence of the
\* active Publication's Run: activation (activate_publication) leaves neither a
\* row of a superseded Publication nor a hole, whatever Runs of this or another
\* Source persisted, failed or were activated in between.
ActiveProjection ==
    \A s \in Sources :
        {row \in fts : row.source = s} =
            IF source[s].active = None THEN {}
            ELSE ActiveRows(s, source[s].active)

\* Publications of a Source form one gapless history: revisions 1..n, each
\* carried by exactly one Run, and the active pointer names the last of them.
PublicationHistory ==
    \A s \in Sources :
        /\ {publication[r] : r \in PublishedRuns(s)} = 1..source[s].revision
        /\ \A p, q \in PublishedRuns(s) : publication[p] = publication[q] => p = q
        /\ source[s].active # None =>
              /\ source[s].active \in PublishedRuns(s)
              /\ publication[source[s].active] = source[s].revision
        /\ source[s].active = None <=> source[s].revision = 0

\* ADR-0002, "Reprocessing a Source cannot let an older Run overwrite a newer
\* request": among the Publications of a Source the later one always serves
\* the later request, so no activation order lets an old request win.
LatestRequestWins ==
    \A s \in Sources : \A p, q \in PublishedRuns(s) :
        publication[p] < publication[q] => run[p].generation < run[q].generation

\* No lost update: a Publication replaces exactly the revision its Run had
\* seen when it was created, so two Runs created on the same revision are
\* never both published.
BasedOnPredecessor ==
    \A r \in Runs : publication[r] # 0 => publication[r] = run[r].base + 1

\* Every state of a Run with each event log that leads to it.
LawfulLogs ==
    {<<"absent",      << >> >>,
     <<"queued",      <<"run_created">> >>,
     <<"running",     <<"run_created", "run_started">> >>,
     <<"validated",   <<"run_created", "run_started", "candidate_validated">> >>,
     <<"published",   <<"run_created", "run_started", "candidate_validated",
                        "publication_activated">> >>,
     <<"superseded",  <<"run_created", "run_started", "candidate_validated",
                        "run_superseded">> >>,
     <<"failed",      <<"run_created", "run_failed">> >>,
     <<"failed",      <<"run_created", "run_started", "run_failed">> >>,
     <<"failed",      <<"run_created", "run_started", "candidate_validated",
                        "run_failed">> >>,
     <<"interrupted", <<"run_created", "run_interrupted">> >>,
     <<"interrupted", <<"run_created", "run_started", "run_interrupted">> >>}

\* The event log of a Run tells how it reached its state: every transition
\* left exactly its own event, in order, and no transition was taken twice.
EventsExplainState == \A r \in Runs : <<run[r].state, events[r]>> \in LawfulLogs

\* The active Publication of every Source passes the provenance checks that
\* guard each read of the Library (list, search, export), so a legal sequence
\* of ingests never leaves the whole Library unreadable.
LibraryReadable ==
    \A s \in Sources : source[s].active # None => GraphValid(s)

\* Every faster-whisper Publication has its transcript report, recorded in the
\* transaction that published it, and for audio the report, the RunManifest
\* and the Evidence still agree after any later step.
TranscriptBacked ==
    \A r \in Runs :
        /\ publication[r] # 0 /\ manifest[r].fingerprint \in VideoWhisper \cup AudioWhisper
              => transcript[r] # None
        /\ publication[r] # 0 /\ manifest[r].fingerprint \in AudioWhisper
              => /\ transcript[r].fingerprint = manifest[r].fingerprint
                 /\ transcript[r].segments = Cardinality(evidence[r])
        /\ transcript[r] # None => publication[r] # 0

-----------------------------------------------------------------------------
(* Action properties.                                                      *)

CandidateKept(r) ==
    run[r].state \in {"validated", "published", "superseded", "failed", "interrupted"}
        => evidence'[r] = evidence[r] /\ manifest'[r] = manifest[r]

\* Evidence and RunManifest of a Run are written once: after the Run is
\* validated no step, its own retry or recovery included, changes them.
CandidateFrozen == [][\A r \in Runs : CandidateKept(r)]_vars

NotResurrected(r) ==
    /\ run[r].state \in {"published", "failed", "superseded", "interrupted"}
          => run'[r] = run[r]
    /\ Stale(r) => publication'[r] = publication[r]

\* "A stale or interrupted Run cannot be resurrected by a later validation or
\* activation write" (ADR-0002): a settled Run keeps its state, and a Run that
\* became stale, even before it was validated, never becomes searchable.
NoResurrection == [][\A r \in Created : NotResurrected(r)]_vars

ObservationKept(r) ==
    pdfReport[r] # None /\ pdfReport[r].raster => pdfReport'[r] = pdfReport[r]

\* ADR-0015: a raster observation of a Run is never replaced, neither by a later
\* report of the same Run nor by the report that activation inserts.
ObservationFrozen == [][\A r \in Runs : ObservationKept(r)]_vars

-----------------------------------------------------------------------------
(* What the store promises Search, stated in ActivePublication.            *)

Served(s) == IF source[s].active = None THEN 0 ELSE run[source[s].active].generation

Promise == INSTANCE ActivePublication WITH
    visible   <- [s \in Sources |-> VisibleRows(s)],
    revision  <- [s \in Sources |-> source[s].revision],
    requested <- [s \in Sources |-> source[s].requested],
    served    <- [s \in Sources |-> Served(s)]

\* Whatever the Runs do, Search sees each Source switch atomically from one
\* complete candidate to a newer request's: the store implements the abstract
\* ActivePublication.
ImplementsPromise == Promise!Spec

=============================================================================
