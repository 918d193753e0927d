---------------------------- MODULE EvidencePaging ----------------------------
(***************************************************************************)
(* Loss-aware reads: search_library_v2, search_source_evidence_v1,         *)
(* list_sources, browse_source_evidence and read_evidence_v1 hand a long   *)
(* answer out in pages or chunks, each with a cursor for the next one.     *)
(* The server keeps nothing between two calls: the cursor carries the      *)
(* epoch of its owner process, the fingerprint of the active set and a     *)
(* position, and is authenticated.  Between two calls of a chain, and      *)
(* inside one, Sources may be published anew and the owner may restart.    *)
(*                                                                         *)
(* A call is two steps inside one read transaction: Validate takes the     *)
(* snapshot and checks in it first whether the whole active set can be     *)
(* trusted and then the cursor, Select reads the page from it.             *)
(*                                                                         *)
(* Left out: malformed, foreign and altered cursors, which end as          *)
(* invalid_cursor; the query itself (Selected is whatever the retrieval of *)
(* an active set returns, in its order); JSON; damage to the tables that   *)
(* no operation does, of all that the provenance check looks for (what an  *)
(* operation can do is a Publication made from other bytes than those of   *)
(* its Source).  A retrieval policy changes only with the owner, so        *)
(* retrieval_policy_changed needs no case here.                            *)
(***************************************************************************)
EXTENDS Naturals, Sequences, FiniteSets

CONSTANTS
    Chains,         \* clients, each following one chain of cursors
    Sources,
    Texts,          \* Evidence texts: the byte offset at the end of each code point
    Contents,       \* the Evidence of a Publication, in locator order
    Publications,   \* [Sources -> SUBSET PublicationType]: what may be published
    Requests,       \* the initial calls a client may make
    Selected(_, _), \* the rows of an active set that a request selects, in order
    Scanned(_, _),  \* the rows a scan strategy has to load to find them
    Metadata,       \* [Sources -> Nat]: bytes of an entry beside its excerpt
    MaxLabel,       \* bytes of a label that discovery reads, 32768
    MaxMode,        \* bytes of an extraction_mode that it reads, 4096
    MaxPageText,    \* MAX_SEARCH_PAGE_TEXT_BYTES, MAX_READABLE_EVIDENCE_BYTES
    MaxExcerpt,     \* MAX_EXCERPT_BYTES
    MaxContent,     \* MAX_EXCERPT_CONTENT_BYTES
    MaxModel,       \* MAX_CANONICAL_MODEL_BYTES
    MaxPool,        \* max_results of the scan strategies
    MaxCandidates,  \* max_candidate_pool
    MaxScan,        \* max_active_evidence_text_bytes, max_matched_text_bytes
    MaxRevision,    \* bound: Publications per Source
    MaxOwners,      \* bound: incarnations of the owner process
    MaxLost,        \* bound: answers lost on the way
    None

Tools == {"search", "source_search", "catalog", "browse", "read"}

\* source and revision name a Publication, index one row of its Evidence, where
\* the tool needs them; size is page_size, limit or max_bytes.
RequestType == [tool : Tools, route : {"fts", "scan"}, source : Sources,
                revision : Nat \ {0}, index : Nat \ {0}, size : Nat \ {0}]

\* sound: the manifest's digest is that of the Source's Asset; label: bytes of the
\* longest of display_name, media_type, required_stages and extractor_fingerprint;
\* mode: bytes of the PDF report's extraction_mode, 0 without a report.
PublicationType == [rows : Contents, sound : BOOLEAN, label : Nat, mode : Nat]

Nothing == [rows |-> << >>, sound |-> TRUE, label |-> 0, mode |-> 0]

\* What may be active of a Source; Nothing before its first Publication.
Actives == {Nothing} \cup UNION {Publications[s] : s \in Sources}

Databases == [Sources -> [revision : 0 .. MaxRevision, publication : Actives]]

\* A row of Evidence, or a Source as a row of the catalog when index is 0.
Items == [source : Sources, revision : Nat, index : Nat]

ASSUME ConstantsAssumption ==
    /\ Texts \subseteq Seq(Nat \ {0})
    /\ \A t \in Texts :
          /\ t # << >> /\ t[1] <= 4
          /\ \A i, j \in DOMAIN t : i < j => t[i] < t[j]
          /\ \A i \in DOMAIN t : i + 1 \in DOMAIN t => t[i + 1] <= t[i] + 4
    /\ Contents \subseteq Seq(Texts)
    /\ << >> \notin Contents
    /\ Publications \in [Sources -> SUBSET PublicationType]
    /\ Requests \subseteq RequestType
    /\ \A r \in Requests : r.tool = "read" => r.size >= 4
    /\ Metadata \in [Sources -> Nat]
    /\ MaxExcerpt \in Nat /\ MaxContent \in Nat /\ MaxExcerpt <= MaxContent
    /\ MaxLabel \in Nat /\ MaxMode \in Nat
    /\ MaxPageText \in Nat /\ MaxModel \in Nat
    /\ MaxPool \in Nat /\ MaxCandidates \in Nat /\ MaxScan \in Nat
    /\ MaxRevision \in Nat /\ MaxOwners \in Nat /\ MaxLost \in Nat

ASSUME SelectionAssumption ==
    \A d \in Databases, r \in Requests :
        Selected(d, r) \in Seq(Items) /\ Scanned(d, r) \in Seq(Items)

ASSUME NoneAssumption == None \notin Databases /\ None \notin [epoch : Nat,
    fingerprint : [Sources -> Nat], position : Nat]

VARIABLES
    db,         \* the active Publication of each Source
    owner,      \* the incarnation of the owner process, and its epoch
    lost,       \* answers lost so far
    request,    \* the initial call of each chain
    view,       \* the snapshot of a call in progress, or None
    cursor,     \* the cursor a client would send, or None
    got,        \* what the client has put together so far
    status,     \* the selection status or the problem that ended the chain
    begun,      \* history: the snapshot of the first page
    startedBy,  \* history: the owner that answered the first page
    final       \* history: the snapshot of the call that ended the chain

vars == <<db, owner, lost, request, view, cursor, got, status, begun, startedBy, final>>

Init ==
    /\ db = [s \in Sources |-> [revision |-> 0, publication |-> Nothing]]
    /\ owner = 1
    /\ lost = 0
    /\ request \in [Chains -> Requests]
    /\ view = [c \in Chains |-> None]
    /\ cursor = [c \in Chains |-> None]
    /\ got = [c \in Chains |-> << >>]
    /\ status = [c \in Chains |-> "open"]
    /\ begun = [c \in Chains |-> None]
    /\ startedBy = [c \in Chains |-> 0]
    /\ final = [c \in Chains |-> None]

-----------------------------------------------------------------------------
(* The writer and the owner.                                               *)

\* A Publication is activated (RunLifecycle's Publish), an unsound one too:
\* a reprocess of a revised file (RunLifecycle's ProcessedAssets).
Publish(s, p) ==
    /\ db[s].revision < MaxRevision
    /\ db' = [db EXCEPT ![s] = [revision |-> db[s].revision + 1, publication |-> p]]
    /\ UNCHANGED <<owner, lost, request, view, cursor, got, status, begun, startedBy, final>>

\* A new process has a new key and a new epoch; calls in progress are gone.
RestartOwner ==
    /\ owner < MaxOwners
    /\ owner' = owner + 1
    /\ view' = [c \in Chains |-> None]
    /\ UNCHANGED <<db, lost, request, cursor, got, status, begun, startedBy, final>>

\* The client never sees the answer and sends the same call again.
LoseAnswer(c) ==
    /\ view[c] # None
    /\ lost < MaxLost
    /\ lost' = lost + 1
    /\ view' = [view EXCEPT ![c] = None]
    /\ UNCHANGED <<db, owner, request, cursor, got, status, begun, startedBy, final>>

-----------------------------------------------------------------------------
(* Validation of the active set, and then of the cursor.                   *)

Active(d) == {s \in Sources : d[s].revision # 0}

\* list_sources and browse_source_evidence.
Discovers(r) == r.tool \in {"catalog", "browse"}

\* _source_discovery_authority: the labels of every active Source are looked at,
\* on the page or not.
LongLabels(d) == \E s \in Active(d) : d[s].publication.label > MaxLabel

\* _read_and_validate_active_publication_rows accepts all the active
\* Publications or none.
Trusted(d) == \A s \in Active(d) : d[s].publication.sound

\* Each tool has its own handler of ManifestValidationError.
UntrustedProblem(r) ==
    IF r.tool = "source_search" THEN "evidence_not_found" ELSE "internal_error"

\* _source_discovery_authority, _active_authority_snapshot.
AuthorityProblem(d, r) ==
    IF Discovers(r) /\ LongLabels(d) THEN "response_too_large"
    ELSE IF ~Trusted(d) THEN UntrustedProblem(r) ELSE "none"

\* derive_active_set_fingerprint: no Publication is ever changed, so its
\* revision stands for the ids and digests that go into the hash
\* (RevisionNamesAnAnswer in RunLifecycleStepProofs).
Fingerprint(d) == [s \in Sources |-> d[s].revision]

\* Mutation: every refusal is reported as a change of the active set.
AnyRefusal(c) ==
    IF cursor[c] = None THEN "none"
    ELSE IF cursor[c].epoch # owner \/ cursor[c].fingerprint # Fingerprint(db)
    THEN "active_set_changed"
    ELSE "none"

\* validate_*_cursor, inside the snapshot the page is then read from.
Refusal(c) ==
    IF cursor[c] = None THEN "none"
    ELSE IF cursor[c].epoch # owner THEN "owner_restarted"
    ELSE IF cursor[c].fingerprint # Fingerprint(db) THEN "active_set_changed"
    ELSE "none"

\* The active set is validated before anybody looks at the cursor.
Verdict(c) ==
    IF AuthorityProblem(db, request[c]) # "none" THEN AuthorityProblem(db, request[c])
    ELSE Refusal(c)

End(c, problem, d) ==
    /\ status' = [status EXCEPT ![c] = problem]
    /\ final' = [final EXCEPT ![c] = d]

Validate(c) ==
    /\ status[c] = "open"
    /\ view[c] = None
    /\ IF Verdict(c) = "none"
       THEN view' = [view EXCEPT ![c] = db] /\ UNCHANGED <<status, final>>
       ELSE End(c, Verdict(c), db) /\ UNCHANGED view
    /\ UNCHANGED <<db, owner, lost, request, cursor, got, begun, startedBy>>

-----------------------------------------------------------------------------
(* What there is to hand out.                                              *)

SmallerOf(a, b) == IF a <= b THEN a ELSE b

First(n, rows) == SubSeq(rows, 1, n)

Size(text) == IF text = << >> THEN 0 ELSE text[Len(text)]

Rows(d, s) == d[s].publication.rows

TextOf(d, item) == IF item.index = 0 THEN << >> ELSE Rows(d, item.source)[item.index]

\* The routes of the scan strategies exist for the two search tools only.
Scans(r) == r.tool \in {"search", "source_search"} /\ r.route = "scan"

PublicationRows(d, r) ==
    [i \in 1 .. Len(Rows(d, r.source)) |->
        [source |-> r.source, revision |-> r.revision, index |-> i]]

\* All that the request asks for, before any page, chunk or pool limits it.
Eligible(d, r) ==
    CASE r.tool = "read" -> Rows(d, r.source)[r.index]
      [] r.tool = "browse" -> PublicationRows(d, r)
      [] OTHER -> Selected(d, r)

\* A scan of the whole Library keeps its best MaxPool rows; within one Source
\* max_results is raised to max_candidate_pool.
Discarded(d, r) == Scans(r) /\ r.tool = "search" /\ Len(Eligible(d, r)) > MaxPool

\* The sequence the pages are cut from: rows, or the code points of one text.
Pool(d, r) == IF Discarded(d, r) THEN First(MaxPool, Eligible(d, r)) ELSE Eligible(d, r)

\* The Publication, or the Evidence, that the request names is active.
Found(d, r) ==
    r.tool \in {"source_search", "browse", "read"} =>
        /\ d[r.source].revision = r.revision
        /\ r.tool = "read" => r.index \in DOMAIN Rows(d, r.source)

\* A byte offset at which decoding can begin.
Aligned(text, offset) == offset = 0 \/ \E k \in DOMAIN text : text[k] = offset

-----------------------------------------------------------------------------
(* One page of rows, or one chunk of a text.                               *)

Sum(weights) ==
    LET upTo[n \in 0 .. Len(weights)] == IF n = 0 THEN 0 ELSE upTo[n - 1] + weights[n]
    IN  upTo[Len(weights)]

TextBytes(d, rows) == Sum([i \in DOMAIN rows |-> Size(TextOf(d, rows[i]))])

ExcerptBytes(d, rows) ==
    Sum([i \in DOMAIN rows |-> SmallerOf(Size(TextOf(d, rows[i])), MaxExcerpt)])

EnvelopeBytes(d, rows) ==
    Sum([i \in DOMAIN rows |-> Metadata[rows[i].source]]) + ExcerptBytes(d, rows)

\* The FTS routes and browsing load texts one by one up to a budget.
Preflighted(r) ==
    \/ r.tool = "browse"
    \/ r.tool \in {"search", "source_search"} /\ r.route = "fts"

\* LIMIT page_size + 1 OFFSET from.
Fetched(d, r, from) ==
    SubSeq(Pool(d, r), from + 1, SmallerOf(from + r.size + 1, Len(Pool(d, r))))

Candidates(d, r, from) ==
    LET rows == Fetched(d, r, from) IN First(SmallerOf(r.size, Len(rows)), rows)

\* cjk_scan_budget_exceeded, cjk_candidate_pool_capped (a limit on the number of
\* rows scanned is left out: it ends like the limit on their bytes).
ScanRefused(d, r) ==
    Scans(r) /\ (TextBytes(d, Scanned(d, r)) > MaxScan \/ Len(Eligible(d, r)) > MaxCandidates)

\* How many of the first rows the text budget admits; one is always admitted.
Admitted(d, r, rows) ==
    {n \in 1 .. Len(rows) :
        Preflighted(r) => \A m \in 2 .. n : TextBytes(d, First(m, rows)) <= MaxPageText}

\* The loop meets a row that alone exceeds the budget before it stops.
Oversized(d, r, rows) ==
    /\ Preflighted(r)
    /\ \E k \in 1 .. Len(rows) :
          /\ Size(TextOf(d, rows[k])) > MaxPageText
          /\ k > 1 => k - 1 \in Admitted(d, r, rows)

\* The Sources whose coverage a page reports.
Described(r, rows) ==
    CASE r.tool = "catalog" -> {rows[i].source : i \in DOMAIN rows}
      [] r.tool = "browse" -> {r.source}
      [] OTHER -> {}

\* _source_coverage refuses an extraction_mode beyond its limit.
LongMode(d, r, rows) == \E s \in Described(r, rows) : d[s].publication.mode > MaxMode

Excerpted(d, r, rows) ==
    {n \in Admitted(d, r, rows) : \A m \in 2 .. n : ExcerptBytes(d, First(m, rows)) <= MaxContent}

Enveloped(d, r, rows) ==
    {n \in Excerpted(d, r, rows) : EnvelopeBytes(d, First(n, rows)) <= MaxModel}

\* search_library_v2 does not try a shorter page when the response is too large.
Shrinks(r) == r.tool # "search"

\* Mutation: a page that does not fit is tried once more, without its last row.
ShrinkOnce(d, r, rows) ==
    IF Cardinality(Excerpted(d, r, rows)) \in Enveloped(d, r, rows)
    THEN Cardinality(Excerpted(d, r, rows))
    ELSE IF Shrinks(r) /\ Cardinality(Excerpted(d, r, rows)) - 1 \in Enveloped(d, r, rows)
    THEN Cardinality(Excerpted(d, r, rows)) - 1
    ELSE 0

\* The sets above hold every number up to the largest that fits, so their
\* Cardinality is that number.
PageLength(d, r, rows) ==
    IF Shrinks(r) THEN Cardinality(Enveloped(d, r, rows))
    ELSE IF Cardinality(Excerpted(d, r, rows)) \in Enveloped(d, r, rows)
    THEN Cardinality(Excerpted(d, r, rows)) ELSE 0

\* Mutation: the end of the chunk is not moved back to a code point when the
\* budget ends inside the first one.
ChunkLengthTight(text, offset, size) ==
    Cardinality({k \in DOMAIN text : offset < text[k] /\ text[k] < offset + size})

\* read_utf8_chunk: the code points that end within size bytes of the offset.
ChunkLength(text, offset, size) ==
    Cardinality({k \in DOMAIN text : offset < text[k] /\ text[k] <= offset + size})

\* Units that lie before a position: rows, or code points before a byte offset.
Before(d, r, position) ==
    IF r.tool = "read"
    THEN Cardinality({k \in DOMAIN Pool(d, r) : Pool(d, r)[k] <= position})
    ELSE position

PositionAfter(d, r, n) ==
    IF r.tool = "read" THEN (IF n = 0 THEN 0 ELSE Pool(d, r)[n]) ELSE n

-----------------------------------------------------------------------------
(* The answer.                                                             *)

Position(c) == IF cursor[c] = None THEN 0 ELSE cursor[c].position

\* Mutation: the page is selected outside the transaction that validated.
SnapshotNow(c) == db

SnapshotOf(c) == view[c]

ReadProblem(text, offset) ==
    IF Size(text) > MaxPageText THEN "response_too_large"
    ELSE IF offset >= Size(text) THEN "evidence_not_found"
    ELSE IF Aligned(text, offset) THEN "none" ELSE "internal_error"

\* search_library_v2 has no handler for EvidenceResponseTooLargeError.
OversizedProblem(r) == IF r.tool = "search" THEN "internal_error" ELSE "response_too_large"

\* The problem a call ends with, or "none".
Problem(d, r, position, rows) ==
    IF ~Found(d, r) THEN "evidence_not_found"
    ELSE IF r.tool = "read" THEN ReadProblem(Pool(d, r), position)
    ELSE IF ScanRefused(d, r) THEN "scan_refused"
    ELSE IF LongMode(d, r, rows) \/ Oversized(d, r, rows) THEN OversizedProblem(r)
    ELSE IF rows # << >> /\ PageLength(d, r, rows) = 0 THEN "response_too_large" ELSE "none"

\* `more` as each tool computes it: a row was fetched that is not on the page,
\* or the chunk does not end the text.
More(d, r, from, n) ==
    IF r.tool = "read" THEN PositionAfter(d, r, from + n) # Size(Pool(d, r))
    ELSE Len(Fetched(d, r, from)) > n

\* Mutation: a capped pool is reported as complete.
EndsUncapped(d, r) == "complete"

EndsAs(d, r) == IF Discarded(d, r) THEN "capped" ELSE "complete"

NextCursor(c, d, position) ==
    [epoch |-> owner, fingerprint |-> Fingerprint(d), position |-> position]

Deliver(c, d, from, n) ==
    LET r == request[c]
        more == More(d, r, from, n)
    IN  /\ got' = [got EXCEPT ![c] = got[c] \o SubSeq(Pool(d, r), from + 1, from + n)]
        /\ cursor' = [cursor EXCEPT ![c] =
               IF more THEN NextCursor(c, d, PositionAfter(d, r, from + n)) ELSE None]
        /\ IF more THEN UNCHANGED <<status, final>> ELSE End(c, EndsAs(d, r), d)

\* The rows the page is taken from, and how many units it returns.
PageRows(d, r, position) ==
    IF r.tool = "read" \/ ~Found(d, r) THEN << >> ELSE Candidates(d, r, position)

Returned(d, r, position, rows) ==
    IF r.tool = "read" THEN ChunkLength(Pool(d, r), position, r.size)
    ELSE PageLength(d, r, rows)

Select(c) ==
    /\ view[c] # None
    /\ \E d \in {SnapshotOf(c)}, r \in {request[c]}, position \in {Position(c)} :
       \E rows \in {PageRows(d, r, position)} :
          /\ IF Problem(d, r, position, rows) = "none"
             THEN Deliver(c, d, Before(d, r, position), Returned(d, r, position, rows))
             ELSE End(c, Problem(d, r, position, rows), d) /\ UNCHANGED <<got, cursor>>
          /\ begun' = [begun EXCEPT ![c] = IF cursor[c] = None THEN d ELSE begun[c]]
    /\ startedBy' = [startedBy EXCEPT ![c] = IF cursor[c] = None THEN owner ELSE startedBy[c]]
    /\ view' = [view EXCEPT ![c] = None]
    /\ UNCHANGED <<db, owner, lost, request>>

-----------------------------------------------------------------------------
Next ==
    \/ \E s \in Sources : \E p \in Publications[s] : Publish(s, p)
    \/ RestartOwner
    \/ \E c \in Chains : LoseAnswer(c) \/ Validate(c) \/ Select(c)

\* The server answers and the client goes on asking until its chain has ended.
Fairness == \A c \in Chains : WF_vars(Validate(c) \/ Select(c))

Spec == Init /\ [][Next]_vars /\ Fairness

-----------------------------------------------------------------------------
(* Properties.                                                             *)

Problems == {"evidence_not_found", "response_too_large", "scan_refused", "internal_error"}

Statuses == {"open", "complete", "capped", "owner_restarted", "active_set_changed"} \cup Problems

Cursors == [epoch : Nat, fingerprint : [Sources -> Nat], position : Nat]

\* Code points, by the offsets at which they end, or rows.
Units(r) == IF r.tool = "read" THEN Seq(Nat) ELSE Seq(Items)

TypeOK ==
    /\ db \in Databases
    /\ owner \in Nat /\ lost \in Nat
    /\ request \in [Chains -> Requests]
    /\ view \in [Chains -> Databases \cup {None}]
    /\ cursor \in [Chains -> Cursors \cup {None}]
    /\ got = [c \in Chains |-> got[c]]
    /\ \A c \in Chains : got[c] \in Units(request[c])
    /\ status \in [Chains -> Statuses]
    /\ begun \in [Chains -> Databases \cup {None}]
    /\ startedBy \in [Chains -> Nat]
    /\ final \in [Chains -> Databases \cup {None}]

\* mcp-contract.md, "Chunks partition the exact active Evidence UTF-8 bytes
\* without overlap, gaps, or split code points", and the same of pages: whatever
\* is published, restarted or repeated in between, what a client has put
\* together is the beginning of one answer, that of the snapshot of its first
\* page, and all of it once the last page says so.
PagesAreOneAnswer ==
    \A c \in Chains : begun[c] # None /\ Found(begun[c], request[c]) =>
        LET whole == Pool(begun[c], request[c])
        IN  /\ Len(got[c]) <= Len(whole)
            /\ got[c] = First(Len(got[c]), whole)
            /\ status[c] \in {"complete", "capped"} => got[c] = whole

\* "`complete` terminates the selected pool", "`capped` is terminal but not
\* exhaustive", and a search within one Source "has no `capped` terminal page":
\* a client told "complete" holds every row the query selects, and only a search
\* of the Library is ever cut short.
CompleteIsExhaustive ==
    \A c \in Chains :
        /\ status[c] = "complete" => got[c] = Eligible(begun[c], request[c])
        /\ status[c] = "capped" => request[c].tool = "search"

\* A chain is given up for the reason it is given: the owner that started it is
\* gone, or the active set it began with is.  A client that holds a part of the
\* answer may learn of a new active set in another way, when the readers reject
\* that set as a whole, and a search of one Source then says that the Evidence
\* is not there; but it never hears this of a set that readers trust, and no
\* chain that was served fails for its active set while that set lasts.
ExpiredForCause ==
    \A c \in Chains :
        LET Changed == Fingerprint(begun[c]) # Fingerprint(final[c])
        IN  /\ status[c] = "owner_restarted" => startedBy[c] < owner
            /\ status[c] = "active_set_changed" => Changed
            /\ status[c] = "evidence_not_found" /\ got[c] # << >> =>
                  request[c].tool = "source_search" /\ ~Trusted(final[c]) /\ Changed
            /\ begun[c] # None /\ final[c] # None =>
                  AuthorityProblem(final[c], request[c]) = "none" \/ Changed

\* The page is as long as its text budgets allow and still too large, for a tool
\* that does not try shorter ones; not even its first row fits, for one that does.
TooLarge(d, r, rows) ==
    LET least == IF Shrinks(r) THEN 1 ELSE Cardinality(Excerpted(d, r, rows))
    IN  ~(EnvelopeBytes(d, First(least, rows)) <= MaxModel)

\* "Mandatory overflow is response_too_large": a page is refused only if no page
\* the tool would try can be returned, a text beyond the readable limit or an
\* overlong extraction_mode is among its rows, or an active Source has a label
\* too long for discovery; a text, only if it is beyond the limit.  An internal
\* error means that the active set cannot be trusted or that search_library_v2
\* met such a text; and no text is given up half way while its set lasts.
RefusedOnlyIfItMust ==
    \A c \in Chains : final[c] # None =>
        LET d == final[c]
            r == request[c]
            rows == Candidates(d, r, Len(got[c]))
        IN  /\ status[c] = "internal_error" =>
                  ~Trusted(d) \/ (r.tool = "search" /\ Oversized(d, r, rows))
            /\ status[c] = "response_too_large" =>
                  \/ Discovers(r) /\ LongLabels(d)
                  \/ r.tool = "read" /\ Size(Pool(d, r)) > MaxPageText
                  \/ /\ r.tool # "read"
                     /\ LongMode(d, r, rows) \/ Oversized(d, r, rows) \/ TooLarge(d, r, rows)
            /\ status[c] \in Problems /\ r.tool = "read" /\ got[c] # << >> =>
                  Fingerprint(begun[c]) # Fingerprint(d)

\* Every chain comes to an end: each page and chunk makes progress.
ChainEnds == \A c \in Chains : <>(status[c] # "open")

=============================================================================
