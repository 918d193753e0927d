------------------------ MODULE StoreConnectionsProofs ------------------------
(* Proofs about StoreConnections, for any number of calls and owners.      *)
EXTENDS StoreConnections, FiniteSetTheorems, TLAPS

\* The two phases of the catalog are written as one set everywhere.
USE DEF Cataloguing

-----------------------------------------------------------------------------
(* The inductive invariant.                                                *)

\* A call that has left "idle" runs in an owner; it holds no snapshot before it
\* has entered recovery; the calls of a dead owner have ended.
CallsInv ==
    \A c \in Calls :
        /\ pc[c] # "idle" => owner[c] \in Owners /\ kind[c] \in Kinds
        /\ pc[c] = "idle" => owner[c] = None
        /\ pc[c] \in {"idle", "opening"} => view[c] = None
        /\ owner[c] \in Owners => /\ life[owner[c]] # "unborn"
                                  /\ life[owner[c]] = "dead" => pc[c] = "ended"

OwnersInv ==
    \A o \in Owners :
        /\ \A p \in before[o] : life[p] = "dead"
        /\ life[o] = "unborn" => ~recovered[o]

\* Only one call of an owner is in recovery, it holds the lock, and the latch
\* is not set yet; a call with a Run, or about to create one, is past recovery.
LatchInv ==
    \A c \in Calls :
        /\ pc[c] = "recovering" => holder[owner[c]] = c /\ ~recovered[owner[c]]
        /\ pc[c] \in Cataloguing => recovered[owner[c]]
        /\ db.run[c].state # "absent" => pc[c] # "idle" /\ recovered[owner[c]]

\* The Runs of owners that had died before are all in the snapshot of a sweep:
\* none of them can become unfinished after the snapshot was taken.
SweepInv ==
    \A c \in Calls : pc[c] = "recovering" /\ view[c] # None =>
        \A d \in Unfinished(db) :
            owner[d] \in before[owner[c]] => d \in Unfinished(view[c])

KeysInv ==
    /\ \A x, y \in db.libraries : x = y
    /\ \A a, b \in db.assets : a.file = b.file => a = b
    /\ \A i, j \in DOMAIN db.catalog : db.catalog[i].asset = db.catalog[j].asset => i = j

\* The Run of a call is where the call is.
RunAt(c) ==
    /\ pc[c] \in {"idle", "opening", "recovering", "selecting", "ensuring"} =>
           db.run[c].state = "absent"
    /\ pc[c] = "activating" => db.run[c].state = "validated"
    /\ pc[c] \in {"created", "extracting", "persisting"} => db.run[c].state # "absent"
    /\ db.run[c].state = "validated" => c \in db.candidate
    /\ db.run[c].state # "absent" => db.run[c].source \in Calls

RunInv == \A c \in Calls : RunAt(c)

IInv ==
    /\ TypeOK
    /\ CallsInv
    /\ OwnersInv
    /\ LatchInv
    /\ SweepInv
    /\ DeadOwnersRunsEnd
    /\ KeysInv
    /\ RunInv

-----------------------------------------------------------------------------
(* Types.                                                                  *)

LEMMA MovedType ==
  ASSUME NEW d \in Databases, NEW c \in Calls, NEW state \in RunStates, NEW event \in EventTypes
  PROVE  Moved(d, c, state, event) \in Databases
  <1>0. d.run \in RunTable /\ d.events \in EventTable
    BY DEF Databases
  <1>1. [d.run EXCEPT ![c] = [d.run[c] EXCEPT !.state = state]] \in RunTable
    BY <1>0 DEF RunTable
  <1>2. [d.events EXCEPT ![c] = Append(d.events[c], event)] \in EventTable
    BY <1>0 DEF EventTable
  <1> QED BY <1>1, <1>2 DEF Moved, Databases

LEMMA SweptType ==
  ASSUME NEW d \in Databases
  PROVE  Swept(d) \in Databases
  <1>0. d.run \in RunTable /\ d.events \in EventTable
    BY DEF Databases
  <1>1. [c \in Calls |-> IF c \in Unfinished(d)
                         THEN [d.run[c] EXCEPT !.state = "interrupted"] ELSE d.run[c]]
          \in RunTable
    <2> SUFFICES ASSUME NEW c \in Calls
                 PROVE  [d.run[c] EXCEPT !.state = "interrupted"] \in
                          [state : RunStates, source : Calls \cup {None}, generation : Nat,
                           base : Nat, retryOf : {None}]
      BY <1>0 DEF RunTable
    <2> QED BY <1>0 DEF RunTable, RunStates
  <1>2. [c \in Calls |-> IF c \in Unfinished(d)
                         THEN Append(d.events[c], "run_interrupted") ELSE d.events[c]]
          \in EventTable
    <2> SUFFICES ASSUME NEW c \in Calls
                 PROVE  Append(d.events[c], "run_interrupted") \in Seq(EventTypes)
      BY <1>0 DEF EventTable
    <2>1. d.events[c] \in Seq(EventTypes) /\ "run_interrupted" \in EventTypes
      BY <1>0 DEF EventTable, EventTypes
    <2> QED BY <2>1
  <1> QED BY <1>1, <1>2 DEF Swept, Databases

LEMMA EmptyType == EmptyDatabase \in Databases
  <1>1. [c \in Calls |-> NoRun] \in RunTable
    BY DEF RunTable, NoRun, RunStates
  <1>2. [c \in Calls |-> NoSource] \in SourceTable
    BY DEF SourceTable, NoSource
  <1>3. << >> \in Catalogs
    BY DEF Catalogs
  <1>4. /\ [c \in Calls |-> << >>] \in EventTable
        /\ [c \in Calls |-> None] \in FtsTable
        /\ [c \in Calls |-> 0] \in [Calls -> Nat]
    BY DEF FtsTable, EventTable
  <1> QED BY <1>1, <1>2, <1>3, <1>4 DEF EmptyDatabase, Databases

\* What each commit leaves in the tables.
LEMMA CommitType ==
  ASSUME TypeOK, CallsInv, RunInv, NEW c \in Calls
  PROVE  /\ Recover(c) => db' \in Databases
         /\ EnsureLibrary(c) => db' \in Databases
         /\ EnsureAsset(c) => db' \in Databases
         /\ EnsureSource(c) => db' \in Databases
         /\ \A s \in Calls : CreateRun(c, s) => db' \in Databases
         /\ MarkRunRunning(c) => db' \in Databases
         /\ PersistValidatedCandidate(c) => db' \in Databases
         /\ Supersede(c) => db' \in Databases
         /\ Publish(c) => db' \in Databases
         /\ MarkFailed(c) => db' \in Databases
  <1>0. db \in Databases
    BY DEF TypeOK
  <1>t. /\ db.libraries \in SUBSET Calls /\ db.assets \in SUBSET AssetRows
        /\ db.catalog \in Catalogs /\ db.source \in SourceTable /\ db.run \in RunTable
        /\ db.candidate \in SUBSET Calls /\ db.publication \in [Calls -> Nat]
        /\ db.fts \in FtsTable /\ db.events \in EventTable
    BY <1>0 DEF Databases
  <1>m. \A state \in RunStates, event \in EventTypes : Moved(db, c, state, event) \in Databases
    BY <1>0, MovedType
  <1>s. /\ {"running", "validated", "superseded", "published", "failed"} \subseteq RunStates
        /\ {"run_created", "run_started", "candidate_validated", "run_superseded",
            "publication_activated", "run_failed"} \subseteq EventTypes
    BY DEF RunStates, EventTypes
  <1>1. Recover(c) => db' \in Databases
    BY <1>0, SweptType DEF Recover, Commit
  <1>2. EnsureLibrary(c) => db' \in Databases
    BY <1>0 DEF EnsureLibrary, Commit, Databases
  <1>3. EnsureAsset(c) => db' \in Databases
    <2> SUFFICES ASSUME EnsureAsset(c) PROVE db' \in Databases
      OBVIOUS
    <2>1. kind[c] \in Kinds /\ FileOf[c] \in Files
      BY ConstantsAssumption DEF CallsInv, EnsureAsset, Selecting
    <2>2. [id |-> c, file |-> FileOf[c], media |-> MediaType(kind[c])] \in AssetRows
      BY <2>1 DEF AssetRows
    <2> QED BY <1>0, <2>2 DEF EnsureAsset, Commit, Databases
  <1>4. EnsureSource(c) => db' \in Databases
    <2> SUFFICES ASSUME EnsureSource(c) PROVE db' \in Databases
      OBVIOUS
    <2>1. PICK a \in AssetsFor(db, c) :
            db' = [db EXCEPT !.catalog = Append(db.catalog, [id |-> c, asset |-> a.id])]
      BY DEF EnsureSource, Commit
    <2>2. a \in AssetRows
      BY <1>t DEF AssetsFor
    <2>3. [id |-> c, asset |-> a.id] \in [id : Calls, asset : Calls]
      BY <2>2 DEF AssetRows
    <2>4. Append(db.catalog, [id |-> c, asset |-> a.id]) \in Catalogs
      BY <1>t, <2>3 DEF Catalogs
    <2> QED BY <1>0, <2>1, <2>4 DEF Databases
  <1>5. ASSUME NEW s \in Calls, CreateRun(c, s) PROVE db' \in Databases
    <2>1. view[c] = db
      BY <1>5 DEF CreateRun, MayWrite
    <2>2. db.source[s].requested + 1 \in Nat /\ db.source[s].revision \in Nat
      BY <1>t DEF SourceTable
    <2>3. NewRun(c, s) \in [state : RunStates, source : Calls \cup {None}, generation : Nat,
                           base : Nat, retryOf : {None}]
      BY <2>1, <2>2 DEF NewRun, RunStates
    <2>4. [db.run EXCEPT ![c] = NewRun(c, s)] \in RunTable
      BY <1>t, <2>3 DEF RunTable
    <2>5. [db.source EXCEPT ![s] =
             [db.source[s] EXCEPT !.requested = view[c].source[s].requested + 1]] \in SourceTable
      BY <1>t, <2>1, <2>2 DEF SourceTable
    <2>6. [db.events EXCEPT ![c] = Append(db.events[c], "run_created")] \in EventTable
      BY <1>t, <1>s DEF EventTable
    <2> QED BY <1>0, <1>5, <2>4, <2>5, <2>6 DEF CreateRun, Commit, Databases
  <1>6. MarkRunRunning(c) => db' \in Databases
    BY <1>m, <1>s DEF MarkRunRunning, Commit
  <1>7. PersistValidatedCandidate(c) => db' \in Databases
    <2> DEFINE d == Moved(db, c, "validated", "candidate_validated")
    <2>1. d \in Databases
      BY <1>m, <1>s
    <2>2. [d EXCEPT !.candidate = db.candidate \cup {c}] \in Databases
      <3> HIDE DEF d
      <3> QED BY <2>1, <1>t DEF Databases
    <2> QED BY <2>2 DEF PersistValidatedCandidate, Commit
  <1>8. Supersede(c) => db' \in Databases
    BY <1>m, <1>s DEF Supersede, Commit
  <1>9. Publish(c) => db' \in Databases
    <2> SUFFICES ASSUME Publish(c) PROVE db' \in Databases
      OBVIOUS
    <2> DEFINE s == db.run[c].source
               d == Moved(db, c, "published", "publication_activated")
    <2>1. s \in Calls /\ view[c] = db
      BY DEF Publish, MayWrite, RunInv, RunAt
    <2>2. db.source[s].revision + 1 \in Nat /\ db.source[s].requested \in Nat
      BY <1>t, <2>1 DEF SourceTable
    <2>3. d \in Databases
      BY <1>m, <1>s
    <2>4. [db.publication EXCEPT ![c] = db.source[s].revision + 1] \in [Calls -> Nat]
      BY <1>t, <2>2
    <2>5. [db.fts EXCEPT ![s] = c] \in FtsTable
      BY <1>t DEF FtsTable
    <2>6. [db.source EXCEPT ![s] = [active |-> c, revision |-> db.source[s].revision + 1,
                                    requested |-> db.source[s].requested]] \in SourceTable
      BY <1>t, <2>2 DEF SourceTable
    <2>7. db' = [d EXCEPT
             !.publication = [db.publication EXCEPT ![c] = db.source[s].revision + 1],
             !.fts         = [db.fts EXCEPT ![s] = c],
             !.source      = [db.source EXCEPT ![s] =
                 [active |-> c, revision |-> db.source[s].revision + 1,
                  requested |-> db.source[s].requested]]]
      BY <2>1 DEF Publish, Commit
    <2> HIDE DEF d, s
    <2> QED BY <2>3, <2>4, <2>5, <2>6, <2>7 DEF Databases
  <1>10. MarkFailed(c) => db' \in Databases
    BY <1>0, <1>m, <1>s DEF MarkFailed, Commit
  <1> QED BY <1>1, <1>2, <1>3, <1>4, <1>5, <1>6, <1>7, <1>8, <1>9, <1>10

-----------------------------------------------------------------------------
(* The steps of a call between recovery and its end have one shape.        *)

Work(c) ==
    \/ EnsureLibrary(c) \/ EnsureAsset(c) \/ RefuseMediaType(c) \/ EnsureSource(c)
    \/ \E s \in Calls : CreateRun(c, s)
    \/ MarkRunRunning(c) \/ ExtractionSucceeds(c) \/ ExtractionFails(c)
    \/ PersistValidatedCandidate(c) \/ LoseRun(c) \/ Supersede(c) \/ Publish(c)
    \/ MarkFailed(c)

WorkPhases ==
    {"selecting", "ensuring", "created", "extracting", "persisting", "activating", "failing"}

\* It moves the call and its own Run, and leaves every other Run alone.
WorkShape(c) ==
    /\ UNCHANGED ownerVars
    /\ pc[c] \in WorkPhases
    /\ \E x \in WorkPhases \cup {"ended"} :
          /\ pc' = [pc EXCEPT ![c] = x]
          /\ x \in Cataloguing => pc[c] \in Cataloguing
    /\ view' = view \/ view' = [view EXCEPT ![c] = None]
    /\ db' \in Databases
    /\ \A d \in Calls \ {c} : db'.run[d] = db.run[d]
    /\ db'.run[c].state # "absent" => db.run[c].state # "absent" \/ pc[c] \in Cataloguing
    /\ db'.run[c].state # "interrupted" \/ db'.run[c] = db.run[c]
    /\ db.run[c].state # "absent" => db'.run[c].source = db.run[c].source
    /\ db.candidate \subseteq db'.candidate
    /\ RunAt(c)'

\* e is d after _transition_run of c's Run to the state.
RunMoved(d, e, c, state) ==
    /\ \A b \in Calls \ {c} : e.run[b] = d.run[b]
    /\ e.run[c].state = state
    /\ e.run[c].source = d.run[c].source
    /\ e.candidate = d.candidate

LEMMA MovedRun ==
  ASSUME NEW d \in Databases, NEW c \in Calls, NEW state, NEW event
  PROVE  RunMoved(d, Moved(d, c, state, event), c, state)
  <1>1. d.run \in RunTable
    BY DEF Databases
  <1>2. /\ d.run[c] = [state |-> d.run[c].state, source |-> d.run[c].source,
                       generation |-> d.run[c].generation, base |-> d.run[c].base,
                       retryOf |-> d.run[c].retryOf]
        /\ DOMAIN d.run = Calls
    BY <1>1 DEF RunTable
  <1>3. d = [libraries |-> d.libraries, assets |-> d.assets, catalog |-> d.catalog,
             source |-> d.source, run |-> d.run, candidate |-> d.candidate,
             publication |-> d.publication, fts |-> d.fts, events |-> d.events]
    BY DEF Databases
  <1> QED BY <1>2, <1>3 DEF Moved, RunMoved

LEMMA DbFields ==
  ASSUME TypeOK
  PROVE  /\ db \in Databases
         /\ db = [libraries |-> db.libraries, assets |-> db.assets, catalog |-> db.catalog,
                  source |-> db.source, run |-> db.run, candidate |-> db.candidate,
                  publication |-> db.publication, fts |-> db.fts, events |-> db.events]
         /\ DOMAIN db.run = Calls
  BY DEF TypeOK, Databases, RunTable

\* The catalog's own steps leave the Runs alone.
LEMMA CatalogShape ==
  ASSUME TypeOK, CallsInv, RunInv, NEW c \in Calls,
         EnsureLibrary(c) \/ EnsureAsset(c) \/ EnsureSource(c) \/ RefuseMediaType(c)
  PROVE  WorkShape(c) /\ db'.run = db.run
  <1>0. pc \in [Calls -> Phases]
    BY DEF TypeOK
  <1>1. pc[c] \in Cataloguing /\ UNCHANGED ownerVars /\ RunAt(c)
    BY DEF EnsureLibrary, EnsureAsset, EnsureSource, RefuseMediaType, AssetKnown, Selecting, RunInv
  <1>2. \E x \in {"ensuring", "ended"} : pc' = [pc EXCEPT ![c] = x]
    BY DEF EnsureLibrary, EnsureAsset, EnsureSource, RefuseMediaType, Commit, Goto
  <1>3. view' = [view EXCEPT ![c] = None]
    BY DEF EnsureLibrary, EnsureAsset, EnsureSource, RefuseMediaType, Commit, DropSnapshot
  <1>4. db'.run = db.run /\ db'.candidate = db.candidate /\ db' \in Databases
    <2>1. CASE EnsureLibrary(c)
      BY <2>1, DbFields, CommitType DEF EnsureLibrary, Commit
    <2>2. CASE EnsureAsset(c)
      BY <2>2, DbFields, CommitType DEF EnsureAsset, Commit
    <2>3. CASE EnsureSource(c)
      BY <2>3, DbFields, CommitType DEF EnsureSource, Commit
    <2>4. CASE RefuseMediaType(c)
      BY <2>4, DbFields DEF RefuseMediaType
    <2> QED BY <2>1, <2>2, <2>3, <2>4
  <1>5. RunAt(c)'
    BY <1>0, <1>1, <1>2, <1>4 DEF RunAt
  <1> QED BY <1>1, <1>2, <1>3, <1>4, <1>5 DEF WorkShape, WorkPhases

LEMMA CreateShape ==
  ASSUME TypeOK, CallsInv, RunInv, NEW c \in Calls, NEW s \in Calls, CreateRun(c, s)
  PROVE  WorkShape(c)
  <1>0. pc \in [Calls -> Phases]
    BY DEF TypeOK
  <1>1. /\ pc[c] \in Cataloguing /\ UNCHANGED ownerVars /\ RunAt(c)
        /\ pc' = [pc EXCEPT ![c] = "created"] /\ view' = [view EXCEPT ![c] = None]
    BY DEF CreateRun, Selecting, RunInv, Commit, Goto, DropSnapshot
  <1>2. /\ db'.run = [db.run EXCEPT ![c] = NewRun(c, s)] /\ db'.candidate = db.candidate
        /\ db' \in Databases
    BY DbFields, CommitType DEF CreateRun, Commit
  <1>3. /\ db'.run[c] = NewRun(c, s)
        /\ \A d \in Calls \ {c} : db'.run[d] = db.run[d]
    BY <1>2, DbFields
  <1>4. /\ db'.run[c].state = "queued" /\ db'.run[c].source = s
        /\ db.run[c].state = "absent"
    BY <1>1, <1>3 DEF NewRun, RunAt
  <1>5. RunAt(c)'
    BY <1>0, <1>1, <1>4 DEF RunAt
  <1> QED BY <1>1, <1>2, <1>3, <1>4, <1>5 DEF WorkShape, WorkPhases

\* The Run is moved by _transition_run.
LEMMA MoveShape ==
  ASSUME TypeOK, CallsInv, RunInv, NEW c \in Calls,
         MarkRunRunning(c) \/ PersistValidatedCandidate(c) \/ Supersede(c) \/ Publish(c)
  PROVE  WorkShape(c)
  <1>0. pc \in [Calls -> Phases] /\ RunAt(c) /\ DOMAIN db.run = Calls
    BY DbFields DEF TypeOK, RunInv
  <1>1. /\ pc[c] \in WorkPhases /\ UNCHANGED ownerVars
        /\ \E x \in {"extracting", "activating", "ended"} : pc' = [pc EXCEPT ![c] = x]
        /\ view' = [view EXCEPT ![c] = None]
        /\ db' \in Databases
        /\ db.run[c].state # "absent"
    BY <1>0, CommitType DEF MarkRunRunning, PersistValidatedCandidate, Supersede, Publish, Commit,
         Goto, DropSnapshot, WorkPhases, RunAt
  <1>2. /\ \A d \in Calls \ {c} : db'.run[d] = db.run[d]
        /\ db'.run[c].source = db.run[c].source
        /\ db.candidate \subseteq db'.candidate
        /\ db'.run[c].state \in {"running", "validated", "superseded", "published"}
        /\ db'.run[c].state = "validated" => c \in db'.candidate
        /\ pc'[c] = "extracting" => db'.run[c].state = "running"
        /\ pc'[c] = "activating" => db'.run[c].state = "validated"
    <2>0. db \in Databases
      BY DbFields
    <2>1. CASE MarkRunRunning(c)
      <3>1. db' = Moved(db, c, "running", "run_started") /\ pc'[c] = "extracting"
        BY <2>1, <1>0 DEF MarkRunRunning, Commit, Goto
      <3>2. RunMoved(db, db', c, "running")
        BY <2>0, <3>1, MovedRun
      <3> QED BY <3>1, <3>2 DEF RunMoved
    <2>2. CASE PersistValidatedCandidate(c)
      <3> DEFINE d == Moved(db, c, "validated", "candidate_validated")
      <3>1. d \in Databases
        BY <2>0, MovedType DEF RunStates, EventTypes
      <3>2. db' = [d EXCEPT !.candidate = db.candidate \cup {c}] /\ pc'[c] = "activating"
        BY <2>2, <1>0 DEF PersistValidatedCandidate, Commit, Goto
      <3>3. RunMoved(db, d, c, "validated")
        BY <2>0, MovedRun
      <3> HIDE DEF d
      <3>4. db'.run = d.run /\ db'.candidate = db.candidate \cup {c}
        BY <3>1, <3>2 DEF Databases
      <3> QED BY <3>2, <3>3, <3>4 DEF RunMoved
    <2>3. CASE Supersede(c)
      <3>1. db' = Moved(db, c, "superseded", "run_superseded") /\ pc'[c] = "ended"
        BY <2>3, <1>0 DEF Supersede, Commit, Goto
      <3>2. RunMoved(db, db', c, "superseded")
        BY <2>0, <3>1, MovedRun
      <3> QED BY <3>1, <3>2 DEF RunMoved
    <2>4. CASE Publish(c)
      <3> DEFINE d == Moved(db, c, "published", "publication_activated")
      <3>1. d \in Databases
        BY <2>0, MovedType DEF RunStates, EventTypes
      <3>2. PICK p, f, s : db' = [d EXCEPT !.publication = p, !.fts = f, !.source = s]
        BY <2>4 DEF Publish, Commit
      <3>3. RunMoved(db, d, c, "published")
        BY <2>0, MovedRun
      <3>4. pc'[c] = "ended"
        BY <2>4, <1>0 DEF Publish, Commit, Goto
      <3> HIDE DEF d
      <3>5. db'.run = d.run /\ db'.candidate = d.candidate
        BY <3>1, <3>2 DEF Databases
      <3> QED BY <3>3, <3>4, <3>5 DEF RunMoved
    <2> QED BY <2>1, <2>2, <2>3, <2>4
  <1>3. RunAt(c)'
    BY <1>0, <1>1, <1>2 DEF RunAt
  <1> QED BY <1>1, <1>2, <1>3 DEF WorkShape, WorkPhases

LEMMA OtherShape ==
  ASSUME TypeOK, CallsInv, RunInv, NEW c \in Calls,
         ExtractionSucceeds(c) \/ ExtractionFails(c) \/ LoseRun(c) \/ MarkFailed(c)
  PROVE  WorkShape(c)
  <1>0. pc \in [Calls -> Phases] /\ RunAt(c) /\ DOMAIN db.run = Calls /\ db \in Databases
    BY DbFields DEF TypeOK, RunInv
  <1>1. /\ pc[c] \in WorkPhases /\ UNCHANGED ownerVars
        /\ \E x \in {"persisting", "failing", "ended"} :
              pc' = [pc EXCEPT ![c] = x] /\ (x = "persisting" => db.run[c].state # "absent")
        /\ view' = view \/ view' = [view EXCEPT ![c] = None]
    BY <1>0 DEF ExtractionSucceeds, ExtractionFails, LoseRun, MarkFailed, Commit,
         Goto, DropSnapshot, WorkPhases, RunAt
  <1>2. CASE db' = db
    <2>1. RunAt(c)'
      BY <1>0, <1>1, <1>2 DEF RunAt
    <2> QED BY <1>0, <1>1, <1>2, <2>1 DEF WorkShape, WorkPhases
  <1>3. CASE db' # db
    <2>1. /\ MarkFailed(c) /\ db' = Moved(db, c, "failed", "run_failed")
          /\ pc'[c] = "ended" /\ db.run[c].state # "absent"
      BY <1>0, <1>3 DEF ExtractionSucceeds, ExtractionFails, LoseRun, MarkFailed, Commit, Goto,
           MayBeFailed
    <2>2. /\ \A d \in Calls \ {c} : db'.run[d] = db.run[d]
          /\ db'.run[c].state = "failed" /\ db'.run[c].source = db.run[c].source
          /\ db'.candidate = db.candidate
      <3>1. RunMoved(db, db', c, "failed")
        BY <1>0, <2>1, MovedRun
      <3> QED BY <3>1 DEF RunMoved
    <2>3. RunAt(c)'
      BY <1>0, <2>1, <2>2 DEF RunAt
    <2>4. db' \in Databases
      BY <2>1, CommitType
    <2> QED BY <1>1, <2>1, <2>2, <2>3, <2>4 DEF WorkShape, WorkPhases
  <1> QED BY <1>2, <1>3

LEMMA WorkHasShape ==
  ASSUME TypeOK, CallsInv, RunInv, NEW c \in Calls, Work(c)
  PROVE  WorkShape(c)
  BY CatalogShape, CreateShape, MoveShape, OtherShape DEF Work

-----------------------------------------------------------------------------
(* Every kind of step preserves the invariant.                             *)

\* What the steps that commit nothing to the tables share.
LEMMA SameTables ==
  ASSUME IInv, db' = db
  PROVE  KeysInv' /\ db' \in Databases
  BY DEF IInv, KeysInv, TypeOK

LEMMA StartOwnerStep ==
  ASSUME IInv, NEW o \in Owners, StartOwner(o)
  PROVE  IInv'
  <1>0. /\ life[o] = "unborn" /\ life' = [life EXCEPT ![o] = "alive"]
        /\ before' = [before EXCEPT ![o] = {p \in Owners : life[p] = "dead"}]
        /\ UNCHANGED <<db, view, pc, kind, owner, recovered, holder>>
    BY DEF StartOwner
  <1>t. TypeOK /\ TypeOK'
    BY <1>0 DEF IInv, TypeOK
  <1>1. CallsInv'
    BY <1>0, <1>t DEF IInv, CallsInv, TypeOK
  <1>2. OwnersInv'
    BY <1>0, <1>t DEF IInv, OwnersInv, TypeOK
  <1>3. LatchInv' /\ RunInv'
    BY <1>0 DEF IInv, LatchInv, RunInv, RunAt
  <1>4. SweepInv'
    <2> SUFFICES ASSUME NEW c \in Calls, pc[c] = "recovering", view[c] # None,
                        NEW d \in Unfinished(db), owner[d] \in before'[owner[c]]
                 PROVE  d \in Unfinished(view[c])
      BY <1>0 DEF SweepInv, Unfinished
    <2>1. owner[c] \in Owners /\ owner[c] # o
      BY <1>0 DEF IInv, CallsInv
    <2> QED BY <1>0, <1>t, <2>1 DEF IInv, SweepInv, TypeOK
  <1>5. DeadOwnersRunsEnd'
    <2> SUFFICES ASSUME NEW p \in Owners, recovered[p], NEW c \in Unfinished(db)
                 PROVE  owner[c] \notin before'[p]
      BY <1>0 DEF DeadOwnersRunsEnd, Unfinished
    <2>1. p # o
      BY <1>0 DEF IInv, OwnersInv
    <2> QED BY <1>0, <1>t, <2>1 DEF IInv, DeadOwnersRunsEnd, TypeOK
  <1>6. KeysInv'
    BY <1>0, SameTables
  <1> QED BY <1>t, <1>1, <1>2, <1>3, <1>4, <1>5, <1>6 DEF IInv

LEMMA KillOwnerStep ==
  ASSUME IInv, NEW o \in Owners, KillOwner(o)
  PROVE  IInv'
  <1>0. /\ life[o] = "alive" /\ life' = [life EXCEPT ![o] = "dead"]
        /\ pc' = [c \in Calls |-> IF owner[c] = o THEN "ended" ELSE pc[c]]
        /\ view' = [c \in Calls |-> IF owner[c] = o THEN None ELSE view[c]]
        /\ holder' = [holder EXCEPT ![o] = None]
        /\ UNCHANGED <<db, kind, owner, recovered, before>>
    BY DEF KillOwner
  <1>t. TypeOK /\ TypeOK'
    BY <1>0 DEF IInv, TypeOK, Phases
  <1>1. CallsInv'
    BY <1>0, <1>t, ConstantsAssumption DEF IInv, CallsInv, TypeOK
  <1>2. OwnersInv'
    BY <1>0, <1>t DEF IInv, OwnersInv, TypeOK
  <1>3. LatchInv' /\ RunInv'
    BY <1>0, <1>t DEF IInv, LatchInv, RunInv, RunAt, CallsInv, TypeOK
  <1>4. SweepInv'
    BY <1>0 DEF IInv, SweepInv, Unfinished
  <1>5. DeadOwnersRunsEnd'
    BY <1>0 DEF IInv, DeadOwnersRunsEnd, Unfinished
  <1>6. KeysInv'
    BY <1>0, SameTables
  <1> QED BY <1>t, <1>1, <1>2, <1>3, <1>4, <1>5, <1>6 DEF IInv

LEMMA StartCallStep ==
  ASSUME IInv, NEW c \in Calls, NEW o \in Owners, NEW k \in KindsOf[c], StartCall(c, o, k)
  PROVE  IInv'
  <1>0. /\ pc[c] = "idle" /\ life[o] = "alive"
        /\ owner' = [owner EXCEPT ![c] = o] /\ kind' = [kind EXCEPT ![c] = k]
        /\ pc' = [pc EXCEPT ![c] = "opening"]
        /\ UNCHANGED <<db, view, life, recovered, holder, before>>
        /\ k \in Kinds
    BY ConstantsAssumption DEF StartCall, Goto
  <1>t. TypeOK /\ TypeOK'
    BY <1>0 DEF IInv, TypeOK, Phases
  <1>1. CallsInv'
    BY <1>0, <1>t DEF IInv, CallsInv, TypeOK
  <1>2. OwnersInv'
    BY <1>0 DEF IInv, OwnersInv
  <1>a. db.run[c].state = "absent" /\ c \notin Unfinished(db)
    BY <1>0 DEF IInv, RunInv, RunAt, Unfinished
  <1>3. LatchInv' /\ RunInv'
    BY <1>0, <1>t, <1>a DEF IInv, LatchInv, RunInv, RunAt, TypeOK
  <1>4. SweepInv'
    <2> SUFFICES ASSUME NEW b \in Calls, pc'[b] = "recovering", view[b] # None,
                        NEW d \in Unfinished(db), owner'[d] \in before[owner'[b]]
                 PROVE  d \in Unfinished(view[b])
      BY <1>0 DEF SweepInv, Unfinished
    <2>1. b # c /\ d # c /\ d \in Calls
      BY <1>0, <1>t, <1>a DEF TypeOK, Unfinished
    <2>2. pc[b] = "recovering" /\ owner[d] \in before[owner[b]]
      BY <1>0, <1>t, <2>1 DEF TypeOK
    <2> QED BY <2>2 DEF IInv, SweepInv
  <1>5. DeadOwnersRunsEnd'
    <2> SUFFICES ASSUME NEW p \in Owners, recovered[p], NEW d \in Unfinished(db)
                 PROVE  owner'[d] \notin before[p]
      BY <1>0 DEF DeadOwnersRunsEnd, Unfinished
    <2>1. d # c /\ d \in Calls
      BY <1>a DEF Unfinished
    <2> QED BY <1>0, <1>t, <2>1 DEF IInv, DeadOwnersRunsEnd, TypeOK
  <1>6. KeysInv'
    BY <1>0, SameTables
  <1> QED BY <1>t, <1>1, <1>2, <1>3, <1>4, <1>5, <1>6 DEF IInv

LEMMA EnterRecoveryStep ==
  ASSUME IInv, NEW c \in Calls, EnterRecovery(c)
  PROVE  IInv'
  <1>0. /\ pc[c] = "opening" /\ holder[owner[c]] = None
        /\ holder' = IF recovered[owner[c]] THEN holder ELSE [holder EXCEPT ![owner[c]] = c]
        /\ pc' = [pc EXCEPT ![c] = IF recovered[owner[c]] THEN "selecting" ELSE "recovering"]
        /\ UNCHANGED <<db, view, kind, owner, life, recovered, before>>
    BY DEF EnterRecovery, Goto
  <1>a. /\ owner[c] \in Owners /\ view[c] = None /\ life[owner[c]] = "alive"
    BY <1>0 DEF IInv, CallsInv, TypeOK
  <1>t. TypeOK /\ TypeOK'
    BY <1>0, <1>a DEF IInv, TypeOK, Phases
  <1>1. CallsInv'
    BY <1>0, <1>a, <1>t DEF IInv, CallsInv, TypeOK
  <1>2. OwnersInv'
    BY <1>0 DEF IInv, OwnersInv
  <1>3. LatchInv'
    <2> SUFFICES ASSUME NEW d \in Calls
                 PROVE  /\ pc'[d] = "recovering" => holder'[owner[d]] = d /\ ~recovered[owner[d]]
                        /\ pc'[d] \in Cataloguing => recovered[owner[d]]
                        /\ db.run[d].state # "absent" => pc'[d] # "idle" /\ recovered[owner[d]]
      BY <1>0 DEF LatchInv
    <2>1. CASE d = c
      BY <1>0, <1>a, <1>t, <2>1 DEF IInv, LatchInv, TypeOK
    <2>2. CASE d # c
      <3>1. pc'[d] = pc[d]
        BY <1>0, <1>t, <2>2 DEF TypeOK
      <3>2. pc[d] = "recovering" => owner[d] # owner[c] /\ owner[d] \in Owners
        BY <1>0, ConstantsAssumption DEF IInv, LatchInv, CallsInv
      <3> QED BY <1>0, <1>t, <1>a, <3>1, <3>2 DEF IInv, LatchInv, TypeOK
    <2> QED BY <2>1, <2>2
  <1>4. RunInv'
    BY <1>0, <1>t DEF IInv, RunInv, RunAt, TypeOK
  <1>5. SweepInv'
    BY <1>0, <1>a, <1>t DEF IInv, SweepInv, Unfinished, TypeOK
  <1>6. DeadOwnersRunsEnd'
    BY <1>0 DEF IInv, DeadOwnersRunsEnd, Unfinished
  <1>7. KeysInv'
    BY <1>0, SameTables
  <1> QED BY <1>t, <1>1, <1>2, <1>3, <1>4, <1>5, <1>6, <1>7 DEF IInv

LEMMA TakeSnapshotStep ==
  ASSUME IInv, NEW c \in Calls, TakeSnapshot(c)
  PROVE  IInv'
  <1>0. /\ ReadsFirst(c) /\ view' = [view EXCEPT ![c] = db]
        /\ UNCHANGED <<db, pc, kind, owner, life, recovered, holder, before>>
    BY DEF TakeSnapshot, ownerVars
  <1>a. pc[c] \notin {"idle", "opening"}
    BY <1>0 DEF ReadsFirst
  <1>t. TypeOK /\ TypeOK'
    BY <1>0 DEF IInv, TypeOK
  <1>1. CallsInv'
    BY <1>0, <1>a, <1>t DEF IInv, CallsInv, TypeOK
  <1>2. OwnersInv' /\ LatchInv' /\ RunInv' /\ DeadOwnersRunsEnd'
    BY <1>0 DEF IInv, OwnersInv, LatchInv, RunInv, RunAt, DeadOwnersRunsEnd, Unfinished
  <1>3. SweepInv'
    <2> SUFFICES ASSUME NEW b \in Calls, pc[b] = "recovering", view'[b] # None,
                        NEW d \in Unfinished(db), owner[d] \in before[owner[b]]
                 PROVE  d \in Unfinished(view'[b])
      BY <1>0 DEF SweepInv, Unfinished
    <2>1. CASE b = c
      BY <1>0, <1>t, <2>1 DEF TypeOK
    <2>2. CASE b # c
      BY <1>0, <1>t, <2>2 DEF IInv, SweepInv, TypeOK
    <2> QED BY <2>1, <2>2
  <1>4. KeysInv'
    BY <1>0, SameTables
  <1> QED BY <1>t, <1>1, <1>2, <1>3, <1>4 DEF IInv

\* After a sweep no Run is unfinished that was in its snapshot, and no other
\* field of the tables has changed.
LEMMA SweptRuns ==
  ASSUME NEW d \in Databases
  PROVE  /\ Unfinished(Swept(d)) = {}
         /\ \A c \in Calls : Swept(d).run[c] =
                IF c \in Unfinished(d) THEN [d.run[c] EXCEPT !.state = "interrupted"]
                                       ELSE d.run[c]
         /\ \A c \in Calls : /\ Swept(d).run[c].source = d.run[c].source
                             /\ c \in Unfinished(d) => Swept(d).run[c].state = "interrupted"
         /\ Swept(d).libraries = d.libraries /\ Swept(d).assets = d.assets
         /\ Swept(d).catalog = d.catalog /\ Swept(d).candidate = d.candidate
  <1>1. d = [libraries |-> d.libraries, assets |-> d.assets, catalog |-> d.catalog,
             source |-> d.source, run |-> d.run, candidate |-> d.candidate,
             publication |-> d.publication, fts |-> d.fts, events |-> d.events]
    BY DEF Databases
  <1>2. /\ Swept(d).run = [c \in Calls |-> IF c \in Unfinished(d)
                                           THEN [d.run[c] EXCEPT !.state = "interrupted"]
                                           ELSE d.run[c]]
        /\ Swept(d).libraries = d.libraries /\ Swept(d).assets = d.assets
        /\ Swept(d).catalog = d.catalog /\ Swept(d).candidate = d.candidate
    BY <1>1 DEF Swept
  <1>3. \A c \in Calls : Swept(d).run[c] =
            IF c \in Unfinished(d) THEN [d.run[c] EXCEPT !.state = "interrupted"] ELSE d.run[c]
    BY <1>2
  <1>4. \A c \in Calls : d.run[c] = [state |-> d.run[c].state, source |-> d.run[c].source,
            generation |-> d.run[c].generation, base |-> d.run[c].base,
            retryOf |-> d.run[c].retryOf]
    BY DEF Databases, RunTable
  <1>5. \A c \in Calls : /\ Swept(d).run[c].source = d.run[c].source
                         /\ c \in Unfinished(d) => Swept(d).run[c].state = "interrupted"
    BY <1>3, <1>4
  <1>6. \A c \in Calls : Swept(d).run[c].state \notin {"queued", "running"}
    BY <1>3, <1>5 DEF Unfinished
  <1> QED BY <1>2, <1>3, <1>5, <1>6 DEF Unfinished

\* The sweep leaves no Run unfinished that an owner dead before had left.
LEMMA RecoverTables ==
  ASSUME IInv, NEW c \in Calls, Recover(c)
  PROVE  /\ db' \in Databases
         /\ db' = db \/ db' = Swept(db)
         /\ \A d \in Unfinished(db') : owner[d] \notin before[owner[c]]
         /\ KeysInv'
         /\ \A d \in Calls : /\ db'.run[d].source = db.run[d].source
                             /\ \/ db'.run[d] = db.run[d]
                                \/ d \in Unfinished(db) /\ db'.run[d].state = "interrupted"
         /\ db'.candidate = db.candidate
  <1>0. /\ pc[c] = "recovering" /\ view[c] # None
        /\ \/ Unfinished(view[c]) = {} /\ db' = db
           \/ db' = Swept(db)
    BY DEF Recover, Commit
  <1>1. db \in Databases
    BY DEF IInv, TypeOK
  <1>2. CASE db' = Swept(db)
    <2>1. db' \in Databases /\ Unfinished(db') = {}
      BY <1>1, <1>2, SweptRuns, SweptType
    <2>2. KeysInv'
      BY <1>1, <1>2, SweptRuns DEF IInv, KeysInv
    <2>3. /\ \A d \in Calls : /\ db'.run[d].source = db.run[d].source
                              /\ \/ db'.run[d] = db.run[d]
                                 \/ d \in Unfinished(db) /\ db'.run[d].state = "interrupted"
          /\ db'.candidate = db.candidate
      BY <1>1, <1>2, SweptRuns
    <2> QED BY <1>2, <2>1, <2>2, <2>3
  <1>3. CASE Unfinished(view[c]) = {} /\ db' = db
    BY <1>0, <1>1, <1>3, SameTables DEF IInv, SweepInv
  <1> QED BY <1>0, <1>2, <1>3

LEMMA RecoverStep ==
  ASSUME IInv, NEW c \in Calls, Recover(c)
  PROVE  IInv'
  <1>0. /\ pc[c] = "recovering" /\ pc' = [pc EXCEPT ![c] = "selecting"]
        /\ view' = [view EXCEPT ![c] = None]
        /\ recovered' = [recovered EXCEPT ![owner[c]] = TRUE]
        /\ holder' = [holder EXCEPT ![owner[c]] = None]
        /\ UNCHANGED <<kind, owner, life, before>>
    BY DEF Recover, Commit, Goto, DropSnapshot
  <1>a. /\ owner[c] \in Owners /\ life[owner[c]] = "alive" /\ holder[owner[c]] = c
        /\ db.run[c].state = "absent"
    BY <1>0 DEF IInv, CallsInv, LatchInv, RunInv, RunAt, TypeOK
  <1>d. /\ db' \in Databases
        /\ \A d \in Unfinished(db') : owner[d] \notin before[owner[c]]
        /\ KeysInv'
        /\ \A d \in Calls : /\ db'.run[d].source = db.run[d].source
                            /\ \/ db'.run[d] = db.run[d]
                               \/ d \in Unfinished(db) /\ db'.run[d].state = "interrupted"
        /\ db'.candidate = db.candidate
    BY RecoverTables
  <1>t. TypeOK /\ TypeOK'
    BY <1>0, <1>a, <1>d DEF IInv, TypeOK, Phases
  <1>u. Unfinished(db') \subseteq Unfinished(db)
    BY <1>d DEF Unfinished
  <1>1. CallsInv'
    BY <1>0, <1>a, <1>t DEF IInv, CallsInv, TypeOK
  <1>2. OwnersInv'
    BY <1>0, <1>a, <1>t DEF IInv, OwnersInv, TypeOK
  <1>3. LatchInv'
    <2> SUFFICES ASSUME NEW d \in Calls
                 PROVE  /\ pc'[d] = "recovering" => holder'[owner[d]] = d /\ ~recovered'[owner[d]]
                        /\ pc'[d] \in Cataloguing => recovered'[owner[d]]
                        /\ db'.run[d].state # "absent" => pc'[d] # "idle" /\ recovered'[owner[d]]
      BY <1>0 DEF LatchInv
    <2>1. CASE d = c
      BY <1>0, <1>a, <1>t, <2>1 DEF TypeOK
    <2>2. CASE d # c
      <3>1. pc'[d] = pc[d]
        BY <1>0, <1>t, <2>2 DEF TypeOK
      <3>2. pc[d] = "recovering" => owner[d] # owner[c] /\ owner[d] \in Owners
        BY <1>a, <2>2 DEF IInv, LatchInv, CallsInv
      <3>3. db'.run[d].state # "absent" => db.run[d].state # "absent"
        BY <1>d DEF Unfinished
      <3>4. pc[d] # "idle" => owner[d] \in Owners
        BY DEF IInv, CallsInv
      <3> QED BY <1>0, <1>t, <1>a, <3>1, <3>2, <3>3, <3>4 DEF IInv, LatchInv, TypeOK
    <2> QED BY <2>1, <2>2
  <1>4. RunInv'
    <2> SUFFICES ASSUME NEW d \in Calls PROVE RunAt(d)'
      BY DEF RunInv
    <2>1. RunAt(d)
      BY DEF IInv, RunInv
    <2>2. pc'[d] = IF d = c THEN "selecting" ELSE pc[d]
      BY <1>0, <1>t DEF TypeOK
    <2> QED BY <1>0, <1>d, <2>1, <2>2 DEF RunAt, Unfinished
  <1>5. SweepInv'
    <2> SUFFICES ASSUME NEW b \in Calls, pc'[b] = "recovering", view'[b] # None,
                        NEW d \in Unfinished(db'), owner[d] \in before[owner[b]]
                 PROVE  d \in Unfinished(view'[b])
      BY <1>0 DEF SweepInv, Unfinished
    <2>1. b # c /\ pc[b] = "recovering" /\ view'[b] = view[b]
      BY <1>0, <1>t DEF TypeOK
    <2> QED BY <1>u, <2>1 DEF IInv, SweepInv
  <1>6. DeadOwnersRunsEnd'
    <2> SUFFICES ASSUME NEW o \in Owners, recovered'[o], NEW d \in Unfinished(db')
                 PROVE  owner[d] \notin before[o]
      BY <1>0 DEF DeadOwnersRunsEnd, Unfinished
    <2>1. CASE o = owner[c]
      BY <1>d, <2>1
    <2>2. CASE o # owner[c]
      BY <1>0, <1>t, <1>u, <2>2 DEF IInv, DeadOwnersRunsEnd, TypeOK
    <2> QED BY <2>1, <2>2
  <1> QED BY <1>t, <1>d, <1>1, <1>2, <1>3, <1>4, <1>5, <1>6 DEF IInv

LEMMA RefuseStep ==
  ASSUME IInv, NEW c \in Calls, Refuse(c)
  PROVE  IInv'
  <1>0. /\ pc[c] \in WritingPhases /\ view' = [view EXCEPT ![c] = None]
        /\ \E x \in {"failing", "ended"} : pc' = [pc EXCEPT ![c] = x]
        /\ holder' = IF holder[owner[c]] = c THEN [holder EXCEPT ![owner[c]] = None] ELSE holder
        /\ UNCHANGED <<db, kind, owner, life, recovered, before>>
    BY DEF Refuse, DropSnapshot, Goto, AfterError
  <1>a. owner[c] \in Owners /\ life[owner[c]] = "alive"
    BY <1>0 DEF IInv, CallsInv, WritingPhases, TypeOK
  <1>t. TypeOK /\ TypeOK'
    BY <1>0, <1>a DEF IInv, TypeOK, Phases
  <1>1. CallsInv'
    <2>1. PICK x \in {"failing", "ended"} : pc' = [pc EXCEPT ![c] = x]
      BY <1>0
    <2>2. x = "ended" \/ life[owner[c]] # "dead"
      BY <1>a
    <2> QED BY <1>0, <1>a, <1>t, <2>1, <2>2 DEF IInv, CallsInv, TypeOK, WritingPhases
  <1>2. OwnersInv'
    BY <1>0 DEF IInv, OwnersInv
  <1>3. LatchInv'
    <2> SUFFICES ASSUME NEW d \in Calls
                 PROVE  /\ pc'[d] = "recovering" => holder'[owner[d]] = d /\ ~recovered[owner[d]]
                        /\ pc'[d] \in Cataloguing => recovered[owner[d]]
                        /\ db.run[d].state # "absent" => pc'[d] # "idle" /\ recovered[owner[d]]
      BY <1>0 DEF LatchInv
    <2>1. CASE d = c
      BY <1>0, <1>t, <2>1 DEF IInv, LatchInv, TypeOK
    <2>2. CASE d # c
      <3>1. pc'[d] = pc[d]
        BY <1>0, <1>t, <2>2 DEF TypeOK
      <3>2. pc[d] = "recovering" => holder'[owner[d]] = d
        BY <1>0, <1>a, <1>t, <2>2 DEF IInv, LatchInv, CallsInv, TypeOK
      <3> QED BY <1>0, <3>1, <3>2 DEF IInv, LatchInv
    <2> QED BY <2>1, <2>2
  <1>4. RunInv'
    BY <1>0, <1>t DEF IInv, RunInv, RunAt, TypeOK
  <1>5. SweepInv'
    BY <1>0, <1>t DEF IInv, SweepInv, Unfinished, TypeOK
  <1>6. DeadOwnersRunsEnd'
    BY <1>0 DEF IInv, DeadOwnersRunsEnd, Unfinished
  <1>7. KeysInv'
    BY <1>0, SameTables
  <1> QED BY <1>t, <1>1, <1>2, <1>3, <1>4, <1>5, <1>6, <1>7 DEF IInv

\* Only the catalog's own steps write the catalog.
LEMMA CatalogKept ==
  ASSUME IInv, NEW c \in Calls, Work(c), ~EnsureLibrary(c), ~EnsureAsset(c), ~EnsureSource(c)
  PROVE  db'.libraries = db.libraries /\ db'.assets = db.assets /\ db'.catalog = db.catalog
  <1>m. ASSUME NEW state, NEW event, NEW d, d = Moved(db, c, state, event)
        PROVE  /\ d.libraries = db.libraries /\ d.assets = db.assets
               /\ d.catalog = db.catalog /\ DOMAIN d = DOMAIN db
    BY <1>m, DbFields DEF IInv, Moved
  <1>1. CASE \E s \in Calls : CreateRun(c, s)
    BY <1>1, DbFields DEF IInv, CreateRun, Commit
  <1>2. CASE MarkRunRunning(c)
    BY <1>2, <1>m DEF MarkRunRunning, Commit
  <1>3. CASE PersistValidatedCandidate(c)
    <2> DEFINE d == Moved(db, c, "validated", "candidate_validated")
    <2>1. db' = [d EXCEPT !.candidate = db.candidate \cup {c}]
      BY <1>3 DEF PersistValidatedCandidate, Commit
    <2>2. /\ d.libraries = db.libraries /\ d.assets = db.assets
          /\ d.catalog = db.catalog /\ DOMAIN d = DOMAIN db
      BY <1>m
    <2>3. {"libraries", "assets", "catalog"} \subseteq DOMAIN db
      BY DbFields DEF IInv
    <2>4. d \in Databases
      BY DbFields, MovedType DEF IInv, RunStates, EventTypes
    <2> HIDE DEF d
    <2> QED BY <2>1, <2>2, <2>4 DEF Databases
  <1>4. CASE Supersede(c)
    BY <1>4, <1>m DEF Supersede, Commit
  <1>5. CASE Publish(c)
    <2> DEFINE d == Moved(db, c, "published", "publication_activated")
    <2>1. PICK p, f, s : db' = [d EXCEPT !.publication = p, !.fts = f, !.source = s]
      BY <1>5 DEF Publish, Commit
    <2>2. /\ d.libraries = db.libraries /\ d.assets = db.assets /\ d.catalog = db.catalog
      BY <1>m
    <2>3. d \in Databases
      BY DbFields, MovedType DEF IInv, RunStates, EventTypes
    <2> HIDE DEF d
    <2> QED BY <2>1, <2>2, <2>3 DEF Databases
  <1>6. CASE MarkFailed(c)
    BY <1>6, <1>m DEF MarkFailed, Commit
  <1>7. CASE RefuseMediaType(c) \/ ExtractionSucceeds(c) \/ ExtractionFails(c) \/ LoseRun(c)
    BY <1>7 DEF RefuseMediaType, ExtractionSucceeds, ExtractionFails, LoseRun
  <1> QED BY <1>1, <1>2, <1>3, <1>4, <1>5, <1>6, <1>7 DEF Work

\* The keys: an INSERT follows a SELECT of the same state of the tables.
LEMMA WorkKeys ==
  ASSUME IInv, NEW c \in Calls, Work(c)
  PROVE  KeysInv'
  <1>0. db \in Databases /\ db.catalog \in Catalogs
    BY DEF IInv, TypeOK, Databases
  <1>1. CASE EnsureLibrary(c)
    <2>1. /\ db.libraries = {} /\ db'.libraries = {c}
          /\ db'.assets = db.assets /\ db'.catalog = db.catalog
      BY <1>0, <1>1, DbFields DEF IInv, EnsureLibrary, Commit, MayWrite
    <2> QED BY <2>1 DEF IInv, KeysInv
  <1>2. CASE EnsureAsset(c)
    <2> DEFINE new == [id |-> c, file |-> FileOf[c], media |-> MediaType(kind[c])]
    <2>1. /\ AssetsFor(db, c) = {} /\ db'.assets = db.assets \cup {new}
          /\ db'.libraries = db.libraries /\ db'.catalog = db.catalog
      BY <1>0, <1>2, DbFields DEF IInv, EnsureAsset, Commit, MayWrite
    <2>2. new.file = FileOf[c]
      OBVIOUS
    <2>3. \A a \in db.assets : a.file # FileOf[c]
      BY <2>1 DEF AssetsFor
    <2> HIDE DEF new
    <2> QED BY <2>1, <2>2, <2>3 DEF IInv, KeysInv
  <1>3. CASE EnsureSource(c)
    <2>1. PICK a \in AssetsFor(db, c) :
            db' = [db EXCEPT !.catalog = Append(db.catalog, [id |-> c, asset |-> a.id])]
      BY <1>3 DEF EnsureSource, Commit
    <2>2. /\ db'.catalog = Append(db.catalog, [id |-> c, asset |-> a.id])
          /\ db'.libraries = db.libraries /\ db'.assets = db.assets
      BY <2>1, DbFields DEF IInv
    <2>3. SourcesFor(db, c) = {}
      BY <1>3 DEF EnsureSource, MayWrite
    <2>4. \A i \in DOMAIN db.catalog : db.catalog[i].asset # a.id
      BY <2>1, <2>3 DEF SourcesFor
    <2>5. a.id \in Calls
      BY <2>1 DEF IInv, TypeOK, Databases, AssetsFor, AssetRows
    <2>6. /\ DOMAIN db'.catalog = 1..(Len(db.catalog) + 1)
          /\ DOMAIN db.catalog = 1..Len(db.catalog)
          /\ \A i \in DOMAIN db.catalog : db'.catalog[i] = db.catalog[i]
          /\ db'.catalog[Len(db.catalog) + 1] = [id |-> c, asset |-> a.id]
          /\ Len(db.catalog) \in Nat
      BY <1>0, <2>2, <2>5 DEF Catalogs
    <2>7. \A i \in DOMAIN db'.catalog :
             i \in DOMAIN db.catalog \/ i = Len(db.catalog) + 1
      BY <2>6
    <2>8. \A i, j \in DOMAIN db'.catalog :
             db'.catalog[i].asset = db'.catalog[j].asset => i = j
      <3> SUFFICES ASSUME NEW i \in DOMAIN db'.catalog, NEW j \in DOMAIN db'.catalog,
                          db'.catalog[i].asset = db'.catalog[j].asset
                   PROVE  i = j
        OBVIOUS
      <3>1. db'.catalog[Len(db.catalog) + 1].asset = a.id
        BY <2>6
      <3>2. CASE i \in DOMAIN db.catalog /\ j \in DOMAIN db.catalog
        BY <2>6, <3>2 DEF IInv, KeysInv
      <3>3. CASE i \notin DOMAIN db.catalog
        BY <2>4, <2>6, <2>7, <3>1, <3>3
      <3>4. CASE j \notin DOMAIN db.catalog
        BY <2>4, <2>6, <2>7, <3>1, <3>4
      <3> QED BY <3>2, <3>3, <3>4
    <2> QED BY <2>2, <2>8 DEF IInv, KeysInv
  <1>4. CASE ~(EnsureLibrary(c) \/ EnsureAsset(c) \/ EnsureSource(c))
    BY <1>4, CatalogKept DEF IInv, KeysInv
  <1> QED BY <1>1, <1>2, <1>3, <1>4

LEMMA WorkStep ==
  ASSUME IInv, NEW c \in Calls, Work(c)
  PROVE  IInv'
  <1>s. WorkShape(c)
    BY WorkHasShape DEF IInv
  <1>p. PICK x \in WorkPhases \cup {"ended"} :
           pc' = [pc EXCEPT ![c] = x] /\ (x \in Cataloguing => pc[c] \in Cataloguing)
    BY <1>s DEF WorkShape
  <1>0. /\ UNCHANGED <<kind, owner, life, recovered, holder, before>>
        /\ pc[c] \in WorkPhases
        /\ view' = view \/ view' = [view EXCEPT ![c] = None]
        /\ db' \in Databases
        /\ \A d \in Calls \ {c} : db'.run[d] = db.run[d]
        /\ db'.run[c].state # "absent" => db.run[c].state # "absent" \/ pc[c] \in Cataloguing
        /\ db.candidate \subseteq db'.candidate
        /\ RunAt(c)'
    BY <1>s DEF WorkShape, ownerVars
  <1>a. owner[c] \in Owners /\ life[owner[c]] = "alive"
    BY <1>0 DEF IInv, CallsInv, WorkPhases, TypeOK
  <1>t. TypeOK /\ TypeOK'
    BY <1>0, <1>p DEF IInv, TypeOK, Phases, WorkPhases
  <1>c. \A d \in Calls : pc'[d] = IF d = c THEN x ELSE pc[d]
    BY <1>p, <1>t DEF TypeOK
  <1>v. \A d \in Calls : view'[d] = view[d] \/ view'[d] = None
    BY <1>0, <1>t DEF TypeOK
  <1>1. CallsInv'
    BY <1>0, <1>a, <1>c, <1>v DEF IInv, CallsInv, WorkPhases
  <1>2. OwnersInv'
    BY <1>0 DEF IInv, OwnersInv
  <1>3. LatchInv'
    BY <1>0, <1>p, <1>c DEF IInv, LatchInv, WorkPhases
  <1>4. RunInv'
    <2> SUFFICES ASSUME NEW d \in Calls \ {c} PROVE RunAt(d)'
      BY <1>0 DEF RunInv
    <2> QED BY <1>0, <1>c DEF IInv, RunInv, RunAt
  <1>5. SweepInv'
    <2> SUFFICES ASSUME NEW b \in Calls, pc'[b] = "recovering", view'[b] # None,
                        NEW d \in Unfinished(db'), owner[d] \in before[owner[b]]
                 PROVE  d \in Unfinished(view'[b])
      BY <1>0 DEF SweepInv, Unfinished
    <2>1. b # c /\ pc[b] = "recovering" /\ view'[b] = view[b]
      BY <1>c, <1>v DEF WorkPhases
    <2>2. owner[b] \in Owners
      BY <2>1 DEF IInv, CallsInv
    <2>3. d # c
      BY <1>a, <2>2 DEF IInv, OwnersInv
    <2>4. d \in Unfinished(db)
      BY <1>0, <2>3 DEF Unfinished
    <2> QED BY <2>1, <2>4 DEF IInv, SweepInv
  <1>6. DeadOwnersRunsEnd'
    <2> SUFFICES ASSUME NEW o \in Owners, recovered[o], NEW d \in Unfinished(db'),
                        owner[d] \in before[o]
                 PROVE  FALSE
      BY <1>0 DEF DeadOwnersRunsEnd, Unfinished
    <2>1. d # c
      BY <1>a DEF IInv, OwnersInv
    <2>2. d \in Unfinished(db)
      BY <1>0, <2>1 DEF Unfinished
    <2> QED BY <2>2 DEF IInv, DeadOwnersRunsEnd
  <1>7. KeysInv'
    BY WorkKeys
  <1> QED BY <1>t, <1>1, <1>2, <1>3, <1>4, <1>5, <1>6, <1>7 DEF IInv

LEMMA NextCases ==
  ASSUME Next
  PROVE  \/ \E o \in Owners : StartOwner(o) \/ KillOwner(o)
         \/ \E c \in Calls :
               \/ \E o \in Owners, k \in KindsOf[c] : StartCall(c, o, k)
               \/ EnterRecovery(c) \/ TakeSnapshot(c) \/ Recover(c) \/ Work(c) \/ Refuse(c)
  BY DEF Next, Step, Work

LEMMA InitIInv == Init => IInv
  <1> SUFFICES ASSUME Init PROVE IInv
    OBVIOUS
  <1>1. TypeOK
    BY EmptyType DEF Init, TypeOK, Phases
  <1>2. /\ \A c \in Calls : db.run[c].state = "absent"
        /\ db.libraries = {} /\ db.assets = {} /\ DOMAIN db.catalog = {}
    BY DEF Init, EmptyDatabase, NoRun
  <1>3. CallsInv
    BY <1>2, ConstantsAssumption DEF Init, CallsInv
  <1> QED BY <1>1, <1>2, <1>3 DEF Init, IInv, OwnersInv, LatchInv, SweepInv, DeadOwnersRunsEnd,
            KeysInv, RunInv, RunAt

LEMMA NextIInv == IInv /\ [Next]_vars => IInv'
  <1> SUFFICES ASSUME IInv, [Next]_vars PROVE IInv'
    OBVIOUS
  <1>1. CASE Next
    BY <1>1, NextCases, StartOwnerStep, KillOwnerStep, StartCallStep, EnterRecoveryStep,
       TakeSnapshotStep, RecoverStep, WorkStep, RefuseStep
  <1>2. CASE UNCHANGED vars
    BY <1>2 DEF vars, IInv, TypeOK, CallsInv, OwnersInv, LatchInv, SweepInv, DeadOwnersRunsEnd,
       KeysInv, RunInv, RunAt, Unfinished
  <1> QED BY <1>1, <1>2

LEMMA IInvAlways == Spec => []IInv
  BY InitIInv, NextIInv, PTL DEF Spec

-----------------------------------------------------------------------------
(* The rows refer to rows that are there, and to the right file.           *)

\* An Asset row keeps the file of the call that inserted it; a Source in the
\* catalog has an Asset, with the file of the call that inserted the Source; a
\* Run is one of a Source in the catalog, and only a reprocess call's Run may
\* be one of another file's Source.
FilesInv ==
    /\ \A c \in Calls : pc[c] # "idle" => kind[c] \in KindsOf[c]
    /\ \A a \in db.assets : a.file = FileOf[a.id]
    /\ \A i \in DOMAIN db.catalog :
          \E a \in db.assets : a.id = db.catalog[i].asset /\ a.file = FileOf[db.catalog[i].id]
    /\ \A c \in Calls : db.run[c].state # "absent" =>
          /\ \E i \in DOMAIN db.catalog : db.catalog[i].id = db.run[c].source
          /\ kind[c] # "reprocess" => FileOf[db.run[c].source] = FileOf[c]

\* The catalog only grows, and nothing in it is rewritten.
CatalogGrows ==
    /\ db.assets \subseteq db'.assets
    /\ \A i \in DOMAIN db.catalog : i \in DOMAIN db'.catalog /\ db'.catalog[i] = db.catalog[i]

\* What every step leaves of the rows of FilesInv.
LEMMA FilesKept ==
  ASSUME IInv, FilesInv, CatalogGrows,
         \A a \in db'.assets : a.file = FileOf[a.id],
         \A i \in DOMAIN db'.catalog : i \notin DOMAIN db.catalog =>
            \E a \in db'.assets : a.id = db'.catalog[i].asset /\ a.file = FileOf[db'.catalog[i].id],
         UNCHANGED kind, \A c \in Calls : pc'[c] # "idle" => pc[c] # "idle",
         NEW c \in Calls,
         \A d \in Calls \ {c} : db'.run[d].state # "absent" =>
            db.run[d].state # "absent" /\ db'.run[d].source = db.run[d].source,
         db'.run[c].state # "absent" =>
            /\ \E i \in DOMAIN db.catalog : db.catalog[i].id = db'.run[c].source
            /\ kind[c] # "reprocess" => FileOf[db'.run[c].source] = FileOf[c]
  PROVE  FilesInv'
  <1>1. \A i \in DOMAIN db'.catalog :
          \E a \in db'.assets : a.id = db'.catalog[i].asset /\ a.file = FileOf[db'.catalog[i].id]
    <2> SUFFICES ASSUME NEW i \in DOMAIN db.catalog
                 PROVE  \E a \in db'.assets : /\ a.id = db'.catalog[i].asset
                                              /\ a.file = FileOf[db'.catalog[i].id]
      OBVIOUS
    <2> QED BY DEF FilesInv, CatalogGrows
  <1>2. ASSUME NEW d \in Calls, db'.run[d].state # "absent"
        PROVE  /\ \E i \in DOMAIN db'.catalog : db'.catalog[i].id = db'.run[d].source
               /\ kind'[d] # "reprocess" => FileOf[db'.run[d].source] = FileOf[d]
    <2>1. /\ \E i \in DOMAIN db.catalog : db.catalog[i].id = db'.run[d].source
          /\ kind[d] # "reprocess" => FileOf[db'.run[d].source] = FileOf[d]
      <3>1. CASE d = c
        BY <1>2, <3>1
      <3>2. CASE d # c
        BY <1>2, <3>2 DEF FilesInv
      <3> QED BY <3>1, <3>2
    <2>2. PICK i \in DOMAIN db.catalog : db.catalog[i].id = db'.run[d].source
      BY <2>1
    <2>3. i \in DOMAIN db'.catalog /\ db'.catalog[i].id = db'.run[d].source
      BY <2>2 DEF CatalogGrows
    <2> QED BY <2>1, <2>3
  <1> QED BY <1>1, <1>2 DEF FilesInv

LEMMA CreateFiles ==
  ASSUME IInv, FilesInv, NEW c \in Calls, NEW s \in Calls, CreateRun(c, s)
  PROVE  /\ \E i \in DOMAIN db.catalog : db.catalog[i].id = s
         /\ kind[c] # "reprocess" => FileOf[s] = FileOf[c]
         /\ db'.run[c].source = s
  <1>0. db \in Databases /\ db.catalog \in Catalogs /\ view[c] = db
    BY DEF IInv, TypeOK, Databases, CreateRun, MayWrite
  <1>1. db'.run[c].source = s
    BY <1>0, DbFields DEF IInv, CreateRun, Commit, NewRun
  <1>2. CASE Reuses(c)
    <2>1. s = db.catalog[1].id /\ kind[c] = "reprocess" /\ db.catalog # << >>
      BY <1>0, <1>2 DEF CreateRun, Selected, Reuses
    <2>2. 1 \in DOMAIN db.catalog
      BY <1>0, <2>1 DEF Catalogs
    <2> QED BY <1>1, <2>1, <2>2
  <1>3. CASE ~Reuses(c)
    <2>1. PICK i \in SourcesFor(db, c) : s = db.catalog[i].id
      BY <1>0, <1>3 DEF CreateRun, Selected
    <2>2. PICK a \in AssetsFor(db, c) : db.catalog[i].asset = a.id
      BY <2>1 DEF SourcesFor
    <2>3. a \in db.assets /\ a.file = FileOf[c] /\ i \in DOMAIN db.catalog
      BY <2>1, <2>2 DEF AssetsFor, SourcesFor
    <2>4. PICK b \in db.assets : b.id = db.catalog[i].asset /\ b.file = FileOf[s]
      BY <2>1, <2>3 DEF FilesInv
    <2>5. FileOf[s] = FileOf[c]
      BY <2>2, <2>3, <2>4 DEF FilesInv
    <2> QED BY <1>1, <2>1, <2>3, <2>5
  <1> QED BY <1>2, <1>3

LEMMA WorkFiles ==
  ASSUME IInv, FilesInv, NEW c \in Calls, Work(c)
  PROVE  FilesInv'
  <1>0. db \in Databases /\ db.catalog \in Catalogs
    BY DEF IInv, TypeOK, Databases
  <1>s. WorkShape(c)
    BY WorkHasShape DEF IInv
  <1>k. UNCHANGED kind /\ \A d \in Calls : pc'[d] # "idle" => pc[d] # "idle"
    BY <1>s DEF WorkShape, ownerVars, WorkPhases, IInv, TypeOK
  <1>r. \A d \in Calls \ {c} : db'.run[d] = db.run[d]
    BY <1>s DEF WorkShape
  <1>1. ASSUME ~\E s \in Calls : CreateRun(c, s), db'.run[c].state # "absent"
        PROVE  /\ \E i \in DOMAIN db.catalog : db.catalog[i].id = db'.run[c].source
               /\ kind[c] # "reprocess" => FileOf[db'.run[c].source] = FileOf[c]
    <2>1. db.run[c].state # "absent"
      <3>1. CASE EnsureLibrary(c) \/ EnsureAsset(c) \/ EnsureSource(c) \/ RefuseMediaType(c)
        BY <1>1, <3>1, CatalogShape DEF IInv
      <3>2. CASE pc[c] \notin Cataloguing
        BY <1>1, <1>s, <3>2 DEF WorkShape
      <3> QED BY <1>1, <3>1, <3>2 DEF Work, MarkRunRunning, ExtractionSucceeds, ExtractionFails,
                PersistValidatedCandidate, LoseRun, Supersede, Publish, MarkFailed
    <2>2. db'.run[c].source = db.run[c].source
      BY <1>s, <2>1 DEF WorkShape
    <2> QED BY <2>1, <2>2 DEF FilesInv
  <1>2. CASE EnsureAsset(c)
    <2> DEFINE new == [id |-> c, file |-> FileOf[c], media |-> MediaType(kind[c])]
    <2>1. db'.assets = db.assets \cup {new} /\ db'.catalog = db.catalog
      BY <1>0, <1>2, DbFields DEF IInv, EnsureAsset, Commit
    <2>2. new.file = FileOf[new.id]
      OBVIOUS
    <2>3. ~\E s \in Calls : CreateRun(c, s)
      BY <1>2 DEF EnsureAsset, Selecting, CreateRun, Commit, Goto, IInv, TypeOK
    <2> HIDE DEF new
    <2>4. CatalogGrows /\ \A a \in db'.assets : a.file = FileOf[a.id]
      BY <2>1, <2>2 DEF CatalogGrows, FilesInv
    <2> QED BY <1>k, <1>r, <1>1, <2>1, <2>3, <2>4, FilesKept
  <1>3. CASE EnsureSource(c)
    <2>1. PICK a \in AssetsFor(db, c) :
            db' = [db EXCEPT !.catalog = Append(db.catalog, [id |-> c, asset |-> a.id])]
      BY <1>3 DEF EnsureSource, Commit
    <2>2. /\ db'.catalog = Append(db.catalog, [id |-> c, asset |-> a.id])
          /\ db'.assets = db.assets
      BY <2>1, DbFields DEF IInv
    <2>3. a \in db.assets /\ a.id \in Calls /\ a.file = FileOf[c]
      BY <2>1 DEF IInv, TypeOK, Databases, AssetsFor, AssetRows
    <2>4. /\ DOMAIN db'.catalog = 1..(Len(db.catalog) + 1)
          /\ DOMAIN db.catalog = 1..Len(db.catalog)
          /\ \A i \in DOMAIN db.catalog : db'.catalog[i] = db.catalog[i]
          /\ db'.catalog[Len(db.catalog) + 1] = [id |-> c, asset |-> a.id]
          /\ Len(db.catalog) \in Nat
      BY <1>0, <2>2, <2>3 DEF Catalogs
    <2>5. CatalogGrows
      BY <2>2, <2>4 DEF CatalogGrows
    <2>6. ASSUME NEW i \in DOMAIN db'.catalog, i \notin DOMAIN db.catalog
          PROVE  \E b \in db'.assets : /\ b.id = db'.catalog[i].asset
                                       /\ b.file = FileOf[db'.catalog[i].id]
      <3>1. i = Len(db.catalog) + 1
        BY <2>4, <2>6
      <3>2. db'.catalog[i].asset = a.id /\ db'.catalog[i].id = c
        BY <2>4, <3>1
      <3> QED BY <2>2, <2>3, <3>2
    <2>7. ~\E s \in Calls : CreateRun(c, s)
      BY <1>3 DEF EnsureSource, AssetKnown, Selecting, CreateRun, Commit, Goto, IInv, TypeOK
    <2>8. \A b \in db'.assets : b.file = FileOf[b.id]
      BY <2>2 DEF FilesInv
    <2> QED BY <1>k, <1>r, <1>1, <2>5, <2>6, <2>7, <2>8, FilesKept
  <1>4. CASE ~EnsureAsset(c) /\ ~EnsureSource(c)
    <2>1. db'.assets = db.assets /\ db'.catalog = db.catalog
      <3>1. CASE EnsureLibrary(c)
        BY <1>0, <3>1, DbFields DEF IInv, EnsureLibrary, Commit
      <3> QED BY <1>4, <3>1, CatalogKept
    <2>2. CatalogGrows /\ \A a \in db'.assets : a.file = FileOf[a.id]
      BY <2>1 DEF CatalogGrows, FilesInv
    <2>3. CASE \E s \in Calls : CreateRun(c, s)
      BY <1>k, <1>r, <2>1, <2>2, <2>3, CreateFiles, FilesKept
    <2> QED BY <1>k, <1>r, <1>1, <2>1, <2>2, <2>3, FilesKept
  <1> QED BY <1>2, <1>3, <1>4

LEMMA FilesStep == IInv /\ FilesInv /\ [Next]_vars => FilesInv'
  <1> SUFFICES ASSUME IInv, FilesInv, [Next]_vars PROVE FilesInv'
    OBVIOUS
  <1>1. CASE UNCHANGED <<db, kind>> /\ \A c \in Calls : pc'[c] # "idle" => pc[c] # "idle"
    BY <1>1 DEF FilesInv
  <1>2. ASSUME NEW c \in Calls, NEW o \in Owners, NEW k \in KindsOf[c], StartCall(c, o, k)
        PROVE  FilesInv'
    <2>1. /\ db' = db /\ kind' = [kind EXCEPT ![c] = k] /\ pc' = [pc EXCEPT ![c] = "opening"]
          /\ db.run[c].state = "absent" /\ DOMAIN kind = Calls /\ DOMAIN pc = Calls
      BY <1>2 DEF StartCall, Goto, IInv, RunInv, RunAt, TypeOK
    <2>2. \A d \in Calls : /\ kind'[d] = IF d = c THEN k ELSE kind[d]
                           /\ pc'[d] = IF d = c THEN "opening" ELSE pc[d]
      BY <2>1
    <2> QED BY <2>1, <2>2 DEF FilesInv
  <1>3. ASSUME NEW c \in Calls, Recover(c)
        PROVE  FilesInv'
    <2>1. \A d \in Calls : /\ db'.run[d].source = db.run[d].source
                           /\ db'.run[d].state # "absent" => db.run[d].state # "absent"
      BY <1>3, RecoverTables DEF Unfinished
    <2>2. db'.assets = db.assets /\ db'.catalog = db.catalog
      BY <1>3, RecoverTables, SweptRuns DEF IInv, TypeOK
    <2>3. UNCHANGED kind /\ \A d \in Calls : pc'[d] # "idle" => pc[d] # "idle"
      BY <1>3 DEF Recover, Commit, Goto, IInv, TypeOK
    <2> QED BY <2>1, <2>2, <2>3 DEF FilesInv
  <1>4. CASE Next
    <2>1. CASE \E o \in Owners : StartOwner(o)
      BY <1>1, <2>1 DEF StartOwner
    <2>2. ASSUME NEW o \in Owners, KillOwner(o) PROVE FilesInv'
      <3>1. ASSUME NEW c \in Calls, pc'[c] # "idle" PROVE pc[c] # "idle"
        BY <2>2, <3>1, ConstantsAssumption DEF KillOwner, IInv, CallsInv, TypeOK
      <3> QED BY <1>1, <2>2, <3>1 DEF KillOwner
    <2>3. ASSUME NEW c \in Calls, EnterRecovery(c) \/ TakeSnapshot(c) \/ Refuse(c) PROVE FilesInv'
      <3>1. UNCHANGED <<db, kind>>
        BY <2>3 DEF EnterRecovery, TakeSnapshot, Refuse, ownerVars
      <3>2. pc' = pc \/ (pc[c] # "idle" /\ \E x : pc' = [pc EXCEPT ![c] = x])
        BY <2>3 DEF EnterRecovery, TakeSnapshot, Refuse, Goto, WritingPhases
      <3>3. \A d \in Calls : pc'[d] # "idle" => pc[d] # "idle"
        BY <3>2 DEF IInv, TypeOK
      <3> QED BY <1>1, <3>1, <3>3
    <2> QED BY <1>2, <1>3, <1>4, <2>1, <2>2, <2>3, NextCases, WorkFiles
  <1> QED BY <1>1, <1>4 DEF vars

\* Every Run is one of a Source in the catalog and every Source has its Asset,
\* for the file that was processed: the foreign keys of migrate() are no guards
\* either, whatever connections interleave their SELECTs and INSERTs.
THEOREM RowsReferToRows == Spec => []FilesInv
  <1>1. Init => FilesInv
    BY DEF Init, FilesInv, EmptyDatabase, NoRun
  <1> QED BY <1>1, FilesStep, IInvAlways, PTL DEF Spec

-----------------------------------------------------------------------------
(* Theorems.                                                               *)

\* The tables, the snapshots and the calls keep their types.
THEOREM ConnectionsTypeCorrect == Spec => []TypeOK
  <1>1. IInv => TypeOK
    BY DEF IInv
  <1> QED BY <1>1, IInvAlways, PTL

\* However many calls ingest the same file at once, there is one Library, one
\* Asset per digest and one Source per Asset (ensure_source).
THEOREM KeysStayUnique == Spec => []OneRowPerKey
  <1>1. IInv => OneRowPerKey
    <2> SUFFICES ASSUME IInv PROVE OneRowPerKey
      OBVIOUS
    <2>1. Cardinality(db.libraries) <= 1
      <3>1. CASE db.libraries = {}
        BY <3>1, FS_EmptySet
      <3>2. CASE db.libraries # {}
        <4>1. PICK x \in db.libraries : TRUE
          BY <3>2
        <4>2. db.libraries = {x}
          BY <4>1 DEF IInv, KeysInv
        <4>3. Cardinality(db.libraries) = 1
          BY <4>2, FS_Singleton
        <4> QED BY <4>3
      <3> QED BY <3>1, <3>2
    <2> QED BY <2>1 DEF OneRowPerKey, IInv, KeysInv
  <1> QED BY <1>1, IInvAlways, PTL

\* Once an owner has recovered the database, the Runs of the owners that were
\* dead when it started have ended (recover_unfinished_runs_once).
THEOREM RecoveryReachesDeadOwners == Spec => []DeadOwnersRunsEnd
  <1>1. IInv => DeadOwnersRunsEnd
    BY DEF IInv
  <1> QED BY <1>1, IInvAlways, PTL

\* No engine that an owner constructs interrupts a Run of the same owner.
THEOREM OwnRunsAreSpared == Spec => RecoverySparesOwnRuns
  <1>1. ASSUME IInv, Next, NEW c \in Calls, NEW d \in Calls, Interrupts(c, d)
        PROVE  owner[d] # owner[c]
    <2>1. ~recovered[owner[c]]
      BY <1>1 DEF Interrupts, IInv, LatchInv
    <2> SUFFICES db.run[d].state # "absent"
      BY <1>1, <2>1 DEF IInv, LatchInv
    <2>2. db'.run[d] # db.run[d]
      BY <1>1 DEF Interrupts
    <2>3. CASE \E b \in Calls : Work(b)
      <3>1. PICK b \in Calls : WorkShape(b)
        BY <1>1, <2>3, WorkHasShape DEF IInv
      <3> QED BY <1>1, <2>2, <3>1 DEF WorkShape, Interrupts
    <2>4. CASE \E b \in Calls : Recover(b)
      BY <1>1, <2>2, <2>4, RecoverTables DEF Unfinished
    <2>5. db' = db \/ (\E b \in Calls : Work(b)) \/ (\E b \in Calls : Recover(b))
      BY <1>1, NextCases DEF StartOwner, KillOwner, StartCall, EnterRecovery, TakeSnapshot, Refuse
    <2> QED BY <2>2, <2>3, <2>4, <2>5
  <1>2. IInv /\ [Next]_vars =>
          [\A c, d \in Calls : Interrupts(c, d) => owner[d] # owner[c]]_vars
    BY <1>1
  <1> QED BY <1>2, IInvAlways, PTL DEF Spec, RecoverySparesOwnRuns

-----------------------------------------------------------------------------
(* Refinement of RunLifecycle.                                             *)

LEMMA TablesUnchanged ==
  ASSUME db'.source = db.source, db'.run = db.run, db'.candidate = db.candidate,
         db'.publication = db.publication, db'.fts = db.fts, db'.events = db.events
  PROVE  UNCHANGED Lifecycle!vars
  BY DEF Lifecycle!vars, ManifestOf, EvidenceOf, FtsRow

\* What _transition_run changes, in the terms of RunLifecycle.
LEMMA MovedTables ==
  ASSUME NEW d \in Databases, NEW c \in Calls, NEW state, NEW event, NEW e,
         e = Moved(d, c, state, event)
  PROVE  /\ e.run = [d.run EXCEPT ![c] = [d.run[c] EXCEPT !.state = state]]
         /\ e.events = [d.events EXCEPT ![c] = Append(d.events[c], event)]
         /\ e.source = d.source /\ e.candidate = d.candidate
         /\ e.publication = d.publication /\ e.fts = d.fts
  <1>1. d = [libraries |-> d.libraries, assets |-> d.assets, catalog |-> d.catalog,
             source |-> d.source, run |-> d.run, candidate |-> d.candidate,
             publication |-> d.publication, fts |-> d.fts, events |-> d.events]
    BY DEF Databases
  <1> QED BY <1>1 DEF Moved

LEMMA CreateImplements ==
  ASSUME IInv, NEW c \in Calls, NEW s \in Calls, CreateRun(c, s)
  PROVE  Lifecycle!Next
  <1>1. /\ pc[c] \in Cataloguing /\ view[c] = db /\ db.run[c].state = "absent"
    BY DEF CreateRun, Selecting, MayWrite, IInv, RunInv, RunAt
  <1>2. /\ db'.source = [db.source EXCEPT ![s] =
               [db.source[s] EXCEPT !.requested = db.source[s].requested + 1]]
        /\ db'.run = [db.run EXCEPT ![c] = NewRun(c, s)]
        /\ db'.events = [db.events EXCEPT ![c] = Append(db.events[c], "run_created")]
        /\ db'.candidate = db.candidate /\ db'.publication = db.publication
        /\ db'.fts = db.fts
    BY <1>1, DbFields DEF CreateRun, Commit, IInv
  <1>3. Lifecycle!CreateRun(c, s, None)
    BY <1>1, <1>2 DEF Lifecycle!CreateRun, Lifecycle!NewRun, Lifecycle!AppendEvent, NewRun, ManifestOf, EvidenceOf, FtsRow
  <1> QED BY <1>3 DEF Lifecycle!Next

\* A move that leaves everything but the Run and its events alone.
LEMMA MoveImplements ==
  ASSUME IInv, NEW c \in Calls, NEW expected, NEW state, NEW event,
         db.run[c].state \in expected, db' = Moved(db, c, state, event)
  PROVE  /\ Lifecycle!CompareAndSet(c, expected, state, event)
         /\ db'.source = db.source /\ db'.candidate = db.candidate
         /\ db'.publication = db.publication /\ db'.fts = db.fts
         /\ UNCHANGED <<db.source, [b \in Calls |-> EvidenceOf(b)],
                        [b \in Calls |-> ManifestOf(b)], db.publication>>
  <1>1. /\ db'.run = [db.run EXCEPT ![c] = [db.run[c] EXCEPT !.state = state]]
        /\ db'.events = [db.events EXCEPT ![c] = Append(db.events[c], event)]
        /\ db'.source = db.source /\ db'.candidate = db.candidate
        /\ db'.publication = db.publication /\ db'.fts = db.fts
    BY MovedTables, DbFields DEF IInv
  <1> QED BY <1>1 DEF Lifecycle!CompareAndSet, Lifecycle!AppendEvent, ManifestOf, EvidenceOf, FtsRow

LEMMA TransitionImplements ==
  ASSUME IInv, NEW c \in Calls, MarkRunRunning(c) \/ Supersede(c) \/ MarkFailed(c)
  PROVE  [Lifecycle!Next]_(Lifecycle!vars)
  <1>1. CASE MarkRunRunning(c)
    <2>1. db.run[c].state \in {"queued"} /\ db' = Moved(db, c, "running", "run_started")
      BY <1>1 DEF MarkRunRunning, Commit
    <2>a. /\ Lifecycle!CompareAndSet(c, {"queued"}, "running", "run_started")
          /\ db'.source = db.source /\ db'.candidate = db.candidate
          /\ db'.publication = db.publication /\ db'.fts = db.fts
      BY <2>1, MoveImplements
    <2>2. Lifecycle!MarkRunRunning(c)
      BY <2>a DEF Lifecycle!MarkRunRunning, ManifestOf, EvidenceOf, FtsRow
    <2> QED BY <2>2 DEF Lifecycle!Next
  <1>2. CASE Supersede(c)
    <2>1. /\ db.run[c].state = "validated" /\ view[c] = db /\ Stale(c)
          /\ db' = Moved(db, c, "superseded", "run_superseded")
      BY <1>2 DEF Supersede, Commit, MayWrite, IInv, RunInv, RunAt
    <2>2. Lifecycle!Stale(c)
      BY <2>1 DEF Stale, Lifecycle!Stale
    <2>a. db.run[c].state \in {"validated"}
      BY <2>1
    <2>b. /\ Lifecycle!CompareAndSet(c, {"validated"}, "superseded", "run_superseded")
          /\ db'.source = db.source /\ db'.candidate = db.candidate
          /\ db'.publication = db.publication /\ db'.fts = db.fts
      BY <2>1, <2>a, MoveImplements
    <2>3. Lifecycle!Supersede(c)
      BY <2>1, <2>2, <2>b DEF Lifecycle!Supersede, ManifestOf, EvidenceOf, FtsRow
    <2>4. c \in Lifecycle!Created /\ Lifecycle!Offered(c, None, None)
      BY <2>1 DEF Lifecycle!Created, Lifecycle!Offered
    <2> QED BY <2>3, <2>4 DEF Lifecycle!Next, Lifecycle!ActivatePublication
  <1>3. CASE MarkFailed(c) /\ db' = db
    BY <1>3, TablesUnchanged
  <1>4. CASE MarkFailed(c) /\ db' # db
    <2>1. /\ db.run[c].state \in {"queued", "running", "validated"}
          /\ db' = Moved(db, c, "failed", "run_failed")
      BY <1>4 DEF MarkFailed, Commit, MayBeFailed
    <2>2. CASE db.run[c].state \in {"queued", "running"}
      <3>0. /\ Lifecycle!CompareAndSet(c, {"queued", "running"}, "failed", "run_failed")
            /\ db'.source = db.source /\ db'.candidate = db.candidate
            /\ db'.publication = db.publication /\ db'.fts = db.fts
        BY <2>1, <2>2, MoveImplements
      <3>1. Lifecycle!MarkRunFailed(c)
        BY <3>0 DEF Lifecycle!MarkRunFailed, ManifestOf, EvidenceOf, FtsRow
      <3> QED BY <3>1 DEF Lifecycle!Next
    <2>3. CASE db.run[c].state \in {"validated"}
      <3>1. Lifecycle!MarkValidatedRunFailed(c)
        BY <2>1, <2>3, MoveImplements DEF Lifecycle!MarkValidatedRunFailed, ManifestOf, EvidenceOf, FtsRow
      <3> QED BY <3>1 DEF Lifecycle!Next
    <2> QED BY <2>1, <2>2, <2>3
  <1> QED BY <1>1, <1>2, <1>3, <1>4

LEMMA RecoverImplements ==
  ASSUME IInv, NEW c \in Calls, Recover(c)
  PROVE  [Lifecycle!Next]_(Lifecycle!vars)
  <1>1. CASE db' = db
    BY <1>1, TablesUnchanged
  <1>2. CASE db' # db
    <2>1. db' = Swept(db) /\ Unfinished(db) # {}
      BY <1>2 DEF Recover, Commit, MayWrite
    <2>2. /\ db'.run = [b \in Calls |-> IF b \in Unfinished(db)
                                        THEN [db.run[b] EXCEPT !.state = "interrupted"]
                                        ELSE db.run[b]]
          /\ db'.events = [b \in Calls |-> IF b \in Unfinished(db)
                                           THEN Append(db.events[b], "run_interrupted")
                                           ELSE db.events[b]]
          /\ db'.source = db.source /\ db'.candidate = db.candidate
          /\ db'.publication = db.publication /\ db'.fts = db.fts
      BY <2>1, DbFields DEF Swept, IInv
    <2>3. Lifecycle!Unfinished = Unfinished(db)
      BY DEF Lifecycle!Unfinished, Unfinished
    <2>4. Lifecycle!InterruptUnfinishedRuns
      BY <2>1, <2>2, <2>3 DEF Lifecycle!InterruptUnfinishedRuns, ManifestOf, EvidenceOf, FtsRow
    <2> QED BY <2>4 DEF Lifecycle!Next
  <1> QED BY <1>1, <1>2

LEMMA PersistImplements ==
  ASSUME IInv, FilesInv, NEW c \in Calls, PersistValidatedCandidate(c)
  PROVE  Lifecycle!Next
  <1> DEFINE d == Moved(db, c, "validated", "candidate_validated")
  <1>1. db' = [d EXCEPT !.candidate = db.candidate \cup {c}] /\ db.run[c].state = "running"
    BY DEF PersistValidatedCandidate, Commit
  <1>2. d \in Databases
    BY MovedType, DbFields DEF IInv, RunStates, EventTypes
  <1>3. /\ d.run = [db.run EXCEPT ![c] = [db.run[c] EXCEPT !.state = "validated"]]
        /\ d.events = [db.events EXCEPT ![c] = Append(db.events[c], "candidate_validated")]
        /\ d.source = db.source /\ d.publication = db.publication /\ d.fts = db.fts
    BY MovedTables, DbFields DEF IInv
  <1> HIDE DEF d
  <1>4. /\ db'.run = d.run /\ db'.events = d.events /\ db'.source = d.source
        /\ db'.publication = d.publication /\ db'.fts = d.fts
        /\ db'.candidate = db.candidate \cup {c}
    BY <1>1, <1>2 DEF Databases
  <1>5. Lifecycle!CompareAndSet(c, {"running"}, "validated", "candidate_validated")
    BY <1>1, <1>3, <1>4 DEF Lifecycle!CompareAndSet, Lifecycle!AppendEvent
  <1>6. [b \in Calls |-> EvidenceOf(b)]'
          = [[b \in Calls |-> EvidenceOf(b)] EXCEPT ![c] = {"evidence"}]
    BY <1>4 DEF EvidenceOf
  <1>7. Lifecycle!ManifestFor({"evidence"}, "extractor", FileOf[c])
          = [count |-> 1, fingerprint |-> "extractor", asset |-> FileOf[c]]
    <2>1. Cardinality({"evidence"}) = 1
      BY FS_Singleton
    <2>2. Lifecycle!Cardinality({"evidence"}) = Cardinality({"evidence"})
      BY DEF Lifecycle!Cardinality, Cardinality
    <2> QED BY <2>1, <2>2 DEF Lifecycle!ManifestFor
  <1>8. [b \in Calls |-> ManifestOf(b)]'
          = [[b \in Calls |-> ManifestOf(b)] EXCEPT
                ![c] = [count |-> 1, fingerprint |-> "extractor", asset |-> FileOf[c]]]
    BY <1>4 DEF ManifestOf, EvidenceOf, FtsRow
  <1>9. Lifecycle!PersistValidatedCandidate(c, {"evidence"}, "extractor", FileOf[c])
    <2>1. db'.source = db.source /\ db'.publication = db.publication /\ db'.fts = db.fts
      BY <1>3, <1>4
    <2>2. [b \in Calls |-> ManifestOf(b)]'
            = [[b \in Calls |-> ManifestOf(b)] EXCEPT
                  ![c] = Lifecycle!ManifestFor({"evidence"}, "extractor", FileOf[c])]
      BY <1>7, <1>8
    <2>3. UNCHANGED <<db.source, db.publication,
                      {FtsRow(t) : t \in {u \in Calls : db.fts[u] # None}},
                      [b \in Calls |-> None], [b \in Calls |-> None]>>
      BY <2>1 DEF FtsRow
    <2> QED BY <1>5, <1>6, <2>2, <2>3 DEF Lifecycle!PersistValidatedCandidate
  <1>10. c \in Lifecycle!Created
    BY <1>1 DEF Lifecycle!Created
  <1>11. {"evidence"} \in Lifecycle!Candidates
    BY DEF Lifecycle!Candidates
  <1>12. FileOf[c] \in Lifecycle!ProcessedAssets(c)
    <2>1. kind[c] \in KindsOf[c] /\ db.run[c].state # "absent"
      BY <1>1 DEF FilesInv, PersistValidatedCandidate
    <2>2. CASE kind[c] = "reprocess"
      BY <2>1, <2>2 DEF Lifecycle!ProcessedAssets, RevisedFiles
    <2>3. CASE kind[c] # "reprocess"
      BY <2>1, <2>3 DEF Lifecycle!ProcessedAssets, FilesInv
    <2> QED BY <2>2, <2>3
  <1>13. \E items \in Lifecycle!Candidates, fingerprint \in {"extractor"} :
           \E asset \in Lifecycle!ProcessedAssets(c) :
              Lifecycle!PersistValidatedCandidate(c, items, fingerprint, asset)
    BY <1>9, <1>11, <1>12
  <1> QED BY <1>10, <1>13 DEF Lifecycle!Next

LEMMA PublishImplements ==
  ASSUME IInv, NEW c \in Calls, Publish(c)
  PROVE  Lifecycle!Next
  <1> DEFINE d == Moved(db, c, "published", "publication_activated")
             s == db.run[c].source
             next == db.source[s].revision + 1
  <1>1. /\ db.run[c].state = "validated" /\ s \in Calls /\ c \in db.candidate
        /\ view[c] = db /\ ~Stale(c)
    BY DEF Publish, MayWrite, IInv, RunInv, RunAt
  <1>2. d \in Databases
    BY MovedType, DbFields DEF IInv, RunStates, EventTypes
  <1>3. /\ d.run = [db.run EXCEPT ![c] = [db.run[c] EXCEPT !.state = "published"]]
        /\ d.events = [db.events EXCEPT ![c] = Append(db.events[c], "publication_activated")]
        /\ d.candidate = db.candidate
    BY MovedTables, DbFields DEF IInv
  <1>4. db' = [d EXCEPT !.publication = [db.publication EXCEPT ![c] = next],
                        !.fts = [db.fts EXCEPT ![s] = c],
                        !.source = [db.source EXCEPT ![s] =
                            [active |-> c, revision |-> next,
                             requested |-> db.source[s].requested]]]
    BY <1>1 DEF Publish, Commit
  <1> HIDE DEF d
  <1>5. /\ db'.run = d.run /\ db'.events = d.events /\ db'.candidate = d.candidate
        /\ db'.publication = [db.publication EXCEPT ![c] = next]
        /\ db'.fts = [db.fts EXCEPT ![s] = c]
        /\ db'.source = [db.source EXCEPT ![s] =
                [active |-> c, revision |-> next, requested |-> db.source[s].requested]]
    BY <1>2, <1>4 DEF Databases
  <1>6. Lifecycle!CompareAndSet(c, {"validated"}, "published", "publication_activated")
    BY <1>1, <1>3, <1>5 DEF Lifecycle!CompareAndSet, Lifecycle!AppendEvent
  <1>7. ~Lifecycle!Stale(c) /\ Lifecycle!NextRevision(s) = next
    BY <1>1 DEF Stale, Lifecycle!Stale, Lifecycle!NextRevision
  <1>8. ManifestOf(c) = [count |-> 1, fingerprint |-> "extractor", asset |-> FileOf[c]]
    BY <1>1 DEF ManifestOf, EvidenceOf, FtsRow
  <1>9. /\ [b \in Calls |-> ManifestOf(b)]' = [b \in Calls |-> ManifestOf(b)]
        /\ [b \in Calls |-> EvidenceOf(b)]'
             = [b \in Calls |-> EvidenceOf(b)]
    BY <1>3, <1>5 DEF ManifestOf, EvidenceOf, FtsRow
  <1> DEFINE Rows(f) == {[source |-> t, publication |-> f[t], item |-> "evidence"] :
                           t \in {u \in Calls : f[u] # None}}
  <1>10. Lifecycle!ActiveRows(s, c) = {[source |-> s, publication |-> c, item |-> "evidence"]}
    BY <1>1 DEF Lifecycle!ActiveRows, EvidenceOf
  <1>11. Rows(db'.fts) = {row \in Rows(db.fts) : row.source # s}
                            \cup {[source |-> s, publication |-> c, item |-> "evidence"]}
    <2>1. db.fts \in FtsTable /\ c # None
      BY ConstantsAssumption DEF IInv, TypeOK, Databases
    <2>2. \A t \in Calls : db'.fts[t] = IF t = s THEN c ELSE db.fts[t]
      BY <1>5, <2>1 DEF FtsTable
    <2> HIDE DEF s
    <2> QED BY <1>1, <2>1, <2>2
  <1>12. {FtsRow(t) : t \in {u \in Calls : db.fts[u] # None}}' = Lifecycle!ReplaceFts(s, c)
    BY <1>10, <1>11 DEF Lifecycle!ReplaceFts, FtsRow
  <1>13. Lifecycle!TranscriptMatches(c, None) /\ Lifecycle!Offered(c, None, None)
    BY DEF Lifecycle!TranscriptMatches, Lifecycle!Offered
  <1>14. [b \in Calls |-> ManifestOf(b)][c] # None
    BY <1>8, ConstantsAssumption
  <1> HIDE DEF s, next
  <1>15. Lifecycle!Publish(c, None, None)
    BY <1>1, <1>5, <1>6, <1>7, <1>9, <1>12, <1>13, <1>14 DEF Lifecycle!Publish, s
  <1>16. c \in Lifecycle!Created
    BY <1>1 DEF Lifecycle!Created
  <1> QED BY <1>13, <1>15, <1>16 DEF Lifecycle!Next, Lifecycle!ActivatePublication

LEMMA WorkImplements ==
  ASSUME IInv, FilesInv, NEW c \in Calls, Work(c)
  PROVE  [Lifecycle!Next]_(Lifecycle!vars)
  <1>1. CASE EnsureLibrary(c)
    BY <1>1, TablesUnchanged, DbFields DEF IInv, EnsureLibrary, Commit
  <1>2. CASE EnsureAsset(c)
    BY <1>2, TablesUnchanged, DbFields DEF IInv, EnsureAsset, Commit
  <1>3. CASE EnsureSource(c)
    BY <1>3, TablesUnchanged, DbFields DEF IInv, EnsureSource, Commit
  <1>4. CASE RefuseMediaType(c) \/ ExtractionSucceeds(c) \/ ExtractionFails(c) \/ LoseRun(c)
    BY <1>4, TablesUnchanged DEF RefuseMediaType, ExtractionSucceeds, ExtractionFails, LoseRun
  <1> QED BY <1>1, <1>2, <1>3, <1>4, CreateImplements, TransitionImplements, PersistImplements,
             PublishImplements DEF Work

LEMMA InitImplements == Init => Lifecycle!Init
  BY DEF Init, Lifecycle!Init, EmptyDatabase, NoSource, NoRun, Lifecycle!Absent, ManifestOf, EvidenceOf, FtsRow

LEMMA NextImplements == IInv /\ FilesInv /\ [Next]_vars => [Lifecycle!Next]_(Lifecycle!vars)
  <1> SUFFICES ASSUME IInv, FilesInv, [Next]_vars PROVE [Lifecycle!Next]_(Lifecycle!vars)
    OBVIOUS
  <1>1. CASE db' = db
    BY <1>1, TablesUnchanged
  <1>2. CASE db' # db
    <2>1. (\E c \in Calls : Work(c)) \/ (\E c \in Calls : Recover(c))
      BY <1>2, NextCases DEF vars, StartOwner, KillOwner, StartCall, EnterRecovery, TakeSnapshot,
           Refuse
    <2> QED BY <2>1, WorkImplements, RecoverImplements
  <1> QED BY <1>1, <1>2

\* What any number of connections commit is a behaviour of RunLifecycle with
\* its atomic operations: the snapshots of SQLite and the refusal of stale
\* writes are enough, without any lock of the code around an operation.
THEOREM ConnectionsImplementLifecycle == Spec => ImplementsLifecycle
  BY InitImplements, NextImplements, IInvAlways, RowsReferToRows, PTL
     DEF Spec, ImplementsLifecycle, Lifecycle!Spec

-----------------------------------------------------------------------------
(* What is proved about RunLifecycle holds of what the connections commit: *)
(* its theorems are cited for the instance the committed tables make.      *)

LP == INSTANCE RunLifecycleStepProofs WITH
    Sources <- Calls, Runs <- Calls, Items <- {"evidence"}, Assets <- Files,
    AssetOf <- FileOf, RevisedAssets <- RevisedFiles, Fingerprints <- {"extractor"},
    VideoWhisper <- {}, AudioWhisper <- {}, PdfReports <- {}, None <- None,
    source <- db.source,
    run <- db.run,
    evidence <- [c \in Calls |-> EvidenceOf(c)],
    manifest <- [c \in Calls |-> ManifestOf(c)],
    publication <- db.publication,
    fts <- {FtsRow(s) : s \in {t \in Calls : db.fts[t] # None}},
    pdfReport <- [c \in Calls |-> None],
    transcript <- [c \in Calls |-> None],
    events <- db.events

LEMMA LifecycleConstants == LP!ConstantsAssumption
  <1>1. LP!IsFiniteSet({"evidence"})
    <2>1. IsFiniteSet({"evidence"})
      BY FS_Singleton
    <2> QED BY <2>1 DEF LP!IsFiniteSet, IsFiniteSet
  <1>2. RevisedFiles \subseteq Files
    BY ConstantsAssumption DEF RevisedFiles
  <1>3. LP!TranscriptReports = {}
    BY DEF LP!TranscriptReports
  <1> QED BY <1>1, <1>2, <1>3, ConstantsAssumption DEF LP!ConstantsAssumption, LP!PdfReportType,
             LP!Manifests

\* The instance that the theorems are cited for is the one that is implemented.
LEMMA LifecycleCommitted == Spec => LP!Spec
  <1>1. Lifecycle!Init => LP!Init
    BY DEF Lifecycle!Init, LP!Init, Lifecycle!Absent, LP!Absent
  <1>2. [Lifecycle!Next]_(Lifecycle!vars) => [LP!Next]_(LP!vars)
    BY
       DEF Lifecycle!Next, LP!Next, Lifecycle!vars, LP!vars, Lifecycle!CreateRun,
           LP!CreateRun, Lifecycle!NewRun, LP!NewRun, Lifecycle!AppendEvent,
           LP!AppendEvent, Lifecycle!Created, LP!Created, Lifecycle!MarkRunRunning,
           LP!MarkRunRunning, Lifecycle!MarkRunFailed, LP!MarkRunFailed,
           Lifecycle!MarkValidatedRunFailed, LP!MarkValidatedRunFailed,
           Lifecycle!CompareAndSet, LP!CompareAndSet, Lifecycle!InterruptUnfinishedRuns,
           LP!InterruptUnfinishedRuns, Lifecycle!Unfinished, LP!Unfinished,
           Lifecycle!Candidates, LP!Candidates, Lifecycle!ProcessedAssets,
           LP!ProcessedAssets, Lifecycle!PersistValidatedCandidate,
           LP!PersistValidatedCandidate, Lifecycle!ManifestFor, LP!ManifestFor,
           Lifecycle!PersistPdfIntakeReport, LP!PersistPdfIntakeReport,
           Lifecycle!ReportAcceptable, LP!ReportAcceptable, Lifecycle!TranscriptReports,
           LP!TranscriptReports, Lifecycle!Offered, LP!Offered,
           Lifecycle!ActivatePublication, LP!ActivatePublication, Lifecycle!Supersede,
           LP!Supersede, Lifecycle!Stale, LP!Stale, Lifecycle!Publish, LP!Publish,
           Lifecycle!NextRevision, LP!NextRevision, Lifecycle!TranscriptMatches,
           LP!TranscriptMatches, Lifecycle!PdfReportMatches, LP!PdfReportMatches,
           Lifecycle!ReplaceFts, LP!ReplaceFts, Lifecycle!ActiveRows, LP!ActiveRows,
           Lifecycle!Cardinality, LP!Cardinality
  <1> QED BY <1>1, <1>2, ConnectionsImplementLifecycle, PTL
          DEF ImplementsLifecycle, Lifecycle!Spec, LP!Spec

\* Revisions without a gap, each carried by one Run and made on its predecessor,
\* and the later one always for the later request: no interleaving of the
\* statements of several connections loses an update or lets an old request win.
THEOREM ConnectionsKeepHistory ==
  Spec => [](/\ Lifecycle!PublicationHistory
             /\ Lifecycle!LatestRequestWins
             /\ Lifecycle!BasedOnPredecessor)
  <1>1. Spec => []LP!PublicationHistory
    BY LifecycleCommitted, LifecycleConstants, LP!HistoryIsGapless
  <1>2. Spec => []LP!LatestRequestWins
    BY LifecycleCommitted, LifecycleConstants, LP!NewestRequestWins
  <1>3. Spec => []LP!BasedOnPredecessor
    BY LifecycleCommitted, LifecycleConstants, LP!NoLostUpdate
  <1>4. LP!PublicationHistory => Lifecycle!PublicationHistory
    BY DEF LP!PublicationHistory, Lifecycle!PublicationHistory, LP!PublishedRuns,
           Lifecycle!PublishedRuns
  <1>5. LP!LatestRequestWins => Lifecycle!LatestRequestWins
    BY DEF LP!LatestRequestWins, Lifecycle!LatestRequestWins, LP!PublishedRuns,
           Lifecycle!PublishedRuns
  <1>6. LP!BasedOnPredecessor => Lifecycle!BasedOnPredecessor
    BY DEF LP!BasedOnPredecessor, Lifecycle!BasedOnPredecessor
  <1> QED BY <1>1, <1>2, <1>3, <1>4, <1>5, <1>6, PTL

\* The rows Search can match are those of the active Run of each Source, and
\* the event log of a Run explains its state, whatever connections wrote them.
THEOREM ConnectionsServeActiveRuns ==
  Spec => [](Lifecycle!ActiveProjection /\ Lifecycle!EventsExplainState)
  <1>1. Spec => []LP!ActiveProjection
    BY LifecycleCommitted, LifecycleConstants, LP!ProjectionIsActiveEvidence
  <1>2. Spec => []LP!EventsExplainState
    BY LifecycleCommitted, LifecycleConstants, LP!EventsTellTheTruth
  <1>3. LP!ActiveProjection => Lifecycle!ActiveProjection
    BY DEF LP!ActiveProjection, Lifecycle!ActiveProjection, LP!ActiveRows, Lifecycle!ActiveRows
  <1>4. LP!EventsExplainState => Lifecycle!EventsExplainState
    BY DEF LP!EventsExplainState, Lifecycle!EventsExplainState, LP!LawfulLogs,
           Lifecycle!LawfulLogs
  <1> QED BY <1>1, <1>2, <1>3, <1>4, PTL

\* A settled or stale Run is never revived and a validated candidate never
\* rewritten, although the write that would do it follows reads of a snapshot.
THEOREM ConnectionsNeverRevive ==
  Spec => Lifecycle!NoResurrection /\ Lifecycle!CandidateFrozen
  <1>1. Spec => LP!NoResurrection
    BY LifecycleCommitted, LifecycleConstants, LP!SettledRunsStaySettled
  <1>2. Spec => LP!CandidateFrozen
    BY LifecycleCommitted, LifecycleConstants, LP!CandidatesAreImmutable
  <1>3. [\A r \in LP!Created : LP!NotResurrected(r)]_(LP!vars)
          => [\A r \in Lifecycle!Created : Lifecycle!NotResurrected(r)]_(Lifecycle!vars)
    BY DEF LP!Created, Lifecycle!Created, LP!NotResurrected, Lifecycle!NotResurrected,
           LP!Stale, Lifecycle!Stale, LP!vars, Lifecycle!vars
  <1>4. [\A r \in Calls : LP!CandidateKept(r)]_(LP!vars)
          => [\A r \in Calls : Lifecycle!CandidateKept(r)]_(Lifecycle!vars)
    BY DEF LP!CandidateKept, Lifecycle!CandidateKept, LP!vars, Lifecycle!vars
  <1> QED BY <1>1, <1>2, <1>3, <1>4, PTL
          DEF LP!NoResurrection, Lifecycle!NoResurrection, LP!CandidateFrozen,
              Lifecycle!CandidateFrozen

\* What Search sees of a Source switches atomically from one Run's complete
\* candidate to a newer request's: three levels, from single SQL statements of
\* many connections over the operations of the store to the promise of ADR-0002.
THEOREM ConnectionsKeepPromise == Spec => Lifecycle!ImplementsPromise
  <1>1. Spec => LP!ImplementsPromise
    BY LifecycleCommitted, LifecycleConstants, LP!StoreKeepsPromise
  <1>2. LP!Promise!Init => Lifecycle!Promise!Init
    BY DEF LP!Promise!Init, Lifecycle!Promise!Init, LP!VisibleRows, Lifecycle!VisibleRows,
           LP!Served, Lifecycle!Served
  <1>3. [LP!Promise!Next]_(LP!Promise!vars) => [Lifecycle!Promise!Next]_(Lifecycle!Promise!vars)
    BY DEF LP!Promise!Next, Lifecycle!Promise!Next, LP!Promise!vars, Lifecycle!Promise!vars,
           LP!Promise!Request, Lifecycle!Promise!Request, LP!Promise!Switch,
           Lifecycle!Promise!Switch, LP!Promise!Candidate, Lifecycle!Promise!Candidate,
           LP!VisibleRows, Lifecycle!VisibleRows, LP!Served, Lifecycle!Served
  <1> QED BY <1>1, <1>2, <1>3, PTL
          DEF LP!ImplementsPromise, Lifecycle!ImplementsPromise, LP!Promise!Spec,
              Lifecycle!Promise!Spec

\* Without reprocess_pdf every Publication that connections make passes the
\* provenance checks of each read: the Library never becomes unreadable.
THEOREM ReadableWithoutReprocess ==
  ASSUME \A c \in Calls : "reprocess" \notin KindsOf[c]
  PROVE  Spec => []Lifecycle!LibraryReadable
  <1>1. RevisedFiles = {}
    BY DEF RevisedFiles
  <1>2. Spec => []LP!LibraryReadable
    BY <1>1, LifecycleCommitted, LifecycleConstants, LP!LibraryStaysReadable
  <1>3. LP!LibraryReadable => Lifecycle!LibraryReadable
    BY DEF LP!LibraryReadable, Lifecycle!LibraryReadable, LP!GraphValid,
           Lifecycle!GraphValid, LP!Cardinality, Lifecycle!Cardinality
  <1> QED BY <1>2, <1>3, PTL


\* Whatever ingests, reprocesses and recovers at once, a revision of a Source
\* never names two answers: a cursor that compares revisions compares answers.
THEOREM ConnectionsNameAnswers ==
  ASSUME NEW s \in Calls, NEW answer
  PROVE  Spec => [](LP!Authority(s) = answer =>
                    [](db.source[s].revision = answer.revision => LP!Authority(s) = answer))
  BY LifecycleCommitted, LifecycleConstants, LP!RevisionNamesAnAnswer

=============================================================================
