------------------------- MODULE RunLifecycleProofs -------------------------
(***************************************************************************)
(* Proofs about the store of RunLifecycle, for every set of Sources, Runs, *)
(* Evidence items, files and fingerprints.                                 *)
(***************************************************************************)
EXTENDS RunLifecycle, FiniteSetTheorems, TLAPS

(* The rows of a Run that exists.                                          *)
LEMMA CreatedRow ==
    ASSUME TypeOK, NEW r \in Runs, run[r].state # "absent"
    PROVE  run[r] \in RunRows
  BY DEF TypeOK, Absent

(* A compare-and-set keeps the shape of `runs` and `run_events`; it changes *)
(* the state of one existing Run and nothing else of it.                    *)
LEMMA CompareAndSetEffect ==
    ASSUME TypeOK, NEW r \in Runs, NEW expected \in SUBSET RunStates,
           NEW target \in RunStates, NEW type \in EventTypes,
           CompareAndSet(r, expected, target, type)
    PROVE  /\ run[r] \in RunRows
           /\ run' \in [Runs -> RunRows \cup {Absent}]
           /\ events' \in [Runs -> Seq(EventTypes)]
           /\ run[r].state \in expected
           /\ run'[r].state = target
           /\ run'[r].source = run[r].source
           /\ run'[r].generation = run[r].generation
           /\ run'[r].base = run[r].base
           /\ \A q \in Runs \ {r} : run'[q] = run[q] /\ events'[q] = events[q]
           /\ events'[r] = Append(events[r], type)
  <1>1. run[r] \in RunRows
    BY CreatedRow DEF CompareAndSet, RunStates
  <1>2. [run[r] EXCEPT !.state = target] \in RunRows
    BY <1>1 DEF RunRows
  <1>3. run' = [run EXCEPT ![r] = [run[r] EXCEPT !.state = target]]
    BY DEF CompareAndSet, TypeOK
  <1>4. run' \in [Runs -> RunRows \cup {Absent}]
    BY <1>2, <1>3 DEF TypeOK
  <1>5. events[r] \in Seq(EventTypes) /\ Append(events[r], type) \in Seq(EventTypes)
    BY DEF TypeOK
  <1>6. events' \in [Runs -> Seq(EventTypes)]
    BY <1>5 DEF TypeOK, CompareAndSet, AppendEvent
  <1>7. /\ run'[r].state = target
        /\ run'[r].source = run[r].source
        /\ run'[r].generation = run[r].generation
        /\ run'[r].base = run[r].base
    BY <1>1, <1>3 DEF RunRows, TypeOK
  <1>8. /\ \A q \in Runs \ {r} : run'[q] = run[q] /\ events'[q] = events[q]
        /\ events'[r] = Append(events[r], type)
    BY <1>3 DEF TypeOK, CompareAndSet, AppendEvent
  <1> QED
    BY <1>1, <1>4, <1>6, <1>7, <1>8 DEF CompareAndSet

(* The interruption of unfinished Runs changes only their states.          *)
LEMMA InterruptEffect ==
    ASSUME TypeOK, InterruptUnfinishedRuns
    PROVE  /\ run' \in [Runs -> RunRows \cup {Absent}]
           /\ events' \in [Runs -> Seq(EventTypes)]
           /\ \A r \in Runs :
                 /\ run'[r].source = run[r].source
                 /\ run'[r].generation = run[r].generation
                 /\ run'[r].base = run[r].base
                 /\ \/ /\ run[r].state \in {"queued", "running"}
                       /\ run'[r].state = "interrupted"
                       /\ events'[r] = Append(events[r], "run_interrupted")
                    \/ /\ run[r].state \notin {"queued", "running"}
                       /\ run'[r] = run[r]
                       /\ events'[r] = events[r]
  <1>1. ASSUME NEW r \in Unfinished
        PROVE  /\ run[r] \in RunRows
               /\ [run[r] EXCEPT !.state = "interrupted"] \in RunRows
               /\ Append(events[r], "run_interrupted") \in Seq(EventTypes)
    <2>1. r \in Runs /\ run[r].state # "absent"
      BY DEF Unfinished
    <2>2. run[r] \in RunRows
      BY <2>1, CreatedRow
    <2>3. events[r] \in Seq(EventTypes) /\ "run_interrupted" \in EventTypes
      BY <2>1 DEF TypeOK, EventTypes
    <2> QED BY <2>2, <2>3 DEF RunRows, RunStates
  <1>2. run' \in [Runs -> RunRows \cup {Absent}]
    BY <1>1 DEF InterruptUnfinishedRuns, TypeOK
  <1>3. events' \in [Runs -> Seq(EventTypes)]
    BY <1>1 DEF InterruptUnfinishedRuns, TypeOK
  <1>4. ASSUME NEW r \in Unfinished
        PROVE  /\ run'[r].source = run[r].source
               /\ run'[r].generation = run[r].generation
               /\ run'[r].base = run[r].base
               /\ run[r].state \in {"queued", "running"}
               /\ run'[r].state = "interrupted"
               /\ events'[r] = Append(events[r], "run_interrupted")
    <2>1. r \in Runs
      BY DEF Unfinished
    <2>2. run'[r] = [run[r] EXCEPT !.state = "interrupted"]
      BY <2>1 DEF InterruptUnfinishedRuns
    <2> QED BY <1>1, <2>1, <2>2 DEF InterruptUnfinishedRuns, Unfinished, RunRows
  <1>5. ASSUME NEW r \in Runs, r \notin Unfinished
        PROVE  /\ run[r].state \notin {"queued", "running"}
               /\ run'[r] = run[r]
               /\ events'[r] = events[r]
    BY <1>5 DEF InterruptUnfinishedRuns, Unfinished
  <1> QED BY <1>2, <1>3, <1>4, <1>5

-----------------------------------------------------------------------------
(* Type correctness.                                                       *)

LEMMA TypeStep == TypeOK /\ [Next]_vars => TypeOK'
  <1> SUFFICES ASSUME TypeOK, [Next]_vars PROVE TypeOK'
    OBVIOUS
  <1>1. ASSUME NEW r \in Runs, NEW s \in Sources,
               NEW retryOf \in {q \in Created : run[q].source = s} \cup {None},
               CreateRun(r, s, retryOf)
        PROVE  TypeOK'
    <2>1. NewRun(r, s, retryOf) \in RunRows
      BY <1>1 DEF NewRun, RunRows, TypeOK, RunStates, Created
    <2>2. run' \in [Runs -> RunRows \cup {Absent}]
      BY <1>1, <2>1 DEF CreateRun, TypeOK
    <2>3. source' \in [Sources -> [active : Runs \cup {None}, revision : Nat, requested : Nat]]
      <3> DEFINE SourceRow == [active : Runs \cup {None}, revision : Nat, requested : Nat]
      <3>1. source \in [Sources -> SourceRow] /\ source[s] \in SourceRow
        BY DEF TypeOK
      <3>2. [source[s] EXCEPT !.requested = source[s].requested + 1] \in SourceRow
        BY <3>1
      <3>3. source' = [source EXCEPT ![s] = [source[s] EXCEPT !.requested = source[s].requested + 1]]
        BY <1>1, <3>1 DEF CreateRun
      <3> HIDE DEF SourceRow
      <3> QED BY <3>1, <3>2, <3>3 DEF SourceRow
    <2>4. Append(events[r], "run_created") \in Seq(EventTypes)
      BY DEF TypeOK, EventTypes
    <2>5. events' \in [Runs -> Seq(EventTypes)]
      BY <1>1, <2>4 DEF CreateRun, TypeOK, AppendEvent
    <2> QED BY <1>1, <2>2, <2>3, <2>5 DEF CreateRun, TypeOK
  <1>2. ASSUME NEW r \in Runs, MarkRunRunning(r) PROVE TypeOK'
    <2>1. /\ run' \in [Runs -> RunRows \cup {Absent}]
          /\ events' \in [Runs -> Seq(EventTypes)]
      BY <1>2, CompareAndSetEffect DEF MarkRunRunning, RunStates, EventTypes
    <2> QED BY <1>2, <2>1 DEF MarkRunRunning, TypeOK
  <1>3. ASSUME NEW r \in Runs, MarkRunFailed(r) PROVE TypeOK'
    <2>1. /\ run' \in [Runs -> RunRows \cup {Absent}]
          /\ events' \in [Runs -> Seq(EventTypes)]
      BY <1>3, CompareAndSetEffect DEF MarkRunFailed, RunStates, EventTypes
    <2> QED BY <1>3, <2>1 DEF MarkRunFailed, TypeOK
  <1>4. ASSUME NEW r \in Runs, MarkValidatedRunFailed(r) PROVE TypeOK'
    <2>1. /\ run' \in [Runs -> RunRows \cup {Absent}]
          /\ events' \in [Runs -> Seq(EventTypes)]
      BY <1>4, CompareAndSetEffect DEF MarkValidatedRunFailed, RunStates, EventTypes
    <2> QED BY <1>4, <2>1 DEF MarkValidatedRunFailed, TypeOK
  <1>5. ASSUME InterruptUnfinishedRuns PROVE TypeOK'
    <2>1. /\ run' \in [Runs -> RunRows \cup {Absent}]
          /\ events' \in [Runs -> Seq(EventTypes)]
      BY <1>5, InterruptEffect
    <2> QED BY <1>5, <2>1 DEF InterruptUnfinishedRuns, TypeOK
  <1>6. ASSUME NEW r \in Created, NEW items \in Candidates,
               NEW fingerprint \in Fingerprints, NEW asset \in ProcessedAssets(r),
               PersistValidatedCandidate(r, items, fingerprint, asset)
        PROVE  TypeOK'
    <2>0. r \in Runs
      BY DEF Created
    <2>1. /\ run[r] \in RunRows
          /\ run' \in [Runs -> RunRows \cup {Absent}]
          /\ events' \in [Runs -> Seq(EventTypes)]
      BY <1>6, <2>0, CompareAndSetEffect DEF PersistValidatedCandidate, RunStates, EventTypes
    <2>2. items \in SUBSET Items /\ Cardinality(items) \in Nat
      BY ConstantsAssumption, FS_Subset, FS_CardinalityType DEF Candidates
    <2>3. asset \in Assets
      BY <2>1, ConstantsAssumption DEF ProcessedAssets, RunRows
    <2>4. ManifestFor(items, fingerprint, asset) \in Manifests
      BY <2>2, <2>3 DEF ManifestFor, Manifests
    <2> QED BY <1>6, <2>0, <2>1, <2>2, <2>4 DEF PersistValidatedCandidate, TypeOK
  <1>7. ASSUME NEW r \in Runs, NEW report \in PdfReports, PersistPdfIntakeReport(r, report)
        PROVE  TypeOK'
    BY <1>7, ConstantsAssumption DEF PersistPdfIntakeReport, TypeOK
  <1>8. ASSUME NEW r \in Created, Supersede(r) PROVE TypeOK'
    <2>1. /\ run' \in [Runs -> RunRows \cup {Absent}]
          /\ events' \in [Runs -> Seq(EventTypes)]
      BY <1>8, CompareAndSetEffect DEF Supersede, RunStates, EventTypes, Created
    <2> QED BY <1>8, <2>1 DEF Supersede, TypeOK
  <1>9. ASSUME NEW r \in Created, NEW report \in PdfReports \cup {None},
               NEW trans \in TranscriptReports \cup {None}, Publish(r, report, trans)
        PROVE  TypeOK'
    <2>0. r \in Runs
      BY DEF Created
    <2>1. /\ run[r] \in RunRows
          /\ run' \in [Runs -> RunRows \cup {Absent}]
          /\ events' \in [Runs -> Seq(EventTypes)]
      BY <1>9, <2>0, CompareAndSetEffect DEF Publish, NextRevision, RunStates, EventTypes
    <2> DEFINE s == run[r].source
    <2>2. s \in Sources /\ source[s].revision + 1 \in Nat
      BY <2>1 DEF RunRows, TypeOK
    <2>3. fts' \subseteq FtsRows
      BY <1>9, <2>0, <2>2 DEF Publish, NextRevision, ReplaceFts, ActiveRows, FtsRows, TypeOK
    <2>4. source' \in [Sources -> [active : Runs \cup {None}, revision : Nat, requested : Nat]]
      BY <1>9, <2>0, <2>2 DEF Publish, NextRevision, TypeOK
    <2>5. publication' \in [Runs -> Nat]
      BY <1>9, <2>2 DEF Publish, NextRevision, TypeOK
    <2>6. /\ pdfReport' \in [Runs -> PdfReportType \cup {None}]
          /\ transcript' \in [Runs -> TranscriptReports \cup {None}]
      BY <1>9, ConstantsAssumption DEF Publish, NextRevision, TypeOK
    <2> QED BY <1>9, <2>1, <2>3, <2>4, <2>5, <2>6 DEF Publish, NextRevision, TypeOK
  <1>10. CASE UNCHANGED vars
    BY <1>10 DEF vars, TypeOK
  <1> QED
    BY <1>1, <1>2, <1>3, <1>4, <1>5, <1>6, <1>7, <1>8, <1>9, <1>10
       DEF Next, ActivatePublication

(* Every state of the store has the shape its schema declares.             *)
THEOREM TypeCorrect == Spec => []TypeOK
  <1>1. Init => TypeOK
    BY ConstantsAssumption DEF Init, TypeOK, Absent
  <1> QED
    BY <1>1, TypeStep, PTL DEF Spec

-----------------------------------------------------------------------------
(* The inductive invariant.                                                *)

\* A Publication row exists for exactly the published Runs.
PublishedRows == \A r \in Runs : publication[r] # 0 <=> run[r].state = "published"

\* A Run never runs ahead of its Source, and no two Runs share a request.
RequestsCounted ==
    /\ \A r \in Created : /\ run[r].generation <= source[run[r].source].requested
                          /\ run[r].base <= source[run[r].source].revision
    /\ \A p, q \in Created :
          run[p].source = run[q].source /\ run[p].generation = run[q].generation => p = q

\* PublicationHistory, part by part.
RevisionsBounded ==
    \A r \in Runs : publication[r] # 0 => publication[r] <= source[run[r].source].revision

RevisionsGapless ==
    \A s \in Sources : \A k \in 1..source[s].revision :
        \E r \in Runs : run[r].source = s /\ publication[r] = k

RevisionsUnique ==
    \A p, q \in Runs :
        /\ publication[p] # 0
        /\ run[p].source = run[q].source
        /\ publication[p] = publication[q]
        => p = q

ActivePointer ==
    \A s \in Sources :
        /\ source[s].active = None <=> source[s].revision = 0
        /\ source[s].active # None =>
              /\ source[s].active \in PublishedRuns(s)
              /\ publication[source[s].active] = source[s].revision

IInv ==
    /\ TypeOK
    /\ PublishedRows
    /\ RequestsCounted
    /\ RevisionsBounded
    /\ RevisionsGapless
    /\ RevisionsUnique
    /\ ActivePointer
    /\ BasedOnPredecessor
    /\ LatestRequestWins
    /\ ActiveProjection

\* A step that publishes nothing: no Run appears, and none enters or leaves
\* the published state or loses the Evidence it published.
Quiet ==
    /\ UNCHANGED <<source, publication, fts>>
    /\ \A r \in Runs :
          /\ run'[r].source = run[r].source
          /\ run'[r].generation = run[r].generation
          /\ run'[r].base = run[r].base
          /\ run'[r].state = "absent" <=> run[r].state = "absent"
          /\ run'[r].state = "published" <=> run[r].state = "published"
          /\ run[r].state = "published" => evidence'[r] = evidence[r]

LEMMA QuietKeepsIInv == IInv /\ TypeOK' /\ Quiet => IInv'
  <1> SUFFICES ASSUME IInv, TypeOK', Quiet PROVE IInv'
    OBVIOUS
  <1> USE DEF Quiet, IInv
  <1>1. PublishedRows'
    BY DEF PublishedRows
  <1>2. Created' = Created
    BY DEF Created
  <1>3. RequestsCounted'
    <2>1. \A r \in Created : r \in Runs
      BY DEF Created
    <2> QED BY <1>2, <2>1 DEF RequestsCounted
  <1>4. RevisionsBounded' /\ RevisionsGapless' /\ RevisionsUnique'
    BY DEF RevisionsBounded, RevisionsGapless, RevisionsUnique
  <1>5. \A s \in Sources : PublishedRuns(s)' = PublishedRuns(s)
    BY DEF PublishedRuns
  <1>6. ActivePointer'
    BY <1>5 DEF ActivePointer
  <1>7. BasedOnPredecessor'
    BY DEF BasedOnPredecessor
  <1>8. LatestRequestWins'
    <2>1. \A s \in Sources : \A r \in PublishedRuns(s) : r \in Runs
      BY DEF PublishedRuns
    <2> QED BY <1>5, <2>1 DEF LatestRequestWins
  <1>9. ActiveProjection'
    <2>1. ASSUME NEW s \in Sources, source[s].active # None
          PROVE  evidence'[source[s].active] = evidence[source[s].active]
      <3>1. source[s].active \in Runs /\ publication[source[s].active] # 0
        BY <2>1 DEF ActivePointer, PublishedRuns
      <3> QED BY <3>1 DEF PublishedRows
    <2> QED BY <2>1 DEF ActiveProjection, ActiveRows
  <1> QED
    BY <1>1, <1>3, <1>4, <1>6, <1>7, <1>8, <1>9

(* Every compare-and-set that does not publish is quiet.                   *)
LEMMA CompareAndSetQuiet ==
    ASSUME TypeOK, NEW r \in Runs,
           NEW expected \in SUBSET {"queued", "running", "validated"},
           NEW target \in RunStates \ {"published"}, NEW type \in EventTypes,
           CompareAndSet(r, expected, target, type),
           UNCHANGED <<source, publication, fts>>,
           \A q \in Runs \ {r} : evidence'[q] = evidence[q]
    PROVE  Quiet
  <1>1. expected \in SUBSET RunStates
    BY DEF RunStates
  <1>2. /\ run[r].state \in expected
        /\ run'[r].state = target
        /\ run'[r].source = run[r].source
        /\ run'[r].generation = run[r].generation
        /\ run'[r].base = run[r].base
        /\ \A q \in Runs \ {r} : run'[q] = run[q]
    BY <1>1, CompareAndSetEffect
  <1> QED
    BY <1>2 DEF Quiet, RunStates

(* A new Run takes the next request number of its Source.                  *)
LEMMA CreateRunKeepsIInv ==
    ASSUME IInv, TypeOK', NEW r \in Runs, NEW s \in Sources, NEW retryOf,
           CreateRun(r, s, retryOf)
    PROVE  IInv'
  <1> USE DEF IInv
  <1>1. /\ run[r].state = "absent"
        /\ run'[r] = NewRun(r, s, retryOf)
        /\ \A q \in Runs \ {r} : run'[q] = run[q]
        /\ UNCHANGED <<publication, fts, evidence>>
    BY DEF CreateRun, TypeOK
  <1>2. /\ run'[r].state = "queued"
        /\ run'[r].source = s
        /\ run'[r].generation = source[s].requested + 1
        /\ run'[r].base = source[s].revision
    BY <1>1 DEF NewRun
  <1>3. \A t \in Sources :
           /\ source'[t].active = source[t].active
           /\ source'[t].revision = source[t].revision
           /\ source'[t].requested = IF t = s THEN source[s].requested + 1
                                     ELSE source[t].requested
    <2>1. source' = [source EXCEPT ![s] = [source[s] EXCEPT !.requested = source[s].requested + 1]]
      BY DEF CreateRun
    <2>2. source[s] \in [active : Runs \cup {None}, revision : Nat, requested : Nat]
      BY DEF TypeOK
    <2>3. source'[s] = [source[s] EXCEPT !.requested = source[s].requested + 1]
      BY <2>1 DEF TypeOK
    <2>4. \A t \in Sources \ {s} : source'[t] = source[t]
      BY <2>1 DEF TypeOK
    <2> QED BY <2>2, <2>3, <2>4
  <1>4. publication[r] = 0
    BY <1>1 DEF PublishedRows
  <1>5. PublishedRows'
    BY <1>1, <1>2, <1>4 DEF PublishedRows
  <1>6. RequestsCounted'
    <2>1. Created' = Created \cup {r} /\ r \notin Created
      BY <1>1, <1>2 DEF Created
    <2>2. \A q \in Created : q \in Runs /\ q # r /\ run[q] \in RunRows
      BY <2>1, CreatedRow DEF Created
    <2>3. \A q \in Created :
             /\ run[q].source \in Sources
             /\ run[q].generation \in Nat
             /\ run[q].base \in Nat
      BY <2>2 DEF RunRows
    <2>4. source[s].requested \in Nat /\ source[s].revision \in Nat
      BY DEF TypeOK
    <2>5. \A q \in Created : run[q].source = s => run[q].generation <= source[s].requested
      BY DEF RequestsCounted
    <2>6. \A t \in Sources : source[t].requested \in Nat
      BY DEF TypeOK
    <2>7. ASSUME NEW q \in Created'
          PROVE  /\ run'[q].generation <= source'[run'[q].source].requested
                 /\ run'[q].base <= source'[run'[q].source].revision
      <3>1. CASE q = r
        BY <3>1, <1>2, <1>3, <2>4
      <3>2. CASE q # r
        <4>1. q \in Created /\ run'[q] = run[q]
          BY <3>2, <2>1, <2>2, <1>1
        <4>2. /\ run[q].generation <= source[run[q].source].requested
              /\ run[q].base <= source[run[q].source].revision
          BY <4>1 DEF RequestsCounted
        <4> QED BY <4>1, <4>2, <1>3, <2>3, <2>6
      <3> QED BY <3>1, <3>2
    <2>8. ASSUME NEW p \in Created', NEW q \in Created',
                 run'[p].source = run'[q].source, run'[p].generation = run'[q].generation
          PROVE  p = q
      <3>1. CASE p \in Created /\ q \in Created
        BY <3>1, <2>8, <2>2, <1>1 DEF RequestsCounted
      <3>2. CASE p = r /\ q \in Created
        BY <3>2, <2>8, <2>2, <2>3, <2>4, <2>5, <1>1, <1>2
      <3>3. CASE q = r /\ p \in Created
        BY <3>3, <2>8, <2>2, <2>3, <2>4, <2>5, <1>1, <1>2
      <3> QED BY <3>1, <3>2, <3>3, <2>1
    <2> QED BY <2>7, <2>8 DEF RequestsCounted
  <1>7. \A q \in Runs : publication[q] # 0 => q # r /\ run'[q] = run[q] /\ run[q].source \in Sources
    <2>1. \A q \in Runs : publication[q] # 0 => run[q].state # "absent"
      BY DEF PublishedRows
    <2> QED BY <1>1, <1>4, <2>1, CreatedRow DEF RunRows
  <1>8. RevisionsBounded'
    BY <1>1, <1>3, <1>7 DEF RevisionsBounded
  <1>9. RevisionsGapless'
    <2>1. \A t \in Sources : source[t].revision \in Nat
      BY DEF TypeOK
    <2> QED BY <1>1, <1>3, <1>7, <2>1 DEF RevisionsGapless
  <1>10. RevisionsUnique'
    BY <1>1, <1>7 DEF RevisionsUnique, TypeOK
  <1>11. \A t \in Sources : PublishedRuns(t)' = PublishedRuns(t)
    BY <1>1, <1>4, <1>7 DEF PublishedRuns
  <1>12. ActivePointer'
    BY <1>1, <1>3, <1>11 DEF ActivePointer
  <1>13. BasedOnPredecessor'
    BY <1>1, <1>7 DEF BasedOnPredecessor
  <1>14. LatestRequestWins'
    <2>1. \A t \in Sources : \A q \in PublishedRuns(t) : q \in Runs /\ publication[q] # 0
      BY DEF PublishedRuns
    <2> QED BY <1>1, <1>7, <1>11, <2>1 DEF LatestRequestWins
  <1>15. ActiveProjection'
    BY <1>1, <1>3 DEF ActiveProjection, ActiveRows
  <1> QED
    BY <1>5, <1>6, <1>8, <1>9, <1>10, <1>12, <1>13, <1>14, <1>15

(* Publishing appends one revision that serves the newest request.         *)
LEMMA PublishKeepsIInv ==
    ASSUME IInv, TypeOK', NEW r \in Runs, NEW report, NEW trans,
           Publish(r, report, trans)
    PROVE  IInv'
  <1> USE DEF IInv
  <1>0. PICK s \in Sources : s = run[r].source
    <2>1. run[r].state # "absent"
      BY DEF Publish, NextRevision
    <2> QED BY <2>1, CreatedRow DEF RunRows
  <1> DEFINE next == source[s].revision + 1
  <1>1. /\ run[r] \in RunRows
        /\ run[r].state = "validated"
        /\ run'[r].state = "published"
        /\ run'[r].source = s
        /\ run'[r].generation = run[r].generation
        /\ run'[r].base = run[r].base
        /\ \A q \in Runs \ {r} : run'[q] = run[q]
    BY <1>0, CompareAndSetEffect DEF Publish, NextRevision, RunStates, EventTypes
  <1>2. s \in Sources /\ source[s].revision \in Nat /\ source[s].requested \in Nat
    BY <1>1, <1>0 DEF TypeOK
  <1>3. /\ run[r].generation = source[s].requested
        /\ run[r].base = source[s].revision
    BY <1>0 DEF Publish, NextRevision, Stale
  <1>4. /\ publication' = [publication EXCEPT ![r] = next]
        /\ publication'[r] = next
        /\ \A q \in Runs \ {r} : publication'[q] = publication[q]
        /\ next \in Nat /\ next # 0
    BY <1>0, <1>2 DEF Publish, NextRevision, TypeOK
  <1>5. /\ source'[s].active = r
        /\ source'[s].revision = next
        /\ source'[s].requested = source[s].requested
        /\ \A t \in Sources \ {s} : source'[t] = source[t]
    BY <1>0, <1>2 DEF Publish, NextRevision, TypeOK
  <1>6. publication[r] = 0
    BY <1>1 DEF PublishedRows
  <1>7. r \in Created /\ Created' = Created /\ r # None
    BY <1>1, ConstantsAssumption DEF Created
  <1>8. \A q \in Runs : run'[q].source = run[q].source /\ run'[q].base = run[q].base
                       /\ run'[q].generation = run[q].generation
    BY <1>0, <1>1
  <1>9. \A q \in Runs : publication[q] \in Nat
    BY DEF TypeOK
  <1>10. \A q \in Runs : publication[q] # 0 => q # r /\ q \in Created /\ run[q].source \in Sources
    <2>1. \A q \in Runs : publication[q] # 0 => run[q].state = "published"
      BY DEF PublishedRows
    <2> QED BY <1>6, <2>1, CreatedRow DEF Created, RunRows
  <1>11. PublishedRows'
    BY <1>1, <1>4 DEF PublishedRows
  <1>12. RequestsCounted'
    <2>1. \A q \in Created : q \in Runs /\ run[q].base \in Nat
      BY CreatedRow DEF Created, RunRows
    <2>2. ASSUME NEW q \in Created
          PROVE  /\ run'[q].generation <= source'[run'[q].source].requested
                 /\ run'[q].base <= source'[run'[q].source].revision
      <3>1. run[q].source \in Sources
        BY <2>1, CreatedRow DEF Created, RunRows
      <3>2. CASE run[q].source = s
        BY <3>2, <2>1, <1>2, <1>5, <1>8 DEF RequestsCounted
      <3>3. CASE run[q].source # s
        BY <3>3, <3>1, <2>1, <1>5, <1>8 DEF RequestsCounted
      <3> QED BY <3>2, <3>3
    <2> QED BY <2>1, <2>2, <1>7, <1>8 DEF RequestsCounted
  <1>13. RevisionsBounded'
    <2> SUFFICES ASSUME NEW q \in Runs, publication'[q] # 0
                 PROVE  publication'[q] <= source'[run'[q].source].revision
      BY DEF RevisionsBounded
    <2>1. CASE q = r
      BY <2>1, <1>1, <1>2, <1>4, <1>5
    <2>2. CASE q # r /\ run[q].source = s
      BY <2>2, <1>2, <1>4, <1>5, <1>8, <1>9 DEF RevisionsBounded
    <2>3. CASE q # r /\ run[q].source # s
      BY <2>3, <1>4, <1>5, <1>8, <1>10 DEF RevisionsBounded
    <2> QED BY <2>1, <2>2, <2>3
  <1>14. RevisionsGapless'
    <2> SUFFICES ASSUME NEW t \in Sources, NEW k \in 1..source'[t].revision
                 PROVE  \E q \in Runs : run'[q].source = t /\ publication'[q] = k
      BY DEF RevisionsGapless
    <2>1. CASE t = s /\ k = next
      BY <2>1, <1>1, <1>4
    <2>2. CASE ~(t = s /\ k = next)
      <3>1. k \in 1..source[t].revision
        BY <2>2, <1>2, <1>5
      <3>2. PICK q \in Runs : run[q].source = t /\ publication[q] = k
        BY <3>1 DEF RevisionsGapless
      <3>3. publication[q] # 0
        BY <3>1, <3>2
      <3> QED BY <3>2, <3>3, <1>4, <1>8, <1>10
    <2> QED BY <2>1, <2>2
  <1>15. \A q \in Runs : publication[q] # 0 /\ run[q].source = s => publication[q] < next
    BY <1>2, <1>9 DEF RevisionsBounded
  <1>16. RevisionsUnique'
    <2> SUFFICES ASSUME NEW p \in Runs, NEW q \in Runs, publication'[p] # 0,
                        run'[p].source = run'[q].source, publication'[p] = publication'[q]
                 PROVE  p = q
      BY DEF RevisionsUnique
    <2>1. CASE p = r /\ q # r
      BY <1>0, <2>1, <1>4, <1>8, <1>9, <1>15
    <2>2. CASE q = r /\ p # r
      BY <1>0, <2>2, <1>4, <1>8, <1>9, <1>15
    <2>3. CASE p # r /\ q # r
      BY <2>3, <1>4, <1>8 DEF RevisionsUnique
    <2> QED BY <2>1, <2>2, <2>3
  <1>17. /\ PublishedRuns(s)' = PublishedRuns(s) \cup {r}
         /\ \A t \in Sources \ {s} : PublishedRuns(t)' = PublishedRuns(t)
    BY <1>0, <1>1, <1>4, <1>6 DEF PublishedRuns
  <1>18. ActivePointer'
    <2> SUFFICES ASSUME NEW t \in Sources
                 PROVE  /\ source'[t].active = None <=> source'[t].revision = 0
                        /\ source'[t].active # None =>
                              /\ source'[t].active \in PublishedRuns(t)'
                              /\ publication'[source'[t].active] = source'[t].revision
      BY DEF ActivePointer
    <2>1. CASE t = s
      BY <2>1, <1>4, <1>5, <1>7, <1>17
    <2>2. CASE t # s
      <3>1. /\ source'[t] = source[t]
            /\ PublishedRuns(t)' = PublishedRuns(t)
        BY <2>2, <1>5, <1>17
      <3>2. source[t].active # None =>
               source[t].active \in Runs /\ source[t].active # r
        BY <2>2, <1>6 DEF ActivePointer, PublishedRuns
      <3> QED BY <3>1, <3>2, <1>4 DEF ActivePointer
    <2> QED BY <2>1, <2>2
  <1>19. BasedOnPredecessor'
    BY <1>2, <1>3, <1>4, <1>8 DEF BasedOnPredecessor
  <1>20. LatestRequestWins'
    <2> SUFFICES ASSUME NEW t \in Sources, NEW p \in PublishedRuns(t)', NEW q \in PublishedRuns(t)',
                        publication'[p] < publication'[q]
                 PROVE  run'[p].generation < run'[q].generation
      BY DEF LatestRequestWins
    <2>0. p \in Runs /\ q \in Runs
      BY DEF PublishedRuns
    <2>1. CASE p # r /\ q # r
      BY <2>0, <2>1, <1>4, <1>8, <1>17 DEF LatestRequestWins
    <2>2. CASE q = r /\ p # r
      <3>1. t = s
        BY <2>2, <1>1 DEF PublishedRuns
      <3>2. p \in PublishedRuns(s) /\ publication[p] # 0 /\ run[p].source = s
        BY <2>2, <3>1, <1>17 DEF PublishedRuns
      <3>3. p \in Created /\ run[p].generation \in Nat
        BY <2>0, <3>2, <1>10, CreatedRow DEF Created, RunRows
      <3>4. run[p].generation <= source[s].requested
        BY <3>2, <3>3 DEF RequestsCounted
      <3>5. run[p].generation # run[r].generation
        BY <1>0, <2>2, <3>2, <3>3, <1>7 DEF RequestsCounted
      <3> QED BY <2>2, <3>3, <3>4, <3>5, <2>0, <1>1, <1>2, <1>3, <1>8
    <2>3. CASE p = r
      <3>1. t = s
        BY <2>3, <1>1 DEF PublishedRuns
      <3>2. q # r
        BY <2>3, <1>4
      <3>3. q \in PublishedRuns(s)
        BY <3>1, <3>2, <1>17
      <3> QED BY <2>0, <2>3, <3>2, <3>3, <1>4, <1>9, <1>15 DEF PublishedRuns
    <2> QED BY <2>1, <2>2, <2>3
  <1>21. ActiveProjection'
    <2> SUFFICES ASSUME NEW t \in Sources
                 PROVE  {row \in fts' : row.source = t} =
                           IF source'[t].active = None THEN {}
                           ELSE {[source |-> t, publication |-> source'[t].active, item |-> i] :
                                   i \in evidence'[source'[t].active]}
      BY DEF ActiveProjection, ActiveRows
    <2>0. /\ fts' = {row \in fts : row.source # s} \cup ActiveRows(s, r)
          /\ evidence' = evidence
      BY <1>0 DEF Publish, NextRevision, ReplaceFts
    <2>1. \A row \in ActiveRows(s, r) : row.source = s
      BY DEF ActiveRows
    <2>2. CASE t = s
      <3>1. {row \in fts' : row.source = s} = ActiveRows(s, r)
        BY <2>0, <2>1
      <3> QED BY <2>0, <2>2, <3>1, <1>5, <1>7 DEF ActiveRows
    <2>3. CASE t # s
      <3>1. {row \in fts' : row.source = t} = {row \in fts : row.source = t}
        BY <2>0, <2>1, <2>3
      <3>2. source'[t] = source[t]
        BY <2>3, <1>5
      <3> QED BY <3>1, <3>2, <2>0 DEF ActiveProjection, ActiveRows
    <2> QED BY <2>2, <2>3
  <1> QED
    BY <1>11, <1>12, <1>13, <1>14, <1>16, <1>18, <1>19, <1>20, <1>21

LEMMA IInvInit == Init => IInv
  <1> SUFFICES ASSUME Init PROVE IInv
    OBVIOUS
  <1> USE DEF Init
  <1>1. TypeOK
    BY ConstantsAssumption DEF TypeOK, Absent
  <1>2. Created = {} /\ \A s \in Sources : PublishedRuns(s) = {}
    BY DEF Created, Absent, PublishedRuns
  <1>3. PublishedRows
    BY DEF PublishedRows, Absent
  <1>4. RequestsCounted /\ RevisionsBounded /\ RevisionsUnique
    BY <1>2 DEF RequestsCounted, RevisionsBounded, RevisionsUnique
  <1>5. RevisionsGapless
    BY DEF RevisionsGapless
  <1>6. ActivePointer /\ BasedOnPredecessor /\ LatestRequestWins /\ ActiveProjection
    BY <1>2 DEF ActivePointer, BasedOnPredecessor, LatestRequestWins, ActiveProjection
  <1> QED BY <1>1, <1>3, <1>4, <1>5, <1>6 DEF IInv

(* A step creates a Run, publishes one, or is quiet.                        *)
LEMMA StepKinds ==
    ASSUME TypeOK, [Next]_vars
    PROVE  \/ \E r \in Runs, s \in Sources, q \in Runs \cup {None} : CreateRun(r, s, q)
           \/ \E r \in Runs, report \in PdfReports \cup {None},
                trans \in TranscriptReports \cup {None} : Publish(r, report, trans)
           \/ Quiet
  <1>1. ASSUME NEW r \in Runs, MarkRunRunning(r) PROVE Quiet
    BY <1>1, CompareAndSetQuiet DEF MarkRunRunning, RunStates, EventTypes
  <1>2. ASSUME NEW r \in Runs, MarkRunFailed(r) PROVE Quiet
    BY <1>2, CompareAndSetQuiet DEF MarkRunFailed, RunStates, EventTypes
  <1>3. ASSUME NEW r \in Runs, MarkValidatedRunFailed(r) PROVE Quiet
    BY <1>3, CompareAndSetQuiet DEF MarkValidatedRunFailed, RunStates, EventTypes
  <1>4. ASSUME InterruptUnfinishedRuns PROVE Quiet
    <2>1. UNCHANGED <<source, publication, fts, evidence>>
      BY <1>4 DEF InterruptUnfinishedRuns
    <2> QED BY <1>4, <2>1, InterruptEffect DEF Quiet
  <1>5. ASSUME NEW r \in Created, NEW items \in Candidates,
               NEW fingerprint \in Fingerprints, NEW asset \in ProcessedAssets(r),
               PersistValidatedCandidate(r, items, fingerprint, asset)
        PROVE  Quiet
    <2>1. r \in Runs
      BY DEF Created
    <2>2. \A q \in Runs \ {r} : evidence'[q] = evidence[q]
      BY <1>5 DEF PersistValidatedCandidate, TypeOK
    <2> QED BY <1>5, <2>1, <2>2, CompareAndSetQuiet
               DEF PersistValidatedCandidate, RunStates, EventTypes
  <1>6. ASSUME NEW r \in Runs, NEW report \in PdfReports, PersistPdfIntakeReport(r, report)
        PROVE  Quiet
    BY <1>6 DEF PersistPdfIntakeReport, Quiet
  <1>7. ASSUME NEW r \in Created, Supersede(r) PROVE Quiet
    BY <1>7, CompareAndSetQuiet DEF Supersede, RunStates, EventTypes, Created
  <1>8. CASE UNCHANGED vars
    BY <1>8 DEF Quiet, vars
  <1> QED
    BY <1>1, <1>2, <1>3, <1>4, <1>5, <1>6, <1>7, <1>8 DEF Next, ActivatePublication, Created

LEMMA IInvStep == IInv /\ [Next]_vars => IInv'
  <1> SUFFICES ASSUME IInv, [Next]_vars PROVE IInv'
    OBVIOUS
  <1>1. TypeOK /\ TypeOK'
    BY TypeStep DEF IInv
  <1> QED
    BY <1>1, StepKinds, CreateRunKeepsIInv, PublishKeepsIInv, QuietKeepsIInv

LEMMA IInvAlways == Spec => []IInv
  BY IInvInit, IInvStep, PTL DEF Spec

(* The active FTS projection is the active Publication's Evidence, for any  *)
(* number of Sources, Runs and pages.                                       *)
THEOREM ProjectionIsActiveEvidence == Spec => []ActiveProjection
  <1>1. IInv => ActiveProjection
    BY DEF IInv
  <1> QED BY <1>1, IInvAlways, PTL

(* The Publications of a Source are a gapless history that ends in the      *)
(* active pointer.                                                          *)
THEOREM HistoryIsGapless == Spec => []PublicationHistory
  <1>1. IInv => PublicationHistory
    <2> SUFFICES ASSUME IInv, NEW s \in Sources
                 PROVE  /\ {publication[r] : r \in PublishedRuns(s)} = 1..source[s].revision
                        /\ \A p, q \in PublishedRuns(s) : publication[p] = publication[q] => p = q
                        /\ source[s].active # None =>
                              /\ source[s].active \in PublishedRuns(s)
                              /\ publication[source[s].active] = source[s].revision
                        /\ source[s].active = None <=> source[s].revision = 0
      BY DEF PublicationHistory
    <2>1. source[s].revision \in Nat /\ \A r \in Runs : publication[r] \in Nat
      BY DEF IInv, TypeOK
    <2>2. \A r \in PublishedRuns(s) : publication[r] \in 1..source[s].revision
      BY <2>1 DEF IInv, PublishedRuns, RevisionsBounded
    <2>3. \A k \in 1..source[s].revision : \E r \in PublishedRuns(s) : publication[r] = k
      BY <2>1 DEF IInv, PublishedRuns, RevisionsGapless
    <2>4. \A p, q \in PublishedRuns(s) : publication[p] = publication[q] => p = q
      BY DEF IInv, PublishedRuns, RevisionsUnique
    <2> QED BY <2>2, <2>3, <2>4 DEF IInv, ActivePointer
  <1> QED BY <1>1, IInvAlways, PTL

(* No order of activations lets an older request overwrite a newer one.     *)
THEOREM NewestRequestWins == Spec => []LatestRequestWins
  <1>1. IInv => LatestRequestWins
    BY DEF IInv
  <1> QED BY <1>1, IInvAlways, PTL

(* A Publication replaces exactly the revision its Run was created on.      *)
THEOREM NoLostUpdate == Spec => []BasedOnPredecessor
  <1>1. IInv => BasedOnPredecessor
    BY DEF IInv
  <1> QED BY <1>1, IInvAlways, PTL

=============================================================================
