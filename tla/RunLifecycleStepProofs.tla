----------------------- MODULE RunLifecycleStepProofs -----------------------
(***************************************************************************)
(* What a step of the store may never do, that the store implements        *)
(* ActivePublication, and that reports and provenance back what is         *)
(* published, and that a revision names one answer.  Rests on the          *)
(* invariant of RunLifecycleProofs.                                        *)
(***************************************************************************)
EXTENDS RunLifecycleProofs, SequenceTheorems

-----------------------------------------------------------------------------
(* Run events.                                                             *)

(* What appending one event to a log of one, two or three events yields.    *)
LEMMA AppendToOne ==
    ASSUME NEW S, NEW a \in S, NEW b \in S
    PROVE  Append(<<a>>, b) = <<a, b>>
  <1>1. <<a>> \in Seq(S) /\ Len(<<a>>) = 1 /\ <<a>>[1] = a
    OBVIOUS
  <1>2. <<a, b>> \in Seq(S) /\ Len(<<a, b>>) = 2 /\ <<a, b>>[1] = a /\ <<a, b>>[2] = b
    OBVIOUS
  <1>3. /\ Append(<<a>>, b) \in Seq(S) /\ Len(Append(<<a>>, b)) = 2
        /\ Append(<<a>>, b)[1] = a /\ Append(<<a>>, b)[2] = b
    BY <1>1
  <1>4. \A i \in 1..2 : Append(<<a>>, b)[i] = <<a, b>>[i]
    BY <1>2, <1>3
  <1> QED BY <1>2, <1>3, <1>4, SeqEqual

LEMMA AppendToTwo ==
    ASSUME NEW S, NEW a \in S, NEW b \in S, NEW c \in S
    PROVE  Append(<<a, b>>, c) = <<a, b, c>>
  <1>1. /\ <<a, b>> \in Seq(S) /\ Len(<<a, b>>) = 2
        /\ <<a, b>>[1] = a /\ <<a, b>>[2] = b
    OBVIOUS
  <1>2. /\ <<a, b, c>> \in Seq(S) /\ Len(<<a, b, c>>) = 3
        /\ <<a, b, c>>[1] = a /\ <<a, b, c>>[2] = b /\ <<a, b, c>>[3] = c
    OBVIOUS
  <1>3. /\ Append(<<a, b>>, c) \in Seq(S) /\ Len(Append(<<a, b>>, c)) = 3
        /\ Append(<<a, b>>, c)[1] = a /\ Append(<<a, b>>, c)[2] = b
        /\ Append(<<a, b>>, c)[3] = c
    BY <1>1
  <1>4. \A i \in 1..3 : Append(<<a, b>>, c)[i] = <<a, b, c>>[i]
    BY <1>2, <1>3
  <1> QED BY <1>2, <1>3, <1>4, SeqEqual

LEMMA AppendToThree ==
    ASSUME NEW S, NEW a \in S, NEW b \in S, NEW c \in S, NEW d \in S
    PROVE  Append(<<a, b, c>>, d) = <<a, b, c, d>>
  <1>1. /\ <<a, b, c>> \in Seq(S) /\ Len(<<a, b, c>>) = 3
        /\ <<a, b, c>>[1] = a /\ <<a, b, c>>[2] = b /\ <<a, b, c>>[3] = c
    OBVIOUS
  <1>2. /\ <<a, b, c, d>> \in Seq(S) /\ Len(<<a, b, c, d>>) = 4
        /\ <<a, b, c, d>>[1] = a /\ <<a, b, c, d>>[2] = b
        /\ <<a, b, c, d>>[3] = c /\ <<a, b, c, d>>[4] = d
    OBVIOUS
  <1>3. /\ Append(<<a, b, c>>, d) \in Seq(S) /\ Len(Append(<<a, b, c>>, d)) = 4
        /\ Append(<<a, b, c>>, d)[1] = a /\ Append(<<a, b, c>>, d)[2] = b
        /\ Append(<<a, b, c>>, d)[3] = c /\ Append(<<a, b, c>>, d)[4] = d
    BY <1>1
  <1>4. \A i \in 1..4 : Append(<<a, b, c>>, d)[i] = <<a, b, c, d>>[i]
    BY <1>2, <1>3
  <1> QED BY <1>2, <1>3, <1>4, SeqEqual

LEMMA EventsStep ==
    TypeOK /\ EventsExplainState /\ [Next]_vars => EventsExplainState'
  <1> SUFFICES ASSUME TypeOK, EventsExplainState, [Next]_vars PROVE EventsExplainState'
    OBVIOUS
  <1> DEFINE Explained(q) == <<run'[q].state, events'[q]>> \in LawfulLogs
  <1>a. ASSUME NEW r \in Runs, NEW expected \in SUBSET RunStates,
               NEW target \in RunStates, NEW type \in EventTypes,
               CompareAndSet(r, expected, target, type),
               <<target, Append(events[r], type)>> \in LawfulLogs
        PROVE  \A q \in Runs : Explained(q)
    <2>1. /\ run'[r].state = target
          /\ events'[r] = Append(events[r], type)
          /\ \A q \in Runs \ {r} : run'[q] = run[q] /\ events'[q] = events[q]
      BY <1>a, CompareAndSetEffect
    <2> QED BY <1>a, <2>1 DEF EventsExplainState
  <1>b. \A r \in Runs :
           /\ run[r].state = "queued" => events[r] = <<"run_created">>
           /\ run[r].state = "running" => events[r] = <<"run_created", "run_started">>
           /\ run[r].state = "validated" =>
                 events[r] = <<"run_created", "run_started", "candidate_validated">>
           /\ run[r].state = "absent" => events[r] = << >>
    BY DEF EventsExplainState, LawfulLogs
  <1>c. \A x \in EventTypes :
           /\ Append(<<"run_created">>, x) = <<"run_created", x>>
           /\ Append(<<"run_created", "run_started">>, x) = <<"run_created", "run_started", x>>
           /\ Append(<<"run_created", "run_started", "candidate_validated">>, x) =
                 <<"run_created", "run_started", "candidate_validated", x>>
    <2>1. {"run_created", "run_started", "candidate_validated"} \subseteq EventTypes
      BY DEF EventTypes
    <2> QED BY <2>1, AppendToOne, AppendToTwo, AppendToThree
  <1>d. \A r \in Runs, x \in EventTypes :
           /\ run[r].state = "queued" => Append(events[r], x) = <<"run_created", x>>
           /\ run[r].state = "running" =>
                 Append(events[r], x) = <<"run_created", "run_started", x>>
           /\ run[r].state = "validated" =>
                 Append(events[r], x) =
                    <<"run_created", "run_started", "candidate_validated", x>>
    BY <1>b, <1>c
  <1> USE DEF EventTypes
  <1>1. ASSUME NEW r \in Runs, NEW s \in Sources, NEW retryOf, CreateRun(r, s, retryOf)
        PROVE  \A q \in Runs : Explained(q)
    <2>1. /\ run[r].state = "absent"
          /\ run'[r] = NewRun(r, s, retryOf)
          /\ events'[r] = Append(events[r], "run_created")
          /\ \A q \in Runs \ {r} : run'[q] = run[q] /\ events'[q] = events[q]
      BY <1>1 DEF CreateRun, TypeOK, AppendEvent
    <2>2. run'[r].state = "queued"
      BY <2>1 DEF NewRun
    <2>3. events'[r] = <<"run_created">>
      <3>1. events[r] = << >> /\ << >> \in Seq(EventTypes)
        BY <2>1, <1>b
      <3>2. Append(<< >>, "run_created") = <<"run_created">>
        OBVIOUS
      <3> QED BY <2>1, <3>1, <3>2
    <2> QED BY <2>1, <2>2, <2>3 DEF EventsExplainState, LawfulLogs
  <1>2. ASSUME NEW r \in Runs, MarkRunRunning(r) PROVE \A q \in Runs : Explained(q)
    <2>1. run[r].state = "queued"
      BY <1>2 DEF MarkRunRunning, CompareAndSet
    <2>2. <<"running", Append(events[r], "run_started")>> \in LawfulLogs
      BY <2>1, <1>d DEF LawfulLogs
    <2> QED BY <1>2, <2>2, <1>a DEF MarkRunRunning, RunStates, EventTypes
  <1>3. ASSUME NEW r \in Runs, MarkRunFailed(r) PROVE \A q \in Runs : Explained(q)
    <2>1. run[r].state \in {"queued", "running"}
      BY <1>3 DEF MarkRunFailed, CompareAndSet
    <2>2. <<"failed", Append(events[r], "run_failed")>> \in LawfulLogs
      BY <2>1, <1>d DEF LawfulLogs
    <2> QED BY <1>3, <2>2, <1>a DEF MarkRunFailed, RunStates, EventTypes
  <1>4. ASSUME NEW r \in Runs, MarkValidatedRunFailed(r) PROVE \A q \in Runs : Explained(q)
    <2>1. run[r].state = "validated"
      BY <1>4 DEF MarkValidatedRunFailed, CompareAndSet
    <2>2. <<"failed", Append(events[r], "run_failed")>> \in LawfulLogs
      BY <2>1, <1>d DEF LawfulLogs
    <2> QED BY <1>4, <2>2, <1>a DEF MarkValidatedRunFailed, RunStates, EventTypes
  <1>5. ASSUME InterruptUnfinishedRuns PROVE \A q \in Runs : Explained(q)
    <2> SUFFICES ASSUME NEW q \in Runs PROVE Explained(q)
      OBVIOUS
    <2>1. CASE run[q].state \in {"queued", "running"}
      <3>1. run'[q].state = "interrupted" /\ events'[q] = Append(events[q], "run_interrupted")
        BY <1>5, <2>1, InterruptEffect
      <3>2. <<"interrupted", Append(events[q], "run_interrupted")>> \in LawfulLogs
        BY <2>1, <1>d DEF LawfulLogs
      <3> QED BY <3>1, <3>2
    <2>2. CASE run[q].state \notin {"queued", "running"}
      <3>1. run'[q] = run[q] /\ events'[q] = events[q]
        BY <1>5, <2>2, InterruptEffect
      <3> QED BY <3>1 DEF EventsExplainState
    <2> QED BY <2>1, <2>2
  <1>6. ASSUME NEW r \in Created, NEW items, NEW fingerprint, NEW asset,
               PersistValidatedCandidate(r, items, fingerprint, asset)
        PROVE  \A q \in Runs : Explained(q)
    <2>1. r \in Runs /\ run[r].state = "running"
      BY <1>6 DEF PersistValidatedCandidate, CompareAndSet, Created
    <2>2. <<"validated", Append(events[r], "candidate_validated")>> \in LawfulLogs
      BY <2>1, <1>d DEF LawfulLogs
    <2> QED BY <1>6, <2>1, <2>2, <1>a DEF PersistValidatedCandidate, RunStates, EventTypes
  <1>7. ASSUME NEW r \in Runs, NEW report, PersistPdfIntakeReport(r, report)
        PROVE  \A q \in Runs : Explained(q)
    BY <1>7 DEF PersistPdfIntakeReport, EventsExplainState
  <1>8. ASSUME NEW r \in Created, Supersede(r) PROVE \A q \in Runs : Explained(q)
    <2>1. r \in Runs /\ run[r].state = "validated"
      BY <1>8 DEF Supersede, Created
    <2>2. <<"superseded", Append(events[r], "run_superseded")>> \in LawfulLogs
      BY <2>1, <1>d DEF LawfulLogs
    <2> QED BY <1>8, <2>1, <2>2, <1>a DEF Supersede, RunStates, EventTypes
  <1>9. ASSUME NEW r \in Created, NEW report, NEW trans, Publish(r, report, trans)
        PROVE  \A q \in Runs : Explained(q)
    <2>1. r \in Runs /\ run[r].state = "validated"
      BY <1>9 DEF Publish, NextRevision, Created
    <2>2. <<"published", Append(events[r], "publication_activated")>> \in LawfulLogs
      BY <2>1, <1>d DEF LawfulLogs
    <2> QED BY <1>9, <2>1, <2>2, <1>a DEF Publish, NextRevision, RunStates, EventTypes
  <1>10. CASE UNCHANGED vars
    BY <1>10 DEF vars, EventsExplainState
  <1>11. EventsExplainState' <=> \A q \in Runs : Explained(q)
    BY DEF EventsExplainState
  <1> QED
    BY <1>1, <1>2, <1>3, <1>4, <1>5, <1>6, <1>7, <1>8, <1>9, <1>10, <1>11
       DEF Next, ActivatePublication

(* The event log of every Run spells out a lawful path to its state.        *)
THEOREM EventsTellTheTruth == Spec => []EventsExplainState
  <1>1. Init => EventsExplainState
    BY DEF Init, EventsExplainState, Absent, LawfulLogs
  <1> QED
    BY <1>1, EventsStep, TypeCorrect, PTL DEF Spec

-----------------------------------------------------------------------------
(* What a step may never do.                                               *)

\* The steps in which a Run changes its state, and from which state.
LEMMA StateChange ==
    ASSUME TypeOK, NEW r \in Runs, NEW q \in Runs,
           NEW expected \in SUBSET {"queued", "running", "validated"},
           NEW target \in RunStates, NEW type \in EventTypes,
           CompareAndSet(r, expected, target, type),
           run[q].state \in {"published", "failed", "superseded", "interrupted"}
    PROVE  run'[q] = run[q]
  <1>1. expected \in SUBSET RunStates
    BY DEF RunStates
  <1>2. run[r].state \in expected /\ \A p \in Runs \ {r} : run'[p] = run[p]
    BY <1>1, CompareAndSetEffect
  <1> QED BY <1>2

LEMMA CandidateKeptStep ==
    ASSUME TypeOK, [Next]_vars, NEW q \in Runs
    PROVE  CandidateKept(q)
  <1>1. ASSUME NEW r \in Created, NEW items, NEW fingerprint, NEW asset,
               PersistValidatedCandidate(r, items, fingerprint, asset)
        PROVE  CandidateKept(q)
    <2>1. r \in Runs /\ run[r].state = "running"
      BY <1>1 DEF PersistValidatedCandidate, CompareAndSet, Created
    <2>2. q # r => evidence'[q] = evidence[q] /\ manifest'[q] = manifest[q]
      BY <1>1, <2>1 DEF PersistValidatedCandidate, TypeOK
    <2> QED BY <2>1, <2>2 DEF CandidateKept
  <1>2. CASE UNCHANGED <<evidence, manifest>>
    BY <1>2 DEF CandidateKept
  <1> QED
    BY <1>1, <1>2 DEF Next, vars, CreateRun, MarkRunRunning, MarkRunFailed,
       MarkValidatedRunFailed, InterruptUnfinishedRuns, PersistPdfIntakeReport,
       ActivatePublication, Supersede, Publish

(* Candidate Evidence and RunManifest are written once.                     *)
THEOREM CandidatesAreImmutable == Spec => CandidateFrozen
  <1>1. TypeOK /\ [Next]_vars => [\A r \in Runs : CandidateKept(r)]_vars
    BY CandidateKeptStep
  <1> QED BY <1>1, TypeCorrect, PTL DEF Spec, CandidateFrozen

LEMMA NotResurrectedStep ==
    ASSUME TypeOK, [Next]_vars, NEW q \in Created
    PROVE  NotResurrected(q)
  <1> DEFINE Settled == {"published", "failed", "superseded", "interrupted"}
             Kept == /\ run[q].state \in Settled => run'[q] = run[q]
                     /\ Stale(q) => publication'[q] = publication[q]
  <1>0. q \in Runs /\ run[q].state # "absent"
    BY DEF Created
  <1>1. ASSUME NEW r \in Runs, NEW s \in Sources, NEW retryOf, CreateRun(r, s, retryOf)
        PROVE  Kept
    BY <1>0, <1>1 DEF CreateRun, TypeOK
  <1>2. ASSUME NEW r \in Runs, MarkRunRunning(r) PROVE Kept
    BY <1>0, <1>2, StateChange DEF MarkRunRunning, RunStates, EventTypes
  <1>3. ASSUME NEW r \in Runs, MarkRunFailed(r) PROVE Kept
    BY <1>0, <1>3, StateChange DEF MarkRunFailed, RunStates, EventTypes
  <1>4. ASSUME NEW r \in Runs, MarkValidatedRunFailed(r) PROVE Kept
    BY <1>0, <1>4, StateChange DEF MarkValidatedRunFailed, RunStates, EventTypes
  <1>5. ASSUME InterruptUnfinishedRuns PROVE Kept
    <2>1. publication' = publication
      BY <1>5 DEF InterruptUnfinishedRuns
    <2> QED BY <1>0, <1>5, <2>1, InterruptEffect
  <1>6. ASSUME NEW r \in Created, NEW items, NEW fingerprint, NEW asset,
               PersistValidatedCandidate(r, items, fingerprint, asset)
        PROVE  Kept
    BY <1>0, <1>6, StateChange DEF PersistValidatedCandidate, RunStates, EventTypes, Created
  <1>7. ASSUME NEW r \in Runs, NEW report, PersistPdfIntakeReport(r, report)
        PROVE  Kept
    BY <1>7 DEF PersistPdfIntakeReport
  <1>8. ASSUME NEW r \in Created, Supersede(r) PROVE Kept
    BY <1>0, <1>8, StateChange DEF Supersede, RunStates, EventTypes, Created
  <1>9. ASSUME NEW r \in Created, NEW report, NEW trans, Publish(r, report, trans)
        PROVE  Kept
    <2>1. r \in Runs /\ ~Stale(r)
      BY <1>9 DEF Publish, NextRevision, Created
    <2>2. run[q].state \in Settled => run'[q] = run[q]
      BY <1>0, <1>9, <2>1, StateChange DEF Publish, NextRevision, RunStates, EventTypes
    <2>3. q # r => publication'[q] = publication[q]
      BY <1>0, <1>9, <2>1 DEF Publish, NextRevision, TypeOK
    <2> QED BY <2>1, <2>2, <2>3
  <1>10. CASE UNCHANGED vars
    BY <1>10 DEF vars, NotResurrected
  <1>11. Kept => NotResurrected(q)
    BY DEF NotResurrected
  <1> HIDE DEF Kept
  <1> QED
    BY <1>1, <1>2, <1>3, <1>4, <1>5, <1>6, <1>7, <1>8, <1>9, <1>10, <1>11
       DEF Next, ActivatePublication

(* A settled or stale Run is never revived by a late write.                 *)
THEOREM SettledRunsStaySettled == Spec => NoResurrection
  <1>1. TypeOK /\ [Next]_vars => [\A r \in Created : NotResurrected(r)]_vars
    BY NotResurrectedStep
  <1> QED BY <1>1, TypeCorrect, PTL DEF Spec, NoResurrection

-----------------------------------------------------------------------------
(* The store implements ActivePublication.                                 *)

(* What Search sees of a Source is its active Publication's Evidence.       *)
LEMMA VisibleIsActive ==
    ASSUME IInv, NEW s \in Sources
    PROVE  VisibleRows(s) = IF source[s].active = None THEN {}
                            ELSE ActiveRows(s, source[s].active)
  <1>1. {row \in fts : row.source = s} =
           IF source[s].active = None THEN {} ELSE ActiveRows(s, source[s].active)
    BY DEF IInv, ActiveProjection
  <1>2. VisibleRows(s) = {row \in {row \in fts : row.source = s} :
                             row.publication = source[s].active}
    BY DEF VisibleRows
  <1>3. \A row \in ActiveRows(s, source[s].active) : row.publication = source[s].active
    BY DEF ActiveRows
  <1> QED BY <1>1, <1>2, <1>3

LEMMA PromiseInit == Init => Promise!Init
  BY DEF Init, Promise!Init, VisibleRows, Served

(* A step that publishes nothing is a stutter of the promise.               *)
LEMMA QuietStutters ==
    ASSUME IInv, Quiet
    PROVE  UNCHANGED Promise!vars
  <1>1. \A s \in Sources : VisibleRows(s)' = VisibleRows(s)
    BY DEF VisibleRows, Quiet
  <1>2. \A s \in Sources : source[s].active # None => source[s].active \in Runs
    BY DEF IInv, ActivePointer, PublishedRuns
  <1>3. \A s \in Sources : Served(s)' = Served(s)
    BY <1>2 DEF Served, Quiet
  <1> QED BY <1>1, <1>3 DEF Promise!vars, Quiet

LEMMA CreateRunRequests ==
    ASSUME IInv, NEW r \in Runs, NEW s \in Sources, NEW retryOf,
           CreateRun(r, s, retryOf)
    PROVE  Promise!Request(s)
  <1>1. source' = [source EXCEPT ![s] = [source[s] EXCEPT !.requested = source[s].requested + 1]]
    BY DEF CreateRun
  <1>2. /\ source[s] \in [active : Runs \cup {None}, revision : Nat, requested : Nat]
        /\ source'[s] = [source[s] EXCEPT !.requested = source[s].requested + 1]
        /\ \A t \in Sources \ {s} : source'[t] = source[t]
    BY <1>1 DEF IInv, TypeOK
  <1>3. \A t \in Sources : /\ source'[t].active = source[t].active
                           /\ source'[t].revision = source[t].revision
    BY <1>2
  <1>4. [t \in Sources |-> source'[t].requested] =
           [[t \in Sources |-> source[t].requested] EXCEPT ![s] = source[s].requested + 1]
    BY <1>2
  <1>5. \A t \in Sources : VisibleRows(t)' = VisibleRows(t)
    BY <1>3 DEF VisibleRows, CreateRun
  <1>6. \A q \in Runs \ {r} : run'[q] = run[q]
    BY DEF CreateRun, IInv, TypeOK
  <1>7. \A t \in Sources : source[t].active # None =>
           source[t].active \in Runs /\ source[t].active # r
    BY DEF IInv, ActivePointer, PublishedRuns, PublishedRows, CreateRun
  <1>8. \A t \in Sources : Served(t)' = Served(t)
    BY <1>3, <1>6, <1>7 DEF Served
  <1> QED BY <1>3, <1>4, <1>5, <1>8 DEF Promise!Request

LEMMA PublishSwitches ==
    ASSUME IInv, IInv', NEW r \in Runs, NEW s \in Sources, s = run[r].source,
           NEW items \in SUBSET Items, items = evidence[r],
           NEW report, NEW trans, Publish(r, report, trans)
    PROVE  Promise!Switch(s, r, items)
  <1>1. /\ run[r] \in RunRows
        /\ run[r].state = "validated"
        /\ run'[r].generation = run[r].generation
        /\ \A q \in Runs \ {r} : run'[q] = run[q]
    BY CompareAndSetEffect DEF Publish, NextRevision, RunStates, EventTypes, IInv
  <1>2. /\ source' = [source EXCEPT ![s] = [active |-> r, revision |-> source[s].revision + 1,
                                          requested |-> source[s].requested]]
        /\ run[r].generation = source[s].requested
        /\ evidence' = evidence
    BY DEF Publish, NextRevision, Stale
  <1>3. /\ source'[s] = [active |-> r, revision |-> source[s].revision + 1,
                         requested |-> source[s].requested]
        /\ \A t \in Sources \ {s} : source'[t] = source[t]
    BY <1>2 DEF IInv, TypeOK
  <1>4. r # None
    BY ConstantsAssumption
  <1>5. VisibleRows(s)' = {[source |-> s, publication |-> r, item |-> i] : i \in evidence[r]}
    <2>1. VisibleRows(s)' = (IF source[s].active = None THEN {}
                             ELSE ActiveRows(s, source[s].active))'
      <3>1. {row \in fts' : row.source = s} =
               IF source'[s].active = None THEN {}
               ELSE {[source |-> s, publication |-> source'[s].active, item |-> i] :
                       i \in evidence'[source'[s].active]}
        BY DEF IInv, ActiveProjection, ActiveRows
      <3>2. VisibleRows(s)' = {row \in {row \in fts' : row.source = s} :
                                 row.publication = source'[s].active}
        BY DEF VisibleRows
      <3> QED BY <3>1, <3>2 DEF ActiveRows
    <2> QED BY <2>1, <1>2, <1>3, <1>4 DEF ActiveRows
  <1>6. \A t \in Sources \ {s} : VisibleRows(t)' = VisibleRows(t)
    <2>1. fts' = {row \in fts : row.source # s} \cup ActiveRows(s, r)
      BY DEF Publish, NextRevision, ReplaceFts
    <2>2. \A row \in ActiveRows(s, r) : row.source = s
      BY DEF ActiveRows
    <2> QED BY <2>1, <2>2, <1>3 DEF VisibleRows
  <1>7. [t \in Sources |-> VisibleRows(t)'] =
           [[t \in Sources |-> VisibleRows(t)] EXCEPT ![s] = Promise!Candidate(s, r, items)]
    <2>1. VisibleRows(s)' = Promise!Candidate(s, r, items)
      BY <1>5 DEF Promise!Candidate
    <2> QED BY <2>1, <1>6
  <1>8. [t \in Sources |-> source'[t].revision] =
           [[t \in Sources |-> source[t].revision] EXCEPT ![s] = source[s].revision + 1]
    <2>1. source'[s].revision = source[s].revision + 1
      BY <1>3
    <2> QED BY <2>1, <1>3
  <1>9. \A t \in Sources : source'[t].requested = source[t].requested
    BY <1>3
  <1>10. Served(s)' = source[s].requested
    BY <1>1, <1>2, <1>3, <1>4 DEF Served
  <1>11. \A t \in Sources \ {s} : Served(t)' = Served(t)
    <2>1. \A t \in Sources \ {s} : source[t].active # None =>
             source[t].active \in Runs /\ source[t].active # r
      BY <1>1 DEF IInv, ActivePointer, PublishedRuns, PublishedRows
    <2> QED BY <2>1, <1>1, <1>3 DEF Served
  <1>12. [t \in Sources |-> Served(t)'] =
            [[t \in Sources |-> Served(t)] EXCEPT ![s] = source[s].requested]
    BY <1>10, <1>11
  <1>13. Served(s) < source[s].requested
    <2>1. source[s].requested \in Nat
      BY DEF IInv, TypeOK
    <2>2. CASE source[s].active = None
      <3>1. run[r].generation \in Nat \ {0}
        BY <1>1 DEF RunRows
      <3> QED BY <2>1, <2>2, <3>1, <1>2 DEF Served
    <2>3. CASE source[s].active # None
      <3> DEFINE a == source[s].active
      <3>1. a \in Runs /\ run[a].source = s /\ run[a].state = "published"
        BY <2>3 DEF IInv, ActivePointer, PublishedRuns, PublishedRows
      <3>2. a \in Created /\ r \in Created /\ a # r
        BY <3>1, <1>1 DEF Created
      <3>3. run[a].generation \in Nat
        BY <3>1, CreatedRow DEF IInv, RunRows
      <3>4. run[a].generation <= source[s].requested
        BY <3>1, <3>2 DEF IInv, RequestsCounted
      <3>5. run[a].generation # source[s].requested
        BY <3>1, <3>2, <1>2 DEF IInv, RequestsCounted
      <3> QED BY <2>1, <2>3, <3>3, <3>4, <3>5 DEF Served
    <2> QED BY <2>2, <2>3
  <1> QED
    BY <1>7, <1>8, <1>9, <1>12, <1>13 DEF Promise!Switch

(* The store implements its promise to Search: every step of the store is a *)
(* request, an atomic switch to the newest request's Evidence, or invisible. *)
THEOREM StoreKeepsPromise == Spec => ImplementsPromise
  <1>1. IInv /\ IInv' /\ [Next]_vars => [Promise!Next]_(Promise!vars)
    <2> SUFFICES ASSUME IInv, IInv', [Next]_vars PROVE [Promise!Next]_(Promise!vars)
      OBVIOUS
    <2>1. ASSUME NEW r \in Runs, NEW s \in Sources, NEW q, CreateRun(r, s, q)
          PROVE  Promise!Next
      <3>1. Promise!Request(s)
        BY <2>1, CreateRunRequests
      <3> QED BY <3>1 DEF Promise!Next
    <2>2. ASSUME NEW r \in Runs, NEW report, NEW trans, Publish(r, report, trans)
          PROVE  Promise!Next
      <3>0. run[r].state # "absent"
        BY <2>2 DEF Publish, NextRevision
      <3>1. PICK s \in Sources : s = run[r].source
        BY <3>0, CreatedRow DEF IInv, RunRows
      <3>2. PICK items \in SUBSET Items : items = evidence[r]
        BY DEF IInv, TypeOK
      <3>3. Promise!Switch(s, r, items)
        BY <2>2, <3>1, <3>2, PublishSwitches
      <3> QED BY <3>1, <3>2, <3>3 DEF Promise!Next
    <2>3. CASE Quiet
      BY <2>3, QuietStutters
    <2>4. TypeOK
      BY DEF IInv
    <2> QED BY <2>1, <2>2, <2>3, <2>4, StepKinds
  <1> QED
    BY <1>1, PromiseInit, IInvAlways, PTL DEF Spec, ImplementsPromise, Promise!Spec


-----------------------------------------------------------------------------
(* Intake reports.                                                         *)

LEMMA ObservationKeptStep ==
    ASSUME TypeOK, [Next]_vars, NEW q \in Runs
    PROVE  ObservationKept(q)
  <1>1. ASSUME NEW r \in Runs, NEW report, PersistPdfIntakeReport(r, report)
        PROVE  ObservationKept(q)
    BY <1>1 DEF PersistPdfIntakeReport, ReportAcceptable, ObservationKept, TypeOK
  <1>2. ASSUME NEW r \in Created, NEW report, NEW trans, Publish(r, report, trans)
        PROVE  ObservationKept(q)
    <2>1. \/ pdfReport' = pdfReport
          \/ pdfReport' = [pdfReport EXCEPT ![r] = report] /\ ReportAcceptable(r, report)
      BY <1>2 DEF Publish
    <2> QED BY <2>1 DEF ReportAcceptable, ObservationKept, TypeOK
  <1>3. CASE UNCHANGED pdfReport
    BY <1>3 DEF ObservationKept
  <1> QED
    BY <1>1, <1>2, <1>3 DEF Next, vars, CreateRun, MarkRunRunning, MarkRunFailed,
       MarkValidatedRunFailed, InterruptUnfinishedRuns, PersistValidatedCandidate,
       ActivatePublication, Supersede

(* A raster observation is never replaced.                                  *)
THEOREM ObservationsAreImmutable == Spec => ObservationFrozen
  <1>1. TypeOK /\ [Next]_vars => [\A r \in Runs : ObservationKept(r)]_vars
    BY ObservationKeptStep
  <1> QED BY <1>1, TypeCorrect, PTL DEF Spec, ObservationFrozen

(* A Publication keeps its transcript, its Evidence and its RunManifest.    *)
LEMMA TranscriptStep ==
    ASSUME IInv, TranscriptBacked, [Next]_vars
    PROVE  TranscriptBacked'
  <1>0. TypeOK /\ PublishedRows
    BY DEF IInv
  <1>1. ASSUME NEW r \in Runs, publication[r] # 0
        PROVE  evidence'[r] = evidence[r] /\ manifest'[r] = manifest[r]
    BY <1>0, <1>1, CandidateKeptStep DEF CandidateKept, PublishedRows
  <1>2. ASSUME NEW r \in Created, NEW report, NEW trans \in TranscriptReports \cup {None},
               Publish(r, report, trans)
        PROVE  TranscriptBacked'
    <2>1. r \in Runs /\ run[r].source \in Sources
      BY <1>0, CreatedRow DEF Created, RunRows
    <2>2. /\ UNCHANGED <<evidence, manifest>>
          /\ publication'[r] # 0
          /\ TranscriptMatches(r, trans)
          /\ trans # None => transcript'[r] = trans
          /\ \A q \in Runs \ {r} : publication'[q] = publication[q] /\ transcript'[q] = transcript[q]
      BY <1>0, <1>2, <2>1 DEF Publish, NextRevision, TypeOK
    <2> QED BY <2>1, <2>2, ConstantsAssumption DEF TranscriptBacked, TranscriptMatches
  <1>3. CASE UNCHANGED <<publication, transcript>>
    BY <1>1, <1>3 DEF TranscriptBacked
  <1> QED
    BY <1>2, <1>3 DEF Next, vars, CreateRun, MarkRunRunning, MarkRunFailed,
       MarkValidatedRunFailed, InterruptUnfinishedRuns, PersistValidatedCandidate,
       PersistPdfIntakeReport, ActivatePublication, Supersede

(* Every transcribed Publication keeps the report it was published with.    *)
THEOREM TranscriptsAreBacked == Spec => []TranscriptBacked
  <1>1. Init => TranscriptBacked
    BY DEF Init, TranscriptBacked
  <1> QED BY <1>1, TranscriptStep, IInvAlways, PTL DEF Spec

-----------------------------------------------------------------------------
(* The Library stays readable while every Run processes its Source's Asset. *)

(* The provenance a reader will ask for is there from validation on, except *)
(* that the digest may be that of a revised file.                           *)
CandidatesHold ==
    \A r \in Runs : run[r].state \in {"validated", "published"} =>
        /\ manifest[r] # None
        /\ manifest[r].count = Cardinality(evidence[r])
        /\ manifest[r].asset \in ProcessedAssets(r)
        /\ evidence[r] # {}

(* A step that validates no Run and rewrites no validated candidate.        *)
LEMMA CandidatesUntouched ==
    ASSUME CandidatesHold, UNCHANGED <<evidence, manifest>>,
           \A r \in Runs : run'[r].state \in {"validated", "published"} =>
               /\ run[r].state \in {"validated", "published"}
               /\ run'[r].source = run[r].source
    PROVE  CandidatesHold'
  BY DEF CandidatesHold, ProcessedAssets

LEMMA CandidatesStep ==
    ASSUME TypeOK, CandidatesHold, [Next]_vars
    PROVE  CandidatesHold'
  <1>1. ASSUME NEW r \in Runs, NEW s \in Sources, NEW retryOf, CreateRun(r, s, retryOf)
        PROVE  CandidatesHold'
    <2>1. UNCHANGED <<evidence, manifest>>
      BY <1>1 DEF CreateRun
    <2>2. run'[r].state = "queued" /\ \A q \in Runs \ {r} : run'[q] = run[q]
      BY <1>1 DEF CreateRun, NewRun, TypeOK
    <2> QED BY <2>1, <2>2, CandidatesUntouched
  <1>2. ASSUME NEW r \in Runs, NEW expected \in SUBSET RunStates,
               NEW target \in RunStates \ {"validated"}, NEW type \in EventTypes,
               CompareAndSet(r, expected, target, type),
               target = "published" => expected = {"validated"},
               UNCHANGED <<evidence, manifest>>
        PROVE  CandidatesHold'
    <2>1. /\ run[r].state \in expected /\ run'[r].state = target
          /\ run'[r].source = run[r].source
          /\ \A q \in Runs \ {r} : run'[q] = run[q]
      BY <1>2, CompareAndSetEffect
    <2> QED BY <1>2, <2>1, CandidatesUntouched
  <1>3. ASSUME InterruptUnfinishedRuns PROVE CandidatesHold'
    <2>1. UNCHANGED <<evidence, manifest>>
      BY <1>3 DEF InterruptUnfinishedRuns
    <2> QED BY <1>3, <2>1, InterruptEffect, CandidatesUntouched
  <1>4. ASSUME NEW r \in Created, NEW items \in Candidates,
               NEW fingerprint \in Fingerprints, NEW asset \in ProcessedAssets(r),
               PersistValidatedCandidate(r, items, fingerprint, asset)
        PROVE  CandidatesHold'
    <2>0. r \in Runs
      BY DEF Created
    <2>1. /\ run[r] \in RunRows /\ run'[r].source = run[r].source
          /\ \A q \in Runs \ {r} : run'[q] = run[q]
      BY <1>4, <2>0, CompareAndSetEffect DEF PersistValidatedCandidate, RunStates, EventTypes
    <2>2. asset \in ProcessedAssets(r)' /\ asset \in Assets
      BY <2>1, ConstantsAssumption DEF ProcessedAssets, RunRows
    <2>3. items # {} /\ Cardinality(items) \in Nat
      BY ConstantsAssumption, FS_Subset, FS_CardinalityType DEF Candidates
    <2>4. ManifestFor(items, fingerprint, asset) # None
      BY <2>2, <2>3, ConstantsAssumption DEF ManifestFor, Manifests
    <2>5. /\ evidence'[r] = items
          /\ manifest'[r] = ManifestFor(items, fingerprint, asset)
          /\ \A q \in Runs \ {r} : evidence'[q] = evidence[q] /\ manifest'[q] = manifest[q]
      BY <1>4, <2>0 DEF PersistValidatedCandidate, TypeOK
    <2>6. \A q \in Runs \ {r} : ProcessedAssets(q)' = ProcessedAssets(q)
      BY <2>1 DEF ProcessedAssets
    <2> QED BY <2>1, <2>2, <2>3, <2>4, <2>5, <2>6 DEF CandidatesHold, ManifestFor
  <1>5. CASE UNCHANGED <<run, evidence, manifest>>
    BY <1>5, CandidatesUntouched
  <1>6. ASSUME NEW r \in Created, NEW report, NEW trans,
               Supersede(r) \/ Publish(r, report, trans)
        PROVE  CandidatesHold'
    <2>1. r \in Runs /\ UNCHANGED <<evidence, manifest>>
      BY <1>6 DEF Supersede, Publish, Created
    <2>2. CASE Supersede(r)
      BY <1>2, <2>1, <2>2 DEF Supersede, RunStates, EventTypes
    <2>3. CASE Publish(r, report, trans)
      BY <1>2, <2>1, <2>3 DEF Publish, RunStates, EventTypes
    <2> QED BY <1>6, <2>2, <2>3
  <1>7. ASSUME NEW r \in Runs, MarkRunRunning(r) \/ MarkRunFailed(r) \/ MarkValidatedRunFailed(r)
        PROVE  CandidatesHold'
    BY <1>2, <1>7 DEF MarkRunRunning, MarkRunFailed, MarkValidatedRunFailed, RunStates, EventTypes
  <1> QED
    BY <1>1, <1>3, <1>4, <1>5, <1>6, <1>7
       DEF Next, vars, PersistPdfIntakeReport, ActivatePublication

LEMMA CandidatesAlways == Spec => []CandidatesHold
  <1>1. Init => CandidatesHold
    BY DEF Init, CandidatesHold, Absent
  <1>2. TypeOK /\ CandidatesHold /\ [Next]_vars => CandidatesHold'
    BY CandidatesStep
  <1> QED BY <1>1, <1>2, TypeCorrect, PTL DEF Spec

\* The digest is all that the readers' check can find wrong, and only with a
\* Publication made from a revised file.
ReadableButForRevisions ==
    \A s \in Sources : source[s].active # None =>
        GraphValid(s) \/ manifest[source[s].active].asset \in RevisedAssets

(* Whatever files reprocess_pdf and retry_pdf are given: count, revision,   *)
(* Evidence and state of an active Publication pass the readers' check.     *)
THEOREM OnlyRevisionsBreakReads == Spec => []ReadableButForRevisions
  <1>1. IInv /\ CandidatesHold => ReadableButForRevisions
    BY DEF IInv, CandidatesHold, ReadableButForRevisions, GraphValid, ActivePointer,
           PublishedRuns, PublishedRows, ProcessedAssets
  <1> QED BY <1>1, IInvAlways, CandidatesAlways, PTL

(* As long as no Source is processed from another file, every active       *)
(* Publication passes the provenance checks that guard the reads.           *)
THEOREM LibraryStaysReadable == RevisedAssets = {} => (Spec => []LibraryReadable)
  <1> SUFFICES ASSUME RevisedAssets = {} PROVE Spec => []LibraryReadable
    OBVIOUS
  <1>1. ReadableButForRevisions => LibraryReadable
    BY DEF ReadableButForRevisions, LibraryReadable
  <1> QED BY <1>1, OnlyRevisionsBreakReads, PTL

-----------------------------------------------------------------------------
(* What a cursor may rely on: a revision never names two answers.           *)

\* What readers are served of a Source: its ActiveAuthorityRecord, which goes
\* into the fingerprint of the active set, and the Evidence it stands for.
Authority(s) ==
    LET r == source[s].active
    IN  [publication |-> r,
         revision    |-> source[s].revision,
         manifest    |-> IF r = None THEN None ELSE manifest[r],
         evidence    |-> IF r = None THEN {} ELSE evidence[r],
         searched    |-> VisibleRows(s)]

\* A step leaves a Source as it is, or gives it the next revision.
LEMMA AuthorityStep ==
    ASSUME IInv, [Next]_vars, NEW s \in Sources
    PROVE  Authority(s)' = Authority(s) \/ source'[s].revision = source[s].revision + 1
  <1>1. TypeOK
    BY DEF IInv
  <1>2. ASSUME source[s].active # None
        PROVE  /\ source[s].active \in Runs
               /\ evidence'[source[s].active] = evidence[source[s].active]
               /\ manifest'[source[s].active] = manifest[source[s].active]
    <2>1. source[s].active \in Runs /\ run[source[s].active].state = "published"
      BY <1>2 DEF IInv, ActivePointer, PublishedRuns, PublishedRows
    <2> QED BY <1>1, <2>1, CandidateKeptStep DEF CandidateKept
  <1>3. ASSUME source'[s].active = source[s].active, source'[s].revision = source[s].revision,
               VisibleRows(s)' = VisibleRows(s)
        PROVE  Authority(s)' = Authority(s)
    BY <1>2, <1>3 DEF Authority
  <1>4. ASSUME NEW r \in Runs, NEW t \in Sources, NEW q, CreateRun(r, t, q)
        PROVE  Authority(s)' = Authority(s)
    <2>1. fts' = fts /\ source' = [source EXCEPT ![t] = [source[t] EXCEPT !.requested = source[t].requested + 1]]
      BY <1>4 DEF CreateRun
    <2>2. source'[s].active = source[s].active /\ source'[s].revision = source[s].revision
      BY <1>1, <2>1 DEF TypeOK
    <2>3. VisibleRows(s)' = VisibleRows(s)
      BY <2>1, <2>2 DEF VisibleRows
    <2> QED BY <1>3, <2>2, <2>3
  <1>5. ASSUME NEW r \in Runs, NEW report, NEW trans, Publish(r, report, trans)
        PROVE  Authority(s)' = Authority(s) \/ source'[s].revision = source[s].revision + 1
    <2> DEFINE t == run[r].source
    <2>1. run[r].state # "absent"
      BY <1>5 DEF Publish
    <2>2. t \in Sources
      BY <2>1, <1>1, CreatedRow DEF RunRows
    <2>3. /\ source' = [source EXCEPT ![t] = [active |-> r, revision |-> source[t].revision + 1,
                                            requested |-> source[t].requested]]
          /\ fts' = {row \in fts : row.source # t} \cup ActiveRows(t, r)
      BY <1>5 DEF Publish, NextRevision, ReplaceFts
    <2> HIDE DEF t
    <2>4. CASE s = t
      <3>1. source'[s].revision = source[s].revision + 1
        BY <1>1, <2>2, <2>3, <2>4 DEF TypeOK
      <3> QED BY <3>1
    <2>5. CASE s # t
      <3>1. source'[s] = source[s]
        BY <1>1, <2>3, <2>5 DEF TypeOK
      <3>2. \A row \in ActiveRows(t, r) : row.source = t
        BY DEF ActiveRows
      <3>3. VisibleRows(s)' = VisibleRows(s)
        BY <2>3, <2>5, <3>1, <3>2 DEF VisibleRows
      <3> QED BY <1>3, <3>1, <3>3
    <2> QED BY <2>4, <2>5
  <1>6. CASE Quiet
    <2>1. UNCHANGED <<source, fts>>
      BY <1>6 DEF Quiet
    <2>2. VisibleRows(s)' = VisibleRows(s)
      BY <2>1 DEF VisibleRows
    <2> QED BY <1>3, <2>1, <2>2
  <1> QED BY <1>1, <1>4, <1>5, <1>6, StepKinds

(* What a Source served once, at some revision, is what it serves whenever   *)
(* it has that revision: comparing revisions, as EvidencePaging's            *)
(* Fingerprint does, is comparing answers.                                   *)
THEOREM RevisionNamesAnAnswer ==
    ASSUME NEW s \in Sources, NEW answer
    PROVE  Spec => [](Authority(s) = answer =>
                      [](source[s].revision = answer.revision => Authority(s) = answer))
  <1> DEFINE Seen == Authority(s) = answer
             Since == /\ answer.revision \in Nat
                      /\ Seen \/ source[s].revision > answer.revision
             Same == source[s].revision = answer.revision => Authority(s) = answer
  <1>1. IInv => source[s].revision \in Nat /\ Authority(s).revision = source[s].revision
    BY DEF IInv, TypeOK, Authority
  <1>2. IInv /\ Seen => Since
    BY <1>1
  <1>3. IInv /\ IInv' /\ [Next]_vars /\ Since => Since'
    <2> SUFFICES ASSUME IInv, IInv', [Next]_vars, Since PROVE Since'
      OBVIOUS
    <2>1. source[s].revision \in Nat /\ Authority(s).revision = source[s].revision
      BY <1>1
    <2>2. Authority(s)' = Authority(s) \/ source'[s].revision = source[s].revision + 1
      BY AuthorityStep
    <2>3. Authority(s)'.revision = source'[s].revision
      BY DEF Authority
    <2>4. CASE Authority(s)' = Authority(s)
      BY <2>1, <2>3, <2>4
    <2>5. CASE source'[s].revision = source[s].revision + 1
      BY <2>1, <2>5
    <2> QED BY <2>2, <2>4, <2>5
  <1>4. IInv /\ Since => Same
    BY <1>1
  <1> HIDE DEF Seen, Since, Same
  <1>5. Spec => [](Seen => []Same)
    BY <1>2, <1>3, <1>4, IInvAlways, PTL DEF Spec
  <1> QED BY <1>5 DEF Seen, Same

=============================================================================
