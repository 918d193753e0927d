------------------------ MODULE ArtifactRefreshProofs ------------------------
(***************************************************************************)
(* Proofs about ArtifactRefresh, for every number of targets and calls.    *)
(*                                                                         *)
(* The inductive invariant says what the transaction directory holds in    *)
(* each phase (Directory), how far the loops have come (Progress), what a  *)
(* rollback or a commit leaves behind (Endings), and that the targets are  *)
(* mixed only under a journal that is not being removed (Mixed).           *)
(***************************************************************************)
EXTENDS ArtifactRefresh, TLAPS

\* What a rolled back or a committed transaction may leave in the targets.
Settled == Holds(original) \/ (validated /\ Holds(refreshes))

TypeOfFiles ==
    /\ target \in [Targets -> Contents]
    /\ backup \in [Targets -> Contents \union {None}]
    /\ journal \in [Targets -> Contents] \union {None}

TypeOfNumbers ==
    /\ index \in 1 .. TargetCount + 1
    /\ refreshes \in Contents
    /\ original \in Contents

TypeOfControl ==
    /\ directory \in BOOLEAN
    /\ pc \in {"idle", "mkdir"} \union Recovering \union Refreshing
    /\ purpose \in Purposes
    /\ outcome \in Outcomes
    /\ validated \in BOOLEAN
    /\ torn \in BOOLEAN

Directory ==
    /\ ~directory => NoBackup /\ journal = None /\ ~torn
    /\ journal # None =>
           \A i \in Targets : backup[i] \in {None, journal[i]} /\ journal[i] = original
    /\ journal # None /\ ~torn /\ pc # "discard" => AllBackups
    /\ torn => journal # None /\ ~AllBackups
    /\ pc = "mkdir" => ~directory
    /\ pc \in Refreshing => directory /\ ~torn
    /\ pc = "discard" => directory /\ ~torn
    /\ pc = "sync" => ~directory

Progress ==
    /\ pc \in {"backup", "stage", "journal"} => journal = None /\ Holds(original)
    /\ pc = "backup" => \A j \in Targets : j < index => backup[j] = target[j]
    /\ pc \in {"stage", "journal"} => \A j \in Targets : backup[j] = target[j]
    /\ pc \in {"replace", "validate"} => journal # None
    /\ pc = "replace" => \A j \in Targets : j < index => target[j] = refreshes
    /\ pc = "validate" => Holds(refreshes)
    /\ pc = "restore" =>
           /\ directory
           /\ journal # None
           /\ \A j \in Targets : j < index => target[j] = journal[j] /\ backup[j] = journal[j]

Endings ==
    /\ pc \in {"mkdir"} \union Refreshing => purpose = "start"
    /\ purpose = "commit" /\ pc # "idle" =>
           pc \in {"discard", "sync"} /\ validated /\ Holds(refreshes)
    /\ purpose \in {"rollback", "commit"} /\ pc \in {"discard", "sync"} => Settled
    /\ purpose = "rollback" /\ pc = "recover" /\ journal = None => Settled
    /\ pc # "idle" => outcome = "none"
    /\ outcome = "failed" => ~directory /\ Settled
    /\ outcome = "success" => ~directory /\ Holds(refreshes)

Mixed == ~Whole => journal # None /\ pc # "discard"

IInv == TypeOK /\ Directory /\ Progress /\ Endings /\ Mixed

-----------------------------------------------------------------------------
\* A set that holds one content is whole.
LEMMA HoldsWhole == ASSUME NEW content, Holds(content) PROVE Whole
BY DEF Holds, Whole

LEMMA TypeParts == TypeOK <=> TypeOfFiles /\ TypeOfNumbers /\ TypeOfControl
BY DEF TypeOK, TypeOfFiles, TypeOfNumbers, TypeOfControl

LEMMA InitIInv == Init => IInv
<1> SUFFICES ASSUME Init PROVE IInv
  OBVIOUS
<1> USE RefreshAssumption
<1>1. TypeOfFiles /\ TypeOfNumbers
  BY DEF Init, TypeOfFiles, TypeOfNumbers, Targets, Contents
<1>a. TypeOfControl
  BY DEF Init, TypeOfControl, Purposes, Outcomes
<1>2. Directory /\ Progress /\ Endings /\ Mixed
  BY DEF Init, Directory, Progress, Endings, Mixed, NoBackup, Whole, Refreshing, Targets
<1> QED
  BY <1>1, <1>a, <1>2, TypeParts DEF IInv

-----------------------------------------------------------------------------
(* The parts of the invariant, one lemma for each kind of step.            *)

LEMMA BeginStep == IInv /\ (BeginRefresh \/ BeginRecover) => IInv'
<1> SUFFICES ASSUME IInv, BeginRefresh \/ BeginRecover PROVE IInv'
  OBVIOUS
<1> USE RefreshAssumption DEF BeginRefresh, BeginRecover, disk, history
<1>1. TypeOK'
  <2>1. TypeOfFiles'
    BY DEF IInv, TypeOK, TypeOfFiles
  <2>2. TypeOfNumbers'
    BY DEF IInv, TypeOK, TypeOfNumbers, Contents
  <2>3. TypeOfControl'
    BY DEF IInv, TypeOK, TypeOfControl, Purposes, Outcomes, Recovering
  <2> QED
    BY <2>1, <2>2, <2>3 DEF TypeOK, TypeOfFiles, TypeOfNumbers, TypeOfControl
<1>2. Directory'
  BY DEF IInv, Directory, NoBackup, AllBackups, Refreshing
<1>3. Progress' /\ Endings' /\ Mixed'
  BY DEF IInv, Progress, Endings, Mixed, Whole, Refreshing
<1> QED
  BY <1>1, <1>2, <1>3 DEF IInv

LEMMA LookStep == IInv /\ LookForTransaction => IInv'
<1> SUFFICES ASSUME IInv, LookForTransaction PROVE IInv'
  OBVIOUS
<1> USE RefreshAssumption
    DEF LookForTransaction, RecoveryReturns, Finish, disk, history
<1>1. TypeOK'
  <2>1. TypeOfFiles'
    BY DEF IInv, TypeOK, TypeOfFiles
  <2>2. TypeOfNumbers'
    BY DEF IInv, TypeOK, TypeOfNumbers
  <2>3. TypeOfControl'
    BY DEF IInv, TypeOK, TypeOfControl, Purposes, Outcomes, Recovering
  <2> QED
    BY <2>1, <2>2, <2>3 DEF TypeOK, TypeOfFiles, TypeOfNumbers, TypeOfControl
<1>2. Mixed'
  BY DEF IInv, Mixed, Whole, Directory
<1>3. Directory'
  BY DEF IInv, Directory, NoBackup, AllBackups, Refreshing
<1>4. Progress'
  BY DEF IInv, Progress, Directory, Refreshing, TypeOK, Targets
<1>5. Endings'
  BY DEF IInv, Endings, Directory, Settled, Holds, Refreshing, Recovering
<1> QED
  BY <1>1, <1>2, <1>3, <1>4, <1>5 DEF IInv

LEMMA RestoreStep == IInv /\ RestoreTarget => IInv'
<1> SUFFICES ASSUME IInv, RestoreTarget PROVE IInv'
  OBVIOUS
<1> USE RefreshAssumption DEF RestoreTarget, history
<1>1. TypeOK'
  <2>1. TypeOfFiles'
    BY DEF IInv, TypeOK, TypeOfFiles, Targets, Contents, Progress
  <2>2. TypeOfNumbers'
    BY DEF IInv, TypeOK, TypeOfNumbers, Targets
  <2>3. TypeOfControl'
    BY DEF IInv, TypeOK, TypeOfControl, Recovering
  <2> QED
    BY <2>1, <2>2, <2>3 DEF TypeOK, TypeOfFiles, TypeOfNumbers, TypeOfControl
<1>2. Directory'
  BY DEF IInv, Directory, NoBackup, AllBackups, Refreshing
<1>3. Progress'
  BY DEF IInv, Progress, TypeOK, Targets, Refreshing
<1>4. Endings' /\ Mixed'
  BY DEF IInv, Endings, Mixed, Progress, Refreshing
<1> QED
  BY <1>1, <1>2, <1>3, <1>4 DEF IInv

LEMMA RestoredStep == IInv /\ RestoredAll => IInv'
<1> SUFFICES ASSUME IInv, RestoredAll PROVE IInv'
  OBVIOUS
<1> USE RefreshAssumption DEF RestoredAll, disk, history
<1>1. \A j \in Targets : target[j] = journal[j] /\ backup[j] = journal[j]
  BY DEF IInv, Progress, TypeOK, Targets
<1>2. Holds(original) /\ directory /\ journal # None
  BY <1>1 DEF IInv, Directory, Progress, Holds
<1>3. AllBackups
  BY <1>1, <1>2 DEF IInv, TypeOK, AllBackups, Contents
<1>4. TypeOK'
  BY DEF IInv, TypeOK, Recovering
<1>5. Directory'
  BY <1>2, <1>3 DEF IInv, Directory, NoBackup, AllBackups, Refreshing
<1>6. Progress'
  BY DEF IInv, Progress
<1>7. Endings'
  BY <1>2 DEF IInv, Endings, Settled, Holds, Refreshing
<1>8. Mixed'
  BY <1>2 DEF Mixed, Whole, Holds
<1> QED
  BY <1>4, <1>5, <1>6, <1>7, <1>8 DEF IInv

LEMMA RemoveStep ==
    ASSUME IInv, RemoveJournal \/ RemoveDirectory \/ \E i \in Targets : RemoveBackup(i)
    PROVE  IInv'
<1> USE RefreshAssumption DEF RemoveJournal, RemoveDirectory, RemoveBackup, history
<1>1. TypeOK'
  BY DEF IInv, TypeOK, Targets, Contents, Recovering
<1>2. Directory'
  BY DEF IInv, Directory, NoBackup, AllBackups, Refreshing, TypeOK
<1>3. Progress' /\ Mixed'
  BY DEF IInv, Progress, Mixed, Whole
<1>4. Endings'
  BY DEF IInv, Endings, Settled, Holds, Refreshing
<1> QED
  BY <1>1, <1>2, <1>3, <1>4 DEF IInv

LEMMA SyncedStep == IInv /\ Synced => IInv'
<1> SUFFICES ASSUME IInv, Synced PROVE IInv'
  OBVIOUS
<1> USE RefreshAssumption DEF Synced, RecoveryReturns, Finish, disk, history
<1>1. TypeOK'
  BY DEF IInv, TypeOK, Outcomes
<1>2. Directory'
  BY DEF IInv, Directory, NoBackup, AllBackups, Refreshing
<1>3. Progress' /\ Mixed'
  BY DEF IInv, Progress, Mixed, Whole
<1>4. Endings'
  BY DEF IInv, Endings, Directory, Settled, Holds, Refreshing
<1> QED
  BY <1>1, <1>2, <1>3, <1>4 DEF IInv

LEMMA PrepareStep ==
    ASSUME IInv, MakeTransaction \/ BackupTarget \/ StageTargets
    PROVE  IInv'
<1> USE RefreshAssumption
<1>1. CASE MakeTransaction
  <2> USE <1>1 DEF MakeTransaction
  <2>0. \A i \in Targets : target[i] = target[1]
    BY DEF IInv, Directory, Mixed, Whole, Targets
  <2>1. TypeOK'
    <3>1. TypeOfFiles'
      BY DEF IInv, TypeOK, TypeOfFiles
    <3>2. TypeOfNumbers'
      BY DEF IInv, TypeOK, TypeOfNumbers, Targets
    <3>3. TypeOfControl'
      BY DEF IInv, TypeOK, TypeOfControl, Refreshing
    <3> QED
      BY <3>1, <3>2, <3>3 DEF TypeOK, TypeOfFiles, TypeOfNumbers, TypeOfControl
  <2>2. Directory' /\ Mixed'
    BY DEF IInv, Directory, Mixed, NoBackup, AllBackups, Refreshing, Whole
  <2>3. Progress'
    BY <2>0 DEF IInv, Directory, Progress, Holds, Targets
  <2>4. Endings'
    BY DEF IInv, Endings, Refreshing
  <2> QED
    BY <2>1, <2>2, <2>3, <2>4 DEF IInv
<1>2. CASE BackupTarget \/ StageTargets
  <2> USE <1>2 DEF BackupTarget, StageTargets, disk, history
  <2>1. TypeOK'
    BY DEF IInv, TypeOK, Targets, Contents, Refreshing
  <2>2. Directory' /\ Mixed'
    BY DEF IInv, Directory, Progress, Mixed, NoBackup, AllBackups, Refreshing, Whole
  <2>3. Progress'
    BY DEF IInv, Progress, Holds, TypeOK, Targets
  <2>4. Endings'
    BY DEF IInv, Endings, Refreshing
  <2> QED
    BY <2>1, <2>2, <2>3, <2>4 DEF IInv
<1> QED
  BY <1>1, <1>2

LEMMA JournalStep == IInv /\ WriteJournal => IInv'
<1> SUFFICES ASSUME IInv, WriteJournal PROVE IInv'
  OBVIOUS
<1> USE RefreshAssumption DEF WriteJournal, history
<1>1. \A j \in Targets : backup[j] = target[j] /\ target[j] = original /\ target[j] # None
  BY DEF IInv, Progress, Holds, TypeOK, Contents
<1>2. backup \in [Targets -> Contents]
  BY <1>1 DEF IInv, TypeOK
<1>3. backup # None
  BY <1>2 DEF Targets, Contents
<1>4. TypeOK'
  BY <1>2 DEF IInv, TypeOK, Refreshing, Targets
<1>5. Directory'
  BY <1>1, <1>3 DEF IInv, Directory, NoBackup, AllBackups, Refreshing
<1>6. Progress' /\ Mixed'
  BY <1>3 DEF IInv, Progress, Mixed, Whole, Targets
<1>7. Endings'
  BY DEF IInv, Endings, Refreshing
<1> QED
  BY <1>4, <1>5, <1>6, <1>7 DEF IInv

LEMMA ReplaceStep == IInv /\ (ReplaceTarget \/ ValidateCheckedIn) => IInv'
<1> SUFFICES ASSUME IInv, ReplaceTarget \/ ValidateCheckedIn PROVE IInv'
  OBVIOUS
<1> USE RefreshAssumption DEF ReplaceTarget, ValidateCheckedIn, disk, history
<1>1. TypeOK'
  <2>1. TypeOfFiles'
    BY DEF IInv, TypeOK, TypeOfFiles, Targets, Contents
  <2>2. TypeOfNumbers'
    BY DEF IInv, TypeOK, TypeOfNumbers, Targets
  <2>3. TypeOfControl'
    BY DEF IInv, TypeOK, TypeOfControl, Refreshing, Recovering, Purposes
  <2> QED
    BY <2>1, <2>2, <2>3 DEF TypeOK, TypeOfFiles, TypeOfNumbers, TypeOfControl
<1>2. Directory'
  BY DEF IInv, Directory, NoBackup, AllBackups, Refreshing
<1>3. Progress'
  BY DEF IInv, Progress, Holds, TypeOK, Targets
<1>4. Endings'
  BY DEF IInv, Endings, Progress, Settled, Holds, Refreshing
<1>5. Mixed'
  BY DEF IInv, Progress, Mixed, Whole, Holds
<1> QED
  BY <1>1, <1>2, <1>3, <1>4, <1>5 DEF IInv

LEMMA FailStep ==
    ASSUME IInv, FailRefresh \/ FailRecovery \/ FailMakeTransaction \/ Kill
    PROVE  IInv'
<1> USE RefreshAssumption
    DEF FailRefresh, FailRecovery, FailMakeTransaction, Kill, Finish, disk, history
<1>1. TypeOK'
  BY DEF IInv, TypeOK, TornNow, Purposes, Outcomes, Recovering
<1>2. Directory'
  <2>1. CASE FailMakeTransaction
    BY <2>1 DEF IInv, Directory, NoBackup, AllBackups, Refreshing
  <2>2. CASE FailRefresh \/ FailRecovery \/ Kill
    <3> UNCHANGED disk /\ torn' = TornNow /\ pc' \in {"idle", "recover"}
      BY <2>2
    <3> QED
      BY DEF IInv, Directory, NoBackup, AllBackups, Refreshing, TornNow
  <2> QED
    BY <2>1, <2>2
<1>3. Progress' /\ Mixed'
  BY DEF IInv, Progress, Mixed, Whole, Recovering
<1>4. Endings'
  BY DEF IInv, Endings, Progress, Settled, Holds, Refreshing, Recovering
<1> QED
  BY <1>1, <1>2, <1>3, <1>4 DEF IInv

LEMMA NextIInv == IInv /\ [Next]_vars => IInv'
<1> SUFFICES ASSUME IInv, [Next]_vars PROVE IInv'
  OBVIOUS
<1>1. CASE Next
  BY <1>1, BeginStep, LookStep, RestoreStep, RestoredStep, RemoveStep, SyncedStep,
     PrepareStep, JournalStep, ReplaceStep, FailStep DEF Next
<1>2. CASE UNCHANGED vars
  BY <1>2 DEF IInv, TypeOK, Directory, Progress, Endings, Mixed, Settled, Holds,
              Whole, NoBackup, AllBackups, vars
<1> QED
  BY <1>1, <1>2

THEOREM IInvAlways == Spec => []IInv
BY InitIInv, NextIInv, PTL DEF Spec

-----------------------------------------------------------------------------
\* Type correctness of the transaction, for any number of targets.
THEOREM RefreshTypeCorrect == Spec => []TypeOK
<1>1. IInv => TypeOK
  BY DEF IInv
<1> QED
  BY <1>1, IInvAlways, PTL

\* Whoever removes the transaction directory has put one whole set in place.
THEOREM RemovalCommitsAWholeSet == Spec => []SettledIsWhole
<1>1. IInv => SettledIsWhole
  BY DEF IInv, SettledIsWhole, Mixed, Directory
<1> QED
  BY <1>1, IInvAlways, PTL

\* A mixed set can be restored to what the transaction began with, unless a
\* removal was cut short.
THEOREM MixedCanBeRestored == Spec => []MixedIsRecoverable
<1>1. IInv => MixedIsRecoverable
  BY DEF IInv, MixedIsRecoverable, Mixed, Directory, AllBackups
<1> QED
  BY <1>1, IInvAlways, PTL

\* A failure that is reported after a rollback has undone every replacement.
THEOREM RollbackIsComplete == Spec => []FailureRollsBack
<1>1. IInv => FailureRollsBack
  BY DEF IInv, FailureRollsBack, Endings, Settled
<1> QED
  BY <1>1, IInvAlways, PTL

\* Success is reported for the whole new set only.
THEOREM SuccessReplacesAll == Spec => []SuccessIsWhole
<1>1. IInv => SuccessIsWhole
  BY DEF IInv, SuccessIsWhole, Endings
<1> QED
  BY <1>1, IInvAlways, PTL

-----------------------------------------------------------------------------
(* Refinement of AtomicReplacement.                                        *)

\* What the targets hold is numbered by the refreshes so far, a refresh has a
\* number of its own until it replaces them, and a directory that is removed
\* under its journal by any call but a committing one is that of a set put back.
Numbered ==
    /\ original <= refreshes
    /\ \A i \in Targets : target[i] <= refreshes
    /\ pc # "idle" /\ purpose = "start" => original < refreshes
    /\ pc \notin {"idle", "replace", "validate"} /\ purpose = "start" =>
           \A i \in Targets : target[i] < refreshes
    /\ pc = "discard" /\ purpose = "commit" => original < refreshes
    /\ pc = "discard" /\ purpose # "commit" /\ journal # None => Holds(original)

LEMMA NumberedStep == IInv /\ Numbered /\ [Next]_vars => Numbered'
<1> SUFFICES ASSUME IInv, Numbered, [Next]_vars PROVE Numbered'
  OBVIOUS
<1> USE RefreshAssumption
<1>t. /\ target \in [Targets -> Nat] /\ original \in Nat /\ refreshes \in Nat
      /\ index \in Nat /\ 1 \in Targets
  BY DEF IInv, TypeOK, Contents, Targets
<1>1. CASE BeginRefresh \/ BeginRecover
  BY <1>t, <1>1 DEF BeginRefresh, BeginRecover, disk, history, Numbered, Holds
<1>2. CASE LookForTransaction
  BY <1>t, <1>2 DEF LookForTransaction, RecoveryReturns, Finish, disk, history, Numbered, Holds,
     IInv, Endings
<1>3. CASE RestoreTarget
  <2>1. journal[index] = original
    BY <1>3 DEF RestoreTarget, IInv, Directory, Progress
  <2> QED
    BY <1>t, <1>3, <2>1 DEF RestoreTarget, history, Numbered, Holds
<1>4. CASE RestoredAll
  <2>1. Holds(original)
    <3>1. \A j \in Targets : target[j] = journal[j]
      BY <1>t, <1>4 DEF RestoredAll, IInv, Progress, Targets, TypeOK
    <3> QED
      BY <1>4, <3>1 DEF RestoredAll, IInv, Directory, Progress, Holds
  <2> QED
    BY <1>t, <1>4, <2>1 DEF RestoredAll, disk, history, Numbered, Holds, IInv, Endings
<1>5. CASE RemoveJournal \/ RemoveDirectory \/ \E i \in Targets : RemoveBackup(i)
  BY <1>t, <1>5 DEF RemoveJournal, RemoveDirectory, RemoveBackup, history, Numbered, Holds
<1>6. CASE Synced
  BY <1>t, <1>6 DEF Synced, RecoveryReturns, Finish, disk, history, Numbered, Holds
<1>7. CASE MakeTransaction \/ BackupTarget \/ StageTargets \/ WriteJournal
  BY <1>t, <1>7 DEF MakeTransaction, BackupTarget, StageTargets, WriteJournal, disk, history,
     Numbered, Holds, IInv, Endings, Refreshing
<1>8. CASE ReplaceTarget \/ ValidateCheckedIn
  BY <1>t, <1>8 DEF ReplaceTarget, ValidateCheckedIn, disk, history, Numbered, Holds,
     IInv, Endings, Refreshing
<1>9. CASE FailRefresh \/ FailRecovery \/ FailMakeTransaction \/ Kill
  BY <1>t, <1>9 DEF FailRefresh, FailRecovery, FailMakeTransaction, Kill, Finish, disk, history,
     Numbered, Holds
<1>10. CASE UNCHANGED vars
  BY <1>10 DEF vars, Numbered, Holds
<1> QED
  BY <1>1, <1>2, <1>3, <1>4, <1>5, <1>6, <1>7, <1>8, <1>9, <1>10 DEF Next

LEMMA NumberedAlways == Spec => []Numbered
<1>1. Init => Numbered
  BY RefreshAssumption DEF Init, Numbered, Holds, Targets
<1> QED
  BY <1>1, NumberedStep, IInvAlways, PTL DEF Spec

\* The version is a number, or it is lost.
LEMMA VersionType ==
    ASSUME IInv
    PROVE  /\ Version = None <=> torn
           /\ ~torn => Version \in Contents
           /\ ~directory => target = [i \in Targets |-> Version]
           /\ (IF directory THEN None ELSE target) = None <=> directory
<1> USE RefreshAssumption
<1>1. 1 \in Targets /\ target \in [Targets -> Contents] /\ None \notin Contents
  BY DEF IInv, TypeOK, Targets, Contents
<1>2. journal # None => journal[1] \in Contents
  BY <1>1 DEF IInv, TypeOK
<1>3. ~directory => \A i \in Targets : target[i] = target[1]
  BY <1>1 DEF IInv, Directory, Mixed, Whole
<1>4. target # None
  BY <1>1 DEF Targets, Contents
<1> QED
  BY <1>1, <1>2, <1>3, <1>4 DEF Version, IInv, Directory

\* Steps that leave the set as it is and do not end the call.
LEMMA VersionStutters ==
    ASSUME IInv, UNCHANGED <<directory, refreshes, outcome>>, Version' = Version,
           ~directory => target' = target, Caller' = Caller
    PROVE  UNCHANGED Replacement!vars
BY DEF Replacement!vars

\* The removals: the first one of a committing refresh is the commit.
LEMMA RemovalCommits ==
    ASSUME IInv, Numbered, RemoveJournal \/ \E i \in Targets : RemoveBackup(i)
    PROVE  [Replacement!Next]_(Replacement!vars)
<1> USE RefreshAssumption
<1>0. /\ pc = "discard" /\ directory /\ ~torn /\ ~torn' /\ Whole /\ 1 \in Targets
      /\ UNCHANGED <<target, directory, pc, refreshes, outcome, purpose>>
  BY DEF RemoveJournal, RemoveBackup, history, IInv, Directory, Mixed, Targets
<1>1. Caller' = Caller
  BY <1>0 DEF Caller
<1>2. Version' = target[1]
  BY <1>0 DEF Version, RemoveJournal, RemoveBackup, AllBackups, IInv, TypeOK
<1>3. CASE journal # None /\ AllBackups
  <2>1. Version = original
    BY <1>0, <1>3 DEF Version, IInv, Directory
  <2>2. CASE purpose = "commit"
    <3>1. target[1] = refreshes /\ original < refreshes /\ Caller = "refresh"
      BY <1>0, <2>2 DEF IInv, Endings, Holds, Numbered, Caller
    <3>2. original # refreshes /\ original # None
      BY <3>1 DEF IInv, TypeOK, Contents
    <3> QED
      BY <1>0, <1>1, <1>2, <2>1, <3>1, <3>2 DEF Replacement!Next, Replacement!Commit
  <2>3. CASE purpose # "commit"
    <3>1. target[1] = original
      BY <1>0, <1>3, <2>3 DEF Numbered, Holds
    <3> QED
      BY <1>0, <1>1, <1>2, <2>1, <3>1, VersionStutters
  <2> QED
    BY <2>2, <2>3
<1>4. CASE ~(journal # None /\ AllBackups)
  <2>1. Version = target[1]
    BY <1>0, <1>4 DEF Version
  <2> QED
    BY <1>0, <1>1, <1>2, <2>1, VersionStutters
<1> QED
  BY <1>3, <1>4

\* Being stopped: whether the version is lost is what torn says.
LEMMA StopKeepsOrLoses ==
    ASSUME IInv, torn' = TornNow, UNCHANGED disk
    PROVE  /\ Version' = Version \/ (directory /\ Version' = None)
           /\ directory' = directory /\ target' = target
<1>1. CASE torn' = torn
  BY <1>1 DEF Version, disk, AllBackups
<1>2. CASE torn' # torn
  <2>1. torn' /\ pc = "discard"
    BY <1>2 DEF TornNow, IInv, TypeOK
  <2> QED
    BY <2>1 DEF Version, IInv, Directory, disk
<1> QED
  BY <1>1, <1>2 DEF disk

LEMMA StopsImplement ==
    ASSUME IInv, Numbered, FailRefresh \/ FailRecovery \/ FailMakeTransaction \/ Kill
    PROVE  [Replacement!Next]_(Replacement!vars)
<1> USE RefreshAssumption
<1>1. CASE FailRefresh
  <2>1. /\ Caller = "refresh" /\ Caller' = "refresh" /\ UNCHANGED <<refreshes, outcome>>
        /\ torn' = TornNow /\ UNCHANGED disk
    BY <1>1 DEF FailRefresh, Caller, IInv, Endings, Refreshing
  <2>2. CASE Version' = Version
    BY <2>1, <2>2, StopKeepsOrLoses, VersionStutters
  <2>3. CASE directory /\ Version' = None
    BY <2>1, <2>3, StopKeepsOrLoses DEF Replacement!Next, Replacement!LoseMidway, Replacement!Lose
  <2> QED
    BY <2>1, <2>2, <2>3, StopKeepsOrLoses
<1>2. CASE FailRecovery \/ Kill
  <2>1. /\ Caller # "none" /\ Caller' = "none" /\ UNCHANGED refreshes
        /\ outcome' \in {"killed", "recovery_failed"}
        /\ torn' = TornNow /\ UNCHANGED disk
    BY <1>2 DEF FailRecovery, Kill, Finish, Caller, Recovering
  <2>2. Replacement!LoseOrKeep
    BY <2>1, StopKeepsOrLoses DEF Replacement!LoseOrKeep, Replacement!Lose
  <2>3. Replacement!BreakOff
    BY <2>1, <2>2, StopKeepsOrLoses DEF Replacement!BreakOff, Replacement!End
  <2> QED
    BY <2>3 DEF Replacement!Next
<1>3. CASE FailMakeTransaction
  <2>1. /\ pc = "mkdir" /\ purpose = "start" /\ ~directory
        /\ Caller = "refresh" /\ Caller' = "none" /\ outcome' = "not_begun"
        /\ UNCHANGED <<target, backup, journal, refreshes, torn>>
    BY <1>3 DEF FailMakeTransaction, Finish, history, Caller, IInv, Directory, Endings
  <2>2. Version' = Version /\ Version = target[1] /\ target[1] < refreshes
    BY <2>1 DEF Version, AllBackups, IInv, Directory, Numbered, Targets
  <2>3. Version # refreshes
    BY <2>2 DEF IInv, TypeOK, Contents, Targets
  <2>4. Replacement!NotBegun
    BY <2>1, <2>2, <2>3, VersionType DEF Replacement!NotBegun, Replacement!End
  <2> QED
    BY <2>4 DEF Replacement!Next
<1> QED
  BY <1>1, <1>2, <1>3

\* A call that returns: from its first look, or from the removal.
LEMMA ReturnsImplement ==
    ASSUME IInv, LookForTransaction \/ Synced
    PROVE  [Replacement!Next]_(Replacement!vars)
<1> USE RefreshAssumption
<1>0. UNCHANGED <<disk, purpose, refreshes, torn>> /\ Version' = Version /\ pc # "idle"
  BY DEF LookForTransaction, Synced, disk, history, Version, AllBackups
<1>1. CASE pc' # "idle"
  <2>1. outcome' = outcome /\ Caller' = Caller
    BY <1>0, <1>1 DEF LookForTransaction, Synced, RecoveryReturns, Finish, Caller
  <2> QED
    BY <1>0, <2>1, VersionStutters DEF disk
<1>2. CASE pc' = "idle"
  <2>1. /\ ~directory /\ UNCHANGED <<directory, target>>
        /\ Caller' = "none"
        /\ \/ purpose = "commit" /\ outcome' = "success" /\ pc = "sync"
           \/ purpose = "command" /\ outcome' = "recovered"
           \/ purpose = "rollback" /\ outcome' = "failed"
    BY <1>0, <1>2 DEF LookForTransaction, Synced, RecoveryReturns, Finish, Caller, disk, IInv, Directory
  <2>2. Version = target[1]
    BY <2>1 DEF Version, IInv, Directory
  <2>3. CASE purpose = "commit" /\ outcome' = "success" /\ pc = "sync"
    <3>1. Version = refreshes /\ Caller = "refresh"
      BY <2>2, <2>3 DEF IInv, Endings, Holds, Caller, Targets
    <3> QED
      BY <1>0, <2>1, <2>3, <3>1, VersionType DEF Replacement!Next, Replacement!Succeed, Replacement!End
  <2>4. CASE purpose = "command" /\ outcome' = "recovered"
    <3>1. Caller = "recover"
      BY <1>0, <2>4 DEF Caller
    <3> QED
      BY <1>0, <2>1, <2>4, <3>1, VersionType DEF Replacement!Next, Replacement!Recover, Replacement!End
  <2>5. CASE purpose = "rollback" /\ outcome' = "failed"
    <3>1. Caller = "refresh"
      BY <1>0, <2>5 DEF Caller
    <3> QED
      BY <1>0, <2>1, <2>5, <3>1, VersionType DEF Replacement!Next, Replacement!Fail, Replacement!End
  <2> QED
    BY <2>1, <2>3, <2>4, <2>5
<1> QED
  BY <1>1, <1>2

\* The work of a refresh and of a recovery between its begin and its end.
LEMMA WorkImplements ==
    ASSUME IInv, IInv', Numbered,
           RestoreTarget \/ RestoredAll \/ RemoveDirectory \/ MakeTransaction \/ BackupTarget
           \/ StageTargets \/ WriteJournal \/ ReplaceTarget \/ ValidateCheckedIn
    PROVE  [Replacement!Next]_(Replacement!vars)
<1> USE RefreshAssumption
<1>t. 1 \in Targets
  BY DEF Targets
<1>1. CASE RestoreTarget \/ RestoredAll \/ StageTargets \/ ReplaceTarget \/ ValidateCheckedIn
  <2>1. UNCHANGED <<directory, backup, journal, refreshes, outcome, torn>> /\ Caller' = Caller
    BY <1>1 DEF RestoreTarget, RestoredAll, StageTargets, ReplaceTarget, ValidateCheckedIn,
       disk, history, Caller, IInv, Endings, Refreshing
  <2>2. Version' = Version /\ directory
    BY <1>1, <2>1 DEF RestoreTarget, RestoredAll, StageTargets, ReplaceTarget, ValidateCheckedIn,
       disk, Version, AllBackups, IInv, Directory, Progress, Refreshing
  <2> QED
    BY <2>1, <2>2, VersionStutters
<1>2. CASE BackupTarget \/ WriteJournal
  <2>1. /\ UNCHANGED <<target, directory, refreshes, outcome, torn>> /\ Caller' = Caller
        /\ directory /\ ~torn /\ journal = None
    BY <1>2 DEF BackupTarget, WriteJournal, history, Caller, IInv, Directory, Progress, Refreshing
  <2>2. journal' = None \/ journal'[1] = target[1]
    BY <1>t, <1>2, <2>1 DEF BackupTarget, WriteJournal, IInv, Progress
  <2>3. Version' = Version
    BY <2>1, <2>2 DEF Version
  <2> QED
    BY <2>1, <2>3, VersionStutters
<1>3. CASE MakeTransaction
  <2>1. /\ pc = "mkdir" /\ purpose = "start" /\ Caller = "refresh" /\ Caller' = "refresh"
        /\ directory' = TRUE /\ Version' = Version /\ UNCHANGED <<refreshes, outcome>>
    BY <1>3 DEF MakeTransaction, Caller, Version, AllBackups, IInv, Endings
  <2> QED
    BY <2>1 DEF Replacement!Next, Replacement!Open
<1>4. CASE RemoveDirectory
  <2>1. /\ UNCHANGED <<target, backup, journal, refreshes, outcome>> /\ Caller' = Caller
        /\ ~torn /\ ~torn' /\ directory' = FALSE /\ journal = None /\ Caller # "none"
    BY <1>4 DEF RemoveDirectory, Caller, IInv, Directory
  <2>2. Version' = Version
    BY <2>1 DEF Version
  <2>3. target' = [i \in Targets |-> Version']
    <3>1. Version' = target[1] /\ DOMAIN target = Targets
      BY <2>1 DEF Version, IInv, TypeOK
    <3>2. \A i \in Targets : target[i] = target[1]
      BY <1>t, <1>4 DEF RemoveDirectory, IInv, Mixed, Whole
    <3> QED
      BY <2>1, <3>1, <3>2 DEF IInv, TypeOK
  <2>4. Version # None
    BY <2>1, VersionType
  <2> QED
    BY <2>1, <2>2, <2>3, <2>4 DEF Replacement!Next, Replacement!Settle
<1> QED
  BY <1>1, <1>2, <1>3, <1>4

LEMMA BeginImplements ==
    ASSUME BeginRefresh \/ BeginRecover
    PROVE  Replacement!Next
<1>1. /\ Caller = "none" /\ outcome' = "none" /\ Version' = Version
      /\ (IF directory THEN None ELSE target)' = IF directory THEN None ELSE target
  BY DEF BeginRefresh, BeginRecover, Caller, Version, AllBackups, disk, history
<1>2. \/ Caller' = "refresh" /\ refreshes' = refreshes + 1
      \/ Caller' = "recover" /\ refreshes' = refreshes
  BY DEF BeginRefresh, BeginRecover, Caller
<1> QED
  BY <1>1, <1>2 DEF Replacement!Next, Replacement!Begin

\* Every step of the transaction on five files is one step of a replacement that
\* is atomic, or none: for any number of targets and calls, each of them stopped
\* anywhere.  The new set stands from the first removal of a trace, not before.
THEOREM RefreshIsAtomic == Spec => ImplementsReplacement
<1>1. Init => Replacement!Init
  BY RefreshAssumption DEF Init, Replacement!Init, Version, Caller, Targets
<1>2. IInv /\ IInv' /\ Numbered /\ [Next]_vars => [Replacement!Next]_(Replacement!vars)
  <2> SUFFICES ASSUME IInv, IInv', Numbered, [Next]_vars
               PROVE  [Replacement!Next]_(Replacement!vars)
    OBVIOUS
  <2>1. CASE UNCHANGED vars
    BY <2>1 DEF vars, Replacement!vars, Version, Caller, AllBackups
  <2>2. CASE Next
    BY <2>2, BeginImplements, ReturnsImplement, WorkImplements, RemovalCommits, StopsImplement
       DEF Next
  <2> QED
    BY <2>1, <2>2
<1> QED
  BY <1>1, <1>2, IInvAlways, NumberedAlways, PTL DEF Spec, ImplementsReplacement, Replacement!Spec

=============================================================================
