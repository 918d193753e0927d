--------------------------- MODULE ArtifactRefresh ---------------------------
(***************************************************************************)
(* mke.evaluation.artifact_refresh: the checked-in retrieval artifacts are *)
(* replaced as a set.  A transaction directory receives a backup of every  *)
(* target and the staged files; a journal with the digests of the backups  *)
(* makes the transaction one that must be rolled back; then the targets    *)
(* are replaced one after the other; the removal of the directory commits. *)
(* Every call first recovers what an earlier one has left.                 *)
(*                                                                         *)
(* Covered: an exception or a handled signal at every step, the death of   *)
(* the process at every step, recovery that fails half way or dies itself. *)
(* Not covered: loss of power (what fsync is for), and two calls at once,  *)
(* which nothing in the code excludes.                                     *)
(*                                                                         *)
(* The content of a file is the number of the call that staged it.         *)
(***************************************************************************)
EXTENDS Naturals

CONSTANTS
    TargetCount,    \* TARGETS, in order
    MaxRefreshes,   \* bound: calls of refresh_artifact_set
    None            \* no such file

ASSUME RefreshAssumption ==
    /\ TargetCount \in Nat \ {0}
    /\ MaxRefreshes \in Nat
    /\ None \notin Nat
    /\ None \notin [1 .. TargetCount -> 0 .. MaxRefreshes]

Targets == 1 .. TargetCount

VARIABLES
    target,     \* the checked-in files
    directory,  \* whether the transaction directory exists
    backup,     \* backups/<index> in it
    journal,    \* original_sha256 of every record, or None: no journal.json
    pc,         \* where the call is
    index,      \* the target it is at
    purpose,    \* what it recovers for, or removes the directory for
    refreshes,  \* how many calls of refresh_artifact_set there were
    outcome,    \* how the last call ended
    original,   \* history: what the targets held when the transaction began
    validated,  \* history: the replaced set has passed its checks
    torn        \* history: a removal stopped between the backups and the journal

vars == <<target, directory, backup, journal, pc, index, purpose, refreshes,
          outcome, original, validated, torn>>

disk == <<target, directory, backup, journal>>
history == <<original, validated, torn>>

Contents == 0 .. MaxRefreshes

Recovering == {"recover", "restore", "discard", "sync"}
Refreshing == {"backup", "stage", "journal", "replace", "validate"}
Purposes == {"start", "command", "rollback", "commit"}
Outcomes == {"none", "success", "failed", "recovered", "recovery_failed", "not_begun", "killed"}

TypeOK ==
    /\ target \in [Targets -> Contents]
    /\ directory \in BOOLEAN
    /\ backup \in [Targets -> Contents \union {None}]
    /\ journal \in [Targets -> Contents] \union {None}
    /\ pc \in {"idle", "mkdir"} \union Recovering \union Refreshing
    /\ index \in 1 .. TargetCount + 1
    /\ purpose \in Purposes
    /\ refreshes \in Contents
    /\ outcome \in Outcomes
    /\ original \in Contents
    /\ validated \in BOOLEAN
    /\ torn \in BOOLEAN

Init ==
    /\ target = [i \in Targets |-> 0]
    /\ directory = FALSE
    /\ backup = [i \in Targets |-> None]
    /\ journal = None
    /\ pc = "idle"
    /\ index = 1
    /\ purpose = "command"
    /\ refreshes = 0
    /\ outcome = "none"
    /\ original = 0
    /\ validated = FALSE
    /\ torn = FALSE

-----------------------------------------------------------------------------
Holds(content) == \A i \in Targets : target[i] = content

Whole == \A i, j \in Targets : target[i] = target[j]

NoBackup == \A i \in Targets : backup[i] = None

AllBackups == \A i \in Targets : backup[i] # None

Finish(result) == pc' = "idle" /\ outcome' = result

-----------------------------------------------------------------------------
(* The two commands.                                                       *)

BeginRefresh ==
    /\ pc = "idle"
    /\ refreshes < MaxRefreshes
    /\ refreshes' = refreshes + 1
    /\ pc' = "recover"
    /\ purpose' = "start"
    /\ outcome' = "none"
    /\ UNCHANGED <<disk, index, history>>

BeginRecover ==
    /\ pc = "idle"
    /\ pc' = "recover"
    /\ purpose' = "command"
    /\ outcome' = "none"
    /\ UNCHANGED <<disk, index, refreshes, history>>

-----------------------------------------------------------------------------
(* recover_artifact_refresh, and the removal of the directory.             *)

\* Mutation: the exception is not raised again after the rollback.
RecoverySwallows ==
    \/ purpose = "start" /\ pc' = "mkdir" /\ UNCHANGED outcome
    \/ purpose = "command" /\ Finish("recovered")
    \/ purpose = "rollback" /\ Finish("success")

RecoveryReturns ==
    \/ purpose = "start" /\ pc' = "mkdir" /\ UNCHANGED outcome
    \/ purpose = "command" /\ Finish("recovered")
    \/ purpose = "rollback" /\ Finish("failed")

LookForTransaction ==
    /\ pc = "recover"
    /\ \/ ~directory /\ RecoveryReturns
       \/ directory /\ journal = None /\ pc' = "discard" /\ UNCHANGED outcome
       \/ directory /\ journal # None /\ pc' = "restore" /\ UNCHANGED outcome
    /\ index' = 1
    /\ UNCHANGED <<disk, purpose, refreshes, history>>

\* Mutation: the targets that were not replaced yet are taken to need nothing.
RestoreReplacedOnly ==
    /\ pc = "restore"
    /\ index \in Targets
    /\ backup[index] = journal[index]
    /\ target' = [target EXCEPT ![index] = IF index = TargetCount THEN @ ELSE journal[index]]
    /\ index' = index + 1
    /\ UNCHANGED <<directory, backup, journal, pc, purpose, refreshes, outcome, history>>

\* The backup must have the digest in the journal; it is copied beside the
\* target and renamed over it.
RestoreTarget ==
    /\ pc = "restore"
    /\ index \in Targets
    /\ backup[index] = journal[index]
    /\ target' = [target EXCEPT ![index] = journal[index]]
    /\ index' = index + 1
    /\ UNCHANGED <<directory, backup, journal, pc, purpose, refreshes, outcome, history>>

RestoredAll ==
    /\ pc = "restore"
    /\ index \notin Targets
    /\ pc' = "discard"
    /\ UNCHANGED <<disk, index, purpose, refreshes, outcome, history>>

\* shutil.rmtree takes the entries in the order of the directory: journal.json
\* before or after all of backups/, whose files go in any order.
RemoveBackup(i) ==
    /\ pc = "discard"
    /\ backup[i] # None
    /\ backup' = [backup EXCEPT ![i] = None]
    /\ UNCHANGED <<target, directory, journal, pc, index, purpose, refreshes, outcome, history>>

RemoveJournal ==
    /\ pc = "discard"
    /\ journal # None
    /\ NoBackup \/ AllBackups
    /\ journal' = None
    /\ UNCHANGED <<target, directory, backup, pc, index, purpose, refreshes, outcome, history>>

RemoveDirectory ==
    /\ pc = "discard"
    /\ NoBackup
    /\ journal = None
    /\ directory' = FALSE
    /\ pc' = "sync"
    /\ torn' = FALSE
    /\ UNCHANGED <<target, backup, journal, index, purpose, refreshes, outcome, original, validated>>

Synced ==
    /\ pc = "sync"
    /\ \/ purpose = "commit" /\ Finish("success")
       \/ RecoveryReturns
    /\ UNCHANGED <<disk, index, purpose, refreshes, history>>

-----------------------------------------------------------------------------
(* refresh_artifact_set.                                                   *)

MakeTransaction ==
    /\ pc = "mkdir"
    /\ ~directory
    /\ directory' = TRUE
    /\ pc' = "backup"
    /\ index' = 1
    /\ original' = target[1]
    /\ validated' = FALSE
    /\ UNCHANGED <<target, backup, journal, purpose, refreshes, outcome, torn>>

BackupTarget ==
    /\ pc = "backup"
    /\ IF index \in Targets
       THEN /\ backup' = [backup EXCEPT ![index] = target[index]]
            /\ index' = index + 1
            /\ UNCHANGED pc
       ELSE pc' = "stage" /\ UNCHANGED <<backup, index>>
    /\ UNCHANGED <<target, directory, journal, purpose, refreshes, outcome, history>>

\* Staging, validation of what was staged, comparison with what is checked in.
StageTargets ==
    /\ pc = "stage"
    /\ pc' = "journal"
    /\ UNCHANGED <<disk, index, purpose, refreshes, outcome, history>>

\* Mutation: the journal is left for the time after the replacements.
PostponeJournal ==
    /\ pc = "journal"
    /\ pc' = "replace"
    /\ index' = 1
    /\ UNCHANGED <<disk, purpose, refreshes, outcome, history>>

\* .journal.tmp, renamed; the digests are those of the backups.
WriteJournal ==
    /\ pc = "journal"
    /\ journal' = backup
    /\ pc' = "replace"
    /\ index' = 1
    /\ UNCHANGED <<target, directory, backup, purpose, refreshes, outcome, history>>

\* The journal is written again after each replacement; what recovery reads of
\* it does not change.
ReplaceTarget ==
    /\ pc = "replace"
    /\ IF index \in Targets
       THEN /\ target' = [target EXCEPT ![index] = refreshes]
            /\ index' = index + 1
            /\ UNCHANGED pc
       ELSE pc' = "validate" /\ UNCHANGED <<target, index>>
    /\ UNCHANGED <<directory, backup, journal, purpose, refreshes, outcome, history>>

ValidateCheckedIn ==
    /\ pc = "validate"
    /\ validated' = TRUE
    /\ pc' = "discard"
    /\ purpose' = "commit"
    /\ UNCHANGED <<disk, index, refreshes, outcome, original, torn>>

-----------------------------------------------------------------------------
(* Exceptions, handled signals, death.                                     *)

\* Whether stopping here leaves a journal without all of its backups.
TornNow == torn \/ (pc = "discard" /\ journal # None /\ ~AllBackups)

\* Mutation: the exception is reported without rolling back.
FailAtOnce ==
    /\ \/ pc \in Refreshing
       \/ pc \in {"discard", "sync"} /\ purpose = "commit"
    /\ Finish("failed")
    /\ torn' = TornNow
    /\ UNCHANGED <<disk, index, purpose, refreshes, original, validated>>

\* The except clause of refresh_artifact_set rolls back.
FailRefresh ==
    /\ \/ pc \in Refreshing
       \/ pc \in {"discard", "sync"} /\ purpose = "commit"
    /\ pc' = "recover"
    /\ purpose' = "rollback"
    /\ torn' = TornNow
    /\ UNCHANGED <<disk, index, refreshes, outcome, original, validated>>

\* A backup that is missing or has another digest ends recovery like this, too.
FailRecovery ==
    /\ pc \in Recovering
    /\ purpose # "commit"
    /\ Finish("recovery_failed")
    /\ torn' = TornNow
    /\ UNCHANGED <<disk, index, purpose, refreshes, original, validated>>

\* mkdir stands before the try: what it made stays.
FailMakeTransaction ==
    /\ pc = "mkdir"
    /\ directory' \in {directory, TRUE}
    /\ Finish("not_begun")
    /\ UNCHANGED <<target, backup, journal, index, purpose, refreshes, history>>

Kill ==
    /\ pc # "idle"
    /\ Finish("killed")
    /\ torn' = TornNow
    /\ UNCHANGED <<disk, index, purpose, refreshes, original, validated>>

-----------------------------------------------------------------------------
Next ==
    \/ BeginRefresh \/ BeginRecover
    \/ LookForTransaction \/ RestoreTarget \/ RestoredAll
    \/ \E i \in Targets : RemoveBackup(i)
    \/ RemoveJournal \/ RemoveDirectory \/ Synced
    \/ MakeTransaction \/ BackupTarget \/ StageTargets \/ WriteJournal
    \/ ReplaceTarget \/ ValidateCheckedIn
    \/ FailRefresh \/ FailRecovery \/ FailMakeTransaction \/ Kill

Spec == Init /\ [][Next]_vars

-----------------------------------------------------------------------------
(* Properties.                                                             *)

\* Files of two calls stand side by side only while the transaction directory
\* is there: whoever removes it has put one whole set in place first, even
\* where a removal was cut short before.
SettledIsWhole == ~directory => Whole

\* While the targets are mixed, a journal and every backup it names are there,
\* and they are the set the transaction began with: recovery can restore it.
\* Except after a removal that stopped between the backups and the journal.
MixedIsRecoverable ==
    ~Whole /\ ~torn =>
        /\ journal # None
        /\ \A i \in Targets : backup[i] = journal[i] /\ journal[i] = original

\* A refresh that reports an ordinary failure has rolled back completely: the
\* set it found is there again, or, when it failed after the new set was
\* validated, the one or the other; and it leaves no transaction behind.
FailureRollsBack ==
    outcome = "failed" =>
        /\ ~directory
        /\ Holds(original) \/ (validated /\ Holds(refreshes))

\* Success is reported for the whole new set only, with the transaction gone.
SuccessIsWhole ==
    outcome = "success" => Holds(refreshes) /\ ~directory

\* What the plan of the workflow says without exception: whenever a call ends
\* with the set mixed, the next one can restore the originals.
MixedIsAlwaysRecoverable ==
    ~Whole => journal # None /\ \A i \in Targets : backup[i] = journal[i]

-----------------------------------------------------------------------------
(* The set as one thing that is replaced, stated in AtomicReplacement.     *)

\* What a recovery from here ends with: the originals while the journal and all
\* the backups are there, and what the targets hold once some are removed.
Version ==
    IF torn THEN None
    ELSE IF journal # None /\ AllBackups THEN journal[1] ELSE target[1]

Caller ==
    IF pc = "idle" THEN "none" ELSE IF purpose = "command" THEN "recover" ELSE "refresh"

Replacement == INSTANCE AtomicReplacement WITH
    version <- Version,
    content <- IF directory THEN None ELSE target,
    call    <- Caller,
    calls   <- refreshes,
    answer  <- outcome

\* Five files change as one: the new set becomes the one that stands in a single
\* step, the removal of the first trace of the transaction, by the refresh that
\* made it; nothing else that happens, at whatever step a call or its recovery
\* is stopped, changes what the next recovery puts back, and a reader outside a
\* transaction finds exactly that set.
ImplementsReplacement == Replacement!Spec

=============================================================================
