------------------------ MODULE IngestOperationProofs ------------------------
(***************************************************************************)
(* For any set of ingest operations of any routes, and whichever process   *)
(* groups outlive SIGKILL: cancellation that won is final, the caller is   *)
(* told the truth about the Publication, and when it is told, nothing of   *)
(* its operation is left over.  Terminators hit only what was cancelled or *)
(* shut down.                                                              *)
(*                                                                         *)
(* The whole implements CancellableIngest, the race for one latch.         *)
(*                                                                         *)
(* IInv relates the coroutine, the worker, its Run and the controller;     *)
(* TInv the children and their terminators, on top of it; RInv is what the *)
(* liveness properties need besides fairness: nobody waits for a child     *)
(* that no terminator was called for, and every thread runs down.          *)
(***************************************************************************)
EXTENDS IngestOperation, TLAPS

\* What the argument needs to know of the types.
Shape ==
    /\ active \subseteq Ops
    /\ children \in [Ops -> SUBSET Nat]
    /\ client \in [Ops -> ClientStates]
    /\ reply \in [Ops -> Replies]
    /\ worker \in [Ops -> WorkerStates]
    /\ spawned \in [Ops -> Nat]
    /\ run \in [Ops -> RunStates]

\* The worker went past begin_publication_commit, or its Run shows that it did.
PastClaim(o) ==
    \/ worker[o] \in {"persist", "activate"}
    \/ run[o] \in {"validated", "published", "superseded"}

\* A live operation past its claim holds the commit.
CommitHeld == \A o \in Ops : o \in active /\ PastClaim(o) => o \in committing

\* Commit and cancellation have one winner, and both are forgotten together.
OneWinner ==
    /\ cancelled \cap committing = {}
    /\ cancelled \subseteq active

\* Terminators run on behalf of a recorded cancellation.
TerminatingIsCancelled == \A o \in Ops : client[o] = "terminating" => o \in cancelled

\* The controller knows an operation until its caller is answered.
InProgress ==
    \A o \in Ops : client[o] \in {"awaiting", "terminating", "cleanup"} => o \in active

\* An operation that has not begun has no thread and no Run.
NotBegun ==
    \A o \in Ops : client[o] = "idle" => worker[o] = "idle" /\ run[o] = "absent"

\* At most the last child is registered, and only while its output is read.
ChildrenRead ==
    \A o \in Ops :
        /\ children[o] \subseteq {spawned[o]}
        /\ children[o] # {} => worker[o] \in {"reading", "closing", "aborting"}

\* The caller has the outcome of a worker that ended, or the worker can no
\* longer claim the commit.
Answered ==
    \A o \in Ops : reply[o] # "none" =>
        /\ client[o] = "ended"
        /\ \/ worker[o] = "done" /\ reply[o] = Outcome(o)
           \/ /\ reply[o] \in {"cancelled", "error"}
              /\ ~PastClaim(o)
              /\ o \notin active \/ o \in cancelled

IInv ==
    /\ Shape
    /\ CommitHeld
    /\ OneWinner
    /\ TerminatingIsCancelled
    /\ InProgress
    /\ NotBegun
    /\ ChildrenRead
    /\ Answered

-----------------------------------------------------------------------------
LEMMA IInvInit == Init => IInv
  BY DEF Init, IInv, Shape, CommitHeld, OneWinner, TerminatingIsCancelled,
         InProgress, NotBegun,
         ChildrenRead, Answered, PastClaim, ClientStates, Replies, WorkerStates, RunStates

\* Steps of children and terminators leave everything the invariant reads
\* alone, but for where the worker goes next.
LEMMA WorkerMoves ==
    ASSUME IInv, NEW o \in Ops, NEW state \in WorkerStates \ {"idle", "persist", "activate"},
           Goto(o, state), worker[o] # "idle", worker[o] # "done",
           children[o] # {} => state \in {"reading", "closing", "aborting"},
           UNCHANGED <<controller, loop, run, spawned>>
    PROVE  IInv'
  <1>1. Shape'
    BY DEF IInv, Shape, Goto, controller, loop
  <1>2. CommitHeld' /\ OneWinner' /\ TerminatingIsCancelled' /\ InProgress'
    BY DEF IInv, Shape, Goto, controller, loop, CommitHeld, OneWinner,
           TerminatingIsCancelled, InProgress, PastClaim
  <1>3. NotBegun' /\ ChildrenRead'
    BY DEF IInv, Shape, Goto, controller, loop, NotBegun, ChildrenRead
  <1>4. Answered'
    BY DEF IInv, Shape, Goto, controller, loop, Answered, PastClaim, Outcome
  <1> QED BY <1>1, <1>2, <1>3, <1>4 DEF IInv

\* A step that changes nothing the invariant reads.
LEMMA Quiet ==
    ASSUME IInv, UNCHANGED <<controller, client, reply, worker, spawned, run>>
    PROVE  IInv'
  BY DEF IInv, controller, Shape, CommitHeld, OneWinner, TerminatingIsCancelled,
         InProgress, NotBegun,
         ChildrenRead, Answered, PastClaim, Outcome

-----------------------------------------------------------------------------
(* The event loop.                                                         *)

LEMMA BeginKeepsIInv ==
    ASSUME IInv, NEW o \in Ops, Begin(o)
    PROVE  IInv'
  <1>1. worker[o] = "idle" /\ run[o] = "absent" /\ reply[o] = "none"
    BY DEF IInv, Begin, NotBegun, Answered
  <1>2. Shape'
    BY DEF IInv, Shape, Begin, ClientStates, WorkerStates
  <1>3. CommitHeld' /\ OneWinner' /\ TerminatingIsCancelled' /\ InProgress' /\ NotBegun'
    BY <1>1 DEF IInv, Shape, Begin, CommitHeld, OneWinner, TerminatingIsCancelled,
                InProgress, NotBegun, PastClaim
  <1>4. ChildrenRead' /\ Answered'
    BY <1>1 DEF IInv, Shape, Begin, ChildrenRead, Answered, PastClaim, Outcome
  <1> QED BY <1>2, <1>3, <1>4 DEF IInv

LEMMA CancelKeepsIInv ==
    ASSUME IInv, NEW o \in Ops, Cancel(o)
    PROVE  IInv'
  <1>1. o \in active /\ reply[o] = "none"
    BY DEF IInv, Cancel, CommitWon, InProgress, Answered
  <1>2. Shape'
    BY DEF IInv, Shape, Cancel, CommitWon, thread, ClientStates
  <1>3. CommitHeld' /\ OneWinner' /\ TerminatingIsCancelled' /\ InProgress'
    BY <1>1 DEF IInv, Shape, Cancel, CommitWon, thread, CommitHeld, OneWinner,
                TerminatingIsCancelled, InProgress, PastClaim
  <1>4. NotBegun' /\ ChildrenRead' /\ Answered'
    BY <1>1 DEF IInv, Shape, Cancel, CommitWon, thread, NotBegun, ChildrenRead, Answered,
                PastClaim, Outcome
  <1> QED BY <1>2, <1>3, <1>4 DEF IInv

\* An answer keeps the invariant if the worker ended, or never gets further.
LEMMA EndOperationKeepsIInv ==
    ASSUME IInv, NEW o \in Ops, NEW answer \in Replies \ {"none"}, EndOperation(o, answer),
           reply[o] = "none", client[o] # "idle",
           UNCHANGED <<worker, spawned, run>>,
           \/ worker[o] = "done" /\ answer = Outcome(o)
           \/ o \in cancelled /\ answer \in {"cancelled", "error"}
    PROVE  IInv'
  <1>1. worker[o] = "done" => children[o] = {}
    BY DEF IInv, ChildrenRead
  <1>2. o \in cancelled => ~PastClaim(o)
    BY DEF IInv, OneWinner, CommitHeld
  <1>3. Shape'
    BY DEF IInv, Shape, EndOperation, ClientStates, Replies
  <1>4. CommitHeld' /\ OneWinner' /\ TerminatingIsCancelled' /\ InProgress'
    BY DEF IInv, Shape, EndOperation, CommitHeld, OneWinner, TerminatingIsCancelled,
           InProgress, PastClaim
  <1>5. NotBegun' /\ ChildrenRead'
    BY DEF IInv, Shape, EndOperation, NotBegun, ChildrenRead
  <1>6. ASSUME NEW p \in Ops, reply'[p] # "none", p # o
        PROVE  /\ client'[p] = "ended"
               /\ \/ worker'[p] = "done" /\ reply'[p] = Outcome(p)'
                  \/ /\ reply'[p] \in {"cancelled", "error"}
                     /\ ~PastClaim(p)'
                     /\ p \notin active' \/ p \in cancelled'
    BY <1>6 DEF IInv, Shape, EndOperation, Answered, PastClaim, Outcome
  <1>7. /\ client'[o] = "ended"
        /\ \/ worker'[o] = "done" /\ reply'[o] = Outcome(o)'
           \/ /\ reply'[o] \in {"cancelled", "error"}
              /\ ~PastClaim(o)'
              /\ o \notin active' \/ o \in cancelled'
    <2>1. CASE children[o] = {}
      BY <2>1, <1>2 DEF IInv, Shape, EndOperation, PastClaim, Outcome
    <2>2. CASE children[o] # {}
      BY <2>2, <1>1, <1>2 DEF IInv, Shape, EndOperation, PastClaim
    <2> QED BY <2>1, <2>2
  <1>8. Answered'
    BY <1>6, <1>7 DEF Answered
  <1> QED BY <1>3, <1>4, <1>5, <1>8 DEF IInv

LEMMA LoopStepKeepsIInv ==
    ASSUME IInv, NEW o \in Ops, LoopStep(o)
    PROVE  IInv'
  <1>1. CASE Receive(o)
    <2>1. reply[o] = "none" /\ client[o] # "idle" /\ worker[o] = "done"
      BY <1>1 DEF Receive, IInv, Answered
    <2>2. Outcome(o) \in Replies \ {"none"}
      BY DEF Outcome, Replies
    <2> QED BY <1>1, <2>1, <2>2, EndOperationKeepsIInv DEF Receive, thread
  <1>2. CASE FinishCancelled(o)
    <2>1. reply[o] = "none" /\ client[o] # "idle" /\ worker[o] = "done"
      BY <1>2 DEF FinishCancelled, WorkerEnded, IInv, Answered
    <2>2. PICK answer : answer = CancelAnswer(o)
      OBVIOUS
    <2>3. /\ answer \in Replies \ {"none"}
          /\ answer = Outcome(o) \/ (o \in cancelled /\ answer = "cancelled")
      BY <2>2 DEF CancelAnswer, Outcome, Replies
    <2>4. EndOperation(o, answer) /\ UNCHANGED <<worker, spawned, run>>
      BY <1>2, <2>2 DEF FinishCancelled, thread
    <2> QED BY <2>1, <2>3, <2>4, EndOperationKeepsIInv
  <1>3. CASE CancelTerminates(o)
    <2>1. /\ reply[o] = "none" /\ client[o] = "terminating" /\ o \in cancelled
          /\ o \in active
      BY <1>3 DEF CancelTerminates, IInv, Answered, TerminatingIsCancelled, InProgress
    <2>2. CASE UNCHANGED <<client, reply, controller>>
      BY <1>3, <2>2, Quiet DEF CancelTerminates
    <2>3. CASE EndOperation(o, "error")
      BY <1>3, <2>1, <2>3, EndOperationKeepsIInv DEF CancelTerminates, Replies
    <2>4. CASE /\ client' = [client EXCEPT ![o] = "cleanup"]
               /\ UNCHANGED <<reply, controller>>
      <3>1. UNCHANGED <<reply, controller, worker, spawned, run>>
        BY <1>3, <2>4 DEF CancelTerminates
      <3>2. Shape' /\ CommitHeld' /\ OneWinner' /\ TerminatingIsCancelled' /\ InProgress'
        BY <2>1, <2>4, <3>1 DEF IInv, Shape, CommitHeld, OneWinner, TerminatingIsCancelled,
                                InProgress, PastClaim, controller, ClientStates
      <3>3. NotBegun' /\ ChildrenRead' /\ Answered'
        BY <2>1, <2>4, <3>1 DEF IInv, Shape, NotBegun, ChildrenRead, Answered, PastClaim,
                                Outcome, controller
      <3> QED BY <3>2, <3>3 DEF IInv
    <2> QED BY <1>3, <2>2, <2>3, <2>4 DEF CancelTerminates
  <1> QED BY <1>1, <1>2, <1>3 DEF LoopStep

-----------------------------------------------------------------------------
(* The worker thread.                                                      *)

\* A worker's Run changes before its claim, or at the end of its life.
LEMMA RunMoves ==
    ASSUME IInv, NEW o \in Ops, NEW state \in WorkerStates \ {"idle"}, Goto(o, state),
           NEW s \in RunStates, run' = [run EXCEPT ![o] = s],
           worker[o] # "idle", worker[o] # "done",
           children[o] = {},
           PastClaim(o)' => PastClaim(o),
           UNCHANGED <<controller, loop, spawned>>
    PROVE  IInv'
  <1>1. Shape'
    BY DEF IInv, Shape, Goto, controller, loop
  <1>2. CommitHeld' /\ OneWinner' /\ TerminatingIsCancelled' /\ InProgress'
    BY DEF IInv, Shape, Goto, controller, loop, CommitHeld, OneWinner,
           TerminatingIsCancelled, InProgress, PastClaim
  <1>3. NotBegun' /\ ChildrenRead'
    BY DEF IInv, Shape, Goto, controller, loop, NotBegun, ChildrenRead
  <1>4. Answered'
    BY DEF IInv, Shape, Goto, controller, loop, Answered, PastClaim, Outcome
  <1> QED BY <1>1, <1>2, <1>3, <1>4 DEF IInv

LEMMA NextStageGoes ==
    ASSUME NEW o \in Ops, NextStage(o)
    PROVE  \E state \in {"claim", "stage"} : Goto(o, state)
  BY DEF NextStage

LEMMA StageKeepsIInv ==
    ASSUME IInv, NEW o \in Ops, CreateRun(o) \/ ExtractInThread(o) \/ Spawn(o)
    PROVE  IInv'
  <1>1. worker[o] = "stage" /\ children[o] = {}
    BY DEF CreateRun, ExtractInThread, Spawn, AtStage, IInv, ChildrenRead
  <1>2. CASE CreateRun(o)
    <2>1. PICK state \in {"claim", "stage", "settle"} : Goto(o, state)
      BY <1>2, NextStageGoes DEF CreateRun
    <2>2. CASE run' = [run EXCEPT ![o] = "running"]
      <3>1. PastClaim(o)' => PastClaim(o)
        BY <2>1, <2>2, <1>1 DEF PastClaim, Goto, IInv, Shape
      <3> QED BY <1>1, <1>2, <2>1, <2>2, <3>1, RunMoves
            DEF CreateRun, WorkerStates, RunStates
    <2>3. CASE UNCHANGED run
      BY <1>1, <1>2, <2>1, <2>3, WorkerMoves DEF CreateRun, WorkerStates
    <2> QED BY <1>2, <2>2, <2>3 DEF CreateRun
  <1>3. CASE ExtractInThread(o)
    <2>1. PICK state \in {"claim", "stage", "settle"} : Goto(o, state)
      BY <1>3, NextStageGoes DEF ExtractInThread
    <2> QED BY <1>1, <1>3, <2>1, WorkerMoves DEF ExtractInThread, WorkerStates
  <1>4. CASE Spawn(o)
    <2>1. CASE Goto(o, "settle") /\ UNCHANGED spawned
      BY <1>1, <1>4, <2>1, WorkerMoves DEF Spawn, WorkerStates
    <2>2. CASE Goto(o, "spawned") /\ spawned' = [spawned EXCEPT ![o] = @ + 1]
      <3>1. UNCHANGED <<controller, loop, run>>
        BY <1>4 DEF Spawn
      <3>2. Shape' /\ CommitHeld' /\ OneWinner' /\ TerminatingIsCancelled' /\ InProgress'
        BY <1>1, <2>2, <3>1 DEF IInv, Shape, Goto, controller, loop, CommitHeld, OneWinner,
             TerminatingIsCancelled, InProgress, PastClaim, WorkerStates
      <3>3. NotBegun' /\ ChildrenRead' /\ Answered'
        BY <1>1, <2>2, <3>1 DEF IInv, Shape, Goto, controller, loop, NotBegun, ChildrenRead,
             Answered, PastClaim, Outcome
      <3> QED BY <3>2, <3>3 DEF IInv
    <2> QED BY <1>4, <2>1, <2>2 DEF Spawn
  <1> QED BY <1>2, <1>3, <1>4

LEMMA ChildKeepsIInv ==
    ASSUME IInv, NEW o \in Ops,
           Register(o) \/ TerminateRefused(o) \/ ReadResult(o) \/ GiveUp(o)
    PROVE  IInv'
  <1>1. CASE Register(o)
    <2>1. worker[o] = "spawned" /\ children[o] = {}
      BY <1>1 DEF Register, IInv, ChildrenRead
    <2>2. UNCHANGED <<active, cancelled, committing, loop, spawned, run>>
      BY <1>1 DEF Register
    <2>3. CASE UNCHANGED children
      <3>1. PICK state \in {"refused", "aborting", "reading"} : Goto(o, state)
        BY <1>1 DEF Register
      <3> QED BY <2>1, <2>2, <2>3, <3>1, WorkerMoves DEF controller, WorkerStates
    <2>4. CASE /\ children' = [children EXCEPT ![o] = children[o] \cup {spawned[o]}]
               /\ Goto(o, "reading")
      <3>1. Shape' /\ CommitHeld' /\ OneWinner' /\ TerminatingIsCancelled' /\ InProgress'
        BY <2>1, <2>2, <2>4 DEF IInv, Shape, Goto, loop, CommitHeld, OneWinner,
             TerminatingIsCancelled, InProgress, PastClaim, WorkerStates
      <3>2. NotBegun' /\ ChildrenRead' /\ Answered'
        BY <2>1, <2>2, <2>4 DEF IInv, Shape, Goto, loop, NotBegun, ChildrenRead, Answered,
             PastClaim, Outcome
      <3> QED BY <3>1, <3>2 DEF IInv
    <2> QED BY <1>1, <2>3, <2>4 DEF Register
  <1>2. CASE TerminateRefused(o)
    <2>1. PICK state \in {"reading", "aborting"} : Goto(o, state)
      BY <1>2 DEF TerminateRefused
    <2> QED BY <1>2, <2>1, WorkerMoves DEF TerminateRefused, WorkerStates
  <1>3. CASE ReadResult(o)
    <2>1. PICK state \in {"closing", "aborting"} : Goto(o, state)
      BY <1>3 DEF ReadResult
    <2> QED BY <1>3, <2>1, WorkerMoves DEF ReadResult, WorkerStates
  <1>4. CASE GiveUp(o)
    BY <1>4, WorkerMoves DEF GiveUp, WorkerStates
  <1> QED BY <1>1, <1>2, <1>3, <1>4

LEMMA UnregisterKeepsIInv ==
    ASSUME IInv, NEW o \in Ops, Unregister(o)
    PROVE  IInv'
  <1>1. worker[o] \in {"closing", "aborting"}
    BY DEF Unregister
  <1>2. PICK state \in {"claim", "stage", "settle"} : Goto(o, state)
    BY NextStageGoes DEF Unregister
  <1>3. /\ children' = [children EXCEPT ![o] = children[o] \ {spawned[o]}]
        /\ UNCHANGED <<active, cancelled, committing, loop, spawned, run>>
    BY DEF Unregister
  <1>4. Shape' /\ CommitHeld' /\ OneWinner' /\ TerminatingIsCancelled' /\ InProgress'
    BY <1>1, <1>2, <1>3 DEF IInv, Shape, Goto, loop, CommitHeld, OneWinner,
         TerminatingIsCancelled, InProgress, PastClaim, WorkerStates
  <1>5. NotBegun' /\ ChildrenRead' /\ Answered'
    BY <1>1, <1>2, <1>3 DEF IInv, Shape, Goto, loop, NotBegun, ChildrenRead, Answered,
         PastClaim, Outcome
  <1> QED BY <1>4, <1>5 DEF IInv

\* The one step that matters: the claim is refused to a cancelled operation.
LEMMA ClaimKeepsIInv ==
    ASSUME IInv, NEW o \in Ops, ClaimCommit(o)
    PROVE  IInv'
  <1>1. worker[o] = "claim" /\ children[o] = {}
    BY DEF ClaimCommit, IInv, ChildrenRead
  <1>2. CASE CommitGranted(o)
    <2>1. /\ o \in active /\ o \notin cancelled
          /\ committing' = committing \cup {o} /\ Goto(o, "persist")
          /\ UNCHANGED <<active, children, cancelled, loop, spawned, run>>
      BY <1>2 DEF ClaimCommit, CommitGranted
    <2>2. Shape' /\ CommitHeld' /\ OneWinner' /\ TerminatingIsCancelled' /\ InProgress'
      BY <1>1, <2>1 DEF IInv, Shape, Goto, loop, CommitHeld, OneWinner,
           TerminatingIsCancelled, InProgress, PastClaim, WorkerStates
    <2>3. NotBegun' /\ ChildrenRead' /\ Answered'
      BY <1>1, <2>1 DEF IInv, Shape, Goto, loop, NotBegun, ChildrenRead, Answered,
           PastClaim, Outcome
    <2> QED BY <2>2, <2>3 DEF IInv
  <1>3. CASE ~CommitGranted(o)
    BY <1>1, <1>3, WorkerMoves DEF ClaimCommit, controller, WorkerStates
  <1> QED BY <1>2, <1>3

LEMMA PublishKeepsIInv ==
    ASSUME IInv, NEW o \in Ops, PersistCandidate(o) \/ Activate(o) \/ Settle(o)
    PROVE  IInv'
  <1>1. /\ worker[o] \in {"persist", "activate", "settle"}
        /\ children[o] = {}
        /\ UNCHANGED <<controller, loop, spawned>>
    BY DEF PersistCandidate, Activate, Settle, IInv, ChildrenRead
  <1>2. PICK state \in {"activate", "settle", "done"} : Goto(o, state)
    BY DEF PersistCandidate, Activate, Settle
  <1>3. run[o] \in RunStates /\ run = [run EXCEPT ![o] = run[o]]
    BY DEF IInv, Shape
  <1>4. PICK s \in RunStates : run' = [run EXCEPT ![o] = s]
    BY <1>3 DEF PersistCandidate, Activate, Settle, Settled, RunStates
  <1>5. PastClaim(o)' => PastClaim(o)
    <2>1. CASE worker[o] \in {"persist", "activate"}
      BY <2>1 DEF PastClaim
    <2>2. CASE worker[o] = "settle"
      BY <1>2, <2>2 DEF PersistCandidate, Activate, Settle, Settled, PastClaim, IInv, Shape, Goto
    <2> QED BY <1>1, <2>1, <2>2
  <1> QED BY <1>1, <1>2, <1>4, <1>5, RunMoves DEF WorkerStates

LEMMA RecoveryKeepsIInv ==
    ASSUME IInv, OtherOwnerRecovers
    PROVE  IInv'
  <1>1. /\ UNCHANGED <<controller, client, reply, worker, spawned>>
        /\ run' = [o \in Ops |-> IF run[o] = "running" THEN "interrupted" ELSE run[o]]
    BY DEF OtherOwnerRecovers, loop
  <1>2. Shape' /\ CommitHeld' /\ OneWinner' /\ TerminatingIsCancelled' /\ InProgress'
    BY <1>1 DEF IInv, Shape, controller, CommitHeld, OneWinner,
         TerminatingIsCancelled, InProgress, PastClaim, RunStates
  <1>3. NotBegun' /\ ChildrenRead' /\ Answered'
    BY <1>1 DEF IInv, Shape, controller, NotBegun, ChildrenRead, Answered, PastClaim, Outcome
  <1> QED BY <1>2, <1>3 DEF IInv

-----------------------------------------------------------------------------
LEMMA IInvStep == IInv /\ [Next]_vars => IInv'
  <1> SUFFICES ASSUME IInv, [Next]_vars PROVE IInv'
    OBVIOUS
  <1>1. ASSUME NEW o \in Ops, WorkerStep(o) PROVE IInv'
    BY <1>1, StageKeepsIInv, ChildKeepsIInv, UnregisterKeepsIInv, ClaimKeepsIInv,
       PublishKeepsIInv DEF WorkerStep
  <1>2. ASSUME NEW o \in Ops, Begin(o) \/ Cancel(o) \/ LoopStep(o) PROVE IInv'
    BY <1>2, BeginKeepsIInv, CancelKeepsIInv, LoopStepKeepsIInv
  <1>3. ASSUME NEW o \in Ops, GiveUp(o) PROVE IInv'
    BY <1>3, ChildKeepsIInv
  <1>4. ASSUME NEW o \in Ops, ChildExits(o) PROVE IInv'
    BY <1>4, Quiet DEF ChildExits, loop
  <1>5. CASE Shutdown \/ ShutdownTerminates
    BY <1>5, Quiet DEF Shutdown, ShutdownTerminates, thread
  <1>6. CASE UNCHANGED vars
    BY <1>6, Quiet DEF vars, loop, thread
  <1> QED BY <1>1, <1>2, <1>3, <1>4, <1>5, <1>6, RecoveryKeepsIInv DEF Next

\* The invariant holds in every reachable state, whatever the fairness.
THEOREM IInvAlways == Spec => []IInv
  BY IInvInit, IInvStep, PTL DEF Spec

-----------------------------------------------------------------------------
\* Cancellation that won (cancel_operation returned True) is final: the Run of
\* that ingest is never validated or published, whenever its worker notices.
THEOREM CancellationWins == Spec => []CancellationIsFinal
  <1>1. IInv => CancellationIsFinal
    BY DEF IInv, OneWinner, CommitHeld, Answered, CancellationIsFinal, PastClaim, Outcome
  <1> QED BY <1>1, IInvAlways, PTL

\* What the caller is told agrees with the Run for ever: "published" exactly
\* if it was published, in spite of late commits, late cancellations and
\* terminators that raise.
THEOREM CallerIsToldTheTruth == Spec => []ReplyIsTruthful
  <1>1. IInv => ReplyIsTruthful
    BY DEF IInv, Answered, ReplyIsTruthful, PastClaim, Outcome
  <1> QED BY <1>1, IInvAlways, PTL


-----------------------------------------------------------------------------
(* Children and terminators: what the previous invariant leaves open.      *)

ChildShape ==
    /\ child \in [Ops -> ChildStates]
    /\ doomed \subseteq Ops \X Nat

\* A terminator blocks the event loop, and a cancellation selected only the
\* children of its own operation.
OneTerminator ==
    \A o \in Ops : client[o] = "terminating" =>
        /\ shutdown # "killing"
        /\ doomed \subseteq {o} \X Nat
        /\ \A p \in Ops : client[p] = "terminating" => p = o

\* A living child has a worker that did not get past it, and a worker never
\* leaves a child behind that SIGKILL can end.
ChildMinded ==
    \A o \in Ops : child[o] = "alive" =>
        \/ worker[o] \in {"spawned", "refused", "reading"}
        \/ o \in Stubborn /\ worker[o] \in {"aborting", "settle", "done"}

\* A selected child was registered: if it still lives it is registered, or its
\* worker gave it up for good.
DoomedWasRegistered ==
    \A t \in doomed :
        /\ t[2] <= spawned[t[1]]
        /\ child[t[1]] = "alive" /\ t[2] = spawned[t[1]] =>
               \/ worker[t[1]] \in {"reading", "aborting"} /\ t[2] \in children[t[1]]
               \/ worker[t[1]] \in {"settle", "done"}

\* The controller forgets an operation only when its worker is all but over.
ForgottenIsOver == \A o \in Ops : o \notin active => worker[o] \in {"idle", "settle", "done"}

\* A child is refused because of a cancellation or a shutdown.
RefusedIsDoomed == \A o \in Ops : worker[o] = "refused" => Doomed(o)

TInv ==
    /\ ChildShape
    /\ OneTerminator
    /\ ChildMinded
    /\ DoomedWasRegistered
    /\ ForgottenIsOver
    /\ RefusedIsDoomed
    /\ NothingLeftBehind

LEMMA TInvInit == Init => TInv
  BY DEF Init, TInv, ChildShape, OneTerminator, ChildMinded, DoomedWasRegistered,
         ForgottenIsOver, RefusedIsDoomed, NothingLeftBehind, Doomed, ChildStates

-----------------------------------------------------------------------------
(* The event loop.                                                         *)

LEMMA BeginKeepsTInv ==
    ASSUME IInv, TInv, NEW o \in Ops, Begin(o)
    PROVE  TInv'
  <1>1. worker[o] = "idle" /\ child[o] # "alive"
    BY DEF Begin, IInv, NotBegun, TInv, ChildMinded
  <1>2. ChildShape' /\ OneTerminator'
    BY DEF Begin, IInv, Shape, TInv, ChildShape, OneTerminator
  <1>3. ChildMinded' /\ DoomedWasRegistered'
    BY <1>1 DEF Begin, IInv, Shape, TInv, ChildShape, ChildMinded, DoomedWasRegistered
  <1>4. ForgottenIsOver' /\ RefusedIsDoomed' /\ NothingLeftBehind'
    BY <1>1 DEF Begin, IInv, Shape, TInv, ForgottenIsOver, RefusedIsDoomed, Doomed,
                NothingLeftBehind
  <1> QED BY <1>2, <1>3, <1>4 DEF TInv

\* A registered child is the last one its worker started, and not yet left.
LEMMA SelectedIsRegistered ==
    ASSUME IInv, TInv, NEW ops \in SUBSET Ops, NEW t \in ChildrenOf(ops)
    PROVE  /\ t \in ops \X Nat
           /\ t[2] = spawned[t[1]] /\ t[2] \in children[t[1]]
           /\ child[t[1]] = "alive" => worker[t[1]] \in {"reading", "aborting"}
  <1>1. PICK o \in ops : t \in {o} \X children[o]
    BY DEF ChildrenOf
  <1>2. t[1] = o /\ t[2] \in children[o] /\ t = <<o, t[2]>>
    BY <1>1
  <1>3. t[2] = spawned[o] /\ worker[o] \in {"reading", "closing", "aborting"}
    BY <1>2 DEF IInv, ChildrenRead
  <1> QED BY <1>2, <1>3 DEF IInv, Shape, TInv, ChildMinded

LEMMA CancelKeepsTInv ==
    ASSUME IInv, TInv, NEW o \in Ops, Cancel(o)
    PROVE  TInv'
  <1>1. CASE o \in committing
    <2>1. /\ client' = [client EXCEPT ![o] = "cleanup"]
          /\ UNCHANGED <<controller, doomed, shutdown, thread>>
      BY <1>1 DEF Cancel, CommitWon, controller
    <2>2. ChildShape' /\ OneTerminator' /\ ChildMinded' /\ DoomedWasRegistered'
      BY <2>1 DEF IInv, Shape, TInv, ChildShape, OneTerminator, ChildMinded,
                  DoomedWasRegistered, controller, thread
    <2>3. ForgottenIsOver' /\ RefusedIsDoomed'
      BY <2>1 DEF TInv, ForgottenIsOver, RefusedIsDoomed, Doomed, controller, thread
    <2>4. NothingLeftBehind'
      BY <2>1 DEF IInv, Shape, TInv, NothingLeftBehind, Cancel, controller, thread
    <2> QED BY <2>2, <2>3, <2>4 DEF TInv
  <1>2. CASE o \notin committing
    <2>1. /\ client' = [client EXCEPT ![o] = "terminating"]
          /\ cancelled' = cancelled \cup {o}
          /\ doomed' = ChildrenOf({o})
          /\ LoopFree
          /\ UNCHANGED <<active, children, shutdown, worker, todo, child, spawned>>
      BY <1>2 DEF Cancel, CommitWon, TargetsOf, thread
    <2>2. \A t \in doomed' :
             /\ t \in {o} \X Nat
             /\ t[2] = spawned[t[1]] /\ t[2] \in children[t[1]]
             /\ child[t[1]] = "alive" => worker[t[1]] \in {"reading", "aborting"}
      BY <2>1, SelectedIsRegistered
    <2>3. ChildShape' /\ OneTerminator'
      BY <2>1, <2>2 DEF LoopFree, IInv, Shape, TInv, ChildShape, OneTerminator
    <2>4. DoomedWasRegistered'
      <3>1. ASSUME NEW t \in doomed'
            PROVE  /\ t[2] <= spawned[t[1]]
                   /\ child[t[1]] = "alive" =>
                         worker[t[1]] \in {"reading", "aborting"} /\ t[2] \in children[t[1]]
        <4>1. t[1] = o /\ t[2] = spawned[o] /\ t[2] \in children[o]
          BY <2>2
        <4>2. spawned[o] \in Nat /\ spawned[o] <= spawned[o]
          BY DEF IInv, Shape
        <4> QED BY <2>2, <4>1, <4>2
      <3> QED BY <2>1, <3>1 DEF DoomedWasRegistered
    <2>5. ChildMinded' /\ ForgottenIsOver' /\ RefusedIsDoomed' /\ NothingLeftBehind'
      BY <2>1 DEF IInv, Shape, TInv, ChildMinded, ForgottenIsOver, RefusedIsDoomed, Doomed,
                  NothingLeftBehind, Cancel
    <2> QED BY <2>3, <2>4, <2>5 DEF TInv
  <1> QED BY <1>1, <1>2

\* An answer given when the worker ended leaves nothing of the operation.
LEMMA AnswerKeepsTInv ==
    ASSUME IInv, TInv, NEW o \in Ops, NEW answer \in Replies \ {"error"},
           EndOperation(o, answer), client[o] # "terminating", worker[o] = "done",
           UNCHANGED <<doomed, shutdown, thread>>
    PROVE  TInv'
  <1>1. /\ children[o] = {}
        /\ client' = [client EXCEPT ![o] = "ended"]
        /\ active' = active \ {o}
        /\ cancelled' = cancelled \ {o}
        /\ reply' = [reply EXCEPT ![o] = answer]
        /\ UNCHANGED children
    BY DEF EndOperation, IInv, ChildrenRead
  <1>2. ChildShape' /\ OneTerminator' /\ ChildMinded' /\ DoomedWasRegistered'
    BY <1>1 DEF IInv, Shape, TInv, ChildShape, OneTerminator, ChildMinded,
                DoomedWasRegistered, thread
  <1>3. ForgottenIsOver' /\ RefusedIsDoomed'
    BY <1>1 DEF TInv, ForgottenIsOver, RefusedIsDoomed, Doomed, thread
  <1>4. NothingLeftBehind'
    BY <1>1 DEF IInv, Shape, TInv, ChildMinded, NothingLeftBehind, thread
  <1> QED BY <1>2, <1>3, <1>4 DEF TInv

\* A terminator that reaped a child, or found it gone.
LEMMA ReapKeepsTInv ==
    ASSUME IInv, TInv, NEW t \in doomed, Terminated(t[1], t[2]), doomed' = doomed \ {t},
           UNCHANGED <<shutdown, client, reply, controller, worker, spawned>>
    PROVE  TInv'
  <1>1. t[1] \in Ops /\ \A o \in Ops : child'[o] = child[o] \/ child'[o] = "killed"
    BY DEF Terminated, TInv, ChildShape
  <1>2. child' \in [Ops -> ChildStates]
    BY DEF Terminated, TInv, ChildShape, ChildStates
  <1>3. ChildShape' /\ OneTerminator' /\ ChildMinded'
    BY <1>1, <1>2 DEF TInv, ChildShape, OneTerminator, ChildMinded, controller
  <1>4. DoomedWasRegistered'
    BY <1>1 DEF TInv, ChildShape, DoomedWasRegistered, controller
  <1>5. ForgottenIsOver' /\ RefusedIsDoomed' /\ NothingLeftBehind'
    BY <1>1 DEF TInv, ForgottenIsOver, RefusedIsDoomed, Doomed, NothingLeftBehind, controller
  <1> QED BY <1>3, <1>4, <1>5 DEF TInv


\* A terminator that gave up raises out of the coroutine: the controller keeps
\* the operation unless its worker had left the child behind already.
LEMMA SurvivorKeepsTInv ==
    ASSUME IInv, TInv, NEW o \in Ops, client[o] = "terminating", NEW t \in doomed,
           Survives(t[1], t[2]), doomed' = {}, EndOperation(o, "error"),
           UNCHANGED <<shutdown, thread>>
    PROVE  TInv'
  <1>1. t[1] = o /\ o \in Stubborn /\ t[2] = spawned[o] /\ child[o] = "alive"
    BY DEF Survives, TInv, OneTerminator
  <1>2. \/ worker[o] \in {"reading", "aborting"} /\ children[o] # {}
        \/ worker[o] \in {"settle", "done"}
    BY <1>1 DEF TInv, DoomedWasRegistered
  <1>3. /\ client' = [client EXCEPT ![o] = "ended"]
        /\ reply' = [reply EXCEPT ![o] = "error"]
        /\ active' = IF children[o] = {} THEN active \ {o} ELSE active
        /\ cancelled' = IF children[o] = {} THEN cancelled \ {o} ELSE cancelled
        /\ UNCHANGED children
    BY DEF EndOperation
  <1>4. ChildShape' /\ OneTerminator' /\ ChildMinded' /\ DoomedWasRegistered'
    BY <1>3 DEF IInv, Shape, TInv, ChildShape, OneTerminator, ChildMinded,
                DoomedWasRegistered, thread
  <1>5. ForgottenIsOver' /\ RefusedIsDoomed'
    BY <1>2, <1>3 DEF TInv, ForgottenIsOver, RefusedIsDoomed, Doomed, thread
  <1>6. NothingLeftBehind'
    BY <1>1, <1>3 DEF IInv, Shape, TInv, NothingLeftBehind, thread
  <1> QED BY <1>4, <1>5, <1>6 DEF TInv

LEMMA LoopStepKeepsTInv ==
    ASSUME IInv, TInv, NEW o \in Ops, LoopStep(o)
    PROVE  TInv'
  <1>1. Outcome(o) \in Replies \ {"error"} /\ CancelAnswer(o) \in Replies \ {"error"}
    BY DEF Outcome, CancelAnswer, Replies
  <1>2. CASE Receive(o)
    BY <1>1, <1>2, AnswerKeepsTInv DEF Receive
  <1>3. CASE FinishCancelled(o)
    BY <1>1, <1>3, AnswerKeepsTInv DEF FinishCancelled, WorkerEnded
  <1>4. CASE CancelTerminates(o)
    <2>1. /\ client[o] = "terminating"
          /\ UNCHANGED <<shutdown, worker, todo, spawned, run>>
      BY <1>4 DEF CancelTerminates
    <2>2. CASE \E t \in doomed :
                  /\ Terminated(t[1], t[2])
                  /\ doomed' = doomed \ {t}
                  /\ UNCHANGED <<client, reply, controller>>
      BY <2>1, <2>2, ReapKeepsTInv
    <2>3. CASE \E t \in doomed :
                  /\ Survives(t[1], t[2])
                  /\ doomed' = {}
                  /\ EndOperation(o, "error")
                  /\ UNCHANGED child
      BY <2>1, <2>3, SurvivorKeepsTInv DEF thread
    <2>4. CASE /\ client' = [client EXCEPT ![o] = "cleanup"]
               /\ UNCHANGED <<doomed, reply, controller, child>>
      <3>1. ChildShape' /\ OneTerminator' /\ ChildMinded' /\ DoomedWasRegistered'
        BY <2>1, <2>4 DEF IInv, Shape, TInv, ChildShape, OneTerminator, ChildMinded,
                          DoomedWasRegistered, controller
      <3>2. ForgottenIsOver' /\ RefusedIsDoomed' /\ NothingLeftBehind'
        BY <2>1, <2>4 DEF IInv, Shape, TInv, ForgottenIsOver, RefusedIsDoomed, Doomed,
                          NothingLeftBehind, controller
      <3> QED BY <3>1, <3>2 DEF TInv
    <2> QED BY <1>4, <2>2, <2>3, <2>4 DEF CancelTerminates
  <1> QED BY <1>2, <1>3, <1>4 DEF LoopStep

LEMMA ShutdownKeepsTInv ==
    ASSUME IInv, TInv, Shutdown \/ ShutdownTerminates
    PROVE  TInv'
  <1>1. CASE Shutdown
    <2>1. /\ \A p \in Ops : client[p] # "terminating"
          /\ shutdown' = "killing"
          /\ doomed' = ChildrenOf(active)
          /\ UNCHANGED <<active, children, cancelled, client, reply, worker, child, spawned>>
      BY <1>1 DEF Shutdown, LoopFree, controller, thread
    <2>2. ASSUME NEW t \in doomed'
          PROVE  /\ t \in Ops \X Nat
                 /\ t[2] <= spawned[t[1]]
                 /\ child[t[1]] = "alive" =>
                       worker[t[1]] \in {"reading", "aborting"} /\ t[2] \in children[t[1]]
      <3>1. /\ t \in active \X Nat
            /\ t[2] = spawned[t[1]] /\ t[2] \in children[t[1]]
            /\ child[t[1]] = "alive" => worker[t[1]] \in {"reading", "aborting"}
        BY <2>1, SelectedIsRegistered DEF IInv, Shape
      <3>2. t[1] \in Ops /\ spawned[t[1]] \in Nat /\ spawned[t[1]] <= spawned[t[1]]
        BY <3>1 DEF IInv, Shape
      <3> QED BY <3>1, <3>2 DEF IInv, Shape
    <2>3. ChildShape' /\ OneTerminator' /\ DoomedWasRegistered'
      BY <2>1, <2>2 DEF TInv, ChildShape, OneTerminator, DoomedWasRegistered
    <2>4. ChildMinded' /\ ForgottenIsOver' /\ RefusedIsDoomed' /\ NothingLeftBehind'
      BY <2>1 DEF TInv, ChildMinded, ForgottenIsOver, RefusedIsDoomed, Doomed,
                  NothingLeftBehind
    <2> QED BY <2>3, <2>4 DEF TInv
  <1>2. CASE ShutdownTerminates
    <2>1. /\ shutdown = "killing"
          /\ UNCHANGED <<controller, client, reply, worker, todo, spawned, run>>
      BY <1>2 DEF ShutdownTerminates
    <2>2. CASE \E t \in doomed :
                  /\ Terminated(t[1], t[2])
                  /\ doomed' = doomed \ {t}
                  /\ UNCHANGED shutdown
      BY <2>1, <2>2, ReapKeepsTInv
    <2>3. CASE /\ shutdown' \in {"returned", "raised"}
               /\ doomed' \subseteq doomed
               /\ UNCHANGED child
      <3>1. ChildShape' /\ OneTerminator' /\ ChildMinded' /\ DoomedWasRegistered'
        BY <2>1, <2>3 DEF TInv, ChildShape, OneTerminator, ChildMinded,
                          DoomedWasRegistered, controller
      <3>2. ForgottenIsOver' /\ RefusedIsDoomed' /\ NothingLeftBehind'
        BY <2>1, <2>3 DEF TInv, ForgottenIsOver, RefusedIsDoomed, Doomed,
                          NothingLeftBehind, controller
      <3> QED BY <3>1, <3>2 DEF TInv
    <2> QED BY <1>2, <2>2, <2>3 DEF ShutdownTerminates
  <1> QED BY <1>1, <1>2

-----------------------------------------------------------------------------
(* The worker thread and its child.                                        *)

\* The worker goes on with its child as it is, or dead.
LEMMA WorkerMovesTInv ==
    ASSUME IInv, TInv, NEW o \in Ops, NEW state \in WorkerStates \ {"idle"}, Goto(o, state),
           worker[o] # "idle", worker[o] # "done",
           state = "refused" => Doomed(o),
           worker[o] = "settle" => state = "done",
           NEW status \in ChildStates, child' = [child EXCEPT ![o] = status],
           status = "alive" =>
               /\ child[o] = "alive"
               /\ \/ state \in {"spawned", "refused", "reading"}
                  \/ o \in Stubborn /\ state \in {"aborting", "settle", "done"},
           \A k \in Nat : <<o, k>> \in doomed /\ k = spawned[o] /\ status = "alive" =>
               \/ state \in {"reading", "aborting"} /\ k \in children'[o]
               \/ state \in {"settle", "done"},
           \A p \in Ops \ {o} : children'[p] = children[p],
           UNCHANGED <<active, cancelled, loop, spawned>>
    PROVE  TInv'
  <1>1. \A p \in Ops : p # o => worker'[p] = worker[p] /\ child'[p] = child[p]
    BY DEF Goto, IInv, Shape, TInv, ChildShape
  <1>2. worker'[o] = state /\ child'[o] = status
    BY DEF Goto, IInv, Shape, TInv, ChildShape
  <1>3. ChildShape' /\ OneTerminator' /\ ChildMinded'
    BY <1>1, <1>2 DEF loop, TInv, ChildShape, OneTerminator, ChildMinded
  <1>4. DoomedWasRegistered'
    <2>1. ASSUME NEW t \in doomed
          PROVE  /\ t[2] <= spawned[t[1]]
                 /\ child'[t[1]] = "alive" /\ t[2] = spawned[t[1]] =>
                      \/ worker'[t[1]] \in {"reading", "aborting"} /\ t[2] \in children'[t[1]]
                      \/ worker'[t[1]] \in {"settle", "done"}
      <3>1. t[1] \in Ops /\ t[2] \in Nat /\ t = <<t[1], t[2]>>
        BY <2>1 DEF TInv, ChildShape
      <3>2. CASE t[1] = o
        BY <3>1, <3>2, <1>2 DEF TInv, DoomedWasRegistered
      <3>3. CASE t[1] # o
        BY <3>1, <3>3, <1>1 DEF TInv, DoomedWasRegistered
      <3> QED BY <3>2, <3>3
    <2> QED BY <2>1 DEF DoomedWasRegistered, loop
  <1>5. ForgottenIsOver' /\ RefusedIsDoomed'
    BY <1>1, <1>2 DEF TInv, ForgottenIsOver, RefusedIsDoomed, Doomed, loop
  <1>6. NothingLeftBehind'
    BY <1>1 DEF TInv, NothingLeftBehind, loop
  <1> QED BY <1>3, <1>4, <1>5, <1>6 DEF TInv


\* The same for a worker whose child is not alive, or has been left behind.
LEMMA WorkerLeavesChild ==
    ASSUME IInv, TInv, NEW o \in Ops, NEW state \in WorkerStates \ {"idle", "refused"},
           Goto(o, state), worker[o] \notin {"idle", "done"},
           worker[o] = "settle" => state = "done",
           child[o] = "alive" => o \in Stubborn /\ state \in {"settle", "done"},
           \A p \in Ops \ {o} : children'[p] = children[p],
           UNCHANGED <<active, cancelled, loop, child, spawned>>
    PROVE  TInv'
  <1>1. child[o] \in ChildStates /\ child' = [child EXCEPT ![o] = child[o]]
    BY DEF TInv, ChildShape
  <1> QED BY <1>1, WorkerMovesTInv

LEMMA StageKeepsTInv ==
    ASSUME IInv, TInv, NEW o \in Ops, CreateRun(o) \/ ExtractInThread(o) \/ Spawn(o)
    PROVE  TInv'
  <1>1. worker[o] = "stage" /\ child[o] # "alive"
    BY DEF CreateRun, ExtractInThread, Spawn, AtStage, TInv, ChildMinded
  <1>2. CASE CreateRun(o) \/ ExtractInThread(o)
    <2>1. PICK state \in {"claim", "stage", "settle"} : Goto(o, state)
      BY <1>2, NextStageGoes DEF CreateRun, ExtractInThread
    <2>2. UNCHANGED <<active, children, cancelled, loop, child, spawned>>
      BY <1>2 DEF CreateRun, ExtractInThread, controller
    <2> QED BY <1>1, <2>1, <2>2, WorkerLeavesChild DEF WorkerStates
  <1>3. CASE Spawn(o)
    <2>1. UNCHANGED <<controller, loop>>
      BY <1>3 DEF Spawn
    <2>2. CASE Goto(o, "settle") /\ UNCHANGED <<child, spawned>>
      BY <1>1, <2>1, <2>2, WorkerLeavesChild DEF WorkerStates, controller
    <2>3. CASE /\ Goto(o, "spawned")
               /\ child' = [child EXCEPT ![o] = "alive"]
               /\ spawned' = [spawned EXCEPT ![o] = @ + 1]
      <3>1. \A p \in Ops : p # o => /\ worker'[p] = worker[p] /\ child'[p] = child[p]
                                    /\ spawned'[p] = spawned[p]
        BY <2>3 DEF Goto, IInv, Shape, TInv, ChildShape
      <3>2. worker'[o] = "spawned" /\ child'[o] = "alive" /\ spawned'[o] = spawned[o] + 1
        BY <2>3 DEF Goto, IInv, Shape, TInv, ChildShape
      <3>3. ChildShape' /\ OneTerminator' /\ ChildMinded'
        BY <2>1, <2>3, <3>1, <3>2 DEF loop, TInv, ChildShape, OneTerminator, ChildMinded,
                                      ChildStates
      <3>4. DoomedWasRegistered'
        <4>1. ASSUME NEW t \in doomed
              PROVE  /\ t[2] <= spawned'[t[1]]
                     /\ child'[t[1]] = "alive" /\ t[2] = spawned'[t[1]] =>
                          \/ worker'[t[1]] \in {"reading", "aborting"} /\ t[2] \in children'[t[1]]
                          \/ worker'[t[1]] \in {"settle", "done"}
          <5>1. t[1] \in Ops /\ t[2] \in Nat /\ t[2] <= spawned[t[1]] /\ spawned[o] \in Nat
            BY <4>1 DEF TInv, ChildShape, DoomedWasRegistered, IInv, Shape
          <5>2. CASE t[1] = o
            <6>1. t[2] <= spawned[o] + 1 /\ t[2] # spawned[o] + 1
              BY <5>1, <5>2
            <6> QED BY <5>2, <6>1, <3>2
          <5>3. CASE t[1] # o
            BY <5>1, <5>3, <3>1, <2>1 DEF TInv, DoomedWasRegistered, controller
          <5> QED BY <5>2, <5>3
        <4> QED BY <4>1, <2>1 DEF DoomedWasRegistered, loop
      <3>5. ForgottenIsOver' /\ RefusedIsDoomed' /\ NothingLeftBehind'
        BY <1>1, <2>1, <3>1, <3>2 DEF TInv, ForgottenIsOver, RefusedIsDoomed, Doomed,
             NothingLeftBehind, loop, controller
      <3> QED BY <3>3, <3>4, <3>5 DEF TInv
    <2> QED BY <1>3, <2>2, <2>3 DEF Spawn
  <1> QED BY <1>2, <1>3

\* The thread itself terminates a child whose registration was refused.
LEMMA RegisterKeepsTInv ==
    ASSUME IInv, TInv, NEW o \in Ops, Register(o) \/ TerminateRefused(o)
    PROVE  TInv'
  <1>1. /\ worker[o] \in {"spawned", "refused"} /\ o \in active
        /\ child[o] \in ChildStates
        /\ UNCHANGED <<active, cancelled, loop, spawned>>
    BY DEF Register, TerminateRefused, TInv, ForgottenIsOver, ChildShape, controller
  <1>2. \A k \in Nat : ~(<<o, k>> \in doomed /\ k = spawned[o] /\ child[o] = "alive")
    BY <1>1 DEF TInv, DoomedWasRegistered
  <1>3. CASE /\ UNCHANGED child
             /\ \/ Goto(o, "reading") /\ children' = [children EXCEPT ![o] = @ \cup {spawned[o]}]
                \/ Goto(o, "refused") /\ Doomed(o) /\ UNCHANGED children
                \/ Goto(o, "aborting") /\ o \in Stubborn /\ UNCHANGED children
    <2>1. child' = [child EXCEPT ![o] = child[o]]
      BY <1>3 DEF TInv, ChildShape
    <2>2. \A p \in Ops \ {o} : children'[p] = children[p]
      BY <1>3 DEF IInv, Shape
    <2>3. PICK state \in {"reading", "refused", "aborting"} :
              /\ Goto(o, state)
              /\ state = "refused" => Doomed(o)
              /\ state = "aborting" => o \in Stubborn
      BY <1>3
    <2> QED BY <1>1, <1>2, <2>1, <2>2, <2>3, WorkerMovesTInv DEF WorkerStates
  <1>4. CASE /\ TerminateRefused(o)
             /\ Terminated(o, spawned[o]) /\ Goto(o, "reading")
    <2>1. PICK status \in ChildStates \ {"alive"} : child' = [child EXCEPT ![o] = status]
      <3>1. CASE child[o] = "alive"
        BY <1>4, <3>1 DEF Terminated, ChildStates
      <3>2. CASE child[o] # "alive"
        BY <1>1, <1>4, <3>2 DEF Terminated, TInv, ChildShape
      <3> QED BY <3>1, <3>2
    <2>2. UNCHANGED children
      BY <1>4 DEF TerminateRefused, controller
    <2> QED BY <1>1, <1>4, <2>1, <2>2, WorkerMovesTInv DEF WorkerStates
  <1> QED BY <1>1, <1>3, <1>4 DEF Register, TerminateRefused, Survives, controller

LEMMA ReadKeepsTInv ==
    ASSUME IInv, TInv, NEW o \in Ops, ReadResult(o) \/ GiveUp(o)
    PROVE  TInv'
  <1>1. /\ worker[o] = "reading" /\ child[o] \in ChildStates
        /\ UNCHANGED <<active, children, cancelled, loop, spawned>>
    BY DEF ReadResult, GiveUp, TInv, ChildShape, controller
  <1>2. PICK state \in {"closing", "aborting"} : Goto(o, state)
    BY DEF ReadResult, GiveUp
  <1>3. CASE ReadResult(o)
    BY <1>1, <1>2, <1>3, WorkerLeavesChild DEF ReadResult, WorkerStates
  <1>4. CASE GiveUp(o) /\ child' = [child EXCEPT ![o] = "failed"]
    BY <1>1, <1>4, WorkerMovesTInv DEF GiveUp, WorkerStates, ChildStates
  <1>5. CASE GiveUp(o) /\ child' = child /\ o \in Stubborn
    <2>1. child' = [child EXCEPT ![o] = "alive"] /\ Goto(o, "aborting") /\ child[o] = "alive"
      BY <1>5 DEF GiveUp, TInv, ChildShape
    <2>2. \A k \in Nat : <<o, k>> \in doomed /\ k = spawned[o] => k \in children'[o]
      BY <1>1, <2>1 DEF TInv, DoomedWasRegistered
    <2> QED BY <1>1, <1>5, <2>1, <2>2, WorkerMovesTInv DEF WorkerStates, ChildStates
  <1> QED BY <1>3, <1>4, <1>5 DEF GiveUp

LEMMA WorkerEndsTInv ==
    ASSUME IInv, TInv, NEW o \in Ops,
           \/ Unregister(o) \/ ClaimCommit(o)
           \/ PersistCandidate(o) \/ Activate(o) \/ Settle(o)
    PROVE  TInv'
  <1>1. /\ worker[o] \in {"closing", "aborting", "claim", "persist", "activate", "settle"}
        /\ \A p \in Ops \ {o} : children'[p] = children[p]
        /\ UNCHANGED <<active, cancelled, loop, child, spawned>>
    BY DEF Unregister, ClaimCommit, PersistCandidate, Activate, Settle, IInv, Shape, controller
  <1>2. child[o] = "alive" => o \in Stubborn /\ worker[o] \in {"aborting", "settle"}
    BY <1>1 DEF TInv, ChildMinded
  <1>3. PICK state \in {"claim", "stage", "settle", "persist", "activate", "done"} :
            /\ Goto(o, state)
            /\ worker[o] = "aborting" => state = "settle"
            /\ worker[o] = "settle" => state = "done"
    BY NextStageGoes DEF Unregister, ClaimCommit, PersistCandidate, Activate, Settle
  <1> QED BY <1>1, <1>2, <1>3, WorkerLeavesChild DEF WorkerStates

LEMMA ChildExitsKeepsTInv ==
    ASSUME IInv, TInv, NEW o \in Ops, ChildExits(o)
    PROVE  TInv'
  <1>1. \A p \in Ops : child'[p] = "alive" => child[p] = "alive"
    BY DEF ChildExits, TInv, ChildShape
  <1>2. /\ child' \in [Ops -> ChildStates]
        /\ UNCHANGED <<controller, loop, worker, spawned>>
    BY DEF ChildExits, TInv, ChildShape, ChildStates
  <1>3. ChildShape' /\ OneTerminator' /\ ChildMinded'
    BY <1>1, <1>2 DEF TInv, ChildShape, OneTerminator, ChildMinded, loop
  <1>4. DoomedWasRegistered'
    BY <1>1, <1>2 DEF TInv, ChildShape, DoomedWasRegistered, loop, controller
  <1>5. ForgottenIsOver' /\ RefusedIsDoomed' /\ NothingLeftBehind'
    BY <1>1, <1>2 DEF TInv, ForgottenIsOver, RefusedIsDoomed, Doomed, NothingLeftBehind,
                      loop, controller
  <1> QED BY <1>3, <1>4, <1>5 DEF TInv

\* A step that changes nothing this invariant reads.
LEMMA QuietTInv ==
    ASSUME TInv, UNCHANGED <<controller, loop, worker, child, spawned>>
    PROVE  TInv'
  <1>1. ChildShape' /\ OneTerminator' /\ ChildMinded' /\ DoomedWasRegistered'
    BY DEF TInv, ChildShape, OneTerminator, ChildMinded, DoomedWasRegistered, controller, loop
  <1>2. ForgottenIsOver' /\ RefusedIsDoomed' /\ NothingLeftBehind'
    BY DEF TInv, ForgottenIsOver, RefusedIsDoomed, Doomed, NothingLeftBehind, controller, loop
  <1> QED BY <1>1, <1>2 DEF TInv

-----------------------------------------------------------------------------
LEMMA TInvStep == IInv /\ TInv /\ [Next]_vars => TInv'
  <1> SUFFICES ASSUME IInv, TInv, [Next]_vars PROVE TInv'
    OBVIOUS
  <1>1. ASSUME NEW o \in Ops, WorkerStep(o) \/ GiveUp(o) PROVE TInv'
    BY <1>1, StageKeepsTInv, RegisterKeepsTInv, ReadKeepsTInv, WorkerEndsTInv DEF WorkerStep
  <1>2. ASSUME NEW o \in Ops, Begin(o) \/ Cancel(o) \/ LoopStep(o) PROVE TInv'
    BY <1>2, BeginKeepsTInv, CancelKeepsTInv, LoopStepKeepsTInv
  <1>3. ASSUME NEW o \in Ops, ChildExits(o) PROVE TInv'
    BY <1>3, ChildExitsKeepsTInv
  <1>4. CASE OtherOwnerRecovers
    BY <1>4, QuietTInv DEF OtherOwnerRecovers
  <1>5. CASE UNCHANGED vars
    BY <1>5, QuietTInv DEF vars, thread
  <1> QED BY <1>1, <1>2, <1>3, <1>4, <1>5, ShutdownKeepsTInv DEF Next

LEMMA TInvAlways == Spec => []TInv
  BY IInvAlways, TInvInit, TInvStep, PTL DEF Spec

-----------------------------------------------------------------------------
\* When the caller is answered its worker has ended, no child of it lives and the
\* controller has forgotten it (end_operation did not raise), for every operation
\* whose process groups SIGKILL ends; that others cannot be ended is no excuse.
THEOREM AnswersLeaveNothingBehind == Spec => []NothingLeftBehind
  BY TInvAlways, PTL DEF TInv

\* A child is only killed for its own operation's cancellation, or by shutdown:
\* a terminator never reaches the child of another operation, nor a later child
\* of the same one.
THEOREM OnlyTheCancelledAreKilled == Spec => TerminationIsTargeted
  <1>1. ASSUME IInv, TInv, [Next]_vars, NEW o \in Ops, child[o] # "killed", child'[o] = "killed"
        PROVE  o \in cancelled \/ shutdown # "no"
    <2>1. child \in [Ops -> ChildStates]
      BY <1>1 DEF TInv, ChildShape
    <2>2. ASSUME NEW p \in Ops, LoopStep(p) PROVE o \in cancelled \/ shutdown # "no"
      <3>1. CASE Receive(p) \/ FinishCancelled(p)
        BY <1>1, <3>1 DEF Receive, FinishCancelled, thread
      <3>2. CASE CancelTerminates(p)
        <4>1. /\ client[p] = "terminating" /\ p \in cancelled
              /\ \A t \in doomed : t[1] = p
          BY <1>1, <3>2 DEF CancelTerminates, IInv, TerminatingIsCancelled, TInv, OneTerminator
        <4>2. \E t \in doomed : Terminated(t[1], t[2])
          BY <1>1, <3>2 DEF CancelTerminates
        <4>3. o = p
          BY <1>1, <2>1, <4>1, <4>2 DEF Terminated
        <4> QED BY <4>1, <4>3
      <3> QED BY <2>2, <3>1, <3>2 DEF LoopStep
    <2>3. ASSUME NEW p \in Ops, Register(p) \/ TerminateRefused(p)
          PROVE  o \in cancelled \/ shutdown # "no"
      <3>1. p \in active
        BY <1>1, <2>3 DEF Register, TerminateRefused, TInv, ForgottenIsOver
      <3>2. CASE Register(p)
        BY <1>1, <3>1, <3>2 DEF Register
      <3>3. CASE TerminateRefused(p)
        <4>1. Doomed(p) /\ o = p
          BY <1>1, <2>1, <3>3 DEF TerminateRefused, TInv, RefusedIsDoomed, Terminated
        <4> QED BY <4>1 DEF Doomed
      <3> QED BY <2>3, <3>2, <3>3
    <2>4. ASSUME NEW p \in Ops,
                 \/ Begin(p) \/ Cancel(p) \/ GiveUp(p) \/ ChildExits(p) \/ WorkerStep(p),
                 ~(Register(p) \/ TerminateRefused(p))
          PROVE  FALSE
      <3>1. CASE Begin(p) \/ Cancel(p)
        BY <1>1, <3>1 DEF Begin, Cancel, thread
      <3>2. CASE GiveUp(p) \/ ChildExits(p)
        BY <1>1, <2>1, <3>2 DEF GiveUp, ChildExits
      <3>3. CASE WorkerStep(p)
        BY <1>1, <2>1, <2>4, <3>3 DEF WorkerStep, CreateRun, ExtractInThread, Spawn, ReadResult,
             Unregister, ClaimCommit, PersistCandidate, Activate, Settle
      <3> QED BY <2>4, <3>1, <3>2, <3>3
    <2>5. CASE Shutdown \/ ShutdownTerminates \/ OtherOwnerRecovers \/ UNCHANGED vars
      BY <1>1, <2>5 DEF Shutdown, ShutdownTerminates, OtherOwnerRecovers, vars, thread
    <2> QED BY <1>1, <2>2, <2>3, <2>4, <2>5 DEF Next
  <1>2. IInv /\ TInv /\ [Next]_vars =>
            [\A o \in Ops : child[o] # "killed" /\ child'[o] = "killed" =>
                o \in cancelled \/ shutdown # "no"]_vars
    BY <1>1
  <1> QED BY <1>2, IInvAlways, TInvAlways, PTL DEF Spec, TerminationIsTargeted


-----------------------------------------------------------------------------
\* While shutdown kills, every registered child that lives is selected; after
\* it, none lives.
Swept ==
    shutdown # "no" =>
        \A o \in Ops : children[o] # {} /\ child[o] = "alive" =>
            shutdown = "killing" /\ <<o, spawned[o]>> \in doomed

LEMMA SweptStep ==
    ASSUME Stubborn = {}, IInv, TInv, Swept, [Next]_vars
    PROVE  Swept'
  <1>1. \A o, k : ~Survives(o, k)
    BY DEF Survives
  <1>2. CASE Shutdown
    <2>1. ASSUME NEW o \in Ops, children[o] # {}
          PROVE  <<o, spawned[o]>> \in ChildrenOf(active)
      <3>1. o \in active /\ spawned[o] \in children[o]
        BY <2>1 DEF IInv, ChildrenRead, TInv, ForgottenIsOver
      <3> QED BY <3>1 DEF ChildrenOf
    <2> QED BY <1>2, <2>1 DEF Shutdown, Swept, controller, thread
  <1>3. CASE ShutdownTerminates
    <2>1. /\ shutdown = "killing"
          /\ UNCHANGED <<children, spawned>>
      BY <1>3 DEF ShutdownTerminates, controller
    <2>2. ASSUME NEW t \in doomed, Terminated(t[1], t[2]), doomed' = doomed \ {t},
                 UNCHANGED shutdown
          PROVE  Swept'
      <3>1. \A o \in Ops : child'[o] = "alive" => child[o] = "alive" /\ t # <<o, spawned[o]>>
        BY <2>2 DEF Terminated, TInv, ChildShape
      <3> QED BY <2>1, <2>2, <3>1 DEF Swept
    <2>3. CASE doomed = {} /\ UNCHANGED child
      BY <2>1, <2>3 DEF Swept
    <2> QED BY <1>1, <1>3, <2>2, <2>3 DEF ShutdownTerminates
  <1>4. ASSUME NEW o \in Ops, Begin(o) \/ Cancel(o) \/ Receive(o) \/ FinishCancelled(o)
        PROVE  Swept'
    <2>1. /\ shutdown # "killing"
          /\ UNCHANGED <<shutdown, children, child>>
      BY <1>4 DEF Begin, Cancel, Receive, FinishCancelled, LoopFree, EndOperation, thread
    <2> QED BY <2>1 DEF Swept
  <1>5. ASSUME NEW o \in Ops, CancelTerminates(o)
        PROVE  Swept'
    <2>1. /\ shutdown # "killing"
          /\ UNCHANGED <<shutdown, children>>
      BY <1>5 DEF CancelTerminates, TInv, OneTerminator, controller, EndOperation
    <2>2. \A p \in Ops : child'[p] = "alive" => child[p] = "alive"
      BY <1>5 DEF CancelTerminates, Terminated, TInv, ChildShape
    <2> QED BY <2>1, <2>2 DEF Swept
  <1>6. ASSUME NEW o \in Ops, Spawn(o)
        PROVE  Swept'
    <2>1. children[o] = {} /\ UNCHANGED <<controller, loop>>
      BY <1>6 DEF Spawn, AtStage, IInv, ChildrenRead
    <2>2. \A p \in Ops : p # o => child'[p] = child[p] /\ spawned'[p] = spawned[p]
      BY <1>6 DEF Spawn, IInv, Shape, TInv, ChildShape
    <2> QED BY <2>1, <2>2 DEF Swept, controller, loop
  <1>7. ASSUME NEW o \in Ops, Register(o)
        PROVE  Swept'
    <2>1. o \in active /\ UNCHANGED <<loop, spawned>>
      BY <1>7 DEF Register, TInv, ForgottenIsOver
    <2>2. shutdown # "no" => UNCHANGED <<children, child>>
      BY <1>7, <2>1 DEF Register, Doomed
    <2> QED BY <2>1, <2>2 DEF Swept, loop
  <1>8. ASSUME NEW o \in Ops,
               \/ CreateRun(o) \/ ExtractInThread(o) \/ TerminateRefused(o) \/ ReadResult(o)
               \/ Unregister(o) \/ ClaimCommit(o) \/ PersistCandidate(o) \/ Activate(o)
               \/ Settle(o) \/ GiveUp(o) \/ ChildExits(o)
        PROVE  Swept'
    <2>1. UNCHANGED <<loop, spawned>>
      BY <1>8 DEF CreateRun, ExtractInThread, TerminateRefused, ReadResult, Unregister,
           ClaimCommit, PersistCandidate, Activate, Settle, GiveUp, ChildExits
    <2>2. \A p \in Ops : children'[p] \subseteq children[p]
      BY <1>8 DEF CreateRun, ExtractInThread, TerminateRefused, ReadResult, Unregister,
           ClaimCommit, PersistCandidate, Activate, Settle, GiveUp, ChildExits, controller,
           IInv, Shape
    <2>3. \A p \in Ops : child'[p] = "alive" => child[p] = "alive"
      BY <1>8 DEF CreateRun, ExtractInThread, TerminateRefused, Terminated, ReadResult,
           Unregister, ClaimCommit, PersistCandidate, Activate, Settle, GiveUp, ChildExits,
           TInv, ChildShape
    <2> QED BY <2>1, <2>2, <2>3 DEF Swept, loop
  <1>9. CASE OtherOwnerRecovers \/ UNCHANGED vars
    BY <1>9 DEF OtherOwnerRecovers, vars, controller, loop, thread, Swept
  <1> QED BY <1>2, <1>3, <1>4, <1>5, <1>6, <1>7, <1>8, <1>9 DEF Next, WorkerStep, LoopStep

LEMMA SweptAlways == Stubborn = {} => (Spec => []Swept)
  <1> SUFFICES ASSUME Stubborn = {} PROVE Spec => []Swept
    OBVIOUS
  <1>1. Init => Swept
    BY DEF Init, Swept
  <1>2. IInv /\ TInv /\ Swept /\ [Next]_vars => Swept'
    BY SweptStep
  <1> QED BY <1>1, <1>2, IInvAlways, TInvAlways, PTL DEF Spec

\* What the owner lifecycle plan says of shutdown() holds as long as SIGKILL
\* ends every process group within the grace: once it is over no registered
\* child lives.  Without that assumption it is refuted.
THEOREM ShutdownSweeps == Stubborn = {} => (Spec => []ShutdownTerminatesEveryChild)
  <1>1. Swept => ShutdownTerminatesEveryChild
    BY DEF Swept, ShutdownTerminatesEveryChild
  <1> QED BY <1>1, SweptAlways, PTL

-----------------------------------------------------------------------------
(* Types: what bounds the children an operation ever starts.               *)

Todos == { << >>, <<"extract">>, <<"create", "extract">>, <<"child">>,
           <<"create", "child">>, <<"child", "create", "child">> }

\* Children a thread may still start.
ChildrenLeft(t) ==
    IF t = <<"child", "create", "child">> THEN 2
    ELSE IF t \in {<<"child">>, <<"create", "child">>} THEN 1 ELSE 0

LEMMA TodosAreSequences == Todos \subseteq Seq({"create", "extract", "child"})
  <1> DEFINE S == {"create", "extract", "child"}
  <1>1. "create" \in S /\ "extract" \in S /\ "child" \in S
    OBVIOUS
  <1> HIDE DEF S
  <1>2. << >> \in Seq(S) /\ <<"extract">> \in Seq(S) /\ <<"child">> \in Seq(S)
    BY <1>1
  <1>3. <<"create", "extract">> \in Seq(S) /\ <<"create", "child">> \in Seq(S)
    BY <1>1
  <1>4. <<"child", "create", "child">> \in Seq(S)
    BY <1>1
  <1>5. Todos \subseteq Seq(S)
    BY <1>2, <1>3, <1>4 DEF Todos
  <1> QED BY <1>5 DEF S

LEMMA TodoTails ==
    ASSUME NEW t \in Todos, t # << >>
    PROVE  /\ Tail(t) \in Todos
           /\ ChildrenLeft(t) \in 0..2
           /\ Head(t) # "child" => ChildrenLeft(Tail(t)) = ChildrenLeft(t)
           /\ Head(t) = "child" =>
                 /\ ChildrenLeft(t) \in 1..2
                 /\ ChildrenLeft(Tail(t)) = ChildrenLeft(t) - 1
  <1>1. CASE t = <<"extract">>
    <2>1. Head(t) = "extract" /\ Tail(t) = << >>
      BY <1>1
    <2> QED BY <1>1, <2>1 DEF Todos, ChildrenLeft
  <1>2. CASE t = <<"create", "extract">>
    <2>1. Head(t) = "create" /\ Tail(t) = <<"extract">>
      BY <1>2
    <2> QED BY <1>2, <2>1 DEF Todos, ChildrenLeft
  <1>3. CASE t = <<"child">>
    <2>1. Head(t) = "child" /\ Tail(t) = << >>
      BY <1>3
    <2> QED BY <1>3, <2>1 DEF Todos, ChildrenLeft
  <1>4. CASE t = <<"create", "child">>
    <2>1. Head(t) = "create" /\ Tail(t) = <<"child">>
      BY <1>4
    <2> QED BY <1>4, <2>1 DEF Todos, ChildrenLeft
  <1>5. CASE t = <<"child", "create", "child">>
    <2>1. Head(t) = "child" /\ Tail(t) = <<"create", "child">>
      BY <1>5
    <2> QED BY <1>5, <2>1 DEF Todos, ChildrenLeft
  <1> QED BY <1>1, <1>2, <1>3, <1>4, <1>5 DEF Todos

WithChild == {"spawned", "refused", "reading", "closing", "aborting"}

\* Between stages the children started and those still to come are at most two;
\* a worker busy with a child has counted it, and has not left its stage.
ChildrenCounted ==
    \A o \in Ops :
        /\ worker[o] \in {"idle", "stage"} => spawned[o] + ChildrenLeft(todo[o]) <= 2
        /\ worker[o] \in WithChild =>
              /\ todo[o] # << >> /\ Head(todo[o]) = "child"
              /\ spawned[o] >= 1
              /\ spawned[o] + ChildrenLeft(todo[o]) <= 3

OpInv ==
    /\ TypeOK
    /\ todo \in [Ops -> Todos]
    /\ ChildrenCounted

LEMMA OpInvInit == Init => OpInv
  <1> SUFFICES ASSUME Init PROVE OpInv
    OBVIOUS
  <1>1. \A o \in Ops : Stages(KindOf[o]) \in Todos /\ ChildrenLeft(Stages(KindOf[o])) \in 0..2
    BY OpsAssumption DEF Kinds, Stages, Todos, ChildrenLeft
  <1>2. \A t \in Todos : t \in Seq({"create", "extract", "child"})
    BY TodosAreSequences
  <1>3. TypeOK
    BY <1>1, <1>2 DEF Init, TypeOK, ClientStates, Replies, WorkerStates, ChildStates, RunStates
  <1>4. \A o \in Ops : 0 + ChildrenLeft(Stages(KindOf[o])) <= 2
    BY <1>1
  <1> QED BY <1>1, <1>3, <1>4 DEF Init, OpInv, ChildrenCounted, WithChild

\* The thread's next stage.
LEMMA NextStageKeepsOpInv ==
    ASSUME OpInv, NEW o \in Ops, NextStage(o), UNCHANGED spawned, todo[o] # << >>,
           \/ worker[o] = "stage" /\ Head(todo[o]) # "child"
           \/ worker[o] = "closing"
    PROVE  /\ todo' \in [Ops -> Todos] /\ todo' \in [Ops -> Seq({"create", "extract", "child"})]
           /\ worker' \in [Ops -> WorkerStates]
           /\ ChildrenCounted'
  <1>1. /\ todo[o] \in Todos /\ Tail(todo[o]) \in Todos
        /\ ChildrenLeft(todo[o]) \in 0..2 /\ spawned[o] \in 0..2
        /\ spawned[o] + ChildrenLeft(Tail(todo[o])) <= 2
    <2>1. todo[o] \in Todos /\ spawned[o] \in 0..2
      BY DEF OpInv, TypeOK
    <2>2. /\ worker[o] = "stage" => spawned[o] + ChildrenLeft(todo[o]) <= 2
          /\ worker[o] = "closing" => /\ Head(todo[o]) = "child"
                                      /\ spawned[o] + ChildrenLeft(todo[o]) <= 3
      BY DEF OpInv, ChildrenCounted, WithChild
    <2> QED BY <2>1, <2>2, TodoTails
  <1>2. \A t \in Todos : t \in Seq({"create", "extract", "child"})
    BY TodosAreSequences
  <1>3. todo' \in [Ops -> Todos] /\ todo'[o] = Tail(todo[o])
    BY <1>1 DEF NextStage, OpInv
  <1>4. PICK state \in {"claim", "stage"} : worker' = [worker EXCEPT ![o] = state]
    BY DEF NextStage, Goto
  <1>5. worker' \in [Ops -> WorkerStates] /\ worker'[o] = state
    BY <1>4 DEF OpInv, TypeOK, WorkerStates
  <1>6. ASSUME NEW p \in Ops, p # o
        PROVE  worker'[p] = worker[p] /\ todo'[p] = todo[p]
    BY <1>4, <1>6 DEF NextStage, OpInv, TypeOK
  <1>7. ChildrenCounted'
    BY <1>1, <1>3, <1>5, <1>6 DEF OpInv, ChildrenCounted, WithChild
  <1> QED BY <1>2, <1>3, <1>5, <1>7

\* A step between two states in which the same is known of the children.
LEMMA GotoKeepsOpInv ==
    ASSUME OpInv, NEW o \in Ops, NEW state \in WorkerStates \ {"idle", "stage", "spawned"},
           Goto(o, state), UNCHANGED <<todo, spawned>>,
           state \in WithChild => worker[o] \in WithChild
    PROVE  worker' \in [Ops -> WorkerStates] /\ ChildrenCounted'
  <1>1. worker' \in [Ops -> WorkerStates] /\ worker'[o] = state
    BY DEF Goto, OpInv, TypeOK
  <1>2. \A p \in Ops : p # o => worker'[p] = worker[p]
    BY DEF Goto, OpInv, TypeOK
  <1> QED BY <1>1, <1>2 DEF OpInv, ChildrenCounted


\* Steps of the event loop, of shutdown and of another owner leave the threads'
\* stages alone.
LEMMA StagesStay ==
    ASSUME OpInv, TypeOK', UNCHANGED <<worker, todo, spawned>>
    PROVE  OpInv'
  BY DEF OpInv, ChildrenCounted

LEMMA ChildrenOfTyped ==
    ASSUME OpInv, NEW ops \in SUBSET Ops
    PROVE  ChildrenOf(ops) \subseteq Ops \X (1..2)
  BY DEF ChildrenOf, OpInv, TypeOK

LEMMA LoopKeepsOpInv ==
    ASSUME IInv, OpInv, NEW o \in Ops, Begin(o) \/ Cancel(o) \/ LoopStep(o)
    PROVE  OpInv'
  <1>1. CASE Begin(o)
    <2>1. worker' = [worker EXCEPT ![o] = "stage"] /\ UNCHANGED <<todo, spawned>>
      BY <1>1 DEF Begin
    <2>2. TypeOK'
      BY <1>1 DEF Begin, OpInv, TypeOK, ClientStates, WorkerStates
    <2>3. worker[o] = "idle"
      BY <1>1 DEF Begin, IInv, NotBegun
    <2>4. ChildrenCounted'
      BY <2>1, <2>3 DEF OpInv, TypeOK, ChildrenCounted, WithChild
    <2> QED BY <2>1, <2>2, <2>4 DEF OpInv
  <1>2. CASE Cancel(o)
    <2>1. ChildrenOf({o}) \subseteq Ops \X (1..2)
      BY ChildrenOfTyped
    <2>2. TypeOK'
      BY <1>2, <2>1 DEF Cancel, CommitWon, TargetsOf, OpInv, TypeOK, ClientStates, thread
    <2> QED BY <1>2, <2>2, StagesStay DEF Cancel, CommitWon, thread
  <1>3. ASSUME NEW answer \in Replies, EndOperation(o, answer)
        PROVE  /\ active' \subseteq Ops /\ cancelled' \subseteq Ops /\ committing' \subseteq Ops
               /\ client' \in [Ops -> ClientStates] /\ reply' \in [Ops -> Replies]
               /\ children' = children
    BY <1>3 DEF EndOperation, OpInv, TypeOK, ClientStates, Replies
  <1>4. CASE Receive(o) \/ FinishCancelled(o)
    <2>1. \E answer \in Replies : EndOperation(o, answer)
      BY <1>4 DEF Receive, FinishCancelled, Outcome, CancelAnswer, Replies
    <2>2. UNCHANGED <<doomed, shutdown, thread>>
      BY <1>4 DEF Receive, FinishCancelled
    <2>3. TypeOK'
      BY <1>3, <2>1, <2>2 DEF OpInv, TypeOK, thread
    <2> QED BY <2>2, <2>3, StagesStay DEF thread
  <1>5. CASE CancelTerminates(o)
    <2>1. /\ UNCHANGED <<shutdown, worker, todo, spawned, run>>
          /\ doomed' \subseteq Ops \X (1..2)
      BY <1>5 DEF CancelTerminates, OpInv, TypeOK
    <2>2. child' \in [Ops -> ChildStates]
      BY <1>5 DEF CancelTerminates, Terminated, OpInv, TypeOK, ChildStates
    <2>3. \/ EndOperation(o, "error")
          \/ /\ client' \in {client, [client EXCEPT ![o] = "cleanup"]}
             /\ UNCHANGED <<reply, controller>>
      BY <1>5 DEF CancelTerminates
    <2>4. TypeOK'
      BY <1>3, <2>1, <2>2, <2>3 DEF OpInv, TypeOK, controller, ClientStates, Replies
    <2> QED BY <2>1, <2>4, StagesStay
  <1> QED BY <1>1, <1>2, <1>4, <1>5 DEF LoopStep

LEMMA OthersKeepOpInv ==
    ASSUME OpInv,
           \/ Shutdown \/ ShutdownTerminates \/ OtherOwnerRecovers
           \/ (\E o \in Ops : ChildExits(o)) \/ UNCHANGED vars
    PROVE  OpInv'
  <1>1. UNCHANGED <<active, children, cancelled, committing, client, reply, worker, todo, spawned>>
    BY DEF Shutdown, ShutdownTerminates, OtherOwnerRecovers, ChildExits, vars, controller, loop,
           thread
  <1>2. shutdown' \in {"no", "killing", "returned", "raised"} /\ doomed' \subseteq Ops \X (1..2)
    <2>1. ChildrenOf(active) \subseteq Ops \X (1..2)
      BY ChildrenOfTyped DEF OpInv, TypeOK
    <2> QED BY <2>1 DEF OpInv, TypeOK, Shutdown, ShutdownTerminates, OtherOwnerRecovers,
              ChildExits, vars, loop
  <1>3. child' \in [Ops -> ChildStates]
    BY DEF OpInv, TypeOK, Shutdown, ShutdownTerminates, OtherOwnerRecovers, ChildExits, vars,
           thread, Terminated, ChildStates
  <1>4. run' \in [Ops -> RunStates]
    BY DEF OpInv, TypeOK, Shutdown, ShutdownTerminates, OtherOwnerRecovers, ChildExits, vars,
           thread, RunStates
  <1>5. TypeOK'
    BY <1>1, <1>2, <1>3, <1>4 DEF OpInv, TypeOK
  <1> QED BY <1>1, <1>5, StagesStay

LEMMA WorkerKeepsOpInv ==
    ASSUME OpInv, NEW o \in Ops, WorkerStep(o) \/ GiveUp(o)
    PROVE  OpInv'
  <1> USE DEF OpInv
  <1>1. UNCHANGED <<active, cancelled, client, reply, doomed, shutdown>>
    BY DEF WorkerStep, GiveUp, CreateRun, ExtractInThread, Spawn, Register, TerminateRefused,
           ReadResult, Unregister, ClaimCommit, PersistCandidate, Activate, Settle, controller,
           loop
  <1>2. committing' \subseteq Ops
    BY DEF WorkerStep, GiveUp, CreateRun, ExtractInThread, Spawn, Register, TerminateRefused,
           ReadResult, Unregister, ClaimCommit, PersistCandidate, Activate, Settle, controller,
           TypeOK
  <1>3. run' \in [Ops -> RunStates]
    BY DEF WorkerStep, GiveUp, CreateRun, ExtractInThread, Spawn, Register, TerminateRefused,
           ReadResult, Unregister, ClaimCommit, PersistCandidate, Activate, Settle, Settled,
           TypeOK, RunStates
  <1>4. child' \in [Ops -> ChildStates]
    BY DEF WorkerStep, GiveUp, CreateRun, ExtractInThread, Spawn, Register, TerminateRefused,
           ReadResult, Unregister, ClaimCommit, PersistCandidate, Activate, Settle, Terminated,
           TypeOK, ChildStates
  <1>5. children' \in [Ops -> SUBSET (1..2)]
    <2>1. CASE Register(o)
      <3>1. worker[o] \in WithChild /\ spawned[o] \in 1..2
        BY <2>1 DEF Register, WithChild, ChildrenCounted, TypeOK
      <3>2. children[o] \cup {spawned[o]} \in SUBSET (1..2)
        BY <3>1 DEF TypeOK
      <3>3. \/ children' = [children EXCEPT ![o] = children[o] \cup {spawned[o]}]
            \/ children' = children
        BY <2>1 DEF Register
      <3> QED BY <3>2, <3>3 DEF TypeOK
    <2>2. CASE Unregister(o)
      BY <2>2 DEF Unregister, TypeOK
    <2>3. CASE ~Register(o) /\ ~Unregister(o)
      BY <2>3 DEF WorkerStep, GiveUp, CreateRun, ExtractInThread, Spawn, TerminateRefused,
           ReadResult, ClaimCommit, PersistCandidate, Activate, Settle, controller, TypeOK
    <2> QED BY <2>1, <2>2, <2>3
  <1>6. /\ worker' \in [Ops -> WorkerStates]
        /\ todo' \in [Ops -> Todos] /\ todo' \in [Ops -> Seq({"create", "extract", "child"})]
        /\ spawned' \in [Ops -> 0..2]
        /\ ChildrenCounted'
    <2>1. CASE NextStage(o) /\ (CreateRun(o) \/ ExtractInThread(o) \/ Unregister(o))
      <3>1. /\ todo[o] # << >> /\ UNCHANGED spawned
            /\ \/ worker[o] = "stage" /\ Head(todo[o]) # "child"
               \/ worker[o] \in {"closing", "aborting"} /\ Unregister(o)
        BY <2>1 DEF CreateRun, ExtractInThread, Unregister, AtStage, ChildrenCounted, WithChild
      <3>2. CASE worker[o] = "aborting"
        <4>1. Goto(o, "settle") /\ UNCHANGED <<todo, spawned>>
          BY <3>1, <3>2 DEF Unregister
        <4> QED BY <4>1, GotoKeepsOpInv DEF WorkerStates, WithChild, TypeOK
      <3>3. CASE worker[o] # "aborting"
        <4>1. \/ worker[o] = "stage" /\ Head(todo[o]) # "child"
              \/ worker[o] = "closing"
          BY <3>1, <3>3
        <4>2. OpInv
          OBVIOUS
        <4> HIDE DEF OpInv
        <4>3. /\ todo' \in [Ops -> Todos]
              /\ todo' \in [Ops -> Seq({"create", "extract", "child"})]
              /\ worker' \in [Ops -> WorkerStates]
              /\ ChildrenCounted'
          BY <2>1, <3>1, <4>1, <4>2, NextStageKeepsOpInv
        <4> QED BY <3>1, <4>2, <4>3 DEF OpInv, TypeOK
      <3> QED BY <3>2, <3>3
    <2>2. CASE Spawn(o) /\ Goto(o, "spawned")
      <3>1. /\ worker[o] = "stage" /\ todo[o] # << >> /\ Head(todo[o]) = "child"
            /\ todo[o] \in Todos
            /\ spawned[o] \in 0..2 /\ spawned[o] + ChildrenLeft(todo[o]) <= 2
        BY <2>2 DEF Spawn, AtStage, ChildrenCounted, TypeOK
      <3>2. ChildrenLeft(todo[o]) \in 1..2
        BY <3>1, TodoTails
      <3>3. /\ spawned' = [spawned EXCEPT ![o] = spawned[o] + 1]
            /\ worker' = [worker EXCEPT ![o] = "spawned"]
            /\ todo' = todo
        BY <2>2, <3>1 DEF Spawn, Goto, TypeOK, WorkerStates
      <3>4. spawned[o] + 1 \in 1..2 /\ (spawned[o] + 1) + ChildrenLeft(todo[o]) <= 3
        BY <3>1, <3>2
      <3>5. worker' \in [Ops -> WorkerStates] /\ spawned' \in [Ops -> 0..2]
        BY <3>3, <3>4 DEF TypeOK, WorkerStates
      <3>6. /\ worker'[o] = "spawned" /\ spawned'[o] = spawned[o] + 1
            /\ \A p \in Ops : p # o => worker'[p] = worker[p] /\ spawned'[p] = spawned[p]
        BY <3>3 DEF TypeOK
      <3>7. ChildrenCounted'
        BY <3>1, <3>3, <3>4, <3>6 DEF ChildrenCounted, WithChild
      <3> QED BY <3>3, <3>5, <3>7 DEF TypeOK
    <2>3. CASE /\ UNCHANGED <<todo, spawned>>
               /\ \E state \in WorkerStates \ {"idle", "stage", "spawned"} :
                     Goto(o, state) /\ (state \in WithChild => worker[o] \in WithChild)
      BY <2>3, GotoKeepsOpInv DEF TypeOK
    <2>4. CASE Register(o) \/ TerminateRefused(o) \/ ReadResult(o) \/ GiveUp(o)
      <3>1. worker[o] \in WithChild /\ UNCHANGED <<todo, spawned>>
        BY <2>4 DEF Register, TerminateRefused, ReadResult, GiveUp, WithChild
      <3>2. \E state \in {"reading", "refused", "aborting", "closing"} : Goto(o, state)
        BY <2>4 DEF Register, TerminateRefused, ReadResult, GiveUp
      <3> QED BY <2>3, <3>1, <3>2 DEF WorkerStates
    <2>5. CASE ClaimCommit(o) \/ PersistCandidate(o) \/ Activate(o) \/ Settle(o)
      <3>1. UNCHANGED <<todo, spawned>>
        BY <2>5 DEF ClaimCommit, PersistCandidate, Activate, Settle
      <3>2. \E state \in {"persist", "activate", "settle", "done"} : Goto(o, state)
        BY <2>5 DEF ClaimCommit, PersistCandidate, Activate, Settle
      <3> QED BY <2>3, <3>1, <3>2 DEF WorkerStates, WithChild
    <2>6. CASE /\ CreateRun(o) \/ ExtractInThread(o) \/ Spawn(o) \/ Unregister(o)
               /\ Goto(o, "settle") /\ UNCHANGED todo /\ UNCHANGED spawned
      BY <2>3, <2>6 DEF WorkerStates, WithChild
    <2> QED BY <2>1, <2>2, <2>4, <2>5, <2>6
          DEF WorkerStep, CreateRun, ExtractInThread, Spawn, Unregister
  <1>7. TypeOK'
    BY <1>1, <1>2, <1>3, <1>4, <1>5, <1>6 DEF TypeOK
  <1> QED BY <1>6, <1>7

LEMMA OpInvAlways == Spec => []OpInv
  <1>1. IInv /\ OpInv /\ [Next]_vars => OpInv'
    BY LoopKeepsOpInv, OthersKeepOpInv, WorkerKeepsOpInv DEF Next
  <1> QED BY OpInvInit, IInvAlways, <1>1, PTL DEF Spec

\* Every variable keeps its type: an operation never starts more than two
\* children, whichever route it takes.
THEOREM OperationTypeCorrect == Spec => []TypeOK
  <1>1. OpInv => TypeOK
    BY DEF OpInv
  <1> QED BY OpInvAlways, <1>1, PTL


-----------------------------------------------------------------------------
(* What CancelledIngestEnds needs besides fairness: the thread of a          *)
(* cancelled ingest always has a step to take, and only so many of them.     *)

\* The thread has a step to take: everything but to wait for a living child.
ThreadReady(o) ==
    \/ \E stage \in {"create", "extract", "child"} : AtStage(o, stage)
    \/ worker[o] \in {"spawned", "refused", "closing", "aborting"}
    \/ worker[o] = "reading" /\ child[o] # "alive"
    \/ worker[o] \in {"claim", "persist", "activate", "settle"}

\* Once a coroutine waits for its worker, the worker waits for nothing.
CleanupNeverStalls ==
    \A o \in Ops : client[o] = "cleanup" /\ worker[o] # "done" => ThreadReady(o)

\* How far a worker can still go in its stage, and after its last one.
InStage ==
    [spawned |-> 5, refused |-> 4, reading |-> 3, closing |-> 2, aborting |-> 2]
AfterStages ==
    [claim |-> 5, persist |-> 4, activate |-> 3, settle |-> 1, done |-> 0]

\* A bound on the steps a thread still takes, six for each stage.
StepsLeft(o) ==
    IF worker[o] \in {"idle", "stage"} THEN 6 * Len(todo[o]) + 6
    ELSE IF worker[o] \in WithChild THEN 6 * Len(todo[o]) + InStage[worker[o]]
    ELSE AfterStages[worker[o]]

ThreadsRunDown ==
    [][\A o \in Ops : worker[o] # "idle" /\ <<worker'[o], todo'[o]>> # <<worker[o], todo[o]>> =>
           StepsLeft(o)' < StepsLeft(o)]_vars

\* A thread that has begun has a stage to run; a claimed commit is used.
StagesRemain ==
    /\ \A o \in Ops : worker[o] \in {"idle", "stage"} => todo[o] # << >>
    /\ \A o \in Ops : client[o] # "idle" => worker[o] # "idle"
    /\ \A o \in Ops : o \in committing => worker[o] \in {"persist", "activate", "settle", "done"}

\* A thread that waits for a living child.
Blocked(o) == worker[o] = "reading" /\ child[o] = "alive"

\* Such a child is registered, so that a cancellation selects it; the coroutine
\* goes on to wait for its worker only when it is dead.
BlockedIsSelected ==
    \A o \in Ops : Blocked(o) =>
        /\ spawned[o] \in children[o]
        /\ client[o] = "terminating" => <<o, spawned[o]>> \in doomed
        /\ client[o] # "cleanup"

CleanupIsDecided == \A o \in Ops : client[o] = "cleanup" => o \in committing \cup cancelled

RInv == StagesRemain /\ BlockedIsSelected /\ CleanupIsDecided

\* The part of it that steps of the event loop can disturb.
Covered ==
    \A o \in Ops :
        /\ client[o] = "terminating" /\ Blocked(o) => <<o, spawned[o]>> \in doomed
        /\ client[o] = "cleanup" => ~Blocked(o) /\ o \in committing \cup cancelled


LEMMA RInvInit == Init => RInv
  <1>1. \A o \in Ops : Stages(KindOf[o]) # << >>
    BY OpsAssumption DEF Stages, Kinds
  <1> QED BY <1>1 DEF Init, RInv, StagesRemain, BlockedIsSelected, Blocked, CleanupIsDecided

-----------------------------------------------------------------------------
\* A stage less, each time.
LEMMA TodoLengths ==
    ASSUME NEW t \in Todos, t # << >>
    PROVE  /\ Len(t) \in 1..3
           /\ Len(Tail(t)) = Len(t) - 1
           /\ Len(t) # 1 => Tail(t) # << >>
  <1>1. CASE t = <<"extract">>
    <2>1. Len(t) = 1 /\ Tail(t) = << >> /\ Len(Tail(t)) = 0
      BY <1>1
    <2> QED BY <2>1
  <1>2. CASE t = <<"child">>
    <2>1. Len(t) = 1 /\ Tail(t) = << >> /\ Len(Tail(t)) = 0
      BY <1>2
    <2> QED BY <2>1
  <1>3. CASE t = <<"create", "extract">>
    <2>1. Len(t) = 2 /\ Tail(t) = <<"extract">> /\ Len(Tail(t)) = 1
      BY <1>3
    <2> QED BY <2>1
  <1>4. CASE t = <<"create", "child">>
    <2>1. Len(t) = 2 /\ Tail(t) = <<"child">> /\ Len(Tail(t)) = 1
      BY <1>4
    <2> QED BY <2>1
  <1>5. CASE t = <<"child", "create", "child">>
    <2>1. Len(t) = 3 /\ Tail(t) = <<"create", "child">> /\ Len(Tail(t)) = 2
      BY <1>5
    <2> QED BY <2>1
  <1> QED BY <1>1, <1>2, <1>3, <1>4, <1>5 DEF Todos

\* The step of a thread that does not leave it waiting for a living child.
LEMMA ThreadKeepsRInv ==
    ASSUME RInv, NEW o \in Ops, ~Blocked(o)',
           \A p \in Ops \ {o} : /\ worker'[p] = worker[p] /\ todo'[p] = todo[p]
                                /\ child'[p] = child[p] /\ spawned'[p] = spawned[p]
                                /\ children'[p] = children[p],
           worker'[o] # "idle",
           worker'[o] = "stage" => todo'[o] # << >>,
           o \in committing' => worker'[o] \in {"persist", "activate", "settle", "done"},
           committing' \in {committing, committing \cup {o}},
           UNCHANGED <<cancelled, loop>>
    PROVE  RInv'
  <1>1. StagesRemain'
    BY DEF RInv, StagesRemain, loop
  <1>2. ASSUME NEW p \in Ops, Blocked(p)'
        PROVE  /\ spawned'[p] \in children'[p]
               /\ client'[p] = "terminating" => <<p, spawned'[p]>> \in doomed'
               /\ client'[p] # "cleanup"
    <2>1. p # o /\ Blocked(p)
      BY <1>2 DEF Blocked
    <2> QED BY <2>1 DEF RInv, BlockedIsSelected, loop
  <1>3. CleanupIsDecided'
    BY DEF RInv, CleanupIsDecided, loop
  <1> QED BY <1>1, <1>2, <1>3 DEF RInv, BlockedIsSelected

\* A step that moves no thread, and lets no child live again.
LEMMA OthersKeepRInv ==
    ASSUME RInv, UNCHANGED <<worker, todo, spawned, children>>, committing' \subseteq committing,
           \A p \in Ops : child'[p] = "alive" => child[p] = "alive",
           \A p \in Ops : client'[p] # "idle" => worker[p] # "idle",
           Covered'
    PROVE  RInv'
  <1>1. StagesRemain'
    BY DEF RInv, StagesRemain
  <1>2. ASSUME NEW p \in Ops, Blocked(p)'
        PROVE  /\ spawned'[p] \in children'[p]
               /\ client'[p] = "terminating" => <<p, spawned'[p]>> \in doomed'
               /\ client'[p] # "cleanup"
    <2>1. Blocked(p)
      BY <1>2 DEF Blocked
    <2> QED BY <1>2, <2>1 DEF RInv, BlockedIsSelected, Covered
  <1>3. CleanupIsDecided'
    BY DEF CleanupIsDecided, Covered
  <1> QED BY <1>1, <1>2, <1>3 DEF RInv, BlockedIsSelected

LEMMA BeginKeepsRInv ==
    ASSUME IInv, RInv, NEW o \in Ops, Begin(o)
    PROVE  RInv'
  <1>1. worker[o] = "idle" /\ o \notin committing
    BY DEF Begin, IInv, NotBegun, RInv, StagesRemain
  <1>2. /\ \A p \in Ops : worker'[p] = IF p = o THEN "stage" ELSE worker[p]
        /\ \A p \in Ops : client'[p] = IF p = o THEN "awaiting" ELSE client[p]
        /\ UNCHANGED <<children, cancelled, committing, doomed, todo, child, spawned>>
    BY DEF Begin, IInv, Shape
  <1>3. StagesRemain'
    BY <1>1, <1>2 DEF RInv, StagesRemain
  <1>4. BlockedIsSelected' /\ CleanupIsDecided'
    BY <1>1, <1>2 DEF RInv, BlockedIsSelected, Blocked, CleanupIsDecided
  <1> QED BY <1>3, <1>4 DEF RInv

LEMMA CancelKeepsRInv ==
    ASSUME IInv, RInv, NEW o \in Ops, Cancel(o)
    PROVE  RInv'
  <1>1. /\ LoopFree /\ client[o] = "awaiting" /\ worker[o] # "idle"
        /\ UNCHANGED <<worker, todo, spawned, children, child, committing>>
    BY DEF Cancel, CommitWon, RInv, StagesRemain, thread
  <1>2. CASE o \in committing
    <2>1. \A p \in Ops : client'[p] = IF p = o THEN "cleanup" ELSE client[p]
      BY <1>2 DEF Cancel, CommitWon, IInv, Shape
    <2>2. UNCHANGED <<cancelled, doomed>> /\ ~Blocked(o)
      BY <1>2 DEF Cancel, CommitWon, RInv, StagesRemain, Blocked
    <2>3. \A p \in Ops : client'[p] # "idle" => worker[p] # "idle"
      BY <1>1, <2>1 DEF RInv, StagesRemain
    <2>4. Covered'
      BY <1>1, <1>2, <2>1, <2>2 DEF RInv, BlockedIsSelected, CleanupIsDecided, Blocked, Covered
    <2> QED BY <1>1, <2>3, <2>4, OthersKeepRInv
  <1>3. CASE o \notin committing
    <2>1. /\ \A p \in Ops : client'[p] = IF p = o THEN "terminating" ELSE client[p]
          /\ \A p \in Ops : client[p] # "terminating"
          /\ cancelled' = cancelled \cup {o}
          /\ doomed' = ChildrenOf({o})
      BY <1>1, <1>3 DEF Cancel, CommitWon, LoopFree, TargetsOf, IInv, Shape
    <2>2. Blocked(o) => <<o, spawned[o]>> \in ChildrenOf({o})
      BY DEF RInv, BlockedIsSelected, ChildrenOf
    <2>3. \A p \in Ops : client'[p] # "idle" => worker[p] # "idle"
      BY <1>1, <2>1 DEF RInv, StagesRemain
    <2>4. Covered'
      BY <1>1, <2>1, <2>2 DEF RInv, BlockedIsSelected, CleanupIsDecided, Blocked, Covered
    <2> QED BY <1>1, <2>3, <2>4, OthersKeepRInv
  <1> QED BY <1>2, <1>3

\* An answer ends the wait.
LEMMA AnswerKeepsRInv ==
    ASSUME IInv, RInv, NEW o \in Ops, NEW answer, EndOperation(o, answer), client[o] # "idle",
           doomed' = doomed \/ \A p \in Ops \ {o} : client[p] # "terminating",
           UNCHANGED thread
    PROVE  RInv'
  <1>1. /\ \A p \in Ops : client'[p] = IF p = o THEN "ended" ELSE client[p]
        /\ UNCHANGED children
        /\ committing' \in {committing, committing \ {o}}
        /\ cancelled' \in {cancelled, cancelled \ {o}}
    BY DEF EndOperation, IInv, Shape
  <1>2. \A p \in Ops : client'[p] # "idle" => worker[p] # "idle"
    BY <1>1 DEF RInv, StagesRemain
  <1>3. Covered'
    BY <1>1 DEF RInv, BlockedIsSelected, CleanupIsDecided, Blocked, Covered, thread
  <1> QED BY <1>1, <1>2, <1>3, OthersKeepRInv DEF thread

\* A terminator that reaped a child no longer has to hit it.
LEMMA ReapKeepsRInv ==
    ASSUME TInv, RInv, NEW t \in doomed, Terminated(t[1], t[2]), doomed' = doomed \ {t},
           UNCHANGED <<client, controller, worker, todo, spawned>>
    PROVE  RInv'
  <1>1. \A p \in Ops : child'[p] = "alive" => child[p] = "alive" /\ t # <<p, spawned[p]>>
    BY DEF Terminated, TInv, ChildShape
  <1>2. \A p \in Ops : client'[p] # "idle" => worker[p] # "idle"
    BY DEF RInv, StagesRemain
  <1>3. Covered'
    BY <1>1 DEF RInv, BlockedIsSelected, CleanupIsDecided, Blocked, Covered, controller
  <1> QED BY <1>1, <1>2, <1>3, OthersKeepRInv DEF controller

LEMMA LoopStepKeepsRInv ==
    ASSUME IInv, TInv, RInv, NEW o \in Ops, LoopStep(o)
    PROVE  RInv'
  <1>1. CASE Receive(o)
    BY <1>1, AnswerKeepsRInv DEF Receive
  <1>2. CASE FinishCancelled(o)
    BY <1>2, AnswerKeepsRInv DEF FinishCancelled
  <1>3. CASE CancelTerminates(o)
    <2>1. /\ client[o] = "terminating" /\ o \in cancelled
          /\ \A p \in Ops \ {o} : client[p] # "terminating"
          /\ UNCHANGED <<worker, todo, spawned, run>>
      BY <1>3 DEF CancelTerminates, TInv, OneTerminator, IInv, TerminatingIsCancelled
    <2>2. ASSUME NEW t \in doomed, Terminated(t[1], t[2]), doomed' = doomed \ {t},
                 UNCHANGED <<client, reply, controller>>
          PROVE  RInv'
      BY <2>1, <2>2, ReapKeepsRInv
    <2>3. CASE EndOperation(o, "error") /\ UNCHANGED child
      BY <2>1, <2>3, AnswerKeepsRInv DEF thread
    <2>4. CASE /\ doomed = {}
               /\ client' = [client EXCEPT ![o] = "cleanup"]
               /\ UNCHANGED <<doomed, reply, controller, child>>
      <3>1. \A p \in Ops : client'[p] = IF p = o THEN "cleanup" ELSE client[p]
        BY <2>4 DEF IInv, Shape
      <3>2. ~Blocked(o)
        BY <2>1, <2>4 DEF RInv, BlockedIsSelected
      <3>3. \A p \in Ops : client'[p] # "idle" => worker[p] # "idle"
        BY <2>1, <3>1 DEF RInv, StagesRemain
      <3>4. Covered'
        BY <2>1, <2>4, <3>1, <3>2 DEF RInv, BlockedIsSelected, CleanupIsDecided, Blocked, Covered,
                                       controller
      <3> QED BY <2>1, <2>4, <3>3, <3>4, OthersKeepRInv DEF controller
    <2> QED BY <1>3, <2>2, <2>3, <2>4 DEF CancelTerminates
  <1> QED BY <1>1, <1>2, <1>3 DEF LoopStep


LEMMA ThreadStepKeepsRInv ==
    ASSUME IInv, TInv, OpInv, RInv, NEW o \in Ops, WorkerStep(o) \/ GiveUp(o)
    PROVE  RInv'
  <1>1. /\ UNCHANGED <<cancelled, loop>>
        /\ \A p \in Ops \ {o} : /\ worker'[p] = worker[p] /\ todo'[p] = todo[p]
                                /\ child'[p] = child[p] /\ spawned'[p] = spawned[p]
                                /\ children'[p] = children[p]
    <2>1. UNCHANGED <<cancelled, loop>>
      BY DEF WorkerStep, GiveUp, CreateRun, ExtractInThread, Spawn, Register, TerminateRefused,
             ReadResult, Unregister, ClaimCommit, PersistCandidate, Activate, Settle, controller
    <2>2. \A p \in Ops \ {o} : worker'[p] = worker[p] /\ todo'[p] = todo[p]
      BY DEF WorkerStep, GiveUp, CreateRun, ExtractInThread, Spawn, Register, TerminateRefused,
             ReadResult, Unregister, ClaimCommit, PersistCandidate, Activate, Settle,
             NextStage, Goto, OpInv, TypeOK
    <2>3. \A p \in Ops \ {o} : child'[p] = child[p] /\ spawned'[p] = spawned[p]
      BY DEF WorkerStep, GiveUp, CreateRun, ExtractInThread, Spawn, Register, TerminateRefused,
             ReadResult, Unregister, ClaimCommit, PersistCandidate, Activate, Settle,
             Terminated, OpInv, TypeOK
    <2>4. \A p \in Ops \ {o} : children'[p] = children[p]
      BY DEF WorkerStep, GiveUp, CreateRun, ExtractInThread, Spawn, Register, TerminateRefused,
             ReadResult, Unregister, ClaimCommit, PersistCandidate, Activate, Settle,
             controller, OpInv, TypeOK
    <2> QED BY <2>1, <2>2, <2>3, <2>4
  <1>2. ASSUME NEW state \in WorkerStates \ {"idle", "stage", "reading"}, Goto(o, state),
               UNCHANGED committing,
               o \in committing => state \in {"persist", "activate", "settle", "done"}
        PROVE  RInv'
    <2>1. worker'[o] = state
      BY <1>2 DEF Goto, OpInv, TypeOK
    <2> QED BY <1>1, <1>2, <2>1, ThreadKeepsRInv DEF Blocked
  <1>3. worker[o] \notin {"persist", "activate", "settle", "done"} => o \notin committing
    BY DEF RInv, StagesRemain
  <1>4. ASSUME NextStage(o), UNCHANGED committing, worker[o] \in {"stage", "closing"}
        PROVE  RInv'
    <2>1. /\ worker'[o] = IF Len(todo[o]) = 1 THEN "claim" ELSE "stage"
          /\ todo'[o] = Tail(todo[o])
      BY <1>4 DEF NextStage, Goto, OpInv, TypeOK
    <2>2. todo[o] \in Todos /\ todo[o] # << >>
      BY <1>4 DEF OpInv, RInv, StagesRemain, ChildrenCounted, WithChild
    <2>3. Len(todo[o]) # 1 => Tail(todo[o]) # << >>
      BY <2>2, TodoLengths
    <2> QED BY <1>1, <1>3, <1>4, <2>1, <2>3, ThreadKeepsRInv DEF Blocked
  <1>5. CASE CreateRun(o) \/ ExtractInThread(o)
    BY <1>2, <1>3, <1>4, <1>5 DEF CreateRun, ExtractInThread, AtStage, controller, WorkerStates
  <1>6. CASE Spawn(o)
    BY <1>2, <1>3, <1>6 DEF Spawn, AtStage, controller, WorkerStates
  <1>7. CASE Register(o)
    <2>1. o \in active /\ worker[o] = "spawned" /\ UNCHANGED <<committing, todo, spawned>>
      BY <1>7 DEF Register, TInv, ForgottenIsOver
    <2>2. CASE Goto(o, "refused")
      BY <1>2, <1>3, <2>1, <2>2 DEF WorkerStates
    <2>3. CASE /\ o \notin cancelled
               /\ children' = [children EXCEPT ![o] = @ \cup {spawned[o]}]
               /\ Goto(o, "reading")
      <3>1. /\ spawned[o] \in children'[o] /\ worker'[o] = "reading" /\ o \notin committing
            /\ client[o] \notin {"terminating", "cleanup"}
        BY <1>3, <2>1, <2>3 DEF Goto, OpInv, TypeOK, IInv, TerminatingIsCancelled, RInv,
             CleanupIsDecided
      <3>2. StagesRemain'
        BY <1>1, <2>1, <3>1 DEF RInv, StagesRemain, loop
      <3>3. BlockedIsSelected' /\ CleanupIsDecided'
        BY <1>1, <2>1, <3>1 DEF RInv, BlockedIsSelected, Blocked, CleanupIsDecided, loop
      <3> QED BY <3>2, <3>3 DEF RInv
    <2> QED BY <1>7, <2>1, <2>2, <2>3 DEF Register, Doomed
  <1>8. CASE TerminateRefused(o)
    <2>1. CASE Goto(o, "aborting")
      BY <1>2, <1>3, <1>8, <2>1 DEF TerminateRefused, controller, WorkerStates
    <2>2. CASE Terminated(o, spawned[o]) /\ Goto(o, "reading")
      <3>1. worker'[o] = "reading" /\ child'[o] # "alive"
        BY <2>2 DEF Terminated, Goto, OpInv, TypeOK
      <3> QED BY <1>1, <1>3, <1>8, <3>1, ThreadKeepsRInv DEF TerminateRefused, controller, Blocked
    <2> QED BY <1>8, <2>1, <2>2 DEF TerminateRefused
  <1>9. CASE ReadResult(o) \/ GiveUp(o)
    BY <1>2, <1>3, <1>9 DEF ReadResult, GiveUp, controller, WorkerStates
  <1>10. CASE Unregister(o)
    BY <1>2, <1>3, <1>4, <1>10 DEF Unregister, WorkerStates
  <1>11. CASE ClaimCommit(o)
    <2>1. CASE Goto(o, "persist") /\ committing' = committing \cup {o}
      <3>1. worker'[o] = "persist"
        BY <2>1 DEF Goto, OpInv, TypeOK
      <3> QED BY <1>1, <2>1, <3>1, ThreadKeepsRInv DEF Blocked
    <2>2. CASE Goto(o, "settle") /\ UNCHANGED committing
      BY <1>2, <1>3, <2>2 DEF WorkerStates
    <2> QED BY <1>11, <2>1, <2>2 DEF ClaimCommit
  <1>12. CASE PersistCandidate(o) \/ Activate(o) \/ Settle(o)
    BY <1>2, <1>12 DEF PersistCandidate, Activate, Settle, controller, WorkerStates
  <1> QED BY <1>5, <1>6, <1>7, <1>8, <1>9, <1>10, <1>11, <1>12 DEF WorkerStep

LEMMA RInvStep == IInv /\ TInv /\ OpInv /\ RInv /\ [Next]_vars => RInv'
  <1> SUFFICES ASSUME IInv, TInv, OpInv, RInv, [Next]_vars PROVE RInv'
    OBVIOUS
  <1>1. ASSUME NEW o \in Ops, WorkerStep(o) \/ GiveUp(o) PROVE RInv'
    BY <1>1, ThreadStepKeepsRInv
  <1>2. ASSUME NEW o \in Ops, Begin(o) \/ Cancel(o) \/ LoopStep(o) PROVE RInv'
    BY <1>2, BeginKeepsRInv, CancelKeepsRInv, LoopStepKeepsRInv
  <1>3. ASSUME UNCHANGED <<controller, client, worker, todo, spawned>>,
               doomed' = doomed \/ \A p \in Ops : client[p] # "terminating",
               \A p \in Ops : child'[p] = "alive" => child[p] = "alive"
        PROVE  RInv'
    <2>1. \A p \in Ops : client'[p] # "idle" => worker[p] # "idle"
      BY <1>3 DEF RInv, StagesRemain
    <2>2. Covered'
      BY <1>3 DEF RInv, BlockedIsSelected, CleanupIsDecided, Blocked, Covered, controller
    <2> QED BY <1>3, <2>1, <2>2, OthersKeepRInv DEF controller
  <1>4. ASSUME NEW o \in Ops, ChildExits(o) PROVE RInv'
    BY <1>3, <1>4 DEF ChildExits, loop, OpInv, TypeOK
  <1>5. CASE Shutdown \/ ShutdownTerminates
    <2>1. \A p \in Ops : client[p] # "terminating"
      BY <1>5 DEF Shutdown, ShutdownTerminates, LoopFree, TInv, OneTerminator
    <2>2. \A p \in Ops : child'[p] = "alive" => child[p] = "alive"
      BY <1>5 DEF Shutdown, ShutdownTerminates, Terminated, thread, OpInv, TypeOK
    <2> QED BY <1>3, <1>5, <2>1, <2>2 DEF Shutdown, ShutdownTerminates, thread
  <1>6. CASE OtherOwnerRecovers \/ UNCHANGED vars
    BY <1>3, <1>6 DEF OtherOwnerRecovers, vars, loop, thread
  <1> QED BY <1>1, <1>2, <1>4, <1>5, <1>6 DEF Next

LEMMA RInvAlways == Spec => []RInv
  BY IInvAlways, TInvAlways, OpInvAlways, RInvInit, RInvStep, PTL DEF Spec

\* Once its coroutine waits for the worker alone, a cancelled ingest is never
\* stuck: whatever its child does, and even if it registered after cancellation,
\* the thread has a step to take, or is over.
THEOREM CleanupMovesOn == Spec => []CleanupNeverStalls
  <1>1. OpInv /\ RInv => CleanupNeverStalls
    <2> SUFFICES ASSUME OpInv, RInv, NEW o \in Ops, client[o] = "cleanup", worker[o] # "done"
                 PROVE  ThreadReady(o)
      BY DEF CleanupNeverStalls
    <2>1. worker[o] \in WorkerStates \ {"idle", "done"} /\ ~Blocked(o)
      BY DEF OpInv, TypeOK, RInv, StagesRemain, BlockedIsSelected
    <2>2. worker[o] = "stage" => todo[o] \in Todos \ {<< >>}
      BY DEF OpInv, RInv, StagesRemain
    <2>3. \A t \in Todos \ {<< >>} : Head(t) \in {"create", "extract", "child"}
      BY DEF Todos
    <2>4. worker[o] = "stage" => \E stage \in {"create", "extract", "child"} : AtStage(o, stage)
      BY <2>2, <2>3 DEF AtStage
    <2> QED BY <2>1, <2>4 DEF ThreadReady, Blocked, WorkerStates
  <1> QED BY <1>1, OpInvAlways, RInvAlways, PTL


\* No thread runs for ever: each of its steps, whatever it is and whether or not
\* it fails, leaves less to do, and a fresh thread has at most 24 steps before it.
THEOREM ThreadsAreFinite ==
    /\ Spec => ThreadsRunDown
    /\ Spec => [](\A o \in Ops : StepsLeft(o) \in 0..24)
  <1>1. ASSUME OpInv, NEW o \in Ops
        PROVE  /\ StepsLeft(o) \in 0..24
               /\ Len(todo[o]) \in 0..3
               /\ worker[o] \in WithChild => Len(todo[o]) >= 1
    <2>1. todo[o] \in Todos /\ worker[o] \in WorkerStates
      BY <1>1 DEF OpInv, TypeOK
    <2>2. Len(todo[o]) \in 0..3 /\ (todo[o] # << >> => Len(todo[o]) >= 1)
      <3>1. CASE todo[o] = << >>
        <4>1. Len(<< >>) = 0
          OBVIOUS
        <4> QED BY <3>1, <4>1
      <3> QED BY <2>1, <3>1, TodoLengths
    <2>3. worker[o] \in WithChild => InStage[worker[o]] \in 0..6
      BY DEF WithChild, InStage
    <2>4. worker[o] \in WorkerStates \ ({"idle", "stage"} \cup WithChild) =>
              AfterStages[worker[o]] \in 0..24
      BY DEF WorkerStates, WithChild, AfterStages
    <2>5. worker[o] \in WithChild => todo[o] # << >>
      BY <1>1 DEF OpInv, ChildrenCounted
    <2>6. CASE worker[o] \in {"idle", "stage"}
      <3>1. StepsLeft(o) = 6 * Len(todo[o]) + 6
        BY <2>6 DEF StepsLeft
      <3>2. worker[o] \notin WithChild
        BY <2>6 DEF WithChild
      <3>3. \A n \in 0..3 : 6 * n + 6 \in 0..24
        OBVIOUS
      <3> QED BY <2>2, <3>1, <3>2, <3>3
    <2>7. CASE worker[o] \in WithChild
      <3>1. StepsLeft(o) = 6 * Len(todo[o]) + InStage[worker[o]]
        BY <2>7 DEF StepsLeft, WithChild
      <3>2. \A n \in 0..3, k \in 0..6 : 6 * n + k \in 0..24
        OBVIOUS
      <3> QED BY <2>2, <2>3, <2>5, <2>7, <3>1, <3>2
    <2>8. CASE worker[o] \notin {"idle", "stage"} \cup WithChild
      <3>1. StepsLeft(o) = AfterStages[worker[o]]
        BY <2>8 DEF StepsLeft
      <3> QED BY <2>1, <2>2, <2>4, <2>8, <3>1
    <2> QED BY <2>6, <2>7, <2>8
  <1>2. ASSUME IInv, TInv, OpInv, RInv, [Next]_vars, NEW o \in Ops, worker[o] # "idle",
               <<worker'[o], todo'[o]>> # <<worker[o], todo[o]>>
        PROVE  StepsLeft(o)' < StepsLeft(o)
    <2>1. WorkerStep(o) \/ GiveUp(o)
      <3>1. ASSUME NEW p \in Ops, WorkerStep(p) \/ GiveUp(p), p # o PROVE FALSE
        <4>1. worker'[o] = worker[o] /\ todo'[o] = todo[o]
          BY <1>2, <3>1 DEF WorkerStep, GiveUp, CreateRun, ExtractInThread, Spawn, Register,
             TerminateRefused, ReadResult, Unregister, ClaimCommit, PersistCandidate, Activate,
             Settle, NextStage, Goto, OpInv, TypeOK
        <4> QED BY <1>2, <4>1
      <3>2. ASSUME NEW p \in Ops, Begin(p) PROVE FALSE
        <4>1. worker[p] = "idle" /\ todo' = todo /\ worker' = [worker EXCEPT ![p] = "stage"]
          BY <1>2, <3>2 DEF Begin, IInv, NotBegun
        <4> QED BY <1>2, <4>1 DEF OpInv, TypeOK
      <3>3. ASSUME UNCHANGED <<worker, todo>> PROVE FALSE
        BY <1>2, <3>3
      <3>4. ASSUME NEW p \in Ops, Cancel(p) \/ LoopStep(p) \/ ChildExits(p)
            PROVE  UNCHANGED <<worker, todo>>
        BY <3>4 DEF Cancel, LoopStep, Receive, CancelTerminates, FinishCancelled, ChildExits, thread
      <3>5. Shutdown \/ ShutdownTerminates \/ OtherOwnerRecovers \/ UNCHANGED vars
              => UNCHANGED <<worker, todo>>
        BY DEF Shutdown, ShutdownTerminates, OtherOwnerRecovers, vars, thread
      <3> QED BY <1>2, <3>1, <3>2, <3>3, <3>4, <3>5 DEF Next
    <2>2. /\ Len(todo[o]) \in 0..3
          /\ worker[o] \in WithChild => Len(todo[o]) >= 1
      BY <1>1, <1>2
    <2>3. ASSUME NEW state \in WorkerStates, Goto(o, state) PROVE worker'[o] = state
      BY <1>2, <2>3 DEF Goto, OpInv, TypeOK
    <2>4. CASE NextStage(o) /\ worker[o] \in {"stage", "closing"}
      <3>1. todo[o] \in Todos /\ todo[o] # << >>
        BY <1>2, <2>4 DEF OpInv, RInv, StagesRemain, ChildrenCounted, WithChild
      <3>2. /\ worker'[o] = IF Len(todo[o]) = 1 THEN "claim" ELSE "stage"
            /\ Len(todo'[o]) = Len(todo[o]) - 1
        BY <1>2, <2>4, <3>1, TodoLengths DEF NextStage, Goto, OpInv, TypeOK
      <3>3. AfterStages["claim"] = 5 /\ InStage["closing"] = 2
        BY DEF AfterStages, InStage
      <3>4. Len(todo[o]) \in 1..3
        BY <3>1, TodoLengths
      <3> HIDE DEF AfterStages, InStage
      <3> QED BY <2>4, <3>2, <3>3, <3>4 DEF StepsLeft, WithChild
    <2>5. CASE UNCHANGED todo
      <3>1. \/ worker[o] = "stage" /\ worker'[o] \in {"settle", "spawned"}
            \/ worker[o] = "spawned" /\ worker'[o] \in {"refused", "reading", "aborting"}
            \/ worker[o] = "refused" /\ worker'[o] \in {"reading", "aborting"}
            \/ worker[o] = "reading" /\ worker'[o] \in {"closing", "aborting"}
            \/ worker[o] = "aborting" /\ worker'[o] = "settle"
            \/ worker[o] \in {"stage", "closing"} /\ NextStage(o)
            \/ worker[o] = "claim" /\ worker'[o] \in {"persist", "settle"}
            \/ worker[o] = "persist" /\ worker'[o] \in {"activate", "settle", "done"}
            \/ worker[o] = "activate" /\ worker'[o] \in {"settle", "done"}
            \/ worker[o] = "settle" /\ worker'[o] = "done"
        BY <2>1, <2>3 DEF WorkerStep, GiveUp, CreateRun, ExtractInThread, Spawn, Register,
           TerminateRefused, ReadResult, Unregister, ClaimCommit, PersistCandidate, Activate,
           Settle, AtStage, WorkerStates
      <3>2. /\ InStage["spawned"] = 5 /\ InStage["refused"] = 4 /\ InStage["reading"] = 3
            /\ InStage["closing"] = 2 /\ InStage["aborting"] = 2
            /\ AfterStages["claim"] = 5 /\ AfterStages["persist"] = 4
            /\ AfterStages["activate"] = 3 /\ AfterStages["settle"] = 1 /\ AfterStages["done"] = 0
        BY DEF InStage, AfterStages
      <3>3. Len(todo'[o]) = Len(todo[o]) /\ Len(todo[o]) \in Nat
        BY <2>2, <2>5
      <3> HIDE DEF InStage, AfterStages
      <3>4. CASE worker[o] = "stage" /\ ~NextStage(o)
        <4>1. CASE worker'[o] = "settle"
          <5>1. StepsLeft(o)' = 1 /\ StepsLeft(o) = 6 * Len(todo[o]) + 6
            BY <3>2, <3>4, <4>1 DEF StepsLeft, WithChild
          <5> QED BY <3>3, <5>1
        <4>2. CASE worker'[o] = "spawned"
          <5>1. StepsLeft(o)' = 6 * Len(todo[o]) + 5 /\ StepsLeft(o) = 6 * Len(todo[o]) + 6
            BY <3>2, <3>3, <3>4, <4>2 DEF StepsLeft, WithChild
          <5> QED BY <3>3, <5>1
        <4> QED BY <3>1, <3>4, <4>1, <4>2
      <3>5. CASE worker[o] \in {"spawned", "refused", "reading"}
        <4>1. /\ worker'[o] \in WithChild /\ worker[o] \in WithChild
              /\ InStage[worker'[o]] < InStage[worker[o]]
              /\ InStage[worker[o]] \in Nat /\ InStage[worker'[o]] \in Nat
          BY <3>1, <3>2, <3>5 DEF WithChild
        <4>2. /\ StepsLeft(o)' = 6 * Len(todo[o]) + InStage[worker'[o]]
              /\ StepsLeft(o) = 6 * Len(todo[o]) + InStage[worker[o]]
          BY <3>3, <4>1 DEF StepsLeft, WithChild
        <4> QED BY <3>3, <4>1, <4>2
      <3>6. CASE worker[o] = "aborting"
        <4>1. StepsLeft(o)' = 1 /\ StepsLeft(o) = 6 * Len(todo[o]) + 2
          BY <3>1, <3>2, <3>6 DEF StepsLeft, WithChild
        <4> QED BY <3>3, <4>1
      <3>7. CASE worker[o] \in {"claim", "persist", "activate", "settle"}
        BY <3>1, <3>2, <3>7 DEF StepsLeft, WithChild
      <3> QED BY <2>4, <3>1, <3>4, <3>5, <3>6, <3>7
    <2>6. (NextStage(o) /\ worker[o] \in {"stage", "closing"}) \/ UNCHANGED todo
      BY <2>1 DEF WorkerStep, GiveUp, CreateRun, ExtractInThread, Spawn, Register,
         TerminateRefused, ReadResult, Unregister, ClaimCommit, PersistCandidate, Activate,
         Settle, AtStage
    <2> QED BY <2>4, <2>5, <2>6
  <1>3. OpInv => \A o \in Ops : StepsLeft(o) \in 0..24
    BY <1>1
  <1>4. IInv /\ TInv /\ OpInv /\ RInv /\ [Next]_vars =>
            [\A o \in Ops : worker[o] # "idle" /\ <<worker'[o], todo'[o]>> # <<worker[o], todo[o]>> =>
                StepsLeft(o)' < StepsLeft(o)]_vars
    BY <1>2
  <1> QED BY <1>3, <1>4, IInvAlways, TInvAlways, OpInvAlways, RInvAlways, PTL
        DEF Spec, ThreadsRunDown


\* What ShutdownReapsChildren needs besides fairness, as long as SIGKILL ends
\* every process group within the grace: once shutdown() is over, the only
\* children that live are on their way into a registration that is refused.
THEOREM ShutdownLeavesLatecomers ==
    Stubborn = {} =>
        (Spec => [](shutdown \in {"returned", "raised"} =>
                        \A o \in Ops : child[o] = "alive" => worker[o] \in {"spawned", "refused"}))
  <1>1. ASSUME Stubborn = {}, TInv, RInv, Swept, shutdown \in {"returned", "raised"},
               NEW o \in Ops, child[o] = "alive"
        PROVE  worker[o] \in {"spawned", "refused"}
    <2>1. worker[o] \in {"spawned", "refused", "reading"}
      BY <1>1 DEF TInv, ChildMinded
    <2>2. ~Blocked(o)
      BY <1>1 DEF RInv, BlockedIsSelected, Swept
    <2> QED BY <1>1, <2>1, <2>2 DEF Blocked
  <1> SUFFICES ASSUME Stubborn = {}
               PROVE  Spec => [](shutdown \in {"returned", "raised"} =>
                          \A o \in Ops : child[o] = "alive" => worker[o] \in {"spawned", "refused"})
    OBVIOUS
  <1>2. TInv /\ RInv /\ Swept =>
            (shutdown \in {"returned", "raised"} =>
                 \A o \in Ops : child[o] = "alive" => worker[o] \in {"spawned", "refused"})
    BY <1>1
  <1> QED BY <1>2, TInvAlways, RInvAlways, SweptAlways, PTL


-----------------------------------------------------------------------------
(* The promise to the caller (CancellableIngest).                          *)

\* Only the coroutine records a cancellation, and then it no longer takes the
\* worker's result for its own; a Publication is its worker's last step.
RaceInv ==
    /\ \A o \in cancelled : client[o] \notin {"idle", "awaiting"}
    /\ \A o \in Ops : run[o] = "published" => worker[o] = "done"

\* The coroutine of o goes on, or ends.
LEMMA LoopKeepsRaceInv ==
    ASSUME IInv, RaceInv, NEW o \in Ops, Begin(o) \/ Cancel(o) \/ LoopStep(o)
    PROVE  RaceInv'
  <1>1. CASE Begin(o)
    BY <1>1 DEF Begin, IInv, Shape, NotBegun, OneWinner, RaceInv
  <1>2. CASE Cancel(o)
    <2>1. /\ \/ cancelled' = cancelled /\ client' = [client EXCEPT ![o] = "cleanup"]
             \/ /\ cancelled' = cancelled \cup {o}
                /\ client' = [client EXCEPT ![o] = "terminating"]
          /\ UNCHANGED <<worker, run>>
      BY <1>2 DEF Cancel, CommitWon, thread
    <2>2. cancelled \subseteq Ops /\ client \in [Ops -> ClientStates]
      BY DEF IInv, OneWinner, Shape
    <2>3. \A p \in cancelled' : client'[p] \notin {"idle", "awaiting"}
      BY <2>1, <2>2 DEF RaceInv
    <2> QED BY <2>1, <2>3 DEF RaceInv
  <1>3. CASE LoopStep(o)
    <2>1. UNCHANGED <<worker, run>>
      BY <1>3 DEF LoopStep, Receive, CancelTerminates, FinishCancelled, thread
    <2>2. /\ cancelled' \subseteq cancelled
          /\ \A p \in Ops : client'[p] = client[p] \/ client'[p] \in {"cleanup", "ended"}
      BY <1>3 DEF LoopStep, Receive, CancelTerminates, FinishCancelled, EndOperation,
                  controller, IInv, Shape
    <2>3. cancelled \subseteq Ops
      BY DEF IInv, OneWinner, Shape
    <2> QED BY <2>1, <2>2, <2>3 DEF RaceInv
  <1> QED BY <1>1, <1>2, <1>3

LEMMA WorkerKeepsRaceInv ==
    ASSUME IInv, RaceInv, NEW o \in Ops, WorkerStep(o) \/ GiveUp(o)
    PROVE  RaceInv'
  <1>1. UNCHANGED <<cancelled, client>> /\ worker[o] # "done"
    BY DEF WorkerStep, GiveUp, CreateRun, ExtractInThread, Spawn, AtStage, Register,
           TerminateRefused, ReadResult, Unregister, ClaimCommit, PersistCandidate,
           Activate, Settle, controller, loop
  <1>2. \A p \in Ops \ {o} : worker'[p] = worker[p] /\ run'[p] = run[p]
    BY DEF WorkerStep, GiveUp, CreateRun, ExtractInThread, Spawn, Register,
           TerminateRefused, ReadResult, Unregister, ClaimCommit, PersistCandidate,
           Activate, Settle, NextStage, Goto, IInv, Shape
  <1>3. run[o] # "published"
    BY <1>1 DEF RaceInv
  <1>4. run'[o] = "published" => worker'[o] = "done"
    BY <1>3 DEF WorkerStep, GiveUp, CreateRun, ExtractInThread, Spawn, Register,
           TerminateRefused, ReadResult, Unregister, ClaimCommit, PersistCandidate,
           Activate, Settle, Settled, Goto, IInv, Shape
  <1> QED BY <1>1, <1>2, <1>4 DEF RaceInv

LEMMA RaceInvStep == IInv /\ RaceInv /\ [Next]_vars => RaceInv'
  <1> SUFFICES ASSUME IInv, RaceInv, [Next]_vars PROVE RaceInv'
    OBVIOUS
  <1>1. ASSUME NEW o \in Ops, ChildExits(o) PROVE RaceInv'
    BY <1>1 DEF ChildExits, RaceInv, controller, loop
  <1>2. CASE Shutdown \/ ShutdownTerminates \/ UNCHANGED vars
    BY <1>2 DEF Shutdown, ShutdownTerminates, vars, RaceInv, controller, loop, thread
  <1>3. CASE OtherOwnerRecovers
    BY <1>3 DEF OtherOwnerRecovers, RaceInv, controller, loop, IInv, Shape
  <1> QED BY <1>1, <1>2, <1>3, LoopKeepsRaceInv, WorkerKeepsRaceInv DEF Next

LEMMA RaceInvAlways == Spec => []RaceInv
  <1>1. Init => RaceInv
    BY DEF Init, RaceInv
  <1> QED BY <1>1, RaceInvStep, IInvAlways, PTL DEF Spec

-----------------------------------------------------------------------------

\* Nothing the promise is about changes.
LEMMA PromiseStutters ==
    ASSUME UNCHANGED <<cancelled, committing, reply>>,
           \A o \in Ops : run'[o] = "published" <=> run[o] = "published"
    PROVE  UNCHANGED CI!vars
  BY DEF CI!vars, Fate

\* end_operation answers, and whichever latch it forgets is over.
LEMMA EndOperationAnswers ==
    ASSUME IInv, NEW o \in Ops, reply[o] = "none", UNCHANGED run,
           NEW answer \in CI!Answers(o), answer # "none",
           EndOperation(o, answer),
           children[o] # {} => "error" \in CI!Answers(o)
    PROVE  CI!Answer(o)
  <1>1. Fate(o) # "over"
    BY DEF Fate
  <1>2. PICK a \in CI!Answers(o) \ {"none"} : reply' = [reply EXCEPT ![o] = a]
    BY DEF EndOperation
  <1>3. \A p \in Ops \ {o} : Fate(p)' = Fate(p)
    BY <1>2 DEF EndOperation, Fate, IInv, Shape
  <1>4. Fate(o)' = "over"
    BY <1>2 DEF Fate, IInv, Shape
  <1>5. [p \in Ops |-> Fate(p)]' = [[p \in Ops |-> Fate(p)] EXCEPT ![o] = "over"]
    BY <1>3, <1>4
  <1> QED BY <1>1, <1>2, <1>5 DEF CI!Answer


\* A coroutine ends: with the worker's result, or because it was cancelled.
LEMMA LoopStepRefines ==
    ASSUME IInv, TInv, RaceInv, NEW o \in Ops, LoopStep(o)
    PROVE  CI!Answer(o) \/ UNCHANGED CI!vars
  <1>1. reply[o] = "none" /\ UNCHANGED run
    BY DEF LoopStep, Receive, CancelTerminates, FinishCancelled, IInv, Answered, thread
  <1>2. worker[o] = "done" => children[o] = {}
    BY DEF IInv, ChildrenRead
  <1>3. ASSUME o \notin cancelled PROVE CI!Answers(o) = {Outcome(o)}
    BY <1>1, <1>3 DEF CI!Answers, Fate, Outcome
  <1>4. ASSUME o \in cancelled PROVE CI!Answers(o) = {"cancelled", "error"}
    BY <1>1, <1>4 DEF CI!Answers, Fate
  <1>5. CASE Receive(o)
    <2>1. o \notin cancelled /\ worker[o] = "done" /\ EndOperation(o, Outcome(o))
      BY <1>5 DEF Receive, RaceInv
    <2>2. Outcome(o) # "none"
      BY DEF Outcome
    <2> QED BY <1>1, <1>2, <1>3, <2>1, <2>2, EndOperationAnswers
  <1>6. CASE FinishCancelled(o)
    <2>1. worker[o] = "done" /\ EndOperation(o, CancelAnswer(o))
      BY <1>6 DEF FinishCancelled, WorkerEnded
    <2>2. CancelAnswer(o) \in CI!Answers(o) /\ CancelAnswer(o) # "none"
      BY <1>3, <1>4 DEF CancelAnswer, Outcome
    <2> QED BY <1>1, <1>2, <2>1, <2>2, EndOperationAnswers
  <1>7. CASE CancelTerminates(o)
    <2>1. o \in cancelled
      BY <1>7 DEF CancelTerminates, IInv, TerminatingIsCancelled
    <2>2. CASE EndOperation(o, "error")
      BY <1>1, <1>4, <2>1, <2>2, EndOperationAnswers
    <2>3. CASE UNCHANGED <<reply, controller>>
      BY <1>1, <2>3, PromiseStutters DEF controller
    <2> QED BY <1>7, <2>2, <2>3 DEF CancelTerminates, controller
  <1> QED BY <1>5, <1>6, <1>7 DEF LoopStep

\* The latch is free while the coroutine awaits its worker and nobody claimed.
LEMMA CancelRefines ==
    ASSUME IInv, RaceInv, NEW o \in Ops, Cancel(o)
    PROVE  CI!Cancel(o) \/ UNCHANGED CI!vars
  <1>1. CASE o \in committing
    BY <1>1, PromiseStutters DEF Cancel, CommitWon, thread
  <1>2. CASE o \notin committing
    <2>1. /\ reply[o] = "none" /\ o \notin cancelled
          /\ cancelled' = cancelled \cup {o}
          /\ UNCHANGED <<committing, reply, run>>
      BY <1>2 DEF Cancel, CommitWon, IInv, Answered, RaceInv, thread
    <2>2. Fate(o) = "open" /\ Fate(o)' = "cancelled"
      BY <1>2, <2>1 DEF Fate
    <2>3. \A p \in Ops \ {o} : Fate(p)' = Fate(p)
      BY <2>1 DEF Fate
    <2>4. [p \in Ops |-> Fate(p)]' = [[p \in Ops |-> Fate(p)] EXCEPT ![o] = "cancelled"]
      BY <2>2, <2>3
    <2> QED BY <2>1, <2>2, <2>4 DEF CI!Cancel
  <1> QED BY <1>1, <1>2

\* A commit is granted to an operation whose caller waits, and nobody cancelled.
LEMMA ClaimRefines ==
    ASSUME IInv, NEW o \in Ops, ClaimCommit(o)
    PROVE  CI!Claim(o) \/ UNCHANGED CI!vars
  <1>1. CASE CommitGranted(o)
    <2>1. /\ worker[o] = "claim" /\ o \in active /\ o \notin cancelled
          /\ committing' = committing \cup {o}
          /\ UNCHANGED <<cancelled, reply, run>>
      BY <1>1 DEF ClaimCommit, CommitGranted, loop
    <2>2. reply[o] = "none"
      BY <2>1 DEF IInv, Answered
    <2>3. CASE o \in committing
      BY <2>1, <2>3, PromiseStutters
    <2>4. CASE o \notin committing
      <3>1. Fate(o) = "open" /\ Fate(o)' = "committed"
        BY <2>1, <2>2, <2>4 DEF Fate
      <3>2. \A p \in Ops \ {o} : Fate(p)' = Fate(p)
        BY <2>1 DEF Fate
      <3>3. [p \in Ops |-> Fate(p)]' = [[p \in Ops |-> Fate(p)] EXCEPT ![o] = "committed"]
        BY <3>1, <3>2
      <3> QED BY <2>1, <3>1, <3>3 DEF CI!Claim
    <2> QED BY <2>3, <2>4
  <1>2. CASE ~CommitGranted(o)
    BY <1>2, PromiseStutters DEF ClaimCommit, loop
  <1> QED BY <1>1, <1>2

\* The Publication becomes visible while its call holds the commit.
LEMMA ActivateRefines ==
    ASSUME IInv, TInv, RaceInv, NEW o \in Ops, Activate(o)
    PROVE  CI!Publish(o) \/ UNCHANGED CI!vars
  <1>1. /\ worker[o] = "activate" /\ run[o] # "published"
        /\ UNCHANGED <<cancelled, committing, reply>>
    BY DEF Activate, RaceInv, controller, loop
  <1>2. o \in committing /\ o \notin cancelled /\ reply[o] = "none"
    BY <1>1 DEF TInv, ForgottenIsOver, IInv, CommitHeld, PastClaim, OneWinner, Answered
  <1>3. CASE run' = [run EXCEPT ![o] = "published"]
    <2>1. Fate(o) = "committed" /\ UNCHANGED [p \in Ops |-> Fate(p)]
      BY <1>1, <1>2 DEF Fate
    <2>2. [p \in Ops |-> run[p] = "published"]'
              = [[p \in Ops |-> run[p] = "published"] EXCEPT ![o] = TRUE]
      BY <1>3 DEF IInv, Shape
    <2> QED BY <1>1, <2>1, <2>2 DEF CI!Publish
  <1>4. CASE UNCHANGED run \/ run' = [run EXCEPT ![o] = "superseded"]
    BY <1>1, <1>4, PromiseStutters DEF IInv, Shape
  <1> QED BY <1>3, <1>4 DEF Activate

\* Whatever else a worker does, it publishes nothing and touches no latch.
LEMMA WorkerRefines ==
    ASSUME IInv, RaceInv, NEW o \in Ops,
           WorkerStep(o) \/ GiveUp(o), ~ClaimCommit(o), ~Activate(o)
    PROVE  UNCHANGED CI!vars
  <1>1. UNCHANGED <<cancelled, committing, reply>> /\ worker[o] # "done"
    BY DEF WorkerStep, GiveUp, CreateRun, ExtractInThread, Spawn, AtStage, Register,
           TerminateRefused, ReadResult, Unregister, PersistCandidate, Settle,
           controller, loop
  <1>2. run[o] # "published"
    BY <1>1 DEF RaceInv
  <1>3. \A p \in Ops : run'[p] = "published" <=> run[p] = "published"
    BY <1>2 DEF WorkerStep, GiveUp, CreateRun, ExtractInThread, Spawn, Register,
           TerminateRefused, ReadResult, Unregister, PersistCandidate, Settle, Settled,
           IInv, Shape
  <1> QED BY <1>1, <1>3, PromiseStutters

LEMMA PromiseStep == IInv /\ TInv /\ RaceInv /\ [Next]_vars => [CI!Next]_(CI!vars)
  <1> SUFFICES ASSUME IInv, TInv, RaceInv, [Next]_vars PROVE CI!Next \/ UNCHANGED CI!vars
    OBVIOUS
  <1>1. ASSUME NEW o \in Ops, Begin(o) PROVE UNCHANGED CI!vars
    BY <1>1, PromiseStutters DEF Begin
  <1>2. ASSUME NEW o \in Ops, Cancel(o) \/ LoopStep(o) PROVE CI!Next \/ UNCHANGED CI!vars
    BY <1>2, CancelRefines, LoopStepRefines DEF CI!Next
  <1>3. ASSUME NEW o \in Ops, WorkerStep(o) \/ GiveUp(o)
        PROVE  CI!Next \/ UNCHANGED CI!vars
    BY <1>3, ClaimRefines, ActivateRefines, WorkerRefines DEF CI!Next
  <1>4. ASSUME NEW o \in Ops, ChildExits(o) PROVE UNCHANGED CI!vars
    BY <1>4, PromiseStutters DEF ChildExits, controller, loop
  <1>5. CASE Shutdown \/ ShutdownTerminates \/ UNCHANGED vars
    BY <1>5, PromiseStutters DEF Shutdown, ShutdownTerminates, vars, controller, loop, thread
  <1>6. CASE OtherOwnerRecovers
    BY <1>6, PromiseStutters DEF OtherOwnerRecovers, controller, loop
  <1> QED BY <1>1, <1>2, <1>3, <1>4, <1>5, <1>6 DEF Next

\* For any set of operations the code keeps the promise of CancellableIngest:
\* cancel_operation and begin_publication_commit have one winner for good, only
\* a call that holds the commit publishes, once and before its answer, and the
\* answer says who won and whether there is a Publication.
THEOREM CancellationIsARace == Spec => ImplementsCancellation
  <1>1. Init => CI!Init
    BY DEF Init, CI!Init, Fate
  <1> QED BY <1>1, PromiseStep, IInvAlways, TInvAlways, RaceInvAlways, PTL
          DEF Spec, ImplementsCancellation, CI!Spec

=============================================================================
