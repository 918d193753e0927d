--------------------------- MODULE IngestOperation ---------------------------
(***************************************************************************)
(* Ingest operations of one MCP owner: the coroutine that serves an        *)
(* ingest_file call (_ingest_with_cancellation), the thread that processes *)
(* the file, the child processes that thread runs, and the                 *)
(* ActiveProcessController through which cancellation and shutdown meet    *)
(* publication.                                                            *)
(*                                                                         *)
(* One action is one critical section of the controller, one transaction   *)
(* of the store, or one step of a child process.  The coroutines and the   *)
(* lifespan handler share an event loop that blocks while a terminator     *)
(* runs; the worker threads and the children do not.  The Run is seen as   *)
(* its worker sees it; what the store does with it is RunLifecycle.        *)
(***************************************************************************)
EXTENDS Naturals, Sequences, FiniteSets

CONSTANTS
    Ops,        \* ingest_file calls, each a ProcessOperationId
    KindOf,     \* [Ops -> Kinds]: the route its file suffix takes
    Stubborn    \* audio operations whose process groups may outlive SIGKILL
                \* for longer than the termination grace

Kinds == {"pdf", "video", "audio"}

\* What a worker does before it claims the commit: a PDF is extracted in the
\* thread, a video is transcribed by a child, an audio file is inspected by
\* one child and transcribed by another.
Stages(kind) ==
    CASE kind = "pdf"   -> <<"create", "extract">>
      [] kind = "video" -> <<"create", "child">>
      [] kind = "audio" -> <<"child", "create", "child">>

ASSUME OpsAssumption ==
    /\ KindOf \in [Ops -> Kinds]
    /\ Stubborn \subseteq {o \in Ops : KindOf[o] = "audio"}

VARIABLES
    active,         \* keys of ActiveProcessController._processes
    children,       \* its values: the registered children, numbered per operation
    cancelled,      \* _cancelled_operations
    committing,     \* _committing_operations
    shutdown,       \* _shutdown_requested, and how far shutdown() has come
    doomed,         \* children a terminator still has to be called for
    client,         \* the coroutine of each operation
    reply,          \* what the caller was told
    worker,         \* the thread of each operation
    todo,           \* stages it still has to run
    child,          \* the last child it started
    spawned,        \* how many children it has started
    run             \* the state of the operation's Run

controller == <<active, children, cancelled, committing>>
loop == <<client, reply, doomed, shutdown>>
thread == <<worker, todo, child, spawned, run>>
vars == <<controller, loop, thread>>

ClientStates == {"idle", "awaiting", "terminating", "cleanup", "ended"}
Replies == {"none", "published", "not published", "cancelled", "error"}
WorkerStates == {"idle", "stage", "spawned", "refused", "reading", "closing",
                 "aborting", "claim", "persist", "activate", "settle", "done"}
ChildStates == {"none", "alive", "exited", "failed", "killed"}
RunStates == {"absent", "running", "validated", "published", "superseded",
              "failed", "interrupted"}

\* Every value a variable takes; `doomed` holds children as <<operation, number>>.
TypeOK ==
    /\ active \subseteq Ops
    /\ children \in [Ops -> SUBSET (1..2)]
    /\ cancelled \subseteq Ops
    /\ committing \subseteq Ops
    /\ shutdown \in {"no", "killing", "returned", "raised"}
    /\ doomed \subseteq Ops \X (1..2)
    /\ client \in [Ops -> ClientStates]
    /\ reply \in [Ops -> Replies]
    /\ worker \in [Ops -> WorkerStates]
    /\ todo \in [Ops -> Seq({"create", "extract", "child"})]
    /\ child \in [Ops -> ChildStates]
    /\ spawned \in [Ops -> 0..2]
    /\ run \in [Ops -> RunStates]

Init ==
    /\ active = {}
    /\ children = [o \in Ops |-> {}]
    /\ cancelled = {}
    /\ committing = {}
    /\ shutdown = "no"
    /\ doomed = {}
    /\ client = [o \in Ops |-> "idle"]
    /\ reply = [o \in Ops |-> "none"]
    /\ worker = [o \in Ops |-> "idle"]
    /\ todo = [o \in Ops |-> Stages(KindOf[o])]
    /\ child = [o \in Ops |-> "none"]
    /\ spawned = [o \in Ops |-> 0]
    /\ run = [o \in Ops |-> "absent"]

-----------------------------------------------------------------------------
(* The event loop.                                                         *)

\* A terminator waits for its child on the event loop's own thread.
LoopFree == shutdown # "killing" /\ \A o \in Ops : client[o] # "terminating"

\* What the worker's return value or exception says of the Publication.
Outcome(o) == IF run[o] = "published" THEN "published" ELSE "not published"

\* end_operation: forgets the operation, or raises while a child is registered.
EndOperation(o, answer) ==
    /\ client' = [client EXCEPT ![o] = "ended"]
    /\ IF children[o] = {}
       THEN /\ active' = active \ {o}
            /\ cancelled' = cancelled \ {o}
            /\ committing' = committing \ {o}
            /\ reply' = [reply EXCEPT ![o] = answer]
       ELSE /\ reply' = [reply EXCEPT ![o] = "error"]
            /\ UNCHANGED <<active, cancelled, committing>>
    /\ UNCHANGED children

\* begin_operation, and the worker task.
Begin(o) ==
    /\ LoopFree
    /\ client[o] = "idle"
    /\ shutdown = "no"
    /\ active' = active \cup {o}
    /\ client' = [client EXCEPT ![o] = "awaiting"]
    /\ worker' = [worker EXCEPT ![o] = "stage"]
    /\ UNCHANGED <<children, cancelled, committing, reply, doomed, shutdown, todo,
                   child, spawned, run>>

Receive(o) ==
    /\ LoopFree
    /\ client[o] = "awaiting"
    /\ worker[o] = "done"
    /\ EndOperation(o, Outcome(o))
    /\ UNCHANGED <<doomed, shutdown, thread>>

ChildrenOf(ops) == UNION {{o} \X children[o] : o \in ops}

\* Mutation: cancel_operation selects the children of every operation.
TargetsOfAll(o) == ChildrenOf(active)

TargetsOf(o) == ChildrenOf({o})

\* Mutation: cancel_operation ignores that the commit was claimed.
NeverTooLate(o) == FALSE

CommitWon(o) == o \in committing

\* cancel_operation up to the unlock: the commit was claimed first, or the
\* cancellation is recorded and the registered children are selected.
Cancel(o) ==
    /\ LoopFree
    /\ client[o] = "awaiting"
    /\ IF CommitWon(o)
       THEN /\ client' = [client EXCEPT ![o] = "cleanup"]
            /\ UNCHANGED <<cancelled, doomed>>
       ELSE /\ client' = [client EXCEPT ![o] = "terminating"]
            /\ cancelled' = cancelled \cup {o}
            /\ doomed' = TargetsOf(o)
    /\ UNCHANGED <<active, children, committing, reply, shutdown, thread>>

\* A terminator has reaped child k of operation o, or found it gone.
Terminated(o, k) ==
    IF k = spawned[o] /\ child[o] = "alive"
    THEN child' = [child EXCEPT ![o] = "killed"]
    ELSE UNCHANGED child

\* terminate_process_group gives up: the group is still there.
Survives(o, k) == o \in Stubborn /\ k = spawned[o] /\ child[o] = "alive"

CancelTerminates(o) ==
    /\ client[o] = "terminating"
    /\ \/ \E t \in doomed :
             /\ Terminated(t[1], t[2])
             /\ doomed' = doomed \ {t}
             /\ UNCHANGED <<client, reply, controller>>
       \/ \E t \in doomed :
             /\ Survives(t[1], t[2])
             /\ doomed' = {}
             /\ EndOperation(o, "error")
             /\ UNCHANGED child
       \/ /\ doomed = {}
          /\ client' = [client EXCEPT ![o] = "cleanup"]
          /\ UNCHANGED <<doomed, reply, controller, child>>
    /\ UNCHANGED <<shutdown, worker, todo, spawned, run>>

\* Mutation: the coroutine does not wait for its worker.
WorkerIgnored(o) == TRUE

WorkerEnded(o) == worker[o] = "done"

\* Mutation: the cancellation is raised whoever won.
AlwaysCancelled(o) == "cancelled"

\* Cancellation is reported if it won; otherwise the worker's result is.
CancelAnswer(o) == IF o \in cancelled THEN "cancelled" ELSE Outcome(o)

\* _wait_for_worker_cleanup: further cancellations do not end the wait.
FinishCancelled(o) ==
    /\ LoopFree
    /\ client[o] = "cleanup"
    /\ WorkerEnded(o)
    /\ EndOperation(o, CancelAnswer(o))
    /\ UNCHANGED <<doomed, shutdown, thread>>

\* shutdown, called by the lifespan handler when the server stops.
Shutdown ==
    /\ LoopFree
    /\ shutdown = "no"
    /\ shutdown' = "killing"
    /\ doomed' = ChildrenOf(active)
    /\ UNCHANGED <<controller, client, reply, thread>>

ShutdownTerminates ==
    /\ shutdown = "killing"
    /\ \/ \E t \in doomed :
             /\ Terminated(t[1], t[2])
             /\ doomed' = doomed \ {t}
             /\ UNCHANGED shutdown
       \/ \E t \in doomed :
             /\ Survives(t[1], t[2])
             /\ doomed' = {}
             /\ shutdown' = "raised"
             /\ UNCHANGED child
       \/ /\ doomed = {}
          /\ shutdown' = "returned"
          /\ UNCHANGED <<doomed, child>>
    /\ UNCHANGED <<controller, client, reply, worker, todo, spawned, run>>

-----------------------------------------------------------------------------
(* The worker thread.                                                      *)

Goto(o, state) == worker' = [worker EXCEPT ![o] = state]

\* The stage at the head of todo is over.
NextStage(o) ==
    /\ todo' = [todo EXCEPT ![o] = Tail(@)]
    /\ Goto(o, IF Len(todo[o]) = 1 THEN "claim" ELSE "stage")

AtStage(o, stage) == worker[o] = "stage" /\ todo[o] # << >> /\ Head(todo[o]) = stage

\* create_run and mark_run_running, unless the input or the store refuses.
CreateRun(o) ==
    /\ AtStage(o, "create")
    /\ \/ run' = [run EXCEPT ![o] = "running"] /\ NextStage(o)
       \/ Goto(o, "settle") /\ UNCHANGED <<run, todo>>
    /\ UNCHANGED <<controller, loop, child, spawned>>

ExtractInThread(o) ==
    /\ AtStage(o, "extract")
    /\ \/ NextStage(o)
       \/ Goto(o, "settle") /\ UNCHANGED todo
    /\ UNCHANGED <<controller, loop, child, spawned, run>>

\* Popen: the child runs before the controller knows of it.
Spawn(o) ==
    /\ AtStage(o, "child")
    /\ \/ /\ Goto(o, "spawned")
          /\ child' = [child EXCEPT ![o] = "alive"]
          /\ spawned' = [spawned EXCEPT ![o] = @ + 1]
       \/ Goto(o, "settle") /\ UNCHANGED <<child, spawned>>
    /\ UNCHANGED <<controller, loop, todo, run>>

\* Mutation: register ignores the shutdown latch.
DoomedByCancel(o) == o \in cancelled

\* Mutation: register ignores the cancellation latch.
DoomedByShutdown(o) == shutdown # "no"

\* A child that registers after cancellation or shutdown is terminated.
Doomed(o) == shutdown # "no" \/ o \in cancelled

Register(o) ==
    /\ worker[o] = "spawned"
    /\ \/ /\ o \in active /\ ~Doomed(o)
          /\ children' = [children EXCEPT ![o] = @ \cup {spawned[o]}]
          /\ Goto(o, "reading")
          /\ UNCHANGED child
       \/ /\ o \in active /\ Doomed(o)
          /\ Goto(o, "refused")
          /\ UNCHANGED <<children, child>>
       \/ /\ o \notin active
          /\ Goto(o, "aborting")
          /\ IF Survives(o, spawned[o]) THEN UNCHANGED child
             ELSE Terminated(o, spawned[o])
          /\ UNCHANGED children
    /\ UNCHANGED <<active, cancelled, committing, loop, todo, spawned, run>>

\* register calls the terminator of a refused child in the worker's thread.
TerminateRefused(o) ==
    /\ worker[o] = "refused"
    /\ \/ Terminated(o, spawned[o]) /\ Goto(o, "reading")
       \/ Survives(o, spawned[o]) /\ Goto(o, "aborting") /\ UNCHANGED child
    /\ UNCHANGED <<controller, loop, todo, spawned, run>>

\* The child's output ends: its result is used, or the stage fails.
ReadResult(o) ==
    /\ worker[o] = "reading"
    /\ child[o] # "alive"
    /\ \/ child[o] = "exited" /\ Goto(o, "closing")
       \/ Goto(o, "aborting")
    /\ UNCHANGED <<controller, loop, todo, child, spawned, run>>

\* The deadline, an output limit or a read error: the worker kills the child.
GiveUp(o) ==
    /\ worker[o] = "reading"
    /\ child[o] = "alive"
    /\ Goto(o, "aborting")
    /\ child' \in {child, [child EXCEPT ![o] = "failed"]}
    /\ child' = child => o \in Stubborn
    /\ UNCHANGED <<controller, loop, todo, spawned, run>>

\* unregister, in the finally block of either outcome.
Unregister(o) ==
    /\ worker[o] \in {"closing", "aborting"}
    /\ children' = [children EXCEPT ![o] = @ \ {spawned[o]}]
    /\ IF worker[o] = "closing" THEN NextStage(o)
       ELSE Goto(o, "settle") /\ UNCHANGED todo
    /\ UNCHANGED <<active, cancelled, committing, loop, child, spawned, run>>

\* Mutation: the commit is claimed whether or not cancellation came first.
ClaimBlindly(o) == o \in active

CommitGranted(o) == o \in active /\ o \notin cancelled

\* begin_publication_commit.
ClaimCommit(o) ==
    /\ worker[o] = "claim"
    /\ IF CommitGranted(o)
       THEN committing' = committing \cup {o} /\ Goto(o, "persist")
       ELSE Goto(o, "settle") /\ UNCHANGED committing
    /\ UNCHANGED <<active, children, cancelled, loop, todo, child, spawned, run>>

\* persist_validated_candidate: a Run that was interrupted meanwhile is left
\* alone; a refused candidate goes to the exception handler, which the PDF
\* path does not have for errors of SQLite.
PersistCandidate(o) ==
    /\ worker[o] = "persist"
    /\ \/ /\ run[o] = "running"
          /\ run' = [run EXCEPT ![o] = "validated"]
          /\ Goto(o, "activate")
       \/ Goto(o, "settle") /\ UNCHANGED run
       \/ KindOf[o] = "pdf" /\ Goto(o, "done") /\ UNCHANGED run
    /\ UNCHANGED <<controller, loop, todo, child, spawned>>

\* activate_publication: published, superseded by a newer request, or raised.
Activate(o) ==
    /\ worker[o] = "activate"
    /\ \/ /\ run' \in {[run EXCEPT ![o] = s] : s \in {"published", "superseded"}}
          /\ Goto(o, "done")
       \/ Goto(o, "settle") /\ UNCHANGED run
    /\ UNCHANGED <<controller, loop, todo, child, spawned>>

\* The exception handlers: a running Run is marked failed, and of a Run that
\* is already validated only the audio path gives up.  That write may fail.
Settled(o) ==
    IF run[o] = "running" \/ (run[o] = "validated" /\ KindOf[o] = "audio")
    THEN "failed" ELSE run[o]

Settle(o) ==
    /\ worker[o] = "settle"
    /\ run' \in {run, [run EXCEPT ![o] = Settled(o)]}
    /\ Goto(o, "done")
    /\ UNCHANGED <<controller, loop, todo, child, spawned>>

-----------------------------------------------------------------------------
(* The environment.                                                        *)

ChildExits(o) ==
    /\ child[o] = "alive"
    /\ child' \in {[child EXCEPT ![o] = s] : s \in {"exited", "failed"}}
    /\ UNCHANGED <<controller, loop, worker, todo, spawned, run>>

\* Another owner of the same database starts and interrupts unfinished Runs.
OtherOwnerRecovers ==
    /\ \E o \in Ops : run[o] = "running"
    /\ run' = [o \in Ops |-> IF run[o] = "running" THEN "interrupted" ELSE run[o]]
    /\ UNCHANGED <<controller, loop, worker, todo, child, spawned>>

\* Steps a thread takes by itself, whatever the child does.
WorkerStep(o) ==
    \/ CreateRun(o)
    \/ ExtractInThread(o)
    \/ Spawn(o)
    \/ Register(o)
    \/ TerminateRefused(o)
    \/ ReadResult(o)
    \/ Unregister(o)
    \/ ClaimCommit(o)
    \/ PersistCandidate(o)
    \/ Activate(o)
    \/ Settle(o)

LoopStep(o) == Receive(o) \/ CancelTerminates(o) \/ FinishCancelled(o)

Next ==
    \/ \E o \in Ops :
          \/ Begin(o)
          \/ Cancel(o)
          \/ LoopStep(o)
          \/ WorkerStep(o)
          \/ GiveUp(o)
          \/ ChildExits(o)
    \/ Shutdown
    \/ ShutdownTerminates
    \/ OtherOwnerRecovers

\* Threads are scheduled and the event loop runs its ready callbacks.  A child
\* need not ever exit, nobody has to cancel, and deadlines may be far away.
Fairness ==
    /\ \A o \in Ops : WF_vars(WorkerStep(o)) /\ WF_vars(LoopStep(o))
    /\ WF_vars(ShutdownTerminates)

Spec == Init /\ [][Next]_vars /\ Fairness

-----------------------------------------------------------------------------
(* Safety.                                                                 *)

\* A caller whose ingest was cancelled is never surprised: once cancellation
\* won (cancel_operation returned True), the Run is not validated or published,
\* before or after the caller is told, however late the worker notices.
CancellationIsFinal ==
    \A o \in Ops :
        o \in cancelled \/ reply[o] = "cancelled" =>
            run[o] \notin {"validated", "published", "superseded"}

\* The caller is told the truth about the Publication: whatever the race between
\* commit and cancellation, a published Run is reported as such, and nothing
\* else is.
ReplyIsTruthful ==
    \A o \in Ops : reply[o] # "none" => (reply[o] = "published" <=> run[o] = "published")

\* When the caller is answered nothing of its operation is left over: the worker
\* ended, no child lives, and the controller has forgotten the operation
\* (end_operation does not raise), even if another operation's process group
\* could not be cleaned up.
NothingLeftBehind ==
    \A o \in Ops \ Stubborn : client[o] = "ended" =>
        /\ reply[o] # "error"
        /\ worker[o] = "done"
        /\ child[o] # "alive"
        /\ o \notin active

\* "shutdown() latches permanently, copies all sets, and terminates every child"
\* (owner lifecycle plan): once it is over, no registered child that SIGKILL can
\* end is alive, nor can one register any more.
ShutdownTerminatesEveryChild ==
    shutdown \in {"returned", "raised"} =>
        \A o \in Ops \ Stubborn : children[o] # {} => child[o] # "alive"

\* ADR-0006: cancellation terminates only children of the cancelled operation,
\* and shutdown() is the only broadcast.
TerminationIsTargeted ==
    [][\A o \in Ops : child[o] # "killed" /\ child'[o] = "killed" =>
           o \in cancelled \/ shutdown # "no"]_vars

-----------------------------------------------------------------------------
(* Refinement.                                                             *)

\* The latch, as the controller's two sets and the answer show it.
Fate(o) ==
    IF reply[o] # "none" THEN "over"
    ELSE IF o \in cancelled THEN "cancelled"
    ELSE IF o \in committing THEN "committed"
    ELSE "open"

CI == INSTANCE CancellableIngest WITH
    fate <- [o \in Ops |-> Fate(o)],
    published <- [o \in Ops |-> run[o] = "published"],
    answer <- reply

\* The coroutine, its thread, their children and the controller together keep
\* the promise: cancellation and commit have one winner for good, a Run is only
\* published by a call that holds the commit and was not answered, and the one
\* answer says who won and what became of the Publication.
ImplementsCancellation == CI!Spec

-----------------------------------------------------------------------------
(* Liveness.                                                               *)

\* A cancelled ingest ends although its child hangs: the child is killed even
\* when it registers after the cancellation, and the worker comes back.
CancelledIngestEnds == \A o \in Ops : client[o] \in {"terminating", "cleanup"} ~> client[o] = "ended"

\* After shutdown no child outlives the owner, not even one that was started
\* but not yet registered when shutdown looked.
ShutdownReapsChildren ==
    shutdown # "no" ~> [](\A o \in Ops : child[o] # "alive")

=============================================================================
