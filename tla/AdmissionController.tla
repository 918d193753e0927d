------------------------ MODULE AdmissionController ------------------------
(***************************************************************************)
(* BoundedAdmissionController and its AdmissionLease: at most Capacity     *)
(* leases, at most MaxWaiters threads waiting for one on a                 *)
(* threading.Condition, deadlines, and newcomers that may overtake.        *)
(*                                                                         *)
(* One action is what a thread does while it holds the condition's lock.   *)
(* Condition.wait() enters the caller as a sleeper and releases the lock;  *)
(* notify(1) takes one sleeper out, and no order is relied upon; a wait    *)
(* that times out is taken out only after it has the lock again, so that a *)
(* notification may still hit it.                                          *)
(***************************************************************************)
EXTENDS Naturals, FiniteSets

CONSTANTS
    Threads,
    Capacity,
    MaxWaiters

ASSUME AdmissionAssumption ==
    /\ IsFiniteSet(Threads)
    /\ Capacity \in Nat \ {0}
    /\ MaxWaiters \in Nat

VARIABLES
    active,     \* _AdmissionState.active
    waiting,    \* _AdmissionState.waiting
    pc,         \* where each thread is
    lease,      \* the last AdmissionLease each thread was given
    sleeping,   \* Condition._waiters
    expired     \* waiting threads whose deadline has passed

vars == <<active, waiting, pc, lease, sleeping, expired>>

\* Shape of the state; "returning" is between the two locks of release().
TypeOK ==
    /\ active \in Nat
    /\ waiting \in Nat
    /\ pc \in [Threads -> {"running", "waiting", "returning"}]
    /\ lease \in [Threads -> {"none", "held", "released"}]
    /\ sleeping \subseteq Threads
    /\ expired \subseteq Threads

Init ==
    /\ active = 0
    /\ waiting = 0
    /\ pc = [t \in Threads |-> "running"]
    /\ lease = [t \in Threads |-> "none"]
    /\ sleeping = {}
    /\ expired = {}

-----------------------------------------------------------------------------
(* acquire.                                                                *)

FreeSlot == active < Capacity

Admit(t) ==
    /\ active' = active + 1
    /\ lease' = [lease EXCEPT ![t] = "held"]

AcquireAtOnce(t) ==
    /\ pc[t] = "running" /\ lease[t] # "held"
    /\ FreeSlot
    /\ Admit(t)
    /\ UNCHANGED <<waiting, pc, sleeping, expired>>

\* Full, but another thread may wait.  Otherwise AdmissionOverloadedError is
\* raised and nothing changes, as for a caller whose timeout is 0.
AcquireWaits(t) ==
    /\ pc[t] = "running" /\ lease[t] # "held"
    /\ ~FreeSlot
    /\ waiting < MaxWaiters
    /\ waiting' = waiting + 1
    /\ pc' = [pc EXCEPT ![t] = "waiting"]
    /\ sleeping' = sleeping \cup {t}
    /\ UNCHANGED <<active, lease, expired>>

DeadlinePasses(t) ==
    /\ pc[t] = "waiting"
    /\ t \notin expired
    /\ expired' = expired \cup {t}
    /\ UNCHANGED <<active, waiting, pc, lease, sleeping>>

\* Mutation: the deadline is looked at before the capacity.
EnterOnTime(t) == FreeSlot /\ t \notin expired

\* The condition of the while loop: the capacity alone.
MayEnter(t) == FreeSlot

\* Mutation: the deadline is not looked at again after a wait.
NeverTooLate(t) == FALSE

TooLate(t) == t \in expired

\* Mutation: a waiter that gives up is not subtracted.
WaitersKept == waiting

WaitersLess == waiting - 1

Leaves(t) ==
    /\ pc' = [pc EXCEPT ![t] = "running"]
    /\ sleeping' = sleeping \ {t}
    /\ expired' = expired \ {t}

\* wait() returned: it was notified or its timeout passed, and the lock is held.
Resume(t) ==
    /\ pc[t] = "waiting"
    /\ t \notin sleeping \/ t \in expired
    /\ \/ /\ MayEnter(t)
          /\ Admit(t)
          /\ waiting' = waiting - 1
          /\ Leaves(t)
       \/ /\ ~MayEnter(t) /\ TooLate(t)
          /\ waiting' = WaitersLess
          /\ Leaves(t)
          /\ UNCHANGED <<active, lease>>
       \/ /\ ~MayEnter(t) /\ ~TooLate(t)
          /\ sleeping' = sleeping \cup {t}
          /\ UNCHANGED <<active, waiting, pc, lease, expired>>

-----------------------------------------------------------------------------
(* release.                                                                *)

\* Mutation: the lease does not remember that it was released.
HasLease(t) == lease[t] # "none"

\* A second release of the same lease raises.
Releasable(t) == lease[t] = "held"

\* AdmissionLease.release under the lock of the lease.
Release(t) ==
    /\ pc[t] = "running"
    /\ Releasable(t)
    /\ lease' = [lease EXCEPT ![t] = "released"]
    /\ pc' = [pc EXCEPT ![t] = "returning"]
    /\ UNCHANGED <<active, waiting, sleeping, expired>>

\* notify(1).
Notify ==
    IF sleeping = {} THEN UNCHANGED sleeping
    ELSE \E t \in sleeping : sleeping' = sleeping \ {t}

\* _release under the condition's lock.
ReturnSlot(t) ==
    /\ pc[t] = "returning"
    /\ active > 0
    /\ active' = active - 1
    /\ Notify
    /\ pc' = [pc EXCEPT ![t] = "running"]
    /\ UNCHANGED <<waiting, lease, expired>>

-----------------------------------------------------------------------------
Next ==
    \E t \in Threads :
        \/ AcquireAtOnce(t)
        \/ AcquireWaits(t)
        \/ DeadlinePasses(t)
        \/ Resume(t)
        \/ Release(t)
        \/ ReturnSlot(t)

\* A thread that was notified or whose timeout passed gets the lock back.
\* Deadlines may be far away and nobody has to release.
Fairness == \A t \in Threads : WF_vars(Resume(t))

Spec == Init /\ [][Next]_vars /\ Fairness

-----------------------------------------------------------------------------
(* Properties.                                                             *)

Holders == {t \in Threads : lease[t] = "held" \/ pc[t] = "returning"}

Waiters == {t \in Threads : pc[t] = "waiting"}

\* Waiters that were notified and do not have the lock yet.
Notified == Waiters \ sleeping

\* The count of active leases is exact and never over capacity, though leases
\* are given back in two steps, and though a lease may be released twice.
SlotsMatchLeases ==
    /\ active = Cardinality(Holders)
    /\ active <= Capacity

\* The count of waiters is exact and bounded, however each of them left: no
\* place of the bounded queue is ever lost to a timeout.
WaitersAreCounted ==
    /\ waiting = Cardinality(Waiters)
    /\ waiting <= MaxWaiters

\* No lost wakeup: while a thread still sleeps, every free slot has a notified
\* thread on its way to it, in spite of notify(1) hitting a thread whose
\* deadline passed and of newcomers taking the slot first.
NoLostWakeup ==
    sleeping # {} => Capacity - active <= Cardinality(Notified)

\* A free slot does not stay free while somebody sleeps for it, even if nobody
\* releases another and no deadline passes.
FreeSlotIsTaken ==
    sleeping # {} /\ FreeSlot ~> sleeping = {} \/ ~FreeSlot

\* Every waiter whose deadline passed is admitted or refused, though newcomers
\* may overtake it again and again.
OverdueWaiterLeaves == \A t \in Threads : t \in expired ~> pc[t] # "waiting"

=============================================================================
