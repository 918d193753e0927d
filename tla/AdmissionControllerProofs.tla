--------------------- MODULE AdmissionControllerProofs ---------------------
(* Proofs about AdmissionController: both counters are exact, both bounds  *)
(* are kept and no wakeup is lost, for any threads, capacity and bound on  *)
(* the waiters; and what the liveness properties need besides fairness.    *)
EXTENDS AdmissionController, FiniteSetTheorems, TLAPS

USE AdmissionAssumption

\* Who waits holds no lease, and who is giving one back has released it.
LeasesFit ==
    \A t \in Threads :
        /\ pc[t] = "waiting" => lease[t] # "held"
        /\ pc[t] = "returning" => lease[t] = "released"

\* Only waiters sleep, and only the deadlines of waiters count.
OnlyWaiters == sleeping \subseteq Waiters /\ expired \subseteq Waiters

IInv ==
    /\ TypeOK
    /\ LeasesFit
    /\ OnlyWaiters
    /\ SlotsMatchLeases
    /\ WaitersAreCounted
    /\ NoLostWakeup

-----------------------------------------------------------------------------
\* The sets that are counted are finite.
LEMMA Finite ==
    /\ IsFiniteSet(Holders) /\ Cardinality(Holders) \in Nat
    /\ IsFiniteSet(Waiters) /\ Cardinality(Waiters) \in Nat
    /\ IsFiniteSet(Notified) /\ Cardinality(Notified) \in Nat
<1>1. Holders \in SUBSET Threads /\ Waiters \in SUBSET Threads
      /\ Notified \in SUBSET Threads
  BY DEF Holders, Waiters, Notified
<1>2. \A S \in SUBSET Threads : IsFiniteSet(S)
  BY FS_Subset
<1>3. IsFiniteSet(Holders) /\ IsFiniteSet(Waiters) /\ IsFiniteSet(Notified)
  BY <1>1, <1>2
<1> QED  BY <1>3, FS_CardinalityType

\* One more, and one less, in a finite set.
LEMMA CountOneMore ==
    ASSUME NEW S, IsFiniteSet(S), NEW x, x \notin S
    PROVE  Cardinality(S \cup {x}) = Cardinality(S) + 1
BY FS_AddElement

LEMMA CountOneLess ==
    ASSUME NEW S, IsFiniteSet(S), NEW x, x \in S
    PROVE  Cardinality(S \ {x}) = Cardinality(S) - 1
BY FS_RemoveElement

\* At the start nobody holds, waits or sleeps.
LEMMA InitIInv == Init => IInv
<1> SUFFICES ASSUME Init PROVE IInv
  OBVIOUS
<1>1. Holders = {} /\ Waiters = {} /\ Notified = {}
  BY DEF Init, Holders, Waiters, Notified
<1>2. Cardinality({}) = 0
  BY FS_EmptySet
<1> QED
  BY <1>1, <1>2 DEF Init, IInv, TypeOK, LeasesFit, OnlyWaiters, SlotsMatchLeases,
     WaitersAreCounted, NoLostWakeup

-----------------------------------------------------------------------------
(* Each action keeps the invariant.                                        *)

LEMMA AcquireAtOnceKeeps ==
    ASSUME IInv, NEW t \in Threads, AcquireAtOnce(t)
    PROVE  IInv'
<1> USE DEF IInv, TypeOK
<1>1. TypeOK'
  BY DEF AcquireAtOnce, Admit
<1>2. LeasesFit'
  BY DEF AcquireAtOnce, Admit, LeasesFit
<1>3. Waiters' = Waiters /\ Notified' = Notified
  BY DEF AcquireAtOnce, Waiters, Notified
<1>4. OnlyWaiters' /\ WaitersAreCounted'
  BY <1>3 DEF AcquireAtOnce, OnlyWaiters, WaitersAreCounted
<1>5. Holders' = Holders \cup {t} /\ t \notin Holders
  BY DEF AcquireAtOnce, Admit, Holders
<1>6. Cardinality(Holders') = Cardinality(Holders) + 1
  BY <1>5, Finite, CountOneMore
<1>7. SlotsMatchLeases'
  BY <1>6, Finite DEF AcquireAtOnce, Admit, FreeSlot, SlotsMatchLeases
<1>8. NoLostWakeup'
  BY <1>3, Finite DEF AcquireAtOnce, Admit, NoLostWakeup
<1> QED  BY <1>1, <1>2, <1>4, <1>7, <1>8

LEMMA AcquireWaitsKeeps ==
    ASSUME IInv, NEW t \in Threads, AcquireWaits(t)
    PROVE  IInv'
<1> USE DEF IInv, TypeOK
<1>1. TypeOK'
  BY DEF AcquireWaits
<1>2. LeasesFit'
  BY DEF AcquireWaits, LeasesFit
<1>3. Waiters' = Waiters \cup {t} /\ t \notin Waiters
  BY DEF AcquireWaits, Waiters
<1>4. OnlyWaiters'
  BY <1>3 DEF AcquireWaits, OnlyWaiters
<1>5. Cardinality(Waiters') = Cardinality(Waiters) + 1
  BY <1>3, Finite, CountOneMore
<1>6. WaitersAreCounted'
  BY <1>5, Finite DEF AcquireWaits, WaitersAreCounted
<1>7. Holders' = Holders
  BY DEF AcquireWaits, Holders
<1>8. SlotsMatchLeases'
  BY <1>7 DEF AcquireWaits, SlotsMatchLeases
<1>9. Notified' = Notified
  BY <1>3 DEF AcquireWaits, Notified
<1>10. NoLostWakeup'
  BY <1>9, Finite DEF AcquireWaits, FreeSlot, NoLostWakeup
<1> QED  BY <1>1, <1>2, <1>4, <1>6, <1>8, <1>10

LEMMA DeadlinePassesKeeps ==
    ASSUME IInv, NEW t \in Threads, DeadlinePasses(t)
    PROVE  IInv'
<1> USE DEF IInv, TypeOK, DeadlinePasses
<1>1. Waiters' = Waiters /\ Notified' = Notified /\ Holders' = Holders
  BY DEF Waiters, Notified, Holders
<1>2. t \in Waiters
  BY DEF Waiters
<1>3. TypeOK' /\ LeasesFit' /\ OnlyWaiters'
  BY <1>1, <1>2 DEF LeasesFit, OnlyWaiters
<1>4. SlotsMatchLeases' /\ WaitersAreCounted' /\ NoLostWakeup'
  BY <1>1 DEF SlotsMatchLeases, WaitersAreCounted, NoLostWakeup
<1> QED  BY <1>3, <1>4

\* The thread whose wait returned is admitted, refused, or sleeps again.
LEMMA ResumeKeeps ==
    ASSUME IInv, NEW t \in Threads, Resume(t)
    PROVE  IInv'
<1> USE DEF IInv, TypeOK
<1>0. pc[t] = "waiting" /\ t \in Waiters /\ waiting = Cardinality(Waiters)
  BY DEF Resume, Waiters, WaitersAreCounted
<1>1. CASE MayEnter(t) /\ Admit(t) /\ waiting' = waiting - 1 /\ Leaves(t)
  <2> USE <1>1
  <2>1. Waiters' = Waiters \ {t}
    BY <1>0 DEF Leaves, Waiters
  <2>2. Cardinality(Waiters') = Cardinality(Waiters) - 1
    BY <1>0, <2>1, Finite, CountOneLess
  <2>3. TypeOK'
    BY <1>0, <2>2, Finite, FS_CardinalityType, FS_RemoveElement, <2>1 DEF Admit, Leaves
  <2>4. LeasesFit'
    BY DEF Admit, Leaves, LeasesFit
  <2>5. OnlyWaiters'
    BY <2>1 DEF Leaves, OnlyWaiters
  <2>6. WaitersAreCounted'
    BY <2>2, Finite DEF WaitersAreCounted
  <2>7. Holders' = Holders \cup {t} /\ t \notin Holders
    BY <1>0 DEF Admit, Leaves, Holders, LeasesFit
  <2>8. Cardinality(Holders') = Cardinality(Holders) + 1
    BY <2>7, Finite, CountOneMore
  <2>9. SlotsMatchLeases'
    BY <2>8, Finite DEF Admit, MayEnter, FreeSlot, SlotsMatchLeases
  <2>10. Notified' = Notified \ {t}
    BY <2>1 DEF Leaves, Notified
  <2>11. Cardinality(Notified') \in {Cardinality(Notified), Cardinality(Notified) - 1}
    BY <2>10, Finite, FS_RemoveElement
  <2>12. sleeping' # {} => sleeping # {}
    BY DEF Leaves
  <2>13. NoLostWakeup'
    BY <2>11, <2>12, Finite DEF Admit, NoLostWakeup
  <2> QED  BY <2>3, <2>4, <2>5, <2>6, <2>9, <2>13
<1>2. CASE ~MayEnter(t) /\ TooLate(t) /\ waiting' = WaitersLess /\ Leaves(t)
           /\ UNCHANGED <<active, lease>>
  <2> USE <1>2
  <2>1. Waiters' = Waiters \ {t}
    BY <1>0 DEF Leaves, Waiters
  <2>2. Cardinality(Waiters') = Cardinality(Waiters) - 1
    BY <1>0, <2>1, Finite, CountOneLess
  <2>3. IsFiniteSet(Waiters') /\ Cardinality(Waiters') \in Nat
    BY <2>1, Finite, FS_CardinalityType, FS_RemoveElement
  <2>4. TypeOK'
    BY <1>0, <2>2, <2>3 DEF Leaves, WaitersLess
  <2>5. LeasesFit'
    BY DEF Leaves, LeasesFit
  <2>6. OnlyWaiters'
    BY <2>1 DEF Leaves, OnlyWaiters
  <2>7. WaitersAreCounted'
    BY <2>2, Finite DEF WaitersAreCounted, WaitersLess
  <2>8. Holders' = Holders
    BY <1>0 DEF Leaves, Holders
  <2>9. SlotsMatchLeases'
    BY <2>8 DEF SlotsMatchLeases
  <2>10. Notified' = Notified \ {t}
    BY <2>1 DEF Leaves, Notified
  <2>11. Cardinality(Notified') \in Nat
    BY <2>10, Finite, FS_CardinalityType, FS_RemoveElement
  <2>12. NoLostWakeup'
    BY <2>11 DEF MayEnter, FreeSlot, NoLostWakeup
  <2> QED  BY <2>4, <2>5, <2>6, <2>7, <2>9, <2>12
<1>3. CASE ~MayEnter(t) /\ ~TooLate(t) /\ sleeping' = sleeping \cup {t}
           /\ UNCHANGED <<active, waiting, pc, lease, expired>>
  <2> USE <1>3
  <2>1. Waiters' = Waiters /\ Holders' = Holders
    BY DEF Waiters, Holders
  <2>2. TypeOK' /\ LeasesFit' /\ OnlyWaiters'
    BY <1>0, <2>1 DEF LeasesFit, OnlyWaiters
  <2>3. SlotsMatchLeases' /\ WaitersAreCounted'
    BY <2>1 DEF SlotsMatchLeases, WaitersAreCounted
  <2>4. Notified' = Notified \ {t}
    BY <2>1 DEF Notified
  <2>5. Cardinality(Notified') \in Nat
    BY <2>4, Finite, FS_CardinalityType, FS_RemoveElement
  <2>6. NoLostWakeup'
    BY <2>5 DEF MayEnter, FreeSlot, NoLostWakeup
  <2> QED  BY <2>2, <2>3, <2>6
<1> QED  BY <1>1, <1>2, <1>3 DEF Resume

\* The lease is released, and its slot still counts.
LEMMA ReleaseKeeps ==
    ASSUME IInv, NEW t \in Threads, Release(t)
    PROVE  IInv'
<1> USE DEF IInv, TypeOK, Release
<1>1. TypeOK' /\ LeasesFit'
  BY DEF LeasesFit
<1>2. Waiters' = Waiters /\ Notified' = Notified
  BY DEF Waiters, Notified
<1>3. Holders' = Holders
  BY DEF Holders, Releasable
<1>4. OnlyWaiters'
  BY <1>2 DEF OnlyWaiters
<1>5. SlotsMatchLeases' /\ WaitersAreCounted' /\ NoLostWakeup'
  BY <1>2, <1>3 DEF SlotsMatchLeases, WaitersAreCounted, NoLostWakeup
<1> QED  BY <1>1, <1>4, <1>5

\* The slot is free, and one sleeper was notified if there was one.
LEMMA ReturnSlotKeeps ==
    ASSUME IInv, NEW t \in Threads, ReturnSlot(t)
    PROVE  IInv'
<1> USE DEF IInv, TypeOK
<1>0. sleeping' \subseteq sleeping
  BY DEF ReturnSlot, Notify
<1>1. TypeOK'
  BY <1>0 DEF ReturnSlot
<1>2. LeasesFit'
  BY DEF ReturnSlot, LeasesFit
<1>3. Waiters' = Waiters
  BY DEF ReturnSlot, Waiters
<1>4. OnlyWaiters'
  BY <1>0, <1>3 DEF ReturnSlot, OnlyWaiters
<1>5. WaitersAreCounted'
  BY <1>3 DEF ReturnSlot, WaitersAreCounted
<1>6. Holders' = Holders \ {t} /\ t \in Holders
  BY DEF ReturnSlot, Holders, LeasesFit
<1>7. Cardinality(Holders') = Cardinality(Holders) - 1
  BY <1>6, Finite, CountOneLess
<1>8. SlotsMatchLeases'
  BY <1>7, Finite DEF ReturnSlot, SlotsMatchLeases
<1>9. NoLostWakeup'
  <2>1. CASE sleeping = {}
    BY <1>0, <2>1 DEF NoLostWakeup
  <2>2. CASE sleeping # {}
    <3>1. PICK s \in sleeping : sleeping' = sleeping \ {s}
      BY <2>2 DEF ReturnSlot, Notify
    <3>2. Notified' = Notified \cup {s} /\ s \notin Notified
      BY <1>3, <3>1 DEF Notified, OnlyWaiters
    <3>3. Cardinality(Notified') = Cardinality(Notified) + 1
      BY <3>2, Finite, CountOneMore
    <3> QED  BY <2>2, <3>3, Finite DEF ReturnSlot, NoLostWakeup
  <2> QED  BY <2>1, <2>2
<1> QED  BY <1>1, <1>2, <1>4, <1>5, <1>8, <1>9

LEMMA IInvStep == IInv /\ [Next]_vars => IInv'
<1> SUFFICES ASSUME IInv, [Next]_vars PROVE IInv'
  OBVIOUS
<1>1. CASE UNCHANGED vars
  BY <1>1 DEF vars, IInv, TypeOK, LeasesFit, OnlyWaiters, SlotsMatchLeases,
     WaitersAreCounted, NoLostWakeup, Holders, Waiters, Notified
<1>2. ASSUME NEW t \in Threads, AcquireAtOnce(t) PROVE IInv'
  BY <1>2, AcquireAtOnceKeeps
<1>3. ASSUME NEW t \in Threads, AcquireWaits(t) PROVE IInv'
  BY <1>3, AcquireWaitsKeeps
<1>4. ASSUME NEW t \in Threads, DeadlinePasses(t) PROVE IInv'
  BY <1>4, DeadlinePassesKeeps
<1>5. ASSUME NEW t \in Threads, Resume(t) PROVE IInv'
  BY <1>5, ResumeKeeps
<1>6. ASSUME NEW t \in Threads, Release(t) PROVE IInv'
  BY <1>6, ReleaseKeeps
<1>7. ASSUME NEW t \in Threads, ReturnSlot(t) PROVE IInv'
  BY <1>7, ReturnSlotKeeps
<1> QED  BY <1>1, <1>2, <1>3, <1>4, <1>5, <1>6, <1>7 DEF Next

-----------------------------------------------------------------------------
(* Theorems.                                                               *)

\* The strengthened invariant holds of every reachable state.
THEOREM IInvAlways == Spec => []IInv
BY InitIInv, IInvStep, PTL DEF Spec

\* active is the number of leases that are out, never over the capacity.
THEOREM LeasesAreExact == Spec => []SlotsMatchLeases
<1>1. IInv => SlotsMatchLeases
  BY DEF IInv
<1> QED  BY <1>1, IInvAlways, PTL

\* waiting is the number of waiting threads, never over its bound.
THEOREM WaitersAreExact == Spec => []WaitersAreCounted
<1>1. IInv => WaitersAreCounted
  BY DEF IInv
<1> QED  BY <1>1, IInvAlways, PTL

\* No wakeup is lost: every free slot a sleeper could use is somebody's who
\* was notified.
THEOREM WakeupsAreEnough == Spec => []NoLostWakeup
<1>1. IInv => NoLostWakeup
  BY DEF IInv
<1> QED  BY <1>1, IInvAlways, PTL

\* The variables keep their types, for any threads, capacity and bound.
THEOREM AdmissionTypeCorrect == Spec => []TypeOK
<1>1. IInv => TypeOK
  BY DEF IInv
<1> QED  BY <1>1, IInvAlways, PTL


-----------------------------------------------------------------------------
(* Progress: what FreeSlotIsTaken and OverdueWaiterLeaves need besides the *)
(* fairness of Resume.                                                     *)

\* While a slot is free and somebody sleeps for it, a notified thread is on its
\* way, and stays so until a slot is taken; nobody goes to sleep, and a slot that
\* is given back wakes one more.  So (sleepers, free slots) falls, in this order,
\* with every slot that is taken or given back.
FreeSlotDrains ==
    /\ [](sleeping # {} /\ FreeSlot => Notified # {})
    /\ [][sleeping # {} /\ FreeSlot =>
             /\ sleeping' \subseteq sleeping
             /\ active' < active => sleeping' # sleeping
             /\ \A t \in Notified : t \in Notified' \/ active' = active + 1]_vars

\* An overdue thread is able to resume until it does, and whatever the others
\* took meanwhile, resuming is leaving: it is admitted or refused, and counted
\* out exactly once.
OverdueLeavesOnce ==
    [][\A t \in expired :
          /\ pc[t] = "waiting"
          /\ Resume(t) => pc'[t] = "running" /\ t \notin expired' /\ waiting' = waiting - 1
          /\ ~Resume(t) => pc'[t] = "waiting" /\ t \in expired']_vars

LEMMA FreeSlotHasTaker == IInv /\ sleeping # {} /\ FreeSlot => Notified # {}
<1> SUFFICES ASSUME IInv, sleeping # {}, FreeSlot, Notified = {}
             PROVE  FALSE
  OBVIOUS
<1>1. Capacity - active <= 0
  BY FS_EmptySet DEF IInv, NoLostWakeup
<1>2. active \in Nat
  BY DEF IInv, TypeOK
<1> QED  BY <1>1, <1>2 DEF FreeSlot

LEMMA FreeSlotStep ==
    ASSUME IInv, [Next]_vars, sleeping # {}, FreeSlot
    PROVE  /\ sleeping' \subseteq sleeping
           /\ active' < active => sleeping' # sleeping
           /\ \A t \in Notified : t \in Notified' \/ active' = active + 1
<1>1. active \in Nat /\ pc \in [Threads -> {"running", "waiting", "returning"}]
  BY DEF IInv, TypeOK
<1>2. CASE UNCHANGED vars
  BY <1>1, <1>2 DEF vars, Notified, Waiters
<1>3. ASSUME NEW t \in Threads, AcquireAtOnce(t)
      PROVE  sleeping' = sleeping /\ active' = active + 1
  BY <1>3 DEF AcquireAtOnce, Admit
<1>4. ASSUME NEW t \in Threads, AcquireWaits(t)
      PROVE  FALSE
  BY <1>4 DEF AcquireWaits
<1>5. ASSUME NEW t \in Threads, DeadlinePasses(t)
      PROVE  sleeping' = sleeping /\ active' = active /\ Notified' = Notified
  BY <1>5 DEF DeadlinePasses, Notified, Waiters
<1>6. ASSUME NEW t \in Threads, Resume(t)
      PROVE  sleeping' \subseteq sleeping /\ active' = active + 1
  BY <1>6 DEF Resume, MayEnter, Admit, Leaves
<1>7. ASSUME NEW t \in Threads, Release(t)
      PROVE  sleeping' = sleeping /\ active' = active /\ Notified' = Notified
  <2>1. \A u \in Threads : pc'[u] = "waiting" <=> pc[u] = "waiting"
    BY <1>1, <1>7 DEF Release
  <2> QED  BY <1>7, <2>1 DEF Release, Notified, Waiters
<1>8. ASSUME NEW t \in Threads, ReturnSlot(t)
      PROVE  /\ sleeping' \subseteq sleeping /\ sleeping' # sleeping
             /\ Notified \subseteq Notified'
  <2>1. \A u \in Threads : pc'[u] = "waiting" <=> pc[u] = "waiting"
    BY <1>1, <1>8 DEF ReturnSlot
  <2>2. PICK s \in sleeping : sleeping' = sleeping \ {s}
    BY <1>8 DEF ReturnSlot, Notify
  <2> QED  BY <2>1, <2>2 DEF Notified, Waiters
<1>9. ASSUME active' = active + 1
      PROVE  ~(active' < active)
  BY <1>1, <1>9
<1> QED  BY <1>1, <1>2, <1>3, <1>4, <1>5, <1>6, <1>7, <1>8, <1>9 DEF Next

LEMMA OverdueStep ==
    ASSUME IInv, [Next]_vars, NEW t \in expired
    PROVE  /\ pc[t] = "waiting"
           /\ Resume(t) => pc'[t] = "running" /\ t \notin expired' /\ waiting' = waiting - 1
           /\ ~Resume(t) => pc'[t] = "waiting" /\ t \in expired'
<1>1. /\ t \in Threads /\ pc[t] = "waiting" /\ lease[t] # "held"
      /\ pc \in [Threads -> {"running", "waiting", "returning"}]
  BY DEF IInv, TypeOK, OnlyWaiters, Waiters, LeasesFit
<1>2. ASSUME Resume(t)
      PROVE  pc'[t] = "running" /\ t \notin expired' /\ waiting' = waiting - 1
  BY <1>1, <1>2 DEF Resume, TooLate, Leaves, WaitersLess
<1>3. ASSUME ~Resume(t)
      PROVE  pc'[t] = "waiting" /\ t \in expired'
  <2>1. CASE UNCHANGED vars
    BY <1>1, <2>1 DEF vars
  <2>2. ASSUME NEW u \in Threads, u # t, Resume(u)
        PROVE  pc'[t] = "waiting" /\ t \in expired'
    BY <1>1, <2>2 DEF Resume, Leaves
  <2>3. ASSUME NEW u \in Threads, \/ AcquireAtOnce(u) \/ AcquireWaits(u) \/ DeadlinePasses(u)
                                  \/ Release(u) \/ ReturnSlot(u)
        PROVE  pc'[t] = "waiting" /\ t \in expired'
    BY <1>1, <2>3 DEF AcquireAtOnce, AcquireWaits, DeadlinePasses, Release, ReturnSlot
  <2> QED  BY <1>3, <2>1, <2>2, <2>3 DEF Next
<1> QED  BY <1>1, <1>2, <1>3

\* A free slot always has a taker, and the threads between it and the sleepers
\* run out: all of FreeSlotIsTaken but the fairness.
THEOREM FreeSlotsHaveTakers == Spec => FreeSlotDrains
<1>1. IInv /\ [Next]_vars =>
         [sleeping # {} /\ FreeSlot =>
             /\ sleeping' \subseteq sleeping
             /\ active' < active => sleeping' # sleeping
             /\ \A t \in Notified : t \in Notified' \/ active' = active + 1]_vars
  BY FreeSlotStep
<1> QED  BY <1>1, FreeSlotHasTaker, IInvAlways, PTL DEF Spec, FreeSlotDrains

\* An overdue waiter is one step of its own from leaving, and no step of another
\* thread changes that: all of OverdueWaiterLeaves but the fairness.
THEOREM OverdueCanLeave == Spec => OverdueLeavesOnce
<1>1. IInv /\ [Next]_vars =>
         [\A t \in expired :
             /\ pc[t] = "waiting"
             /\ Resume(t) => pc'[t] = "running" /\ t \notin expired' /\ waiting' = waiting - 1
             /\ ~Resume(t) => pc'[t] = "waiting" /\ t \in expired']_vars
  BY OverdueStep
<1> QED  BY <1>1, IInvAlways, PTL DEF Spec, OverdueLeavesOnce

=============================================================================
