SPECIFICATION Spec
CONSTANTS
    t1 = t1
    t2 = t2
    t3 = t3
    t4 = t4
    Threads = {t1, t2, t3, t4}
    Capacity = 2
    MaxWaiters = 2
INVARIANTS
    SlotsMatchLeases
    WaitersAreCounted
    NoLostWakeup
PROPERTIES
    FreeSlotIsTaken
    OverdueWaiterLeaves
