\* Three threads: a holder, one that waits for the component, and one that wants
\* to emplace or remove.  Two components at most, so that the caches grow once.
SPECIFICATION FairSpec
CONSTANTS
    IDX_MASK = 3
    MAX_GENERATIONS = 2
    NoItem = NoItem
    Threads = {t1, t2, t3}
    Component = Component
    InitialCapacity = 1
    CapacityBound = 2
INVARIANTS
    LocksMatch
    ExclusiveUse
PROPERTIES
    HoldersReturn
    RemoveReturns
\* Threads that hold components and threads that remove or emplace can deadlock.
CHECK_DEADLOCK FALSE
