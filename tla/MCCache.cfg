\* One slot, then two, then four of the seven indices; two generations, so that
\* a third use of a slot rolls its key over.
SPECIFICATION Spec
CONSTANTS
    IDX_MASK = 7
    MAX_GENERATIONS = 2
    NoItem = NoItem
    Items = {a, b}
    InitialCapacity = 1
    CapacityBound = 4
    AllocBound = 5
SYMMETRY ItemSymmetry
INVARIANTS
    SlotsAccounted
    StaleHandlesRefused
    DestroyedOnce
    IterationComplete
PROPERTIES
    ImplementsSlotMap
\* cache_uninit ends the life of the cache.
CHECK_DEADLOCK FALSE
