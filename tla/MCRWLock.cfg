\* Three threads: the fewest that give a holder, a writer that waits and a
\* reader that waits, or two waiters and one wakeup.
SPECIFICATION FairSpec
CONSTANTS
    Threads = {t1, t2, t3}
    NoThread = NoThread
INVARIANTS
    TypeOK
    Exclusion
    CountersExact
    NoLostWakeup
    UninitDrains
PROPERTIES
    ImplementsAbstract
    WriterProgress
    ReaderProgress
\* The lock may be destroyed and every thread stopped.
CHECK_DEADLOCK FALSE
