\* Two of everything: workers that race for one task, clients that race for the
\* pool and for one task.
SPECIFICATION FairSpec
CONSTANTS
    Workers = {w1, w2}
    Clients = {c1, c2}
    Tasks = {a, b}
    Nobody = Nobody
INVARIANTS
    TasksConserved
    SleepersCalled
PROPERTIES
    TasksFinish
    AwaitReturns
    FreeReturns
\* The pool may be freed, and undefined behaviour ends the program.
CHECK_DEADLOCK FALSE
