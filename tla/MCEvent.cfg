\* An array and a cache that double once, as more observers than fit before are registered.
SPECIFICATION Spec
CONSTANTS
    Threads = {s, t}
    Senders = {s}
    Observers = {a, b, c}
    NoObserver = NoObserver
    Capacity = 2
    ObserverCapacity = 2
    CountBound = 3
SYMMETRY Symmetry
INVARIANTS
    SendsReachAll
    FaultsKnown
\* A fault ends the program.
CHECK_DEADLOCK FALSE
