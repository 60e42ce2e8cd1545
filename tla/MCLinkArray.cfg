\* One node that doubles twice, three that double once, and the default, two.
SPECIFICATION LinkArraySpec
CONSTANTS
    Elements = {a, b}
    NoItem = NoItem
    Capacities = {0, 1, 3}
    DEFAULT_CAPACITY = 2
    CapacityBound = 6
    PopAtAnywhere = FALSE
SYMMETRY ItemSymmetry
INVARIANTS
    NodesPartitioned
PROPERTIES
    ImplementsDeque
\* linkarray_uninit ends the life of the array.
CHECK_DEADLOCK FALSE
