\* linkarray_pop_at wherever there is an element.
SPECIFICATION LinkArraySpec
CONSTANTS
    Elements = {a}
    NoItem = NoItem
    Capacities = {2}
    DEFAULT_CAPACITY = 2
    CapacityBound = 2
    PopAtAnywhere = TRUE
INVARIANTS
    NodesPartitioned
CHECK_DEADLOCK FALSE
