\* Keys 0, 1 and 1; four nodes: both halves of a sort are sorted themselves.
SPECIFICATION ListSpec
CONSTANTS
    Lists = {l1, l2}
    Items = {1, 2, 3}
    Key <- MCKey
    NodeBound = 4
INVARIANTS
    NodesOnOneList
    HoldsItsItems
