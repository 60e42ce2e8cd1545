------------------------------ MODULE LinkArray ------------------------------
(***************************************************************************)
(* core/link_array.c: a deque in one block of nodes.  Each node is on one  *)
(* of two lists threaded through the block by index: the used list, doubly *)
(* linked, which holds the elements in order, and the free list.           *)
(***************************************************************************)
EXTENDS Integers, Sequences, Functions

CONSTANTS
    Elements,           \* what clients store
    NoItem,             \* what memory nobody wrote holds
    Capacities,         \* the capacities linkarray_init is asked for
    DEFAULT_CAPACITY,   \* 8, what it takes for one that is not positive
    CapacityBound,      \* bound: no call that would grow the array past it
    PopAtAnywhere       \* whether linkarray_pop_at is also called where the
                        \* element's place is not the index of its node

ASSUME LinkArrayAssumption ==
    /\ Capacities \subseteq Int /\ \A capacity \in Capacities : capacity <= CapacityBound
    /\ CapacityBound \in Nat
    /\ DEFAULT_CAPACITY \in 1 .. CapacityBound
    /\ PopAtAnywhere \in BOOLEAN
    /\ NoItem \notin Elements

VARIABLE array      \* struct LinkArray, with its nodes by field

None == -1
Nodes == 0 .. (CapacityBound - 1)

\* A pointer obtained from _get_node is written through only if the index it was
\* obtained from is one.
Set(f, n, value) == IF n = None THEN f ELSE [f EXCEPT ![n] = value]

\* Mutant: the links of the new nodes reach back into the used ones.
LinkNodesBackwards(a, start) ==
    [a EXCEPT
       !.next = [n \in Nodes |->
                   IF n \notin start .. (a.capacity - 1) THEN a.next[n]
                   ELSE IF n + 1 < a.capacity THEN n + 1 ELSE None],
       !.prev = [n \in Nodes |->
                   IF n \notin start .. (a.capacity - 1) THEN a.prev[n]
                   ELSE IF n - 1 >= 0 THEN n - 1 ELSE None],
       !.freehead = a.count]

\* _link_nodes: the nodes from start on become the free list.
LinkNodes(a, start) ==
    [a EXCEPT
       !.next = [n \in Nodes |->
                   IF n \notin start .. (a.capacity - 1) THEN a.next[n]
                   ELSE IF n + 1 < a.capacity THEN n + 1 ELSE None],
       !.prev = [n \in Nodes |->
                   IF n \notin start .. (a.capacity - 1) THEN a.prev[n]
                   ELSE IF n - 1 >= a.count THEN n - 1 ELSE None],
       !.freehead = a.count]

NewArray(capacity) ==
    LinkNodes([next     |-> [n \in Nodes |-> None],
               prev     |-> [n \in Nodes |-> None],
               data     |-> [n \in Nodes |-> NoItem],
               count    |-> 0,
               capacity |-> IF capacity > 0 THEN capacity ELSE DEFAULT_CAPACITY,
               usedhead |-> None,
               usedtail |-> None,
               freehead |-> 0], 0)

\* linkarray_uninit.
NoArray ==
    [NewArray(DEFAULT_CAPACITY) EXCEPT !.capacity = 0, !.freehead = None]

\* The array doubles when every node is in use; _grow_array and its caller both
\* link the new nodes.
Grow(a) ==
    IF a.count # a.capacity THEN a ELSE
      LET bigger == [a EXCEPT !.capacity = 2 * @]
      IN  LinkNodes(LinkNodes(bigger, a.count), a.count)

\* Mutant: the last node that is freed stays the tail.
MakeFreeNodeKeepTail(a, node, nidx) ==
    LET next == a.next[node]
        prev == a.prev[node]
    IN  [a EXCEPT
           !.next = [Set(@, prev, next) EXCEPT ![node] = a.freehead],
           !.prev = [Set(Set(@, next, prev), a.freehead, nidx) EXCEPT ![node] = None],
           !.usedhead = IF prev = None THEN next ELSE @,
           !.freehead = nidx]

\* _make_free_node: node leaves the used list, and nidx, which the callers say
\* is its index, heads the free list.
MakeFreeNode(a, node, nidx) ==
    LET next == a.next[node]
        prev == a.prev[node]
    IN  [a EXCEPT
           !.next = [Set(@, prev, next) EXCEPT ![node] = a.freehead],
           !.prev = [Set(Set(@, next, prev), a.freehead, nidx) EXCEPT ![node] = None],
           !.usedhead = IF prev = None THEN next ELSE @,
           !.usedtail = IF next = None THEN prev ELSE @,
           !.freehead = nidx]

\* _make_used_node, of the first free node, at either end of the used list.
MakeUsedNode(a, node, head) ==
    LET next == a.next[node]
        prev == a.prev[node]
        freed == [a EXCEPT !.next = Set(@, prev, next),
                           !.prev = Set(@, next, prev),
                           !.freehead = IF prev = None THEN next ELSE @]
    IN  IF head
          THEN [freed EXCEPT
                  !.prev = [Set(@, a.usedhead, node) EXCEPT ![node] = None],
                  !.next[node] = a.usedhead,
                  !.usedhead = node,
                  !.usedtail = IF a.usedhead = None THEN node ELSE @]
          ELSE [freed EXCEPT
                  !.next = [Set(@, a.usedtail, node) EXCEPT ![node] = None],
                  !.prev[node] = a.usedtail,
                  !.usedtail = node,
                  !.usedhead = IF a.usedtail = None THEN node ELSE @]

\* _internal_add_by_copy and _internal_add_by_alloc_func.
Added(a, item, head) ==
    LET grown == Grow(a)
        node == grown.freehead
    IN  [MakeUsedNode(grown, node, head) EXCEPT !.data[node] = item,
                                                !.count = @ + 1]

\* _internal_pop, and linkarray_pop_at for an element it found.
Popped(a, node, nidx) ==
    IF node = None THEN a
    ELSE [MakeFreeNode(a, node, nidx) EXCEPT !.count = @ - 1]

\* Mutant: from the tail, one step too many.
StepsFromEndLong(a, index) == a.count - index

\* How far _internal_at goes when it starts at the tail.
StepsFromEnd(a, index) == a.count - 1 - index

\* The node that is the given number of links from first.
Along(first, links, steps) ==
    LET Reached[k \in 0 .. steps] == IF k = 0 THEN first ELSE links[Reached[k - 1]]
    IN  Reached[steps]

\* _internal_at: the node of an element, from the nearer end.
NodeAt(a, index) ==
    IF a.usedhead = None \/ index \notin 0 .. (a.count - 1) THEN None
    ELSE IF a.count - index >= a.count \div 2 THEN Along(a.usedhead, a.next, index)
    ELSE Along(a.usedtail, a.prev, StepsFromEnd(a, index))

LinkArrayInit == \E capacity \in Capacities : array = NewArray(capacity)

Usable == array.capacity > 0

PushFront(item) ==
    /\ Usable
    /\ Grow(array).capacity <= CapacityBound
    /\ array' = Added(array, item, TRUE)

\* linkarray_push_back and linkarray_emplace_back.
PushBack(item) ==
    /\ Usable
    /\ Grow(array).capacity <= CapacityBound
    /\ array' = Added(array, item, FALSE)

PopFront == Usable /\ array' = Popped(array, array.usedhead, array.usedhead)

PopBack == Usable /\ array' = Popped(array, array.usedtail, array.usedtail)

\* The node is named by the element's place in the order.
PopAt(index) ==
    /\ Usable
    /\ PopAtAnywhere \/ NodeAt(array, index) \in {index, None}
    /\ array' = Popped(array, NodeAt(array, index), index)

LinkArrayClear ==
    LET Cleared[n \in 0 .. array.count] ==
          IF n = 0 THEN array
          ELSE LET a == Cleared[n - 1] IN Popped(a, a.usedhead, a.usedhead)
    IN  Usable /\ array' = Cleared[array.count]

\* No free function runs on the elements.
LinkArrayUninit == Usable /\ array' = NoArray

LinkArrayNext ==
    \/ \E item \in Elements : PushFront(item) \/ PushBack(item)
    \/ PopFront \/ PopBack
    \/ \E index \in -1 .. CapacityBound : PopAt(index)
    \/ LinkArrayClear
    \/ LinkArrayUninit

LinkArraySpec == LinkArrayInit /\ [][LinkArrayNext]_array

-----------------------------------------------------------------------------

LinkArrayTypeOK ==
    array \in [next : [Nodes -> Nodes \cup {None}],
               prev : [Nodes -> Nodes \cup {None}],
               data : [Nodes -> Elements \cup {NoItem}],
               count : 0 .. CapacityBound,
               capacity : 0 .. CapacityBound,
               usedhead : Nodes \cup {None},
               usedtail : Nodes \cup {None},
               freehead : Nodes \cup {None}]

\* The nodes met from first along the links, as linkarray_begin and
\* linkarray_it_next meet them, but in no more than CapacityBound + 1 steps.
Walk(first, links) ==
    LET From[k \in 0 .. CapacityBound + 1] ==
          [n \in Nodes \cup {None} |->
             IF k = 0 \/ n = None THEN <<>> ELSE <<n>> \o From[k - 1][links[n]]]
    IN  From[CapacityBound + 1][first]

UsedList == Walk(array.usedhead, array.next)
FreeList == Walk(array.freehead, array.next)

\* linkarray_at finds the element that the iterator meets at that place, from
\* whichever end it starts, and nothing where there is none.
AtAgrees ==
    \A index \in -1 .. CapacityBound :
      NodeAt(array, index) =
        IF index \in 0 .. (array.count - 1) THEN UsedList[index + 1] ELSE None

\* Every node of the block is on exactly one list, once, through growth and any
\* order of pushes and pops: none leaks, no push is given a node in use, and the
\* used list is the same read from its tail as read from its head.  (The comment
\* in _make_free_node, "Add to freelist", is of the node that left the used list.)
NodesPartitioned ==
    /\ LinkArrayTypeOK
    /\ Len(UsedList) = array.count
    /\ Len(UsedList) + Len(FreeList) = array.capacity
    /\ Range(UsedList) \cup Range(FreeList) = 0 .. (array.capacity - 1)
    /\ AtAgrees

Deque == INSTANCE AbstractDeque WITH
    Items <- Elements,
    contents <- [i \in DOMAIN UsedList |-> array.data[UsedList[i]]]

\* Clients see a sequence: growth, reuse of nodes and the order in which nodes
\* were freed never show in what the iterator meets.
ImplementsDeque == Deque!Spec

=============================================================================
