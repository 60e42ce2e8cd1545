-------------------------------- MODULE List --------------------------------
(***************************************************************************)
(* core/list.c: doubly linked lists whose nodes are allocated one by one   *)
(* and can be moved between lists.                                         *)
(***************************************************************************)
EXTENDS Integers, FiniteSets, SequencesExt

CONSTANTS
    Lists,          \* the clients' lists
    Items,          \* what clients store
    Key(_),         \* what comparators look at
    NodeBound       \* bound: the nodes that can be allocated at a time

\* The lists that a call of _sort has on its stack, by how many calls may still be nested in it.
Frames == (1 .. NodeBound) \X {"left", "right"}

ASSUME ListAssumption ==
    /\ NodeBound \in Nat
    /\ Items # {} /\ \A item \in Items : Key(item) \in Int
    /\ Lists \cap Frames = {}

VARIABLES
    heap,           \* the nodes by field, those allocated, and the lists
    contents        \* the sequences that the calls so far should have made

list_vars == <<heap, contents>>

None == 0
Nodes == 1 .. NodeBound
EmptyList == [head |-> None, tail |-> None, count |-> 0]
Heaps(lists) ==
    [live : SUBSET Nodes, next : [Nodes -> Nodes \cup {None}],
     prev : [Nodes -> Nodes \cup {None}], data : [Nodes -> Items],
     list : [lists -> [head : Nodes \cup {None}, tail : Nodes \cup {None},
                       count : 0 .. NodeBound]]]
Free(h) == Nodes \ h.live

\* A field written through a pointer that was tested for NULL.
Set(field, n, value) == IF n = None THEN field ELSE [field EXCEPT ![n] = value]

\* _list_node_new.
NewNode(h, node, item, prev, next) ==
    [h EXCEPT !.live = @ \cup {node}, !.data[node] = item,
              !.prev[node] = prev, !.next[node] = next]

\* _add_node: at the end.
AddNode(h, l, node) ==
    LET tail == h.list[l].tail IN
    [h EXCEPT !.prev[node] = IF tail = None THEN @ ELSE tail,
              !.next = Set(@, tail, node),
              !.list[l] = [head |-> IF tail = None THEN node ELSE @.head,
                           tail |-> node, count |-> @.count + 1]]

\* Mutant: the node that follows the removed one still points back to it.
RemoveNodeOneWay(h, l, node) ==
    LET prev == h.prev[node]
        next == h.next[node]
    IN  [h EXCEPT
           !.next = [Set(@, prev, next) EXCEPT ![node] = None],
           !.prev = [@ EXCEPT ![node] = None],
           !.list[l] = [head |-> IF prev = None THEN next ELSE @.head,
                        tail |-> IF next = None THEN prev ELSE @.tail,
                        count |-> @.count - 1]]

\* _remove_node.
RemoveNode(h, l, node) ==
    LET prev == h.prev[node]
        next == h.next[node]
    IN  [h EXCEPT
           !.next = [Set(@, prev, next) EXCEPT ![node] = None],
           !.prev = [Set(@, next, prev) EXCEPT ![node] = None],
           !.list[l] = [head |-> IF prev = None THEN next ELSE @.head,
                        tail |-> IF next = None THEN prev ELSE @.tail,
                        count |-> @.count - 1]]

\* free; nobody looks at what a freed node held.
Blank == CHOOSE item \in Items : TRUE
Released(h, nodes) ==
    [h EXCEPT !.live = @ \ nodes,
              !.next = [n \in Nodes |-> IF n \in nodes THEN None ELSE @[n]],
              !.prev = [n \in Nodes |-> IF n \in nodes THEN None ELSE @[n]],
              !.data = [n \in Nodes |-> IF n \in nodes THEN Blank ELSE @[n]]]

\* list_splice_node.
NodeSpliced(h, from, to, node) == AddNode(RemoveNode(h, from, node), to, node)

\* The nodes met from first on, as the macros list_for_each and _node_at meet them, but
\* in no more than NodeBound + 1 steps.
Walk(first, links) ==
    LET From[k \in 0 .. NodeBound + 1] ==
          [n \in Nodes \cup {None} |->
             IF k = 0 \/ n = None THEN <<>> ELSE <<n>> \o From[k - 1][links[n]]]
    IN  From[NodeBound + 1][first]

NodesOf(h, l) == Walk(h.list[l].head, h.next)
IsMember(h, l, node) == \E i \in DOMAIN NodesOf(h, l) : NodesOf(h, l)[i] = node

\* _node_at, with indices from 0: NULL past the end.
NodeAt(h, l, index) ==
    LET nodes == NodesOf(h, l) IN IF index < Len(nodes) THEN nodes[index + 1] ELSE None

\* _remove_range, without the list it returns, which holds the nodes first to last.
RemoveRange(h, l, first, last, count) ==
    LET prev == h.prev[first]
        next == h.next[last]
    IN  [h EXCEPT
           !.next = [Set(@, prev, next) EXCEPT ![last] = None],
           !.prev = [Set(@, next, prev) EXCEPT ![first] = None],
           !.list[l] = [head |-> IF prev = None THEN next ELSE @.head,
                        tail |-> IF next = None THEN prev ELSE @.tail,
                        count |-> @.count - count]]

\* _add_range: in front of the node at start.
AddRange(h, l, start, count, first, last) ==
    LET at == NodeAt(h, l, start)
        prev == h.prev[at]
    IN  IF at = None
          THEN [h EXCEPT !.list[l] = [head |-> first, tail |-> last, count |-> @.count + count]]
          ELSE [h EXCEPT !.prev = [@ EXCEPT ![first] = prev, ![at] = last],
                         !.next = [Set(@, prev, first) EXCEPT ![last] = at],
                         !.list[l] = [head |-> IF prev = None THEN first ELSE @.head,
                                      tail |-> @.tail, count |-> @.count + count]]

\* The comparators: bool functions that say whether lhs goes first.
Comparators == {"<=", "<"}
GoesFirst(func, lhs, rhs) ==
    IF func = "<=" THEN Key(lhs) <= Key(rhs) ELSE Key(lhs) < Key(rhs)

\* Mutant: equal items come from the right list.
TakesLeftSwapped(h, func, left, right) ==
    right = None \/ (left # None /\ ~GoesFirst(func, h.data[right], h.data[left]))

\* The choice of _sort's merge between the heads of the two halves.
TakesLeft(h, func, left, right) ==
    right = None \/ (left # None /\ GoesFirst(func, h.data[left], h.data[right]))

\* _sort's first loop: the first half of l goes to the left list, the rest to the right one.
SplitOne(h, l, left, right, isLeft) ==
    NodeSpliced(h, l, IF isLeft THEN left ELSE right, h.list[l].head)
Split(h, l, left, right) ==
    LET count == h.list[l].count
        Done[i \in 0 .. count] ==
          IF i = 0 THEN h ELSE SplitOne(Done[i - 1], l, left, right, i <= count \div 2)
    IN  Done[count]

\* _sort's last loop: the lesser of the two heads goes back to l, until none is left.
MergeOne(h, l, left, right, func) ==
    LET lhead == h.list[left].head
        rhead == h.list[right].head
    IN  IF TakesLeft(h, func, lhead, rhead) THEN NodeSpliced(h, left, l, lhead)
        ELSE NodeSpliced(h, right, l, rhead)
Merge(h, l, left, right, func, count) ==
    LET Done[i \in 0 .. count] ==
          IF i = 0 THEN h ELSE MergeOne(Done[i - 1], l, left, right, func)
    IN  Done[count]

\* _sort, with no more than NodeBound calls nested in it.
Stacked == Lists \cup Frames
Sorted(func) ==
    LET Calls[depth \in 0 .. NodeBound] ==
          [h \in Heaps(Stacked) |-> [l \in Stacked |->
             IF depth = 0 \/ h.list[l].count <= 1 THEN h
             ELSE LET left == <<depth, "left">>
                      right == <<depth, "right">>
                      start == [h EXCEPT !.list = [@ EXCEPT ![left] = EmptyList,
                                                            ![right] = EmptyList]]
                      halves == Calls[depth - 1][Split(start, l, left, right)][left]
                  IN  Merge(Calls[depth - 1][halves][right], l, left, right, func,
                            h.list[l].count)]]
    IN  Calls[NodeBound]

-----------------------------------------------------------------------------
(* Reference: what each call promises, as operations on sequences with       *)
(* indices from 0.                                                           *)

Without(s, from, count) == SubSeq(s, 1, from) \o SubSeq(s, from + count + 1, Len(s))
Inserted(s, at, part) == SubSeq(s, 1, at) \o part \o SubSeq(s, at + 1, Len(s))
Place(l, node) ==
    (CHOOSE i \in DOMAIN NodesOf(heap, l) : NodesOf(heap, l)[i] = node) - 1
Promise(l, s) == contents' = [contents EXCEPT ![l] = s]

\* By key, equal items in their old order with "<=", in the opposite order with "<".
InOrder(s, func) ==
    LET base == IF func = "<=" THEN s ELSE Reverse(s)
        Before(i, j) == Key(base[i]) < Key(base[j]) \/ (Key(base[i]) = Key(base[j]) /\ i <= j)
        Rank(i) == Cardinality({j \in DOMAIN base : Before(j, i)})
    IN  [r \in DOMAIN base |-> base[CHOOSE i \in DOMAIN base : Rank(i) = r]]

-----------------------------------------------------------------------------
(* The calls.                                                                *)

\* list_init, and list_new.
ListInit ==
    /\ heap = [live |-> {},
               next |-> [n \in Nodes |-> None], prev |-> [n \in Nodes |-> None],
               data |-> [n \in Nodes |-> Blank],
               list |-> [l \in Lists |-> EmptyList]]
    /\ contents = [l \in Lists |-> <<>>]

\* malloc gives the first free node: which one it is makes no difference.
Fresh == CHOOSE n \in Free(heap) : \A m \in Free(heap) : n <= m

\* list_add.
Add(l, item) ==
    /\ Free(heap) # {}
    /\ heap' = AddNode(NewNode(heap, Fresh, item, None, None), l, Fresh)
    /\ Promise(l, Append(contents[l], item))

\* list_add_head.
AddHead(l, item) ==
    /\ Free(heap) # {}
    /\ LET head == heap.list[l].head
           h == NewNode(heap, Fresh, item, None, head)
       IN  heap' = [h EXCEPT !.prev = Set(@, head, Fresh),
                             !.list[l] = [head |-> Fresh, count |-> @.count + 1,
                                          tail |-> IF head = None THEN Fresh ELSE @.tail]]
    /\ Promise(l, <<item>> \o contents[l])

\* list_rm of the node that list_find found or that list_for_each is at, list_pop_head and
\* list_pop_at.
Rm(l, node) ==
    /\ IsMember(heap, l, node)
    /\ heap' = Released(RemoveNode(heap, l, node), {node})
    /\ Promise(l, Without(contents[l], Place(l, node), 1))

InsertAfter(l, item, node) ==
    /\ IsMember(heap, l, node) /\ Free(heap) # {}
    /\ LET next == heap.next[node]
           h == NewNode(heap, Fresh, item, node, next)
       IN  heap' = [h EXCEPT !.prev = Set(@, next, Fresh), !.next[node] = Fresh,
                             !.list[l] = [head |-> @.head, count |-> @.count + 1,
                                          tail |-> IF next = None THEN Fresh ELSE @.tail]]
    /\ Promise(l, Inserted(contents[l], Place(l, node) + 1, <<item>>))

InsertBefore(l, item, node) ==
    /\ IsMember(heap, l, node) /\ Free(heap) # {}
    /\ LET prev == heap.prev[node]
           h == NewNode(heap, Fresh, item, prev, node)
       IN  heap' = [h EXCEPT !.next = Set(@, prev, Fresh), !.prev[node] = Fresh,
                             !.list[l] = [head |-> IF prev = None THEN Fresh ELSE @.head,
                                          tail |-> @.tail, count |-> @.count + 1]]
    /\ Promise(l, Inserted(contents[l], Place(l, node), <<item>>))

\* list_splice_node.
SpliceNode(from, to, node) ==
    /\ IsMember(heap, from, node)
    /\ heap' = NodeSpliced(heap, from, to, node)
    /\ LET at == Place(from, node)
           rest == [contents EXCEPT ![from] = Without(@, at, 1)]
       IN  contents' = [rest EXCEPT ![to] = Append(@, contents[from][at + 1])]

\* list_splice: of a range of the list, to a place before some element of the other list or
\* to an empty one.  One of the arguments that make it return at once is a count of 0.
Splice(from, to, fromStart, toStart, count) ==
    /\ fromStart + count <= heap.list[from].count
    /\ LET first == NodeAt(heap, from, fromStart)
           last == NodeAt(heap, from, fromStart + count - 1)
           removed == RemoveRange(heap, from, first, last, count)
           rest == [contents EXCEPT ![from] = Without(@, fromStart, count)]
       IN  IF count <= 0 THEN UNCHANGED list_vars
           ELSE /\ \/ toStart < removed.list[to].count
                   \/ toStart = 0 /\ removed.list[to].count = 0
                /\ heap' = AddRange(removed, to, toStart, count, first, last)
                /\ contents' = [rest EXCEPT ![to] = Inserted(@, toStart,
                       SubSeq(contents[from], fromStart + 1, fromStart + count))]

\* list_sort.
Sort(l, func) ==
    /\ LET stack == [k \in Stacked |-> IF k \in Lists THEN heap.list[k] ELSE EmptyList]
           h == Sorted(func)[[heap EXCEPT !.list = stack]][l]
       IN  heap' = [h EXCEPT !.list = [k \in Lists |-> @[k]]]
    /\ Promise(l, InOrder(contents[l], func))

\* list_uninit, list_free and list_free_data: the nodes are freed one by one.
Uninit(l) ==
    /\ heap' = [Released(heap, ToSet(NodesOf(heap, l))) EXCEPT !.list[l] = EmptyList]
    /\ Promise(l, <<>>)

ListNext ==
    \E l \in Lists :
      \/ \E item \in Items :
           \/ Add(l, item) \/ AddHead(l, item)
           \/ \E node \in Nodes : InsertAfter(l, item, node) \/ InsertBefore(l, item, node)
      \/ \E node \in Nodes : Rm(l, node)
      \/ \E to \in Lists, node \in Nodes : SpliceNode(l, to, node)
      \/ \E to \in Lists, fromStart, toStart \in 0 .. NodeBound - 1, count \in 0 .. NodeBound :
           Splice(l, to, fromStart, toStart, count)
      \/ \E func \in Comparators : Sort(l, func)
      \/ Uninit(l)

ListSpec == ListInit /\ [][ListNext]_list_vars

-----------------------------------------------------------------------------
(* Properties.                                                               *)

ListTypeOK == heap \in Heaps(Lists)

\* Whatever sequence of calls: every allocated node is on exactly one list and once, so none
\* leaks and none is freed while it is on a list (list.c:34-140); and the previous links, the
\* tail and the count of a list agree with its next links, so that walking it from either end
\* or counting it says the same.
NodesOnOneList ==
    /\ ListTypeOK
    /\ heap.live = UNION {ToSet(NodesOf(heap, l)) : l \in Lists}
    /\ \A l \in Lists :
         LET nodes == NodesOf(heap, l) IN
         /\ Walk(heap.list[l].tail, heap.prev) = Reverse(nodes)
         /\ heap.list[l].count = Len(nodes)
         /\ IsInjective(nodes)
         /\ \A other \in Lists \ {l} : ToSet(nodes) \cap ToSet(NodesOf(heap, other)) = {}

\* Each list holds the items that the calls on it should have left, in that order: splicing a
\* range keeps the order of both lists, and the merge sort (list.c:144-216) sorts, and keeps or
\* exactly reverses the order of equal items, as the comparator is "<=" or "<".
HoldsItsItems ==
    \A l \in Lists :
      contents[l] = [i \in DOMAIN NodesOf(heap, l) |-> heap.data[NodesOf(heap, l)[i]]]

=============================================================================
