------------------------------ MODULE CacheOps ------------------------------
(***************************************************************************)
(* struct Cache of core/cache.c as a value, and its functions as operators *)
(* on that value.  A handle packs a generation key and a slot index into   *)
(* an int; here it is a record, and the entry a slot has in                *)
(* Cache.handles is one too: the invalid bit, the key, and the index bits, *)
(* which hold the slot itself when valid and the next free slot when not.  *)
(***************************************************************************)
EXTENDS Integers

CONSTANTS
    IDX_MASK,           \* C_IDX_MASK: the largest index, which means "none"
    MAX_GENERATIONS,    \* C_MAX_GENERATIONS: keys are below it
    NoItem              \* NULL, and what memory nobody wrote holds

ASSUME CacheAssumption ==
    /\ IDX_MASK \in Nat \ {0}
    /\ MAX_GENERATIONS \in Nat \ {0}

MAX_CAPACITY == IDX_MASK - 1

Slots == 0 .. IDX_MASK
Keys == 0 .. (MAX_GENERATIONS - 1)
Handles == [key : Keys, idx : Slots]

\* C_NULL_CACHE_HANDLE: its index is no slot's.
NullHandle == [key |-> MAX_GENERATIONS, idx |-> IDX_MASK]

Entry(valid, key, link) == [valid |-> valid, key |-> key, link |-> link]

NewCache(capacity) ==
    [handles      |-> [i \in Slots |-> Entry(FALSE, MAX_GENERATIONS, IDX_MASK)],
     items        |-> [i \in Slots |-> NoItem],
     current_used |-> 0,
     max_used     |-> 0,
     capacity     |-> capacity,
     free_head    |-> IDX_MASK]

FreeListEmpty(c) == c.free_head = IDX_MASK

\* _check_resize: the cache doubles when every slot is in use.
Resize(c) ==
    IF c.current_used = c.capacity THEN [c EXCEPT !.capacity = 2 * @] ELSE c

-----------------------------------------------------------------------------
(* _next_handle: the first slot of the free list, or else a new one.        *)

NoSlotLeft(c) == FreeListEmpty(c) /\ c.max_used = c.capacity

NextSlot(c) == IF FreeListEmpty(c) THEN c.max_used ELSE c.free_head

\* Mutants: a reused slot keeps its generation, or the key does not roll over.
SameKey(key) == key
KeyWithoutRollover(key) == key + 1

\* The key of a reused slot, which rolls over.
KeyAfter(key) == IF key + 1 = MAX_GENERATIONS THEN 0 ELSE key + 1

NextKey(c) ==
    IF FreeListEmpty(c) THEN 0 ELSE KeyAfter(c.handles[c.free_head].key)

NextHandle(c) ==
    IF NoSlotLeft(c)
      THEN NullHandle
      ELSE [key |-> NextKey(c), idx |-> NextSlot(c)]

\* Mutant: the free list is left where it was.
FreeHeadKept(c) == c.free_head

FreeHeadAfterTake(c) ==
    IF FreeListEmpty(c) THEN c.free_head ELSE c.handles[c.free_head].link

Take(c) ==
    IF NoSlotLeft(c) THEN c ELSE
      [c EXCEPT
         !.handles[NextSlot(c)] = Entry(TRUE, NextKey(c), NextSlot(c)),
         !.free_head = FreeHeadAfterTake(c),
         !.max_used = IF FreeListEmpty(c) THEN @ + 1 ELSE @]

-----------------------------------------------------------------------------

\* cache_add and cache_emplace give the new item its slot: one copies it there,
\* the other constructs it there (or leaves what the slot held, without an
\* alloc_func).
AddedHandle(c) == NextHandle(Resize(c))

Add(c, item) ==
    LET r == Resize(c) IN
    IF NoSlotLeft(r) THEN r ELSE
      [Take(r) EXCEPT !.items[NextSlot(r)] = item,
                      !.current_used = @ + 1]

\* What cache_emplace leaves in the slot when there is no alloc_func.
Remains(c) == LET r == Resize(c) IN
    IF NoSlotLeft(r) THEN NoItem ELSE r.items[NextSlot(r)]

\* Mutant: the generation is not compared.
CheckSlotOnly(c, h) == h.idx < c.max_used /\ c.handles[h.idx].valid

\* _check_handle.
CheckHandle(c, h) ==
    /\ h.idx < c.max_used
    /\ c.handles[h.idx].valid
    /\ c.handles[h.idx].key = h.key

\* Mutant: the removed slot starts a list of its own.
LinkDropped(c) == IDX_MASK

\* A removed slot points at what the free list began with.
LinkAfterRemove(c) == IF FreeListEmpty(c) THEN IDX_MASK ELSE c.free_head

Remove(c, h) ==
    IF ~CheckHandle(c, h) THEN c ELSE
      [c EXCEPT
         !.handles[h.idx] = Entry(FALSE, @.key, LinkAfterRemove(c)),
         !.free_head = h.idx,
         !.current_used = @ - 1]

Get(c, h) == IF CheckHandle(c, h) THEN c.items[h.idx] ELSE NoItem

\* The slots the iterator of the cache stops at, and cache_it_next.
ValidSlots(c) == {i \in Slots : i < c.max_used /\ c.handles[i].valid}

\* Mutant: an iterator that was at i skips the slot after it.
IteratorSkips(c, i) ==
    LET later == {j \in ValidSlots(c) : j > i + 1} IN
    IF later = {} THEN c.max_used
    ELSE CHOOSE j \in later : \A k \in later : j <= k

IteratorNext(c, i) ==
    LET later == {j \in ValidSlots(c) : j > i} IN
    IF later = {} THEN c.max_used
    ELSE CHOOSE j \in later : \A k \in later : j <= k

=============================================================================
