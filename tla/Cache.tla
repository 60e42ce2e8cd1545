------------------------------- MODULE Cache --------------------------------
(***************************************************************************)
(* core/cache.c under any sequence of calls, stale and made-up handles     *)
(* included, with an iteration that other calls may interleave with.       *)
(***************************************************************************)
EXTENDS CacheOps, FiniteSets, Sequences

CONSTANTS
    Items,              \* what clients store
    InitialCapacity,    \* the capacity cache_init is given
    CapacityBound,      \* bound: no call that would grow the cache past it
    AllocBound          \* bound: how many handles are handed out

ASSUME CacheBounds ==
    /\ InitialCapacity \in 1 .. CapacityBound
    /\ CapacityBound \in 1 .. IDX_MASK + 1
    /\ AllocBound \in Nat
    /\ NoItem \notin Items

VARIABLES
    cache,      \* struct Cache
    freed,      \* cache_uninit was called
    current_idx,   \* CacheIt: where the iteration is, -1 when there is none
    given,      \* history: per slot, the keys it was handed out with
    destroyed,  \* history: per slot, how often free_func ran on it
    unvisited   \* history: slots in use since cache_begin and not yet visited

vars == <<cache, freed, current_idx, given, destroyed, unvisited>>

Init ==
    /\ cache = NewCache(InitialCapacity)
    /\ freed = FALSE
    /\ current_idx = -1
    /\ given = [i \in Slots |-> <<>>]
    /\ destroyed = [i \in Slots |-> 0]
    /\ unvisited = {}

Live == ValidSlots(cache)

Allocations == {a \in Slots \X (1 .. AllocBound) : a[2] <= Len(given[a[1]])}

\* The bounds of the model, not of the code.
WithinBounds ==
    /\ Resize(cache).capacity <= CapacityBound
    /\ Cardinality(Allocations) < AllocBound

Stored(item) ==
    /\ ~freed
    /\ WithinBounds
    /\ cache' = Add(cache, item)
    /\ LET h == AddedHandle(cache) IN
       given' = IF h = NullHandle THEN given
                ELSE [given EXCEPT ![h.idx] = Append(@, h.key)]
    /\ UNCHANGED <<freed, current_idx, destroyed, unvisited>>

CacheAdd == \E item \in Items : Stored(item)

CacheEmplace == \E item \in Items \cup {Remains(cache)} : Stored(item)

\* cache_remove runs free_func on the item before it frees the slot.
CacheRemove(h) ==
    /\ ~freed
    /\ cache' = Remove(cache, h)
    /\ destroyed' = IF CheckHandle(cache, h)
                      THEN [destroyed EXCEPT ![h.idx] = @ + 1]
                      ELSE destroyed
    /\ unvisited' = unvisited \ (Live \ ValidSlots(cache'))
    /\ UNCHANGED <<freed, current_idx, given>>

\* Mutant: every opened slot is taken to hold an item.
OpenedSlots == {i \in Slots : i < cache.max_used}

\* The slots cache_uninit runs free_func on.
SlotsToFree == Live

CacheUninit ==
    /\ ~freed
    /\ freed' = TRUE
    /\ destroyed' = [i \in Slots |->
                       IF i \in SlotsToFree THEN destroyed[i] + 1 ELSE destroyed[i]]
    /\ current_idx' = -1
    /\ unvisited' = {}
    /\ UNCHANGED <<cache, given>>

\* cache_begin, and cache_it_next until it equals cache_end.
CacheBegin ==
    /\ ~freed
    /\ current_idx = -1
    /\ current_idx' = IteratorNext(cache, -1)
    /\ unvisited' = Live \ {current_idx'}
    /\ UNCHANGED <<cache, freed, given, destroyed>>

AtEnd == current_idx >= cache.max_used

CacheItNext ==
    /\ ~freed
    /\ current_idx # -1
    /\ ~AtEnd
    /\ current_idx' = IteratorNext(cache, current_idx)
    /\ unvisited' = unvisited \ {current_idx'}
    /\ UNCHANGED <<cache, freed, given, destroyed>>

\* The loop over the cache ends.
CacheEnd ==
    /\ current_idx # -1
    /\ AtEnd
    /\ current_idx' = -1
    /\ UNCHANGED <<cache, freed, given, destroyed, unvisited>>

\* What clients pass: handles of slots in use, stale, never opened, and null.
ClientHandles ==
    {h \in Handles : h.idx <= CapacityBound} \cup {NullHandle}

Next ==
    \/ CacheAdd
    \/ CacheEmplace
    \/ \E h \in ClientHandles : CacheRemove(h)
    \/ CacheUninit
    \/ CacheBegin
    \/ CacheItNext
    \/ CacheEnd

Spec == Init /\ [][Next]_vars

-----------------------------------------------------------------------------

TypeOK ==
    /\ cache \in
         [handles : [Slots -> [valid : BOOLEAN, key : Keys \cup {MAX_GENERATIONS}, link : Slots]],
          items : [Slots -> Items \cup {NoItem}],
          current_used : 0 .. IDX_MASK + 1,
          max_used : 0 .. IDX_MASK + 1,
          capacity : 1 .. CapacityBound,
          free_head : Slots]
    /\ freed \in BOOLEAN
    /\ current_idx \in -1 .. IDX_MASK + 1
    /\ given \in [Slots -> Seq(Keys)]
    /\ destroyed \in [Slots -> Nat]
    /\ unvisited \subseteq Slots

\* The opened slots that hold no item.
FreeSlots == OpenedSlots \ Live

\* The free list meets exactly the slots of s, in their order.
FreeListIs(s) ==
    /\ {s[k] : k \in DOMAIN s} = FreeSlots
    /\ cache.free_head = IF FreeSlots = {} THEN IDX_MASK ELSE s[1]
    /\ \A k \in DOMAIN s :
         cache.handles[s[k]].link = IF k + 1 \in DOMAIN s THEN s[k + 1] ELSE IDX_MASK

\* No slot leaks and none is listed twice: the free list meets exactly the opened
\* slots that hold no item, once each, and the counts agree with it; and the next
\* cache_add gets a slot.  Both only as long as the slot IDX_MASK is not opened, whose
\* index means "none": cache_new asserts C_MAX_CAPACITY, and growth does not.
SlotsAccounted ==
    /\ TypeOK
    /\ cache.max_used <= IDX_MASK
         => \E s \in [1 .. Cardinality(FreeSlots) -> FreeSlots] : FreeListIs(s)
    /\ cache.current_used = Cardinality(Live)
    /\ cache.max_used <= cache.capacity
    /\ ~freed /\ Resize(cache).capacity <= MAX_CAPACITY
         => AddedHandle(cache) # NullHandle

\* A handle a client was once given is answered only while its item is stored,
\* until its slot has been reused MAX_GENERATIONS times and its key comes back.
StaleHandlesRefused ==
    \A i \in Slots : \A n \in DOMAIN given[i] :
      CheckHandle(cache, [key |-> given[i][n], idx |-> i]) =>
        (Len(given[i]) - n) % MAX_GENERATIONS = 0

\* free_func runs once for each item that was stored: when it is removed, or at
\* the end.
DestroyedOnce ==
    \A i \in Slots :
      destroyed[i] = Len(given[i]) - (IF i \in Live /\ ~freed THEN 1 ELSE 0)

\* An iteration meets every slot that was in use throughout it, whatever is
\* added, removed and reused in the meantime.
IterationComplete ==
    (current_idx # -1 /\ AtEnd) => unvisited = {}

LiveHandles == {[key |-> cache.handles[i].key, idx |-> i] : i \in Live}

AbstractCache == INSTANCE AbstractSlotMap WITH
    Items <- Items \cup {NoItem},
    live <- [h \in IF freed THEN {} ELSE LiveHandles |-> Get(cache, h)]

\* Clients see a map: a new handle is never one in use, and the items of the
\* others stay what they were when the cache grows, reuses a slot, or takes one
\* item out.
ImplementsSlotMap == AbstractCache!Spec

=============================================================================
