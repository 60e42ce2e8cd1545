------------------------------ MODULE CacheMap ------------------------------
(***************************************************************************)
(* core/cache_map.c: a hash table whose entries refer to the items of a    *)
(* cache.  The table is an array of buckets of a fixed capacity; it        *)
(* doubles when there are too many items for its buckets, or when the      *)
(* bucket of a new key is full.  The cache is what Cache implements: a map *)
(* from handles to items (AbstractSlotMap).                                *)
(*                                                                         *)
(* An entry nobody uses has the key -1, which is also a possible hash.     *)
(***************************************************************************)
EXTENDS Integers, FiniteSetsExt

CONSTANTS
    HashedKeys,         \* the hashes of the keys that clients use
    Items,              \* what clients store
    Handles,            \* handles of the cache
    NullHandle,         \* C_NULL_CACHE_HANDLE
    BucketCount,        \* C_DEFAULT_BUCKET_COUNT
    BucketCapacity,     \* C_DEFAULT_BUCKET_CAPACITY
    BucketBound         \* bound: nothing is added that might grow the table past it

NoKey == -1

ASSUME CacheMapAssumption ==
    /\ HashedKeys \subseteq Int
    /\ NullHandle \notin Handles
    /\ BucketCount \in {2 ^ n : n \in 0 .. 30}
    /\ {BucketCount, BucketCapacity} \subseteq Nat \ {0}

VARIABLES
    bucket_count,   \* CacheMap.bucket_count
    bucket_items,   \* CacheMap.bucket_items
    cache,          \* CacheMap.cache: the item of each handle in use
    status,         \* "in use", "freed", or "crashed" on a NULL entry
    wanted,         \* the key whose entry was NULL when the map crashed
    key_of,         \* history: the key each item in the cache was stored under
    content         \* history: the map that the calls so far should have made

vars == <<bucket_count, bucket_items, cache, status, wanted, key_of, content>>

\* What clients are promised.
Map == INSTANCE AbstractMap WITH Keys <- HashedKeys

\* The part of the map that changes when it grows.
Table(count, items) == [count |-> count, items |-> items]
table == Table(bucket_count, bucket_items)

-----------------------------------------------------------------------------
(* Entries.  There is none at NoEntry, which stands for NULL.                *)

NoEntry == -1

First(S) == IF S = {} THEN NoEntry ELSE Min(S)

Unused == [key |-> NoKey, handle |-> NullHandle]

\* _init_cache.
UnusedItems(count) == [i \in 0 .. (count * BucketCapacity - 1) |-> Unused]

\* hashed_key & (bucket_count - 1), bucket_count being a power of two.
BucketIndex(k, count) == k % count

Bucket(k, count) ==
    {BucketIndex(k, count) * BucketCapacity + j : j \in 0 .. (BucketCapacity - 1)}

\* _get_bucket_item.
BucketItem(t, k) == First({i \in Bucket(k, t.count) : t.items[i].key = k})

FreeItem(t, k) == First({i \in Bucket(k, t.count) : t.items[i].handle = NullHandle})

\* Mutant: the free entry is looked for first.
FreeItemFirst(t, k) ==
    IF FreeItem(t, k) # NoEntry THEN FreeItem(t, k) ELSE BucketItem(t, k)

\* _get_next_bucket_item: the entry of the key if it has one, else a free one.
NextBucketItem(t, k) ==
    IF BucketItem(t, k) # NoEntry THEN BucketItem(t, k) ELSE FreeItem(t, k)

-----------------------------------------------------------------------------
(* Growing.                                                                  *)

\* Mutant: the entries are moved from the last to the first.
FromLast(n, count) == count * BucketCapacity - n

\* The n-th entry that _resize moves.
NthMoved(n, count) == n - 1

\* *new_item = *old_item, which crashes if there is no room.
Crash == <<>>

MovedTo(items, count, entry) ==
    LET i == NextBucketItem(Table(count, items), entry.key) IN
    IF items = Crash \/ i = NoEntry THEN Crash ELSE [items EXCEPT ![i] = entry]

\* map->bucket_count = new_bucket_count.
NewCount(count) == 2 * count

\* _resize moves every entry, those that nobody uses included.
Resized(t) ==
    LET moves == t.count * BucketCapacity
        After[n \in 0 .. moves] ==
          IF n = 0 THEN UnusedItems(2 * t.count)
          ELSE MovedTo(After[n - 1], 2 * t.count, t.items[NthMoved(n, t.count)])
    IN  Table(NewCount(t.count), After[moves])

\* _need_resize: a load factor above 0.75.
NeedResize(t) == 4 * Cardinality(DOMAIN cache) > 3 * t.count

WithRoom(t) == IF NeedResize(t) THEN Resized(t) ELSE t

-----------------------------------------------------------------------------

Init ==
    /\ bucket_count = BucketCount
    /\ bucket_items = UnusedItems(BucketCount)
    /\ cache = <<>>
    /\ status = "in use"
    /\ wanted = NoKey
    /\ key_of = <<>>
    /\ Map!Init

\* The bounds of the model: on the table, and that there is a handle left.
WithinBounds == bucket_count < BucketBound /\ Handles # DOMAIN cache

\* The cache gives a handle that is not in use; which one does not matter.
NewHandle(c) == CHOOSE h \in Handles : h \notin DOMAIN c

\* Mutant: the item that is replaced stays in the cache.
ReplacedKept(c, h) == c

\* cache_remove, which refuses the null handle.
Without(c, h) == Restrict(c, DOMAIN c \ {h})

Crashed(k) ==
    /\ status' = "crashed"
    /\ wanted' = k
    /\ UNCHANGED <<bucket_count, bucket_items, cache, key_of, content>>

\* The item goes to entry i of table t, and what the entry had before goes.
StoreAt(t, i, k, item) ==
    LET rest == Without(cache, t.items[i].handle)
        h == NewHandle(rest)
    IN  /\ bucket_count' = t.count
        /\ bucket_items' = [t.items EXCEPT ![i] = [key |-> k, handle |-> h]]
        /\ cache' = Map!With(rest, h, item)
        /\ key_of' = Map!With(Restrict(key_of, DOMAIN rest), h, k)
        /\ Map!Put(k, item)
        /\ UNCHANGED <<status, wanted>>

\* A full bucket makes the table grow once; if it is full again, or growing found
\* no room, an entry that is NULL is used.
Store(t, k, item) ==
    LET full == t.items # Crash /\ NextBucketItem(t, k) = NoEntry
        grown == IF full THEN Resized(t) ELSE t
    IN  IF grown.items = Crash \/ NextBucketItem(grown, k) = NoEntry
          THEN Crashed(k)
          ELSE StoreAt(grown, NextBucketItem(grown, k), k, item)

\* cache_map_add.
Add(k, item) ==
    /\ status = "in use"
    /\ WithinBounds
    /\ Store(WithRoom(table), k, item)

\* cache_map_emplace_hashed, which has the cache construct the item.
EmplaceHashed(k, item) == Add(k, item)

\* cache_map_emplace tests the load factor too before it calls it.
Emplace(k, item) ==
    /\ status = "in use"
    /\ WithinBounds
    /\ LET t == WithRoom(table) IN
       IF t.items = Crash THEN Crashed(k) ELSE Store(WithRoom(t), k, item)

\* cache_map_remove.
Remove(k) ==
    /\ status = "in use"
    /\ LET i == BucketItem(table, k) IN
       IF i = NoEntry THEN UNCHANGED <<bucket_items, cache, key_of>>
       ELSE /\ cache' = Without(cache, bucket_items[i].handle)
            /\ key_of' = Restrict(key_of, DOMAIN cache')
            /\ bucket_items' = [bucket_items EXCEPT ![i] = Unused]
    /\ Map!Delete(k)
    /\ UNCHANGED <<bucket_count, status, wanted>>

\* The handles in the table.
Referred == {bucket_items[i].handle : i \in DOMAIN bucket_items} \ {NullHandle}

\* cache_map_clear removes the items the table refers to.
Clear ==
    /\ status = "in use"
    /\ cache' = Restrict(cache, DOMAIN cache \ Referred)
    /\ key_of' = Restrict(key_of, DOMAIN cache')
    /\ bucket_items' = UnusedItems(bucket_count)
    /\ Map!Clear
    /\ UNCHANGED <<bucket_count, status, wanted>>

\* cache_map_uninit.
Uninit ==
    /\ status = "in use"
    /\ status' = "freed"
    /\ bucket_count' = 0
    /\ bucket_items' = <<>>
    /\ cache' = <<>>
    /\ key_of' = <<>>
    /\ Map!Clear
    /\ UNCHANGED wanted

Next ==
    \/ \E k \in HashedKeys, item \in Items :
         Add(k, item) \/ EmplaceHashed(k, item) \/ Emplace(k, item)
    \/ \E k \in HashedKeys : Remove(k)
    \/ Clear
    \/ Uninit

Spec == Init /\ [][Next]_vars

-----------------------------------------------------------------------------
(* Properties.  An item under the hash -1 can be overwritten or doubled, as  *)
(* its entry looks unused: they are about the other keys beside it.          *)

RealKeys == HashedKeys \ {NoKey}

Entries == [key : HashedKeys \cup {NoKey}, handle : Handles \cup {NullHandle}]

\* Types, and that the table has the entries that its number of buckets says.
TypeOK ==
    /\ bucket_count \in Nat
    /\ bucket_items \in [0 .. (bucket_count * BucketCapacity - 1) -> Entries]
    /\ cache \in [DOMAIN cache -> Items] /\ DOMAIN cache \subseteq Handles
    /\ status \in {"in use", "freed", "crashed"}
    /\ wanted \in HashedKeys \cup {NoKey}
    /\ key_of \in [DOMAIN cache -> HashedKeys]

\* Every item in the cache that was stored under a key other than -1 is the only one
\* of its key, and is found through exactly one entry, the one of its key in the bucket
\* of its key; and no entry outlives its item.  So growing, replacing, removing and
\* clearing (lines 84-103 and 221-312) lose no entry, repeat none and leak no item,
\* whatever is done under the key -1, which unused entries have as well.
NothingLost ==
    /\ TypeOK
    /\ \A h \in DOMAIN cache : key_of[h] \in RealKeys =>
          /\ \E i \in Bucket(key_of[h], bucket_count) :
               bucket_items[i] = [key |-> key_of[h], handle |-> h]
          /\ Cardinality({i \in DOMAIN bucket_items : bucket_items[i].handle = h}) = 1
          /\ \A other \in DOMAIN cache \ {h} : key_of[other] # key_of[h]
    /\ Referred \subseteq DOMAIN cache

\* The keys in use that share the bucket of k when there are count buckets.
Rivals(k, count) ==
    {bucket_items[i].key : i \in {j \in DOMAIN bucket_items :
        /\ bucket_items[j].handle # NullHandle
        /\ BucketIndex(bucket_items[j].key, count) = BucketIndex(k, count)}}

\* An entry that is NULL is written through only when a new key meets a full bucket of keys
\* that doubling the table does not tell from it (lines 231-244).  Moving the entries to the
\* new table (lines 93-98), which does not test for NULL, never does it.
CrashesKnown ==
    status = "crashed" =>
      /\ wanted \notin Rivals(wanted, bucket_count)
      /\ Cardinality(Rivals(wanted, 2 * bucket_count)) >= BucketCapacity

\* What cache_map_get_hashed answers: one item, or none.
Answer(k) ==
    LET handle == bucket_items[BucketItem(table, k)].handle IN
    IF BucketItem(table, k) = NoEntry THEN {}
    ELSE {cache[h] : h \in {handle} \cap DOMAIN cache}

\* For the keys other than -1 clients see the map that their calls should have made: adding puts
\* or replaces one key, removing takes one away, and growing and the key -1 change nothing
\* (lines 84-103, 153-165 and 221-312).
AnswersMap ==
    status = "in use" =>
      \A k \in RealKeys :
        Answer(k) = {content[l] : l \in {k} \cap DOMAIN content}

=============================================================================
