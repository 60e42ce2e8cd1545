----------------------------- MODULE CacheProofs ------------------------------
(***************************************************************************)
(* What handles of a cache mean, for any width of the index and any number *)
(* of generations, and that its free list leaks no slot.                   *)
(***************************************************************************)
EXTENDS Cache, FiniteSetTheorems, WellFoundedInduction, TLAPS

Opened(c) == {i \in Slots : i < c.max_used}

\* The opened slots that hold no item.
Dead(c) == Opened(c) \ ValidSlots(c)

CacheType(c) ==
    c \in [handles : [Slots -> [valid : BOOLEAN, key : Keys \cup {MAX_GENERATIONS}, link : Slots]],
           items : [Slots -> Items \cup {NoItem}],
           current_used : 0 .. IDX_MASK + 1,
           max_used : 0 .. IDX_MASK + 1,
           capacity : 1 .. CapacityBound,
           free_head : Slots]

\* The free list leads from dead slots to dead slots, to each from one place only.
FreeLinks(c) ==
    /\ c.free_head # IDX_MASK => c.free_head \in Dead(c)
    /\ \A i \in Dead(c) :
         c.handles[i].link # IDX_MASK =>
           /\ c.handles[i].link \in Dead(c)
           /\ c.handles[i].link # c.free_head
           /\ \A k \in Dead(c) : c.handles[k].link = c.handles[i].link => k = i

\* The free list meets the slots of s, in their order.
Lists(c, s) ==
    /\ c.free_head = IF Dead(c) = {} THEN IDX_MASK ELSE s[1]
    /\ \A k \in DOMAIN s :
         c.handles[s[k]].link = IF k + 1 \in DOMAIN s THEN s[k + 1] ELSE IDX_MASK

\* It meets every dead slot, and none twice.
Chain(c) ==
    c.max_used <= IDX_MASK =>
      \E s \in [1 .. Cardinality(Dead(c)) -> Dead(c)] :
        /\ \A i \in Dead(c) : \E k \in DOMAIN s : s[k] = i
        /\ \A j, k \in DOMAIN s : s[j] = s[k] => j = k
        /\ Lists(c, s)

Counts(c) ==
    /\ c.current_used = Cardinality(ValidSlots(c))
    /\ c.current_used <= c.capacity
    /\ c.max_used <= c.capacity

CacheInv(c) ==
    /\ CacheType(c)
    /\ FreeLinks(c)
    /\ Counts(c)
    /\ \A i \in Opened(c) : c.handles[i].key \in Keys

\* The key of a slot that was handed out x times more since it had the key g.
Rolled(g, x) ==
    IF g + (x % MAX_GENERATIONS) < MAX_GENERATIONS
      THEN g + (x % MAX_GENERATIONS)
      ELSE g + (x % MAX_GENERATIONS) - MAX_GENERATIONS

Generations ==
    \A i \in Slots :
      /\ i \notin Opened(cache) => given[i] = <<>>
      /\ \A n \in 1 .. Len(given[i]) :
           cache.handles[i].key = Rolled(given[i][n], Len(given[i]) - n)

\* An iteration has still to visit slots before it only.
Owed ==
    /\ \A i \in unvisited : i \in Live /\ i > current_idx
    /\ current_idx = -1 => unvisited = {}

HistoryTypes ==
    /\ freed \in BOOLEAN
    /\ current_idx \in -1 .. IDX_MASK + 1
    /\ given \in [Slots -> Seq(Keys)]
    /\ destroyed \in [Slots -> Nat]

CInv ==
    /\ CacheInv(cache)
    /\ HistoryTypes
    /\ Generations
    /\ DestroyedOnce
    /\ Owed

-----------------------------------------------------------------------------
(* Remainders.                                                               *)

LEMMA DivUnique ==
    ASSUME NEW n \in Nat \ {0}, NEW q \in Int, NEW p \in Int,
           NEW r \in 0 .. n - 1, NEW s \in 0 .. n - 1, n * q + r = n * p + s
    PROVE  r = s
<1>1. ASSUME NEW a \in Int, NEW b \in Int, a + 1 <= b
      PROVE  n * a + n <= n * b
  <2>1. n * (b - a - 1) >= 0
    BY <1>1
  <2>2. n * (b - a - 1) = n * b - n * a - n
    OBVIOUS
  <2> QED BY <2>1, <2>2
<1>2. n * q \in Int /\ n * p \in Int
  OBVIOUS
<1>3. ~(q + 1 <= p) /\ ~(p + 1 <= q)
  BY <1>1, <1>2
<1> QED BY <1>2, <1>3

LEMMA ModSucc ==
    ASSUME NEW x \in Nat, NEW n \in Nat \ {0}
    PROVE  /\ x % n \in 0 .. n - 1
           /\ (x + 1) % n = IF (x % n) + 1 = n THEN 0 ELSE (x % n) + 1
<1>. DEFINE q == x \div n
            r == x % n
            p == (x + 1) \div n
            s == (x + 1) % n
<1>1. q \in Int /\ p \in Int /\ r \in 0 .. n - 1 /\ s \in 0 .. n - 1
  OBVIOUS
<1>2. x = n * q + r /\ x + 1 = n * p + s
  OBVIOUS
<1>. HIDE DEF q, r, p, s
<1>3. CASE r + 1 = n
  <2>1. n * (q + 1) + 0 = n * p + s
    <3>1. n * (q + 1) = n * q + n
      BY <1>1
    <3> QED BY <1>1, <1>2, <1>3, <3>1
  <2>2. s = 0
    BY <1>1, <2>1, DivUnique
  <2> QED BY <1>1, <1>3, <2>2 DEF r, s
<1>4. CASE r + 1 # n
  <2>1. n * q + (r + 1) = n * p + s /\ r + 1 \in 0 .. n - 1
    BY <1>1, <1>2, <1>4
  <2>2. s = r + 1
    BY <1>1, <2>1, DivUnique
  <2> QED BY <1>1, <1>4, <2>2 DEF r, s
<1> QED BY <1>3, <1>4

-----------------------------------------------------------------------------
(* The operations on a cache.                                                *)

LEMMA ResizeKeeps ==
    ASSUME NEW c, CacheInv(c), Resize(c).capacity <= CapacityBound
    PROVE  LET r == Resize(c) IN
           /\ CacheInv(r) /\ r.current_used < r.capacity
           /\ r.handles = c.handles /\ r.items = c.items /\ r.max_used = c.max_used
           /\ r.free_head = c.free_head /\ r.current_used = c.current_used
<1>. DEFINE r == Resize(c)
<1>1. /\ r.handles = c.handles /\ r.items = c.items /\ r.max_used = c.max_used
      /\ r.free_head = c.free_head /\ r.current_used = c.current_used
      /\ r.capacity = IF c.current_used = c.capacity THEN 2 * c.capacity ELSE c.capacity
  BY DEF Resize, CacheInv, CacheType
<1>2. CacheType(r)
  BY <1>1, CacheBounds DEF Resize, CacheInv, CacheType
<1>3. c.capacity \in Nat \ {0} /\ c.current_used \in Nat /\ c.max_used \in Nat
  BY CacheBounds, CacheAssumption DEF CacheInv, CacheType
<1>. HIDE DEF r
<1>4. ValidSlots(r) = ValidSlots(c) /\ Opened(r) = Opened(c) /\ Dead(r) = Dead(c)
  BY <1>1 DEF ValidSlots, Opened, Dead
<1>5. FreeLinks(r)
  BY <1>1, <1>4 DEF FreeLinks, CacheInv
<1>6. Counts(r) /\ r.current_used < r.capacity
  BY <1>1, <1>3, <1>4 DEF Counts, CacheInv
<1>7. CacheInv(r)
  BY <1>1, <1>2, <1>4, <1>5, <1>6 DEF CacheInv
<1> QED BY <1>1, <1>6, <1>7 DEF r

\* The slot that a new item gets, of a cache that has room.
LEMMA NextSlotFree ==
    ASSUME NEW c, CacheInv(c), ~NoSlotLeft(c)
    PROVE  /\ NextSlot(c) \in Slots /\ NextSlot(c) \notin ValidSlots(c)
           /\ NextKey(c) \in Keys
           /\ FreeListEmpty(c) => NextSlot(c) = c.max_used /\ NextSlot(c) < c.capacity
           /\ ~FreeListEmpty(c) => NextSlot(c) = c.free_head /\ c.free_head \in Dead(c)
<1>1. c.max_used \in Nat /\ c.capacity \in 1 .. IDX_MASK + 1 /\ c.max_used <= c.capacity
  BY CacheBounds, CacheAssumption DEF CacheInv, CacheType, Counts
<1>2. CASE FreeListEmpty(c)
  BY <1>1, <1>2, CacheAssumption DEF NextSlot, NextKey, NoSlotLeft, Slots, Keys, ValidSlots
<1>3. CASE ~FreeListEmpty(c)
  <2>1. c.free_head \in Dead(c) /\ c.free_head \in Opened(c) /\ c.handles[c.free_head].key \in Keys
    BY <1>3 DEF FreeListEmpty, CacheInv, FreeLinks, Dead
  <2>2. KeyAfter(c.handles[c.free_head].key) \in Keys
    BY <2>1, CacheAssumption DEF KeyAfter, Keys
  <2> QED BY <1>3, <2>1, <2>2 DEF NextSlot, NextKey, Dead, Opened
<1> QED BY <1>2, <1>3

LEMMA FiniteValid ==
    ASSUME NEW c
    PROVE  IsFiniteSet(ValidSlots(c))
<1>1. 0 \in Int /\ IDX_MASK \in Int
  BY CacheAssumption
<1>2. IsFiniteSet(Slots)
  BY <1>1, FS_Interval DEF Slots
<1> QED BY <1>2, FS_Subset DEF ValidSlots

\* What an item's arrival changes.
LEMMA AddChanges ==
    ASSUME NEW c, CacheInv(c), Resize(c).capacity <= CapacityBound, ~NoSlotLeft(Resize(c)),
           NEW item \in Items \cup {NoItem}
    PROVE  LET r == Resize(c)
               a == Add(c, item)
               i == NextSlot(r)
           IN  /\ a.handles = [c.handles EXCEPT ![i] = Entry(TRUE, NextKey(r), i)]
               /\ a.items = [c.items EXCEPT ![i] = item]
               /\ a.current_used = c.current_used + 1
               /\ a.max_used = IF FreeListEmpty(c) THEN c.max_used + 1 ELSE c.max_used
               /\ a.capacity = r.capacity
               /\ a.free_head = FreeHeadAfterTake(c)
               /\ CacheType(a)
<1>. DEFINE r == Resize(c)
            a == Add(c, item)
            i == NextSlot(r)
            k == NextKey(r)
<1>1. /\ CacheInv(r) /\ r.current_used < r.capacity
      /\ r.handles = c.handles /\ r.items = c.items /\ r.max_used = c.max_used
      /\ r.free_head = c.free_head /\ r.current_used = c.current_used
  BY ResizeKeeps
<1>2. ~NoSlotLeft(r) /\ a = [Take(r) EXCEPT !.items[i] = item, !.current_used = @ + 1]
  BY DEF Add
<1>3. Take(r) = [r EXCEPT !.handles[i] = Entry(TRUE, k, i),
                          !.free_head = FreeHeadAfterTake(r),
                          !.max_used = IF FreeListEmpty(r) THEN @ + 1 ELSE @]
  BY <1>2 DEF Take
<1>4. /\ i \in Slots /\ k \in Keys
      /\ FreeListEmpty(r) => i = r.max_used /\ i < r.capacity
      /\ ~FreeListEmpty(r) => i = r.free_head
  BY <1>1, <1>2, NextSlotFree
<1>5. FreeHeadAfterTake(r) = FreeHeadAfterTake(c) /\ (FreeListEmpty(r) <=> FreeListEmpty(c))
  BY <1>1 DEF FreeHeadAfterTake, FreeListEmpty
<1>. HIDE DEF r, a, i, k
<1>6. CacheType(r)
  BY <1>1 DEF CacheInv
<1>7. FreeHeadAfterTake(r) \in Slots
  BY <1>6, <1>4 DEF FreeHeadAfterTake, CacheType
<1>8. /\ a.handles = [r.handles EXCEPT ![i] = Entry(TRUE, k, i)]
      /\ a.items = [r.items EXCEPT ![i] = item]
      /\ a.current_used = r.current_used + 1
      /\ a.max_used = IF FreeListEmpty(r) THEN r.max_used + 1 ELSE r.max_used
      /\ a.capacity = r.capacity
      /\ a.free_head = FreeHeadAfterTake(r)
      /\ a = [handles |-> a.handles, items |-> a.items, current_used |-> a.current_used,
              max_used |-> a.max_used, capacity |-> a.capacity, free_head |-> a.free_head]
  BY <1>2, <1>3, <1>6 DEF CacheType
<1>9. /\ a.current_used \in 0 .. IDX_MASK + 1 /\ a.max_used \in 0 .. IDX_MASK + 1
      /\ a.capacity \in 1 .. CapacityBound
  BY <1>1, <1>4, <1>6, <1>8, CacheBounds, CacheAssumption DEF CacheType
<1>10. /\ a.handles \in [Slots -> [valid : BOOLEAN, key : Keys \cup {MAX_GENERATIONS}, link : Slots]]
       /\ a.items \in [Slots -> Items \cup {NoItem}]
  BY <1>4, <1>6, <1>8 DEF CacheType, Entry
<1>11. CacheType(a)
  BY <1>7, <1>8, <1>9, <1>10 DEF CacheType
<1> QED BY <1>1, <1>5, <1>8, <1>11 DEF r, a, i, k

\* The new item's slot becomes valid, and the slot after it begins the free list.
LEMMA AddKeeps ==
    ASSUME NEW c, CacheInv(c), Resize(c).capacity <= CapacityBound, ~NoSlotLeft(Resize(c)),
           NEW item \in Items \cup {NoItem}
    PROVE  LET r == Resize(c)
               a == Add(c, item)
               i == NextSlot(r)
           IN  /\ CacheInv(a)
               /\ ValidSlots(a) = ValidSlots(c) \cup {i} /\ i \notin ValidSlots(c)
               /\ Opened(a) = Opened(c) \cup {i} /\ i \in Slots
               /\ FreeListEmpty(c) => i \notin Opened(c) /\ NextKey(r) = 0
               /\ ~FreeListEmpty(c) => i \in Opened(c) /\ NextKey(r) = KeyAfter(c.handles[i].key)
               /\ NextKey(r) \in Keys
<1>. DEFINE r == Resize(c)
            a == Add(c, item)
            i == NextSlot(r)
            k == NextKey(r)
<1>1. /\ a.handles = [c.handles EXCEPT ![i] = Entry(TRUE, k, i)]
      /\ a.current_used = c.current_used + 1
      /\ a.max_used = IF FreeListEmpty(c) THEN c.max_used + 1 ELSE c.max_used
      /\ a.capacity = r.capacity
      /\ a.free_head = FreeHeadAfterTake(c)
      /\ CacheType(a)
  BY AddChanges
<1>2. /\ CacheInv(r) /\ r.current_used < r.capacity
      /\ r.handles = c.handles /\ r.max_used = c.max_used
      /\ r.free_head = c.free_head /\ r.current_used = c.current_used
  BY ResizeKeeps
<1>3. /\ i \in Slots /\ k \in Keys
      /\ FreeListEmpty(c) => i = c.max_used /\ i < r.capacity /\ k = 0
      /\ ~FreeListEmpty(c) => i = c.free_head /\ k = KeyAfter(c.handles[i].key)
  BY <1>2, NextSlotFree DEF FreeListEmpty, NextKey
<1>. HIDE DEF r, a, i, k
<1>4. /\ \A j \in Slots : a.handles[j] = IF j = i THEN Entry(TRUE, k, i) ELSE c.handles[j]
      /\ c.max_used \in 0 .. IDX_MASK + 1 /\ c.free_head \in Slots
      /\ c.current_used \in Nat
  <2>1. CacheType(c)
    BY DEF CacheInv
  <2>2. /\ c.handles \in [Slots -> [valid : BOOLEAN, key : Keys \cup {MAX_GENERATIONS}, link : Slots]]
        /\ c.max_used \in 0 .. IDX_MASK + 1 /\ c.free_head \in Slots
        /\ c.current_used \in 0 .. IDX_MASK + 1
    BY <2>1 DEF CacheType
  <2>3. \A j \in Slots : a.handles[j] = IF j = i THEN Entry(TRUE, k, i) ELSE c.handles[j]
    BY <1>1, <1>3, <2>2
  <2>4. c.current_used \in Nat
    BY <2>2, CacheAssumption
  <2> QED BY <2>2, <2>3, <2>4
<1>5. c.free_head # IDX_MASK => c.free_head \in Dead(c)
  BY DEF CacheInv, FreeLinks
<1>6. /\ Opened(a) = Opened(c) \cup {i}
      /\ FreeListEmpty(c) => i \notin Opened(c)
      /\ ~FreeListEmpty(c) => i \in Dead(c)
  BY <1>1, <1>3, <1>4, <1>5, CacheAssumption DEF Opened, Dead, FreeListEmpty, Slots
<1>7. i \notin ValidSlots(c)
  BY <1>3, <1>4, <1>6 DEF ValidSlots, Dead, Opened
<1>8. ValidSlots(a) = ValidSlots(c) \cup {i}
  <2>1. \A j \in Slots : j \in Opened(a) <=> j \in Opened(c) \/ j = i
    BY <1>6
  <2> QED BY <1>3, <1>4, <2>1 DEF ValidSlots, Opened, Entry
<1>9. Dead(a) = Dead(c) \ {i} /\ i \notin Dead(a)
  BY <1>6, <1>7, <1>8 DEF Dead
<1>10. FreeLinks(a)
  <2>1. \A j \in Dead(a) : j \in Dead(c) /\ a.handles[j] = c.handles[j]
    BY <1>4, <1>9 DEF Dead, Opened
  <2>2. \A j \in Dead(c) : c.handles[j].link # IDX_MASK =>
           /\ c.handles[j].link \in Dead(c)
           /\ c.handles[j].link # c.free_head
           /\ \A m \in Dead(c) : c.handles[m].link = c.handles[j].link => m = j
    BY DEF CacheInv, FreeLinks
  <2>3. CASE FreeListEmpty(c)
    <3>1. a.free_head = IDX_MASK /\ Dead(a) = Dead(c)
      BY <1>1, <1>6, <1>9, <2>3 DEF FreeHeadAfterTake, FreeListEmpty, Dead
    <3> QED BY <2>1, <2>2, <3>1 DEF FreeLinks
  <2>4. CASE ~FreeListEmpty(c)
    <3>1. i = c.free_head /\ i \in Dead(c) /\ a.free_head = c.handles[i].link
      BY <1>1, <1>3, <1>6, <2>4 DEF FreeHeadAfterTake
    <3>2. a.free_head # IDX_MASK => a.free_head \in Dead(a)
      BY <1>9, <2>2, <3>1
    <3>3. \A j \in Dead(a) : a.handles[j].link # IDX_MASK =>
             /\ a.handles[j].link \in Dead(a)
             /\ a.handles[j].link # a.free_head
             /\ \A m \in Dead(a) : a.handles[m].link = a.handles[j].link => m = j
      BY <1>9, <2>1, <2>2, <3>1
    <3> QED BY <3>2, <3>3 DEF FreeLinks
  <2> QED BY <2>3, <2>4
<1>11. Counts(a)
  <2>1. IsFiniteSet(ValidSlots(c))
    BY FiniteValid
  <2>2. Cardinality(ValidSlots(a)) = Cardinality(ValidSlots(c)) + 1
    BY <1>7, <1>8, <2>1, FS_AddElement
  <2>3. r.capacity \in Nat
    BY <1>2, CacheBounds DEF CacheInv, CacheType
  <2> QED BY <1>1, <1>2, <1>3, <1>4, <2>2, <2>3 DEF Counts, CacheInv
<1>12. \A j \in Opened(a) : a.handles[j].key \in Keys
  BY <1>3, <1>4, <1>6 DEF CacheInv, Entry, Opened
<1>13. CacheInv(a)
  BY <1>1, <1>10, <1>11, <1>12 DEF CacheInv
<1> QED BY <1>3, <1>6, <1>7, <1>8, <1>13 DEF r, a, i, k, Dead

\* A removed slot becomes dead, keeps its key, and begins the free list.
LEMMA RemoveKeeps ==
    ASSUME NEW c, CacheInv(c), NEW h \in Handles \cup {NullHandle}, CheckHandle(c, h)
    PROVE  LET d == Remove(c, h) IN
           /\ CacheInv(d)
           /\ h.idx \in ValidSlots(c) /\ h \in Handles
           /\ ValidSlots(d) = ValidSlots(c) \ {h.idx}
           /\ Opened(d) = Opened(c) /\ d.items = c.items /\ d.max_used = c.max_used
           /\ \A j \in Slots : d.handles[j].key = c.handles[j].key
<1>. DEFINE d == Remove(c, h)
            i == h.idx
<1>1. i \in Slots
  BY CacheAssumption DEF Handles, NullHandle, Slots
<1>2. i < c.max_used /\ c.handles[i].valid /\ c.handles[i].key = h.key
  BY DEF CheckHandle
<1>3. i \in ValidSlots(c) /\ i \in Opened(c)
  BY <1>1, <1>2 DEF ValidSlots, Opened
<1>4. h \in Handles
  <2>1. h.key \in Keys
    BY <1>2, <1>3 DEF CacheInv
  <2> QED BY <2>1, CacheAssumption DEF NullHandle, Keys
<1>5. CacheType(c)
  BY DEF CacheInv
<1>6. LinkAfterRemove(c) = c.free_head
  BY DEF LinkAfterRemove, FreeListEmpty
<1>7. d = [c EXCEPT !.handles[i] = Entry(FALSE, @.key, c.free_head),
                    !.free_head = i, !.current_used = @ - 1]
  BY <1>6 DEF Remove
<1>. HIDE DEF d, i
<1>8. /\ d.handles = [c.handles EXCEPT ![i] = Entry(FALSE, c.handles[i].key, c.free_head)]
      /\ d.items = c.items /\ d.max_used = c.max_used /\ d.capacity = c.capacity
      /\ d.current_used = c.current_used - 1 /\ d.free_head = i
      /\ d = [handles |-> d.handles, items |-> d.items, current_used |-> d.current_used,
              max_used |-> d.max_used, capacity |-> d.capacity, free_head |-> d.free_head]
  BY <1>5, <1>7 DEF CacheType
<1>9. \A j \in Slots : d.handles[j] = IF j = i THEN Entry(FALSE, c.handles[i].key, c.free_head)
                                               ELSE c.handles[j]
  BY <1>1, <1>5, <1>8 DEF CacheType
<1>10. Opened(d) = Opened(c)
  BY <1>8 DEF Opened
<1>11. ValidSlots(d) = ValidSlots(c) \ {i}
  BY <1>1, <1>8, <1>9 DEF ValidSlots, Entry
<1>12. Dead(d) = Dead(c) \cup {i} /\ i \notin Dead(c)
  BY <1>3, <1>10, <1>11 DEF Dead
<1>13. FreeLinks(d)
  <2>1. /\ \A j \in Dead(c) : j # i /\ j \in Slots /\ d.handles[j] = c.handles[j]
        /\ d.handles[i].link = c.free_head
    BY <1>1, <1>9, <1>12 DEF Dead, Opened, Entry
  <2>2. /\ c.free_head # IDX_MASK => c.free_head \in Dead(c)
        /\ \A j \in Dead(c) : c.handles[j].link # IDX_MASK =>
             /\ c.handles[j].link \in Dead(c)
             /\ c.handles[j].link # c.free_head
             /\ \A m \in Dead(c) : c.handles[m].link = c.handles[j].link => m = j
    BY DEF CacheInv, FreeLinks
  <2>3. \A j \in Dead(d) : d.handles[j].link # IDX_MASK =>
           /\ d.handles[j].link \in Dead(d)
           /\ d.handles[j].link # d.free_head
           /\ \A m \in Dead(d) : d.handles[m].link = d.handles[j].link => m = j
    <3>1. \A j \in Dead(d) : j = i \/ j \in Dead(c)
      BY <1>12
    <3>2. d.handles[i].link # IDX_MASK =>
             /\ d.handles[i].link \in Dead(d)
             /\ d.handles[i].link # d.free_head
             /\ \A m \in Dead(d) : d.handles[m].link = d.handles[i].link => m = i
      BY <1>8, <1>12, <2>1, <2>2, <3>1
    <3>3. ASSUME NEW j \in Dead(c), d.handles[j].link # IDX_MASK
          PROVE  /\ d.handles[j].link \in Dead(d)
                 /\ d.handles[j].link # d.free_head
                 /\ \A m \in Dead(d) : d.handles[m].link = d.handles[j].link => m = j
      <4>1. d.handles[j].link = c.handles[j].link
        BY <2>1
      <4>2. /\ c.handles[j].link # IDX_MASK /\ c.handles[j].link \in Dead(c)
            /\ c.handles[j].link # c.free_head
            /\ \A m \in Dead(c) : c.handles[m].link = c.handles[j].link => m = j
        BY <2>2, <3>3, <4>1
      <4>3. \A m \in Dead(d) : d.handles[m].link = d.handles[j].link => m = j
        BY <2>1, <3>1, <4>1, <4>2
      <4> QED BY <1>8, <1>12, <4>1, <4>2, <4>3
    <3> QED BY <3>1, <3>2, <3>3
  <2> QED BY <1>8, <1>12, <2>3 DEF FreeLinks
<1>14. Counts(d) /\ d.current_used \in Nat
  <2>1. IsFiniteSet(ValidSlots(c))
    BY FiniteValid
  <2>2. /\ Cardinality(ValidSlots(d)) = Cardinality(ValidSlots(c)) - 1
        /\ Cardinality(ValidSlots(d)) \in Nat
    BY <1>3, <1>11, <2>1, FS_RemoveElement, FS_Subset, FS_CardinalityType
  <2>3. c.capacity \in Nat /\ c.current_used \in Nat
    BY <1>5, CacheBounds, CacheAssumption DEF CacheType
  <2> QED BY <1>8, <2>2, <2>3 DEF Counts, CacheInv
<1>15. CacheType(d)
  <2>1. d.handles \in [Slots -> [valid : BOOLEAN, key : Keys \cup {MAX_GENERATIONS}, link : Slots]]
    BY <1>1, <1>5, <1>8 DEF CacheType, Entry
  <2>2. d.current_used \in 0 .. IDX_MASK + 1
    BY <1>5, <1>8, <1>14, CacheAssumption DEF CacheType
  <2> QED BY <1>1, <1>5, <1>8, <2>1, <2>2 DEF CacheType
<1>16. \A j \in Slots : d.handles[j].key = c.handles[j].key
  BY <1>9 DEF Entry
<1>17. CacheInv(d)
  BY <1>10, <1>13, <1>14, <1>15, <1>16 DEF CacheInv, Opened
<1> QED BY <1>3, <1>4, <1>8, <1>10, <1>11, <1>16, <1>17 DEF d, i

-----------------------------------------------------------------------------
(* The calls of clients.                                                     *)

LEMMA KeyStep ==
    ASSUME NEW g \in Keys, NEW x \in Nat
    PROVE  /\ KeyAfter(Rolled(g, x)) = Rolled(g, x + 1)
           /\ Rolled(g, 0) = g
           /\ Rolled(g, x) = g => x % MAX_GENERATIONS = 0
<1>1. /\ x % MAX_GENERATIONS \in 0 .. MAX_GENERATIONS - 1
      /\ (x + 1) % MAX_GENERATIONS = IF (x % MAX_GENERATIONS) + 1 = MAX_GENERATIONS
                                       THEN 0 ELSE (x % MAX_GENERATIONS) + 1
  BY ModSucc, CacheAssumption
<1>2. 0 % MAX_GENERATIONS = 0
  BY CacheAssumption
<1>3. Rolled(g, 0) = g
  BY <1>2, CacheAssumption DEF Rolled, Keys
<1>. DEFINE d == x % MAX_GENERATIONS
            e == (x + 1) % MAX_GENERATIONS
<1>4. /\ Rolled(g, x) = IF g + d < MAX_GENERATIONS THEN g + d ELSE g + d - MAX_GENERATIONS
      /\ Rolled(g, x + 1) = IF g + e < MAX_GENERATIONS THEN g + e ELSE g + e - MAX_GENERATIONS
  BY DEF Rolled
<1>5. d \in 0 .. MAX_GENERATIONS - 1 /\ e = IF d + 1 = MAX_GENERATIONS THEN 0 ELSE d + 1
  BY <1>1
<1>. HIDE DEF d, e
<1>6. KeyAfter(Rolled(g, x)) = Rolled(g, x + 1)
  BY <1>4, <1>5, CacheAssumption DEF KeyAfter, Keys
<1>7. Rolled(g, x) = g => d = 0
  BY <1>4, <1>5, CacheAssumption DEF Keys
<1> QED BY <1>3, <1>6, <1>7 DEF d

\* A call that finds no slot leaves everything but the capacity.
LEMMA NotStoredKeeps ==
    ASSUME CInv, NEW item, Stored(item), NoSlotLeft(Resize(cache))
    PROVE  CInv' /\ UNCHANGED <<freed, given>>
           /\ cache'.handles = cache.handles /\ cache'.items = cache.items
           /\ cache'.max_used = cache.max_used
<1>. DEFINE r == Resize(cache)
<1>1. /\ cache' = r /\ Resize(cache).capacity <= CapacityBound
      /\ UNCHANGED <<freed, given, current_idx, destroyed, unvisited>>
  BY DEF Stored, WithinBounds, Add, AddedHandle, NextHandle
<1>2. /\ CacheInv(r) /\ r.handles = cache.handles /\ r.items = cache.items
      /\ r.max_used = cache.max_used
  BY <1>1, ResizeKeeps DEF CInv
<1>. HIDE DEF r
<1>3. Live' = Live /\ Opened(cache)' = Opened(cache)
  BY <1>1, <1>2 DEF Live, ValidSlots, Opened
<1>4. HistoryTypes' /\ DestroyedOnce' /\ Owed'
  BY <1>1, <1>3 DEF CInv, HistoryTypes, DestroyedOnce, Owed
<1>5. Generations'
  BY <1>1, <1>2, <1>3 DEF CInv, Generations
<1> QED BY <1>1, <1>2, <1>4, <1>5 DEF CInv

\* A stored item has a slot that was free, and the next key of that slot.
LEMMA StoredChanges ==
    ASSUME CInv, NEW item \in Items \cup {NoItem}, Stored(item), ~NoSlotLeft(Resize(cache))
    PROVE  LET h == AddedHandle(cache) IN
           /\ h \in Handles /\ h.idx \in Slots /\ h.key \in Keys
           /\ cache'.handles = [cache.handles EXCEPT ![h.idx] = Entry(TRUE, h.key, h.idx)]
           /\ cache'.items = [cache.items EXCEPT ![h.idx] = item]
           /\ CacheInv(cache')
           /\ Live' = Live \cup {h.idx} /\ h.idx \notin Live
           /\ Opened(cache)' = Opened(cache) \cup {h.idx}
           /\ h.idx \notin Opened(cache) => h.key = 0
           /\ h.idx \in Opened(cache) => h.key = KeyAfter(cache.handles[h.idx].key)
           /\ given' = [given EXCEPT ![h.idx] = Append(@, h.key)]
           /\ ~freed /\ UNCHANGED <<freed, current_idx, destroyed, unvisited>>
<1>. DEFINE h == AddedHandle(cache)
            r == Resize(cache)
<1>1. /\ cache' = Add(cache, item) /\ Resize(cache).capacity <= CapacityBound /\ ~freed
      /\ given' = IF h = NullHandle THEN given ELSE [given EXCEPT ![h.idx] = Append(@, h.key)]
      /\ UNCHANGED <<freed, current_idx, destroyed, unvisited>>
  BY DEF Stored, WithinBounds
<1>2. h = [key |-> NextKey(r), idx |-> NextSlot(r)]
  BY DEF AddedHandle, NextHandle
<1>3. h.key = NextKey(r) /\ h.idx = NextSlot(r)
  BY <1>2
<1>4. CacheInv(cache)
  BY DEF CInv
<1>5. /\ cache'.handles = [cache.handles EXCEPT ![h.idx] = Entry(TRUE, h.key, h.idx)]
      /\ cache'.items = [cache.items EXCEPT ![h.idx] = item]
  <2>1. LET a == Add(cache, item)
            j == NextSlot(r)
        IN  /\ a.handles = [cache.handles EXCEPT ![j] = Entry(TRUE, NextKey(r), j)]
            /\ a.items = [cache.items EXCEPT ![j] = item]
    BY <1>1, <1>4, AddChanges
  <2> QED BY <1>1, <1>3, <2>1
<1>6. /\ CacheInv(cache') /\ h.idx \in Slots /\ h.key \in Keys
      /\ ValidSlots(cache') = ValidSlots(cache) \cup {h.idx} /\ h.idx \notin ValidSlots(cache)
      /\ Opened(cache') = Opened(cache) \cup {h.idx}
      /\ FreeListEmpty(cache) => h.idx \notin Opened(cache) /\ h.key = 0
      /\ ~FreeListEmpty(cache) => h.idx \in Opened(cache)
                                  /\ h.key = KeyAfter(cache.handles[h.idx].key)
  BY <1>1, <1>3, <1>4, AddKeeps
<1>7. h \in Handles
  BY <1>2, <1>3, <1>6 DEF Handles
<1>8. h # NullHandle
  <2>1. NullHandle.key = MAX_GENERATIONS /\ MAX_GENERATIONS \notin Keys
    BY CacheAssumption DEF NullHandle, Keys
  <2> QED BY <1>6, <2>1
<1>. HIDE DEF h, r
<1> QED BY <1>1, <1>5, <1>6, <1>7, <1>8 DEF Live, h

LEMMA StoredKeeps ==
    ASSUME CInv, NEW item \in Items \cup {NoItem}, Stored(item), ~NoSlotLeft(Resize(cache))
    PROVE  CInv'
<1>. DEFINE h == AddedHandle(cache)
            i == h.idx
<1>1. /\ i \in Slots /\ h.key \in Keys
      /\ cache'.handles = [cache.handles EXCEPT ![i] = Entry(TRUE, h.key, i)]
      /\ CacheInv(cache')
      /\ Live' = Live \cup {i} /\ i \notin Live
      /\ Opened(cache)' = Opened(cache) \cup {i}
      /\ i \notin Opened(cache) => h.key = 0
      /\ i \in Opened(cache) => h.key = KeyAfter(cache.handles[i].key)
      /\ given' = [given EXCEPT ![i] = Append(@, h.key)]
      /\ ~freed /\ UNCHANGED <<freed, current_idx, destroyed, unvisited>>
  BY StoredChanges
<1>. HIDE DEF h
<1>2. HistoryTypes /\ DOMAIN given = Slots /\ DOMAIN cache.handles = Slots
  BY DEF CInv, HistoryTypes, CacheInv, CacheType
<1>3. /\ \A j \in Slots : given[j] \in Seq(Keys)
      /\ \A j \in Slots \ {i} : given'[j] = given[j]
      /\ given'[i] = Append(given[i], h.key)
      /\ given'[i] \in Seq(Keys) /\ Len(given'[i]) = Len(given[i]) + 1
      /\ Len(given[i]) \in Nat
  BY <1>1, <1>2 DEF HistoryTypes
<1>4. HistoryTypes'
  <2>1. given' \in [Slots -> Seq(Keys)]
    BY <1>1, <1>2, <1>3 DEF HistoryTypes
  <2> QED BY <1>1, <1>2, <2>1 DEF HistoryTypes
<1>5. DestroyedOnce'
  <2>1. \A j \in Slots : (j \in Live' /\ ~freed') <=> (j \in Live /\ ~freed) \/ j = i
    BY <1>1
  <2>2. \A j \in Slots \ {i} : Len(given'[j]) = Len(given[j])
    BY <1>3
  <2>3. \A j \in Slots : destroyed'[j] = destroyed[j]
    BY <1>1
  <2>4. destroyed[i] = Len(given[i]) - 0
    BY <1>1 DEF CInv, DestroyedOnce
  <2>5. destroyed'[i] = Len(given'[i]) - 1
    BY <1>1, <1>3, <2>3, <2>4
  <2>6. \A j \in Slots \ {i} :
           destroyed'[j] = Len(given'[j]) - (IF j \in Live' /\ ~freed' THEN 1 ELSE 0)
    BY <2>1, <2>2, <2>3 DEF CInv, DestroyedOnce
  <2> QED BY <1>1, <2>1, <2>5, <2>6 DEF DestroyedOnce
<1>6. Owed'
  BY <1>1 DEF CInv, Owed
<1>7. Generations'
  <2>. SUFFICES ASSUME NEW j \in Slots
                PROVE  /\ j \notin Opened(cache)' => given'[j] = <<>>
                       /\ \A n \in 1 .. Len(given'[j]) :
                            cache'.handles[j].key = Rolled(given'[j][n], Len(given'[j]) - n)
    BY DEF Generations
  <2>1. CASE j # i
    BY <1>1, <1>2, <1>3, <2>1 DEF CInv, Generations
  <2>2. CASE j = i
    <3>1. cache'.handles[i].key = h.key
      BY <1>1, <1>2 DEF Entry
    <3>2. ASSUME NEW n \in 1 .. Len(given[i])
          PROVE  h.key = Rolled(given'[i][n], Len(given'[i]) - n)
      <4>1. i \in Opened(cache)
        <5>1. Len(given[i]) # 0
          BY <1>3
        <5> QED BY <1>1, <5>1 DEF CInv, Generations
      <4>2. given'[i][n] = given[i][n] /\ given[i][n] \in Keys
        BY <1>1, <1>3
      <4>3. cache.handles[i].key = Rolled(given[i][n], Len(given[i]) - n)
        BY <1>1 DEF CInv, Generations
      <4>4. Len(given[i]) - n \in Nat /\ Len(given'[i]) - n = Len(given[i]) - n + 1
        BY <1>3
      <4> QED BY <1>1, <4>1, <4>2, <4>3, <4>4, KeyStep
    <3>3. h.key = Rolled(given'[i][Len(given'[i])], Len(given'[i]) - Len(given'[i]))
      <4>1. given'[i][Len(given'[i])] = h.key /\ Len(given'[i]) - Len(given'[i]) = 0
        BY <1>3
      <4> QED BY <1>1, <4>1, KeyStep
    <3>4. \A n \in 1 .. Len(given'[i]) : n \in 1 .. Len(given[i]) \/ n = Len(given'[i])
      BY <1>3
    <3> QED BY <1>1, <2>2, <3>1, <3>2, <3>3, <3>4
  <2> QED BY <2>1, <2>2
<1> QED BY <1>1, <1>4, <1>5, <1>6, <1>7 DEF CInv

LEMMA RemainsTyped ==
    ASSUME CInv, WithinBounds
    PROVE  Remains(cache) \in Items \cup {NoItem}
<1>. DEFINE r == Resize(cache)
<1>1. CacheInv(r) /\ r.items = cache.items
  BY ResizeKeeps DEF CInv, WithinBounds
<1>2. ~NoSlotLeft(r) => NextSlot(r) \in Slots
  BY <1>1, NextSlotFree
<1>3. cache.items \in [Slots -> Items \cup {NoItem}]
  BY DEF CInv, CacheInv, CacheType
<1>. HIDE DEF r
<1>4. r.items \in [Slots -> Items \cup {NoItem}]
  BY <1>1, <1>3
<1>5. Remains(cache) = IF NoSlotLeft(r) THEN NoItem ELSE r.items[NextSlot(r)]
  BY DEF Remains, r
<1> QED BY <1>2, <1>4, <1>5

LEMMA WhatIsStored ==
    ASSUME CInv, CacheAdd \/ CacheEmplace
    PROVE  \E item \in Items \cup {NoItem} : Stored(item)
<1>1. CASE CacheAdd
  BY <1>1 DEF CacheAdd
<1>2. CASE CacheEmplace
  <2>1. PICK item \in Items \cup {Remains(cache)} : Stored(item)
    BY <1>2 DEF CacheEmplace
  <2>2. WithinBounds
    BY <2>1 DEF Stored
  <2>3. item \in Items \cup {NoItem}
    BY <2>1, <2>2, RemainsTyped
  <2> QED BY <2>1, <2>3
<1> QED BY <1>1, <1>2

\* A handle that is answered names one item, which is destroyed.
LEMMA CacheRemoveKeeps ==
    ASSUME CInv, NEW h \in ClientHandles, CacheRemove(h)
    PROVE  CInv'
<1>. DEFINE i == h.idx
<1>1. /\ ~freed /\ cache' = Remove(cache, h)
      /\ destroyed' = IF CheckHandle(cache, h) THEN [destroyed EXCEPT ![i] = @ + 1] ELSE destroyed
      /\ unvisited' = unvisited \ (Live \ Live')
      /\ UNCHANGED <<freed, current_idx, given>>
  BY DEF CacheRemove, Live
<1>2. CASE CheckHandle(cache, h)
  <2>1. h \in Handles \cup {NullHandle} /\ CacheInv(cache)
    BY DEF ClientHandles, CInv
  <2>2. /\ CacheInv(cache')
        /\ i \in Live /\ Live' = Live \ {i}
        /\ Opened(cache)' = Opened(cache)
        /\ \A j \in Slots : cache'.handles[j].key = cache.handles[j].key
    <3>1. LET d == Remove(cache, h) IN
          /\ CacheInv(d)
          /\ i \in ValidSlots(cache)
          /\ ValidSlots(d) = ValidSlots(cache) \ {i}
          /\ Opened(d) = Opened(cache)
          /\ \A j \in Slots : d.handles[j].key = cache.handles[j].key
      BY <1>2, <2>1, RemoveKeeps
    <3> QED BY <1>1, <3>1 DEF Live
  <2>. HIDE DEF i
  <2>3. i \in Slots /\ Live \subseteq Slots
    BY <2>2 DEF Live, ValidSlots
  <2>4. destroyed \in [Slots -> Nat] /\ destroyed' = [destroyed EXCEPT ![i] = @ + 1]
    BY <1>1, <1>2 DEF CInv, HistoryTypes
  <2>5. HistoryTypes'
    BY <1>1, <2>3, <2>4 DEF CInv, HistoryTypes
  <2>6. Generations'
    BY <1>1, <2>2 DEF CInv, Generations
  <2>7. DestroyedOnce'
    <3>1. \A j \in Slots : Len(given[j]) \in Nat
      BY DEF CInv, HistoryTypes
    <3>2. \A j \in Slots : j \in Live' <=> j \in Live /\ j # i
      BY <2>2
    <3>3. \A j \in Slots : destroyed'[j] = IF j = i THEN destroyed[j] + 1 ELSE destroyed[j]
      BY <2>4
    <3>4. \A j \in Slots : destroyed[j] = Len(given[j]) - (IF j \in Live THEN 1 ELSE 0)
      BY <1>1 DEF CInv, DestroyedOnce
    <3>5. ASSUME NEW j \in Slots
          PROVE  destroyed'[j] = Len(given[j]) - (IF j \in Live' THEN 1 ELSE 0)
      <4>1. CASE j = i
        <5>1. destroyed[j] = Len(given[j]) - 1 /\ j \notin Live'
          BY <2>2, <3>2, <3>4, <4>1
        <5>2. destroyed'[j] = destroyed[j] + 1
          BY <3>3, <4>1
        <5> QED BY <3>1, <5>1, <5>2
      <4>2. CASE j # i
        <5>1. j \in Live' <=> j \in Live
          BY <3>2, <4>2
        <5> QED BY <3>3, <3>4, <4>2, <5>1
      <4> QED BY <4>1, <4>2
    <3> QED BY <1>1, <3>5 DEF DestroyedOnce
  <2>8. Owed'
    BY <1>1, <2>2 DEF CInv, Owed
  <2> QED BY <2>2, <2>5, <2>6, <2>7, <2>8 DEF CInv
<1>3. CASE ~CheckHandle(cache, h)
  <2>1. UNCHANGED <<cache, destroyed>>
    BY <1>1, <1>3 DEF Remove
  <2>2. Live' = Live
    BY <2>1 DEF Live
  <2> QED BY <1>1, <2>1, <2>2
          DEF CInv, HistoryTypes, Generations, DestroyedOnce, Owed
<1> QED BY <1>2, <1>3

\* What is stored at the end is destroyed then.
LEMMA CacheUninitKeeps ==
    ASSUME CInv, CacheUninit
    PROVE  CInv'
<1>1. /\ ~freed /\ freed' = TRUE
      /\ destroyed' = [i \in Slots |-> IF i \in Live THEN destroyed[i] + 1 ELSE destroyed[i]]
      /\ current_idx' = -1 /\ unvisited' = {}
      /\ UNCHANGED <<cache, given>>
  BY DEF CacheUninit, SlotsToFree
<1>2. destroyed \in [Slots -> Nat]
  BY DEF CInv, HistoryTypes
<1>3. HistoryTypes'
  BY <1>1, <1>2, CacheAssumption DEF CInv, HistoryTypes
<1>4. DestroyedOnce'
  <2>1. \A i \in Slots : destroyed[i] = Len(given[i]) - (IF i \in Live THEN 1 ELSE 0)
    BY <1>1 DEF CInv, DestroyedOnce
  <2>2. \A i \in Slots : Len(given[i]) \in Nat
    BY DEF CInv, HistoryTypes
  <2>3. ASSUME NEW i \in Slots
        PROVE  destroyed'[i] = Len(given[i]) - 0
    <3>1. CASE i \in Live
      <4>1. destroyed[i] = Len(given[i]) - 1 /\ destroyed'[i] = destroyed[i] + 1
        BY <1>1, <2>1, <3>1
      <4> QED BY <2>2, <4>1
    <3>2. CASE i \notin Live
      BY <1>1, <2>1, <3>2
    <3> QED BY <3>1, <3>2
  <2> QED BY <1>1, <2>2, <2>3 DEF DestroyedOnce
<1>5. Generations' /\ Owed' /\ CacheInv(cache')
  BY <1>1 DEF CInv, Generations, Owed
<1> QED BY <1>3, <1>4, <1>5 DEF CInv

-----------------------------------------------------------------------------
(* Iterations.                                                               *)

Less == {r \in Nat \X Nat : r[1] < r[2]}

\* A nonempty set of naturals has a least element.
LEMMA LeastSlot ==
    ASSUME NEW S \in SUBSET Nat, S # {}
    PROVE  \E i \in S : \A j \in S : i <= j
<1>1. IsWellFoundedOn(Less, Nat)
  BY NatLessThanWellFounded DEF OpToRel, Less
<1>2. PICK i \in S : \A j \in S : ~(<<j, i>> \in Less)
  BY <1>1, WFMin
<1>3. \A j \in S : ~(j < i)
  BY <1>2 DEF Less
<1> QED BY <1>3

\* cache_it_next stops at the next valid slot, or at the end.
LEMMA IteratorNextLeast ==
    ASSUME CInv, NEW i \in -1 .. IDX_MASK + 1
    PROVE  LET n == IteratorNext(cache, i) IN
           /\ n \in 0 .. IDX_MASK + 1
           /\ \A j \in Live : j > i => n <= j
<1>. DEFINE later == {j \in ValidSlots(cache) : j > i}
<1>1. later \subseteq Slots /\ Slots \subseteq Nat /\ cache.max_used \in 0 .. IDX_MASK + 1
  BY CacheAssumption DEF ValidSlots, Slots, CInv, CacheInv, CacheType
<1>2. CASE later = {}
  <2>1. IteratorNext(cache, i) = cache.max_used
    BY <1>2 DEF IteratorNext
  <2> QED BY <1>1, <1>2, <2>1 DEF Live
<1>3. CASE later # {}
  <2>1. \E j \in later : \A k \in later : j <= k
    BY <1>1, <1>3, LeastSlot
  <2>2. IteratorNext(cache, i) = CHOOSE j \in later : \A k \in later : j <= k
    BY <1>3 DEF IteratorNext
  <2>3. IteratorNext(cache, i) \in later /\ \A k \in later : IteratorNext(cache, i) <= k
    BY <2>1, <2>2
  <2>4. IteratorNext(cache, i) \in 0 .. IDX_MASK + 1
    BY <1>1, <2>3, CacheAssumption DEF Slots
  <2> QED BY <2>3, <2>4 DEF Live
<1> QED BY <1>2, <1>3

LEMMA IterationKeeps ==
    ASSUME CInv, CacheBegin \/ CacheItNext \/ CacheEnd
    PROVE  CInv' /\ UNCHANGED <<cache, freed>>
<1>1. UNCHANGED <<cache, freed, given, destroyed>>
  BY DEF CacheBegin, CacheItNext, CacheEnd
<1>2. CacheInv(cache)' /\ Generations' /\ DestroyedOnce' /\ Live' = Live
  BY <1>1 DEF CInv, Generations, DestroyedOnce, Live
<1>3. current_idx \in -1 .. IDX_MASK + 1 /\ Live \subseteq Nat
  BY CacheAssumption DEF CInv, HistoryTypes, Live, ValidSlots, Slots
<1>4. current_idx' \in -1 .. IDX_MASK + 1 /\ Owed'
  <2>1. CASE CacheBegin
    <3>1. /\ current_idx' = IteratorNext(cache, -1) /\ unvisited' = Live \ {current_idx'}
          /\ -1 \in -1 .. IDX_MASK + 1
      BY <2>1, CacheAssumption DEF CacheBegin
    <3>2. current_idx' \in 0 .. IDX_MASK + 1 /\ \A j \in Live : j > -1 => current_idx' <= j
      BY <3>1, IteratorNextLeast
    <3> QED BY <1>2, <1>3, <3>1, <3>2, CacheAssumption DEF Owed
  <2>2. CASE CacheItNext
    <3>1. /\ current_idx' = IteratorNext(cache, current_idx)
          /\ unvisited' = unvisited \ {current_idx'}
      BY <2>2 DEF CacheItNext
    <3>2. current_idx' \in 0 .. IDX_MASK + 1 /\ \A j \in Live : j > current_idx => current_idx' <= j
      BY <1>3, <3>1, IteratorNextLeast
    <3>3. \A i \in unvisited : i \in Live /\ i > current_idx
      BY DEF Owed, CInv
    <3>4. \A i \in unvisited' : i \in Live /\ current_idx' <= i /\ i # current_idx'
      BY <3>1, <3>2, <3>3
    <3>5. ASSUME NEW i \in unvisited'
          PROVE  i \in Live' /\ i > current_idx'
      <4>1. i \in Live /\ current_idx' <= i /\ i # current_idx'
        BY <3>4
      <4>2. i \in Nat /\ current_idx' \in Nat
        BY <1>3, <3>2, <4>1, CacheAssumption
      <4> QED BY <1>2, <4>1, <4>2
    <3>6. current_idx' # -1 /\ current_idx' \in -1 .. IDX_MASK + 1
      BY <3>2, CacheAssumption
    <3> QED BY <3>5, <3>6 DEF Owed
  <2>3. CASE CacheEnd
    <3>1. current_idx' = -1 /\ unvisited' = unvisited /\ current_idx >= cache.max_used
      BY <2>3 DEF CacheEnd, AtEnd
    <3>2. cache.max_used \in Nat /\ \A i \in Live : i < cache.max_used
      <4>1. CacheType(cache)
        BY DEF CInv, CacheInv
      <4>2. cache.max_used \in 0 .. IDX_MASK + 1
        BY <4>1 DEF CacheType
      <4> QED BY <4>2, CacheAssumption DEF Live, ValidSlots
    <3>3. ASSUME NEW i \in unvisited
          PROVE  FALSE
      <4>1. i \in Live /\ i > current_idx
        BY DEF CInv, Owed
      <4>2. i \in Nat /\ i < cache.max_used /\ current_idx \in Int
        BY <1>3, <3>2, <4>1, CacheAssumption
      <4> QED BY <3>1, <3>2, <4>1, <4>2
    <3> QED BY <3>1, <3>3, CacheAssumption DEF Owed
  <2> QED BY <2>1, <2>2, <2>3
<1> QED BY <1>1, <1>2, <1>4 DEF CInv, HistoryTypes

-----------------------------------------------------------------------------
(* The invariant.                                                            *)

LEMMA InitKeeps ==
    ASSUME Init
    PROVE  CInv
<1>1. cache = NewCache(InitialCapacity) /\ cache.max_used = 0 /\ cache.current_used = 0
  BY DEF Init, NewCache
<1>2. Slots \subseteq Nat /\ 0 \in 0 .. IDX_MASK + 1 /\ IDX_MASK \in Slots
  BY CacheAssumption DEF Slots
<1>3. ValidSlots(cache) = {} /\ Opened(cache) = {} /\ Dead(cache) = {}
  <2>1. \A i \in Slots : ~(i < cache.max_used)
    BY <1>1, <1>2
  <2>2. Opened(cache) = {} /\ ValidSlots(cache) = {}
    BY <2>1 DEF Opened, ValidSlots
  <2> QED BY <2>2 DEF Dead
<1>4. CacheType(cache)
  BY <1>2, CacheBounds DEF Init, NewCache, CacheType, Entry
<1>5. FreeLinks(cache)
  BY <1>3 DEF Init, NewCache, FreeLinks
<1>6. Counts(cache)
  <2>1. Cardinality(ValidSlots(cache)) = 0
    BY <1>3, FS_EmptySet
  <2>2. cache.capacity \in Nat
    BY <1>4, CacheBounds DEF CacheType
  <2> QED BY <1>1, <2>1, <2>2 DEF Counts
<1>7. CacheInv(cache)
  BY <1>3, <1>4, <1>5, <1>6 DEF CacheInv
<1>8. HistoryTypes
  <2>1. -1 \in -1 .. IDX_MASK + 1 /\ 0 \in Nat
    BY CacheAssumption
  <2>2. given = [i \in Slots |-> <<>>] /\ <<>> \in Seq(Keys)
    BY DEF Init
  <2>3. given \in [Slots -> Seq(Keys)]
    BY <2>2
  <2>4. destroyed \in [Slots -> Nat]
    BY DEF Init
  <2> QED BY <2>1, <2>3, <2>4 DEF Init, HistoryTypes
<1>9. Generations
  BY <1>3 DEF Init, Generations
<1>10. DestroyedOnce
  BY <1>3 DEF Init, DestroyedOnce, Live
<1>11. Owed
  BY DEF Init, Owed
<1> QED BY <1>7, <1>8, <1>9, <1>10, <1>11 DEF CInv

LEMMA StepKeeps ==
    ASSUME CInv, [Next]_vars
    PROVE  CInv'
<1>1. CASE CacheAdd \/ CacheEmplace
  BY <1>1, WhatIsStored, NotStoredKeeps, StoredKeeps
<1>2. ASSUME NEW h \in ClientHandles, CacheRemove(h)
      PROVE  CInv'
  BY <1>2, CacheRemoveKeeps
<1>3. CASE CacheUninit
  BY <1>3, CacheUninitKeeps
<1>4. CASE CacheBegin \/ CacheItNext \/ CacheEnd
  BY <1>4, IterationKeeps
<1>5. CASE UNCHANGED vars
  BY <1>5 DEF vars, CInv, HistoryTypes, Generations, DestroyedOnce, Owed, Live
<1> QED BY <1>1, <1>2, <1>3, <1>4, <1>5 DEF Next

LEMMA Invariant == Spec => []CInv
  BY InitKeeps, StepKeeps, PTL DEF Spec

\* A handle that a client was once given is answered only while its item is
\* stored, until its key comes round again.
THEOREM StaleCorrect == Spec => []StaleHandlesRefused
<1>1. ASSUME CInv, NEW i \in Slots, NEW n \in DOMAIN given[i],
             CheckHandle(cache, [key |-> given[i][n], idx |-> i])
      PROVE  (Len(given[i]) - n) % MAX_GENERATIONS = 0
  <2>1. given[i] \in Seq(Keys)
    BY <1>1 DEF CInv, HistoryTypes
  <2>2. n \in 1 .. Len(given[i]) /\ given[i][n] \in Keys /\ Len(given[i]) - n \in Nat
    BY <1>1, <2>1
  <2>3. cache.handles[i].key = given[i][n]
    BY <1>1 DEF CheckHandle
  <2>4. cache.handles[i].key = Rolled(given[i][n], Len(given[i]) - n)
    BY <1>1, <2>2 DEF CInv, Generations
  <2> QED BY <2>2, <2>3, <2>4, KeyStep
<1>2. CInv => StaleHandlesRefused
  BY <1>1 DEF StaleHandlesRefused
<1> QED BY <1>2, Invariant, PTL

\* Every item is destroyed once: when it is removed, or at the end.
THEOREM DestroyedCorrect == Spec => []DestroyedOnce
<1>1. CInv => DestroyedOnce
  BY DEF CInv
<1> QED BY <1>1, Invariant, PTL

\* An iteration meets every slot in use throughout it.
THEOREM IterationCorrect == Spec => []IterationComplete
<1>1. ASSUME CInv, current_idx # -1, AtEnd, NEW i \in unvisited
      PROVE  FALSE
  <2>1. i \in Live /\ i > current_idx /\ current_idx >= cache.max_used
    BY <1>1 DEF CInv, Owed, AtEnd
  <2>2. i \in Int /\ i < cache.max_used
    BY <2>1, CacheAssumption DEF Live, ValidSlots, Slots
  <2>3. cache.max_used \in Int /\ current_idx \in Int
    BY <1>1, CacheAssumption DEF CInv, HistoryTypes, CacheInv, CacheType
  <2> QED BY <2>1, <2>2, <2>3
<1>2. CInv => IterationComplete
  BY <1>1 DEF IterationComplete
<1> QED BY <1>2, Invariant, PTL

-----------------------------------------------------------------------------
(* No slot leaks.                                                            *)

LEMMA DeadSlots ==
    ASSUME NEW c, CacheInv(c)
    PROVE  /\ IsFiniteSet(Dead(c)) /\ Cardinality(Dead(c)) \in Nat
           /\ Cardinality(Dead(c)) = 0 <=> Dead(c) = {}
           /\ Dead(c) \subseteq Slots
           /\ c.max_used <= IDX_MASK => IDX_MASK \notin Dead(c)
<1>1. IsFiniteSet(Slots)
  BY FS_Interval, CacheAssumption DEF Slots
<1>2. Dead(c) \subseteq Slots
  BY DEF Dead, Opened
<1>3. IsFiniteSet(Dead(c))
  BY <1>1, <1>2, FS_Subset
<1>4. c.max_used \in 0 .. IDX_MASK + 1
  BY DEF CacheInv, CacheType
<1>5. c.max_used <= IDX_MASK => IDX_MASK \notin Dead(c)
  BY <1>4, CacheAssumption DEF Dead, Opened
<1> QED BY <1>2, <1>3, <1>5, FS_CardinalityType, FS_EmptySet

\* A cache with the same slots has the same list.
LEMMA SameChain ==
    ASSUME NEW c, Chain(c), NEW d, d.handles = c.handles, d.max_used = c.max_used,
           d.free_head = c.free_head
    PROVE  Chain(d)
<1>1. Dead(d) = Dead(c)
  BY DEF Dead, Opened, ValidSlots
<1> QED BY <1>1 DEF Chain, Lists

\* The slot that a new item gets was the first of the list, or a new one.
LEMMA AddChains ==
    ASSUME NEW c, CacheInv(c), Chain(c), Resize(c).capacity <= CapacityBound,
           ~NoSlotLeft(Resize(c)), NEW item \in Items \cup {NoItem}
    PROVE  Chain(Add(c, item))
<1>. DEFINE r == Resize(c)
            a == Add(c, item)
            i == NextSlot(r)
<1>1. /\ CacheInv(r) /\ r.max_used = c.max_used /\ r.free_head = c.free_head
  BY ResizeKeeps
<1>2. /\ a.handles = [c.handles EXCEPT ![i] = Entry(TRUE, NextKey(r), i)]
      /\ a.max_used = IF FreeListEmpty(c) THEN c.max_used + 1 ELSE c.max_used
      /\ a.free_head = FreeHeadAfterTake(c)
  BY AddChanges
<1>3. /\ CacheInv(a)
      /\ ValidSlots(a) = ValidSlots(c) \cup {i} /\ i \notin ValidSlots(c)
      /\ Opened(a) = Opened(c) \cup {i} /\ i \in Slots
      /\ FreeListEmpty(c) => i \notin Opened(c)
      /\ ~FreeListEmpty(c) => i \in Opened(c) /\ i = c.free_head
  BY <1>1, AddKeeps DEF FreeListEmpty, NextSlot
<1>. HIDE DEF r, a, i
<1>4. Dead(a) = Dead(c) \ {i}
  BY <1>3 DEF Dead
<1>5. c.max_used \in Nat /\ DOMAIN c.handles = Slots
  BY CacheAssumption DEF CacheInv, CacheType
<1>6. \A j \in Dead(a) : j \in Dead(c) /\ j # i /\ a.handles[j] = c.handles[j]
  BY <1>2, <1>3, <1>4, <1>5, DeadSlots
<1>. SUFFICES ASSUME a.max_used <= IDX_MASK
              PROVE  \E s \in [1 .. Cardinality(Dead(a)) -> Dead(a)] :
                       /\ \A j \in Dead(a) : \E k \in DOMAIN s : s[k] = j
                       /\ \A j, k \in DOMAIN s : s[j] = s[k] => j = k
                       /\ Lists(a, s)
  BY DEF Chain, a
<1>7. c.max_used <= IDX_MASK
  BY <1>2, <1>5, CacheAssumption
<1>8. PICK s \in [1 .. Cardinality(Dead(c)) -> Dead(c)] :
             /\ \A j \in Dead(c) : \E k \in DOMAIN s : s[k] = j
             /\ \A j, k \in DOMAIN s : s[j] = s[k] => j = k
             /\ Lists(c, s)
  BY <1>7 DEF Chain
<1>9. CASE FreeListEmpty(c)
  <2>1. i \notin Dead(c)
    BY <1>3, <1>9 DEF Dead
  <2>2. Dead(a) = Dead(c)
    BY <1>4, <2>1
  <2>3. a.free_head = c.free_head
    BY <1>2, <1>9 DEF FreeHeadAfterTake
  <2>4. \A k \in DOMAIN s : a.handles[s[k]] = c.handles[s[k]]
    BY <1>6, <2>2
  <2>5. Lists(a, s)
    BY <1>8, <2>2, <2>3, <2>4 DEF Lists
  <2> QED BY <1>8, <2>2, <2>5
<1>10. CASE ~FreeListEmpty(c)
  <2>. DEFINE n == Cardinality(Dead(c))
              t == [k \in 1 .. n - 1 |-> s[k + 1]]
  <2>1. i \in Dead(c) /\ c.free_head = i /\ i # IDX_MASK
    BY <1>3, <1>10 DEF Dead, FreeListEmpty
  <2>2. n \in Nat \ {0} /\ IsFiniteSet(Dead(c))
    BY <2>1, DeadSlots
  <2>3. Cardinality(Dead(a)) = n - 1
    BY <1>4, <2>1, <2>2, FS_RemoveElement
  <2>4. s[1] = i /\ DOMAIN s = 1 .. n /\ 1 \in DOMAIN s
    BY <1>8, <2>1, <2>2 DEF Lists
  <2>. HIDE DEF n
  <2>5. \A k \in 1 .. n - 1 : k + 1 \in 1 .. n /\ k + 1 # 1 /\ t[k] = s[k + 1]
    BY <2>2
  <2>6. \A k \in 1 .. n - 1 : t[k] \in Dead(a) /\ s[k + 1] # i
    BY <1>4, <1>8, <2>4, <2>5 DEF n
  <2>7. t \in [1 .. n - 1 -> Dead(a)] /\ DOMAIN t = 1 .. n - 1
    BY <2>6
  <2>8. \A j \in Dead(a) : \E k \in DOMAIN t : t[k] = j
    <3>. SUFFICES ASSUME NEW j \in Dead(a)
                  PROVE  \E k \in DOMAIN t : t[k] = j
      OBVIOUS
    <3>1. PICK k \in 1 .. n : s[k] = j
      BY <1>6, <1>8, <2>4
    <3>2. k # 1
      BY <1>6, <2>4, <3>1
    <3>3. k - 1 \in 1 .. n - 1 /\ (k - 1) + 1 = k
      BY <2>2, <3>2
    <3> QED BY <2>5, <2>7, <3>1, <3>3
  <2>9. \A j, k \in DOMAIN t : t[j] = t[k] => j = k
    <3>. SUFFICES ASSUME NEW j \in DOMAIN t, NEW k \in DOMAIN t, t[j] = t[k]
                  PROVE  j = k
      OBVIOUS
    <3>1. s[j + 1] = s[k + 1] /\ j + 1 \in DOMAIN s /\ k + 1 \in DOMAIN s
      BY <2>4, <2>5, <2>7
    <3>2. j + 1 = k + 1
      BY <1>8, <3>1
    <3> QED BY <2>2, <2>7, <3>2
  <2>10. \A k \in DOMAIN t :
           a.handles[t[k]].link = IF k + 1 \in DOMAIN t THEN t[k + 1] ELSE IDX_MASK
    <3>. SUFFICES ASSUME NEW k \in DOMAIN t
                  PROVE  a.handles[t[k]].link
                           = IF k + 1 \in DOMAIN t THEN t[k + 1] ELSE IDX_MASK
      OBVIOUS
    <3>1. a.handles[t[k]].link = c.handles[s[k + 1]].link
      BY <1>6, <2>5, <2>6, <2>7
    <3>2. c.handles[s[k + 1]].link
            = IF (k + 1) + 1 \in DOMAIN s THEN s[(k + 1) + 1] ELSE IDX_MASK
      BY <1>8, <2>4, <2>5, <2>7 DEF Lists
    <3>3. (k + 1) + 1 \in DOMAIN s <=> k + 1 \in DOMAIN t
      BY <2>2, <2>4, <2>7
    <3>4. k + 1 \in DOMAIN t => t[k + 1] = s[(k + 1) + 1]
      OBVIOUS
    <3> QED BY <3>1, <3>2, <3>3, <3>4
  <2>11. a.free_head = IF Dead(a) = {} THEN IDX_MASK ELSE t[1]
    <3>1. a.free_head = c.handles[s[1]].link
      BY <1>2, <1>10, <2>1, <2>4 DEF FreeHeadAfterTake
    <3>2. c.handles[s[1]].link = IF 1 + 1 \in DOMAIN s THEN s[1 + 1] ELSE IDX_MASK
      BY <1>8, <2>4 DEF Lists
    <3>3. Dead(a) = {} <=> n - 1 = 0
      BY <1>3, <2>3, DeadSlots
    <3>4. 1 + 1 \in DOMAIN s <=> ~(n - 1 = 0)
      BY <2>2, <2>4
    <3>5. ~(n - 1 = 0) => t[1] = s[1 + 1]
      BY <2>2
    <3> QED BY <3>1, <3>2, <3>3, <3>4, <3>5
  <2>12. Lists(a, t)
    BY <2>10, <2>11 DEF Lists
  <2> QED BY <2>3, <2>7, <2>8, <2>9, <2>12
<1> QED BY <1>9, <1>10

\* A removed slot becomes the first of the list.
LEMMA RemoveChains ==
    ASSUME NEW c, CacheInv(c), Chain(c), NEW h \in Handles \cup {NullHandle}, CheckHandle(c, h)
    PROVE  Chain(Remove(c, h))
<1>. DEFINE d == Remove(c, h)
            i == h.idx
            n == Cardinality(Dead(c))
<1>1. /\ CacheInv(d) /\ i \in ValidSlots(c) /\ ValidSlots(d) = ValidSlots(c) \ {i}
      /\ Opened(d) = Opened(c) /\ d.max_used = c.max_used
  BY RemoveKeeps
<1>2. CacheType(c) /\ LinkAfterRemove(c) = c.free_head
  BY DEF CacheInv, LinkAfterRemove, FreeListEmpty
<1>3. /\ d.handles = [c.handles EXCEPT ![i] = Entry(FALSE, c.handles[i].key, c.free_head)]
      /\ d.free_head = i
  BY <1>2 DEF Remove, CacheType
<1>. HIDE DEF d, i, n
<1>4. i \in Opened(c) /\ i \in Slots /\ i \notin Dead(c)
  BY <1>1 DEF ValidSlots, Opened, Dead
<1>5. Dead(d) = Dead(c) \cup {i}
  BY <1>1, <1>4 DEF Dead
<1>6. /\ DOMAIN c.handles = Slots
      /\ d.handles[i].link = c.free_head
      /\ \A j \in Dead(c) : d.handles[j] = c.handles[j]
  <2>1. DOMAIN c.handles = Slots
    BY <1>2 DEF CacheType
  <2> QED BY <1>3, <1>4, <2>1, DeadSlots DEF Entry
<1>7. n \in Nat /\ IsFiniteSet(Dead(c)) /\ Cardinality(Dead(d)) = n + 1
      /\ (n = 0 <=> Dead(c) = {})
  BY <1>4, <1>5, DeadSlots, FS_AddElement DEF n
<1>. SUFFICES ASSUME c.max_used <= IDX_MASK
              PROVE  \E s \in [1 .. Cardinality(Dead(d)) -> Dead(d)] :
                       /\ \A j \in Dead(d) : \E k \in DOMAIN s : s[k] = j
                       /\ \A j, k \in DOMAIN s : s[j] = s[k] => j = k
                       /\ Lists(d, s)
  BY <1>1 DEF Chain, d
<1>8. PICK s \in [1 .. n -> Dead(c)] :
             /\ \A j \in Dead(c) : \E k \in DOMAIN s : s[k] = j
             /\ \A j, k \in DOMAIN s : s[j] = s[k] => j = k
             /\ Lists(c, s)
  BY DEF Chain, n
<1>. DEFINE t == [k \in 1 .. n + 1 |-> IF k = 1 THEN i ELSE s[k - 1]]
<1>9. /\ DOMAIN t = 1 .. n + 1 /\ DOMAIN s = 1 .. n /\ 1 \in DOMAIN t /\ t[1] = i
      /\ \A k \in 1 .. n + 1 : k = 1 \/ (k - 1 \in 1 .. n /\ t[k] = s[k - 1])
      /\ \A k \in 1 .. n : k + 1 \in 1 .. n + 1 /\ k + 1 # 1 /\ t[k + 1] = s[k]
  <2>1. \A k \in 1 .. n : k + 1 \in 1 .. n + 1 /\ k + 1 # 1 /\ (k + 1) - 1 = k
    BY <1>7
  <2>2. \A k \in 1 .. n + 1 : k = 1 \/ k - 1 \in 1 .. n
    BY <1>7
  <2>3. 1 \in 1 .. n + 1
    BY <1>7
  <2> QED BY <2>1, <2>2, <2>3
<1>10. t \in [1 .. n + 1 -> Dead(d)]
  BY <1>5, <1>9
<1>. HIDE DEF t
<1>11. \A j \in Dead(d) : \E k \in DOMAIN t : t[k] = j
  <2>1. \A j \in Dead(c) : \E k \in 1 .. n : s[k] = j
    BY <1>8, <1>9
  <2> QED BY <1>5, <1>9, <2>1
<1>12. \A j, k \in DOMAIN t : t[j] = t[k] => j = k
  <2>. SUFFICES ASSUME NEW j \in 1 .. n + 1, NEW k \in 1 .. n + 1, t[j] = t[k]
                PROVE  j = k
    BY <1>9
  <2>1. \A m \in 1 .. n + 1 : m # 1 => t[m] # i
    BY <1>4, <1>9
  <2>2. CASE j = 1 \/ k = 1
    BY <1>9, <2>1, <2>2
  <2>3. CASE j # 1 /\ k # 1
    <3>1. j - 1 \in DOMAIN s /\ k - 1 \in DOMAIN s /\ s[j - 1] = s[k - 1]
      BY <1>9, <2>3
    <3>2. j - 1 = k - 1
      BY <1>8, <3>1
    <3> QED BY <1>7, <3>2
  <2> QED BY <2>2, <2>3
<1>13. \A k \in DOMAIN t :
         d.handles[t[k]].link = IF k + 1 \in DOMAIN t THEN t[k + 1] ELSE IDX_MASK
  <2>. SUFFICES ASSUME NEW k \in 1 .. n + 1
                PROVE  d.handles[t[k]].link
                         = IF k + 1 \in 1 .. n + 1 THEN t[k + 1] ELSE IDX_MASK
    BY <1>9
  <2>1. CASE k = 1
    <3>1. d.handles[t[k]].link = c.free_head
      BY <1>6, <1>9, <2>1
    <3>2. c.free_head = IF n = 0 THEN IDX_MASK ELSE s[1]
      BY <1>7, <1>8 DEF Lists
    <3>3. 1 + 1 \in 1 .. n + 1 <=> n # 0
      BY <1>7
    <3>4. n # 0 => t[1 + 1] = s[1]
      BY <1>7, <1>9
    <3> QED BY <2>1, <3>1, <3>2, <3>3, <3>4
  <2>2. CASE k # 1
    <3>1. k - 1 \in 1 .. n /\ t[k] = s[k - 1]
      BY <1>9, <2>2
    <3>2. d.handles[t[k]].link = c.handles[s[k - 1]].link
      BY <1>6, <3>1
    <3>3. c.handles[s[k - 1]].link
            = IF (k - 1) + 1 \in DOMAIN s THEN s[(k - 1) + 1] ELSE IDX_MASK
      BY <1>8, <1>9, <3>1 DEF Lists
    <3>4. (k - 1) + 1 = k /\ (k + 1 \in 1 .. n + 1 <=> k \in 1 .. n)
      BY <1>7, <2>2
    <3>5. k \in 1 .. n => t[k + 1] = s[k]
      BY <1>9
    <3> QED BY <1>9, <3>2, <3>3, <3>4, <3>5
  <2> QED BY <2>1, <2>2
<1>14. Lists(d, t)
  BY <1>3, <1>5, <1>9, <1>13 DEF Lists
<1> QED BY <1>7, <1>10, <1>11, <1>12, <1>14

LEMMA ChainKept ==
    ASSUME CInv, Chain(cache), [Next]_vars
    PROVE  Chain(cache)'
<1>. SUFFICES Chain(cache')
  BY DEF Chain, Lists, Dead, Opened, ValidSlots
<1>1. CacheInv(cache)
  BY DEF CInv
<1>2. CASE CacheAdd \/ CacheEmplace
  <2>1. PICK item \in Items \cup {NoItem} : Stored(item)
    BY <1>2, WhatIsStored
  <2>2. cache' = Add(cache, item) /\ Resize(cache).capacity <= CapacityBound
    BY <2>1 DEF Stored, WithinBounds
  <2>3. CASE NoSlotLeft(Resize(cache))
    <3>1. cache' = Resize(cache)
      BY <2>2, <2>3 DEF Add
    <3> QED BY <1>1, <2>2, <3>1, ResizeKeeps, SameChain
  <2>4. CASE ~NoSlotLeft(Resize(cache))
    BY <1>1, <2>2, <2>4, AddChains
  <2> QED BY <2>3, <2>4
<1>3. ASSUME NEW h \in ClientHandles, CacheRemove(h)
      PROVE  Chain(cache')
  <2>1. cache' = Remove(cache, h) /\ h \in Handles \cup {NullHandle}
    BY <1>3 DEF CacheRemove, ClientHandles
  <2>2. CASE CheckHandle(cache, h)
    BY <1>1, <2>1, <2>2, RemoveChains
  <2>3. CASE ~CheckHandle(cache, h)
    BY <2>1, <2>3 DEF Remove
  <2> QED BY <2>2, <2>3
<1>4. CASE CacheUninit \/ CacheBegin \/ CacheItNext \/ CacheEnd
  BY <1>4 DEF CacheUninit, CacheBegin, CacheItNext, CacheEnd
<1>5. CASE UNCHANGED vars
  BY <1>5 DEF vars
<1> QED BY <1>2, <1>3, <1>4, <1>5 DEF Next

LEMMA ChainInvariant == Spec => []Chain(cache)
<1>1. ASSUME Init
      PROVE  Chain(cache)
  <2>1. cache.free_head = IDX_MASK /\ cache.max_used = 0
    BY <1>1 DEF Init, NewCache
  <2>2. \A i \in Slots : ~(i < 0)
    BY CacheAssumption DEF Slots
  <2>3. Dead(cache) = {} /\ Cardinality(Dead(cache)) = 0
    BY <2>1, <2>2, FS_EmptySet DEF Dead, Opened
  <2>. DEFINE s == [k \in 1 .. 0 |-> 0]
  <2>4. s \in [1 .. Cardinality(Dead(cache)) -> Dead(cache)] /\ DOMAIN s = {}
    BY <2>3
  <2>. HIDE DEF s
  <2>5. Lists(cache, s)
    BY <2>1, <2>3, <2>4 DEF Lists
  <2> QED BY <2>3, <2>4, <2>5 DEF Chain
<1> QED BY <1>1, ChainKept, Invariant, PTL DEF Spec

\* While the capacity is not too large, a call that may grow the cache gets a slot.
LEMMA SlotFound ==
    ASSUME NEW c, CacheInv(c), Chain(c), Resize(c).capacity <= MAX_CAPACITY
    PROVE  AddedHandle(c) # NullHandle
<1>. DEFINE r == Resize(c)
<1>1. /\ r.handles = c.handles /\ r.max_used = c.max_used /\ r.free_head = c.free_head
      /\ r.capacity = IF c.current_used = c.capacity THEN 2 * c.capacity ELSE c.capacity
  BY DEF Resize, CacheInv, CacheType
<1>. HIDE DEF r
<1>2. /\ c.max_used \in Nat /\ c.capacity \in Nat \ {0} /\ c.current_used \in Nat
      /\ c.max_used <= c.capacity /\ c.current_used <= c.capacity
  BY CacheBounds, CacheAssumption DEF CacheInv, CacheType, Counts
<1>3. ASSUME NoSlotLeft(r)
      PROVE  FALSE
  <2>1. FreeListEmpty(c) /\ c.max_used = r.capacity
    BY <1>1, <1>3 DEF NoSlotLeft, FreeListEmpty
  <2>2. r.capacity = c.capacity /\ c.current_used < c.capacity
    BY <1>1, <1>2, <2>1
  <2>3. c.max_used <= IDX_MASK - 1 /\ c.max_used <= IDX_MASK
    BY <1>2, <2>1, CacheAssumption DEF MAX_CAPACITY, r
  <2>4. PICK s \in [1 .. Cardinality(Dead(c)) -> Dead(c)] : Lists(c, s)
    BY <2>3 DEF Chain
  <2>5. Dead(c) = {}
    <3>1. Dead(c) # {} => 1 \in 1 .. Cardinality(Dead(c))
      BY DeadSlots
    <3>2. Dead(c) # {} => c.free_head \in Dead(c)
      BY <2>4, <3>1 DEF Lists
    <3> QED BY <2>1, <2>3, <3>2, DeadSlots DEF FreeListEmpty
  <2>6. ValidSlots(c) = 0 .. c.max_used - 1
    <3>1. ValidSlots(c) = Opened(c)
      BY <2>5 DEF Dead, Opened, ValidSlots
    <3>2. \A j : j \in Opened(c) <=> j \in 0 .. c.max_used - 1
      BY <1>2, <2>3, CacheAssumption DEF Opened, Slots
    <3> QED BY <3>1, <3>2
  <2>7. Cardinality(ValidSlots(c)) = c.max_used
    <3>1. 0 \in Int /\ c.max_used - 1 \in Int /\ (0 > c.max_used - 1 <=> c.max_used = 0)
      BY <1>2
    <3>2. Cardinality(0 .. c.max_used - 1)
            = IF 0 > c.max_used - 1 THEN 0 ELSE (c.max_used - 1) - 0 + 1
      BY <3>1, FS_Interval
    <3> QED BY <1>2, <2>6, <3>1, <3>2
  <2>8. c.current_used = c.max_used
    BY <2>7 DEF CacheInv, Counts
  <2> QED BY <1>2, <2>1, <2>2, <2>8
<1>4. NextKey(r) \in Keys
  <2>1. NextKey(r) = NextKey(c) /\ (FreeListEmpty(r) <=> FreeListEmpty(c))
    BY <1>1 DEF NextKey, FreeListEmpty
  <2>2. CASE FreeListEmpty(c)
    BY <2>1, <2>2, CacheAssumption DEF NextKey, Keys
  <2>3. CASE ~FreeListEmpty(c)
    BY <2>1, <2>3, NextSlotFree DEF NoSlotLeft
  <2> QED BY <2>2, <2>3
<1>5. AddedHandle(c).key = NextKey(r)
  BY <1>3 DEF AddedHandle, NextHandle, r
<1> QED BY <1>4, <1>5, CacheAssumption DEF NullHandle, Keys

\* The free list meets exactly the opened slots that hold no item, once each, the
\* counts agree with the slots, and the next cache_add gets one of them.
THEOREM SlotsCorrect == Spec => []SlotsAccounted
<1>1. ASSUME CInv, Chain(cache)
      PROVE  SlotsAccounted
  <2>1. CacheInv(cache) /\ FreeSlots = Dead(cache) /\ Live = ValidSlots(cache)
    BY <1>1 DEF CInv, FreeSlots, OpenedSlots, Live, Dead, Opened
  <2>2. TypeOK
    <3>1. CacheType(cache) /\ HistoryTypes /\ unvisited \subseteq Slots
      BY <1>1, <2>1 DEF CInv, CacheInv, Owed, ValidSlots
    <3> QED BY <3>1 DEF TypeOK, CacheType, HistoryTypes
  <2>3. ASSUME cache.max_used <= IDX_MASK
        PROVE  \E s \in [1 .. Cardinality(FreeSlots) -> FreeSlots] : FreeListIs(s)
    <3>1. PICK s \in [1 .. Cardinality(FreeSlots) -> FreeSlots] :
                 /\ \A i \in FreeSlots : \E k \in DOMAIN s : s[k] = i
                 /\ Lists(cache, s)
      BY <1>1, <2>1, <2>3 DEF Chain
    <3>2. {s[k] : k \in DOMAIN s} = FreeSlots
      BY <3>1
    <3>3. FreeListIs(s)
      BY <2>1, <3>1, <3>2 DEF FreeListIs, Lists
    <3> QED BY <3>3
  <2>4. cache.current_used = Cardinality(Live) /\ cache.max_used <= cache.capacity
    BY <2>1 DEF CacheInv, Counts
  <2>5. ASSUME Resize(cache).capacity <= MAX_CAPACITY
        PROVE  AddedHandle(cache) # NullHandle
    BY <1>1, <2>1, <2>5, SlotFound
  <2> QED BY <2>2, <2>3, <2>4, <2>5 DEF SlotsAccounted
<1> QED BY <1>1, Invariant, ChainInvariant, PTL

-----------------------------------------------------------------------------
(* The map that clients see.                                                 *)

InUse == IF freed THEN {} ELSE LiveHandles

Mapped == [h \in InUse |-> Get(cache, h)]

\* A handle in use stands for the item of its slot.
LEMMA LiveAnswered ==
    ASSUME NEW h \in LiveHandles
    PROVE  h.idx \in Live /\ CheckHandle(cache, h) /\ Get(cache, h) = cache.items[h.idx]
<1>1. PICK i \in Live : h = [key |-> cache.handles[i].key, idx |-> i]
  BY DEF LiveHandles
<1>2. CheckHandle(cache, h)
  BY <1>1 DEF Live, ValidSlots, CheckHandle
<1> QED BY <1>1, <1>2 DEF Get

\* Calls that leave handles and items in place change nothing of the map.
LEMMA SameMap ==
    ASSUME cache'.handles = cache.handles, cache'.items = cache.items,
           cache'.max_used = cache.max_used, freed' = freed
    PROVE  UNCHANGED Mapped
<1>1. LiveHandles' = LiveHandles
  BY DEF LiveHandles, Live, ValidSlots
<1>2. \A h : Get(cache, h)' = Get(cache, h)
  BY DEF Get, CheckHandle
<1> QED BY <1>1, <1>2 DEF Mapped, InUse

\* A new handle is none in use, and the others keep their items.
LEMMA StoredMaps ==
    ASSUME CInv, NEW item \in Items \cup {NoItem}, Stored(item), ~NoSlotLeft(Resize(cache))
    PROVE  AbstractCache!Add(item)
<1>. DEFINE h == AddedHandle(cache)
            i == h.idx
<1>1. /\ h \in Handles /\ i \in Slots
      /\ cache'.handles = [cache.handles EXCEPT ![i] = Entry(TRUE, h.key, i)]
      /\ cache'.items = [cache.items EXCEPT ![i] = item]
      /\ Live' = Live \cup {i} /\ i \notin Live
      /\ ~freed /\ freed' = freed
  BY StoredChanges
<1>. HIDE DEF h
<1>2. DOMAIN cache.handles = Slots /\ DOMAIN cache.items = Slots /\ Live \subseteq Slots
  BY DEF CInv, CacheInv, CacheType, Live, ValidSlots
<1>3. h = [key |-> h.key, idx |-> i]
  BY <1>1 DEF Handles
<1>4. /\ cache'.handles[i] = Entry(TRUE, h.key, i) /\ cache'.items[i] = item
      /\ \A j \in Live : cache'.handles[j] = cache.handles[j] /\ cache'.items[j] = cache.items[j]
  BY <1>1, <1>2
<1>5. LiveHandles' = LiveHandles \cup {h} /\ h \notin LiveHandles
  <2>1. LiveHandles' = {[key |-> cache'.handles[j].key, idx |-> j] : j \in Live'}
    BY DEF LiveHandles
  <2>2. [key |-> cache'.handles[i].key, idx |-> i] = h
    BY <1>3, <1>4 DEF Entry
  <2>3. \A j \in Live : [key |-> cache'.handles[j].key, idx |-> j]
                          = [key |-> cache.handles[j].key, idx |-> j]
    BY <1>4
  <2>4. LiveHandles' = LiveHandles \cup {h}
    <3>1. ASSUME NEW g
          PROVE  g \in LiveHandles' <=> g \in LiveHandles \/ g = h
      <4>1. g \in LiveHandles' <=> \E j \in Live' : g = [key |-> cache'.handles[j].key, idx |-> j]
        BY <2>1
      <4>2. g \in LiveHandles <=> \E j \in Live : g = [key |-> cache.handles[j].key, idx |-> j]
        BY DEF LiveHandles
      <4> QED BY <1>1, <2>2, <2>3, <4>1, <4>2
    <3> QED BY <3>1
  <2>5. h \notin LiveHandles
    BY <1>1, LiveAnswered
  <2> QED BY <2>4, <2>5
<1>6. \A g \in LiveHandles' : g.idx \in Live' /\ Get(cache, g)' = cache'.items[g.idx]
  <2>1. \A g \in LiveHandles' : \E j \in Live' : g = [key |-> cache'.handles[j].key, idx |-> j]
    BY DEF LiveHandles
  <2>2. \A j \in Live' : j < cache'.max_used /\ cache'.handles[j].valid
    BY DEF Live, ValidSlots
  <2> QED BY <2>1, <2>2 DEF Get, CheckHandle
<1>7. ASSUME NEW g \in LiveHandles'
      PROVE  Get(cache, g)' = IF g = h THEN item ELSE Mapped[g]
  <2>1. CASE g = h
    BY <1>4, <1>6, <2>1
  <2>2. CASE g # h
    <3>1. g \in LiveHandles
      BY <1>5, <2>2
    <3>2. g.idx \in Live /\ Get(cache, g) = cache.items[g.idx]
      BY <3>1, LiveAnswered
    <3>3. Mapped[g] = Get(cache, g)
      BY <1>1, <3>1 DEF Mapped, InUse
    <3> QED BY <1>4, <1>6, <2>2, <3>2, <3>3
  <2> QED BY <2>1, <2>2
<1>8. /\ DOMAIN Mapped = LiveHandles
      /\ Mapped' = [g \in LiveHandles' |-> Get(cache, g)']
  BY <1>1 DEF Mapped, InUse
<1>9. Mapped' = [g \in DOMAIN Mapped \cup {h} |-> IF g = h THEN item ELSE Mapped[g]]
  BY <1>5, <1>7, <1>8
<1>10. h \in Handles \ DOMAIN Mapped
  BY <1>1, <1>5, <1>8
<1> QED BY <1>9, <1>10 DEF AbstractCache!Add, Mapped, InUse

LEMMA RemoveMaps ==
    ASSUME CInv, NEW h \in ClientHandles, CacheRemove(h), CheckHandle(cache, h)
    PROVE  h \in Handles /\ AbstractCache!Remove(h)
<1>. DEFINE i == h.idx
<1>1. ~freed /\ freed' = freed /\ cache' = Remove(cache, h)
  BY DEF CacheRemove
<1>2. /\ h \in Handles /\ i \in Live /\ Live' = Live \ {i} /\ cache'.items = cache.items
      /\ \A j \in Slots : cache'.handles[j].key = cache.handles[j].key
  <2>1. h \in Handles \cup {NullHandle} /\ CacheInv(cache)
    BY DEF ClientHandles, CInv
  <2>2. LET d == Remove(cache, h) IN
        /\ h.idx \in ValidSlots(cache) /\ h \in Handles
        /\ ValidSlots(d) = ValidSlots(cache) \ {h.idx}
        /\ d.items = cache.items
        /\ \A j \in Slots : d.handles[j].key = cache.handles[j].key
    BY <2>1, RemoveKeeps
  <2> QED BY <1>1, <2>2 DEF Live
<1>3. h = [key |-> cache.handles[i].key, idx |-> i]
  BY <1>2 DEF CheckHandle, Handles
<1>4. LiveHandles' = LiveHandles \ {h}
  <2>1. Live \subseteq Slots
    BY DEF Live, ValidSlots
  <2>2. \A j \in Live : cache'.handles[j].key = cache.handles[j].key
    BY <1>2, <2>1
  <2>3. LiveHandles' = {[key |-> cache.handles[j].key, idx |-> j] : j \in Live'}
    BY <1>2, <2>2 DEF LiveHandles
  <2>4. \A j \in Live : [key |-> cache.handles[j].key, idx |-> j] = h <=> j = i
    BY <1>3
  <2> QED BY <1>2, <2>3, <2>4 DEF LiveHandles
<1>5. ASSUME NEW g \in LiveHandles'
      PROVE  Get(cache, g)' = Mapped[g]
  <2>1. g \in LiveHandles /\ g.idx \in Live /\ Get(cache, g) = cache.items[g.idx]
    BY <1>4, LiveAnswered
  <2>2. Get(cache, g)' = cache'.items[g.idx]
    <3>1. \E j \in Live' : g = [key |-> cache'.handles[j].key, idx |-> j]
      BY DEF LiveHandles
    <3>2. \A j \in Live' : j < cache'.max_used /\ cache'.handles[j].valid
      BY DEF Live, ValidSlots
    <3> QED BY <3>1, <3>2 DEF Get, CheckHandle
  <2>3. Mapped[g] = Get(cache, g)
    BY <1>1, <2>1 DEF Mapped, InUse
  <2> QED BY <1>2, <2>1, <2>2, <2>3
<1>6. DOMAIN Mapped = LiveHandles /\ Mapped' = [g \in LiveHandles' |-> Get(cache, g)']
  BY <1>1 DEF Mapped, InUse
<1>7. Mapped' = [g \in DOMAIN Mapped \ {h} |-> Mapped[g]]
  BY <1>4, <1>5, <1>6
<1> QED BY <1>2, <1>7 DEF AbstractCache!Remove, AbstractCache!Restrict, Mapped, InUse

\* Every step of the cache is one of the map, or leaves it alone.
LEMMA StepMaps ==
    ASSUME CInv, [Next]_vars
    PROVE  AbstractCache!Next \/ UNCHANGED Mapped
<1>1. CASE CacheAdd \/ CacheEmplace
  <2>1. PICK item \in Items \cup {NoItem} : Stored(item)
    BY <1>1, WhatIsStored
  <2>2. CASE NoSlotLeft(Resize(cache))
    BY <2>1, <2>2, NotStoredKeeps, SameMap
  <2>3. CASE ~NoSlotLeft(Resize(cache))
    BY <2>1, <2>3, StoredMaps DEF AbstractCache!Next
  <2> QED BY <2>2, <2>3
<1>2. ASSUME NEW h \in ClientHandles, CacheRemove(h)
      PROVE  AbstractCache!Next \/ UNCHANGED Mapped
  <2>1. CASE CheckHandle(cache, h)
    BY <1>2, <2>1, RemoveMaps DEF AbstractCache!Next
  <2>2. CASE ~CheckHandle(cache, h)
    <3>1. cache' = cache /\ freed' = freed
      BY <1>2, <2>2 DEF CacheRemove, Remove
    <3> QED BY <3>1, SameMap
  <2> QED BY <2>1, <2>2
<1>3. CASE CacheUninit
  <2>1. Mapped' \in [{} -> Items \cup {NoItem}]
    BY <1>3 DEF CacheUninit, Mapped, InUse
  <2> QED BY <2>1 DEF AbstractCache!Next, AbstractCache!Free, Mapped, InUse
<1>4. CASE CacheBegin \/ CacheItNext \/ CacheEnd
  BY <1>4, IterationKeeps, SameMap
<1>5. CASE UNCHANGED vars
  BY <1>5, SameMap DEF vars
<1> QED BY <1>1, <1>2, <1>3, <1>4, <1>5 DEF Next

\* The cache implements the map of handles to items.
THEOREM Refinement == Spec => ImplementsSlotMap
<1>1. Init => AbstractCache!Init
  <2>1. ASSUME Init
        PROVE  Mapped \in [{} -> Items \cup {NoItem}]
    <3>1. cache.max_used = 0 /\ \A i \in Slots : ~(i < 0)
      BY <2>1, CacheAssumption DEF Init, NewCache, Slots
    <3>2. Live = {}
      BY <3>1 DEF Live, ValidSlots
    <3> QED BY <3>2 DEF Mapped, InUse, LiveHandles
  <2> QED BY <2>1 DEF AbstractCache!Init, Mapped, InUse
<1>2. CInv /\ [Next]_vars => [AbstractCache!Next]_Mapped
  BY StepMaps
<1>3. [AbstractCache!Next]_Mapped
        => [AbstractCache!Next]_[h \in IF freed THEN {} ELSE LiveHandles |-> Get(cache, h)]
  BY DEF Mapped, InUse
<1> QED BY <1>1, <1>2, <1>3, Invariant, PTL DEF Spec, ImplementsSlotMap, AbstractCache!Spec

=============================================================================
