------------------------ MODULE ComponentCacheProofs ------------------------
(***************************************************************************)
(* The two caches of component_cache.c answer to the same handles, and the *)
(* locks in one keep the components in the other, for any threads.         *)
(***************************************************************************)
EXTENDS ComponentCache, FiniteSetTheorems, TLAPS

Opened(c) == {i \in Slots : i < c.max_used}

\* The opened slots that hold no item.
Dead(c) == Opened(c) \ ValidSlots(c)

\* The free list meets the n slots of s, in their order: all dead slots, each of them once.
Lists(c, n, s) ==
    /\ \A i \in Dead(c) : \E k \in 1 .. n : s[k] = i
    /\ \A j, k \in 1 .. n : s[j] = s[k] => j = k
    /\ c.free_head = IF n = 0 THEN IDX_MASK ELSE s[1]
    /\ \A k \in 1 .. n : c.handles[s[k]].link = IF k < n THEN s[k + 1] ELSE IDX_MASK

Chain(c) == \E n \in Nat : \E s \in [1 .. n -> Dead(c)] : Lists(c, n, s)

CacheInv(c) ==
    /\ c.current_used = Cardinality(ValidSlots(c))
    /\ c.current_used <= c.capacity
    /\ c.max_used <= c.capacity /\ c.max_used <= CapacityBound
    /\ \A i \in Opened(c) : c.handles[i].key \in Keys
    /\ Chain(c)

\* Of two caches that were given and lost the same, only the items differ.
Twins(c, d) ==
    /\ c.handles = d.handles /\ c.current_used = d.current_used /\ c.max_used = d.max_used
    /\ c.capacity = d.capacity /\ c.free_head = d.free_head

Emplacing == {t \in Threads : pc[t] = "emplace"}

Bounded == components.current_used + Cardinality(Emplacing) <= CapacityBound

Removing(t) == pc[t] \in {"remove", "remove_component"}

\* The handles that calls rely on are those of components.
Callers ==
    /\ \A t \in Threads :
         /\ held[t] => pc[t] \in {"idle", "emplace", "unget"}
         /\ pc[t] = "unget" => held[t]
         /\ held[t] \/ pc[t] = "get_component" \/ Removing(t) => CheckHandle(components, handle[t])
         /\ Removing(t) =>
              /\ write[t] /\ handle[t] \notin lookups
              /\ \A u \in Threads : Removing(u) /\ handle[u] = handle[t] => u = t
    /\ \A h \in lookups : CheckHandle(components, h)

Exclusive(l) == \A t \in l.writing : l.reading = {} /\ \A u \in l.writing : u = t

\* Who has the type lock between two steps.
TypeLock ==
    /\ \A t \in Threads :
         /\ t \in type_lock.reading <=>
              pc[t] = "get_component" \/ (pc[t] = "locked" /\ ~write[t])
         /\ t \in type_lock.writing <=>
              pc[t] = "remove_component" \/ (pc[t] = "locked" /\ write[t])
    /\ Exclusive(type_lock)

\* Who has the lock of a component.
LockOf(h) ==
    LET l == component_locks.items[h.idx] IN
    /\ l \in LockType
    /\ \A t \in Threads :
         /\ t \in l.reading <=> held[t] /\ handle[t] = h /\ ~write[t]
         /\ t \in l.writing <=> held[t] /\ handle[t] = h /\ write[t]
    /\ Exclusive(l)

Locks == \A h \in Handles : CheckHandle(components, h) => LockOf(h)

Calls == Bounded /\ Callers /\ TypeLock /\ Locks

CInv ==
    /\ TypeOK
    /\ CacheInv(components)
    /\ Twins(components, component_locks)
    /\ Calls

-----------------------------------------------------------------------------
(* The operations on a cache.                                                *)

LEMMA Numbers ==
  /\ IDX_MASK \in Nat \ {0} /\ MAX_GENERATIONS \in Nat \ {0}
  /\ CapacityBound \in Nat \ {0} /\ CapacityBound < IDX_MASK
BY CacheAssumption, ComponentCacheAssumption DEF MAX_CAPACITY

LEMMA SlotsFinite ==
  ASSUME NEW c
  PROVE  IsFiniteSet(Opened(c)) /\ IsFiniteSet(ValidSlots(c))
<1>1. 0 \in Int /\ IDX_MASK \in Int
  BY Numbers
<1>2. IsFiniteSet(Slots)
  BY <1>1, FS_Interval DEF Slots
<1> QED
  BY <1>2, FS_Subset DEF ValidSlots, Opened

LEMMA Fields ==
  ASSUME NEW S, NEW c \in CacheType(S)
  PROVE  /\ c.handles \in [Slots -> [valid : BOOLEAN, key : Keys \cup {MAX_GENERATIONS},
                                     link : Slots]]
         /\ c.items \in [Slots -> S \cup {NoItem}]
         /\ c.current_used \in Nat /\ c.max_used \in Nat /\ c.capacity \in Nat \ {0}
         /\ c.free_head \in Slots
         /\ c = [handles |-> c.handles, items |-> c.items, current_used |-> c.current_used,
                 max_used |-> c.max_used, capacity |-> c.capacity, free_head |-> c.free_head]
BY Numbers DEF CacheType

\* What is on the free list is opened; and if there is nothing on it, every opened slot is in use.
LEMMA FreeHead ==
  ASSUME NEW S, NEW c \in CacheType(S), CacheInv(c)
  PROVE  /\ FreeListEmpty(c) => Opened(c) = ValidSlots(c) /\ c.max_used = c.current_used
         /\ ~FreeListEmpty(c) => c.free_head \in Dead(c)
<1>0. PICK n \in Nat : \E s \in [1 .. n -> Dead(c)] : Lists(c, n, s)
  BY DEF CacheInv, Chain
<1>1. PICK s \in [1 .. n -> Dead(c)] : Lists(c, n, s)
  BY <1>0
<1>2. \A i \in Dead(c) : i # IDX_MASK
  BY Fields, Numbers DEF CacheInv, Dead, Opened, Slots
<1>3. n # 0 => s[1] \in Dead(c)
  BY <1>1
<1>4. ASSUME FreeListEmpty(c)
      PROVE  Opened(c) = ValidSlots(c) /\ c.max_used = c.current_used
  <2>1. n = 0
    BY <1>1, <1>2, <1>3, <1>4 DEF Lists, FreeListEmpty
  <2>2. Dead(c) = {}
    BY <1>1, <2>1 DEF Lists
  <2>3. Opened(c) = ValidSlots(c)
    BY <2>2 DEF Dead, Opened, ValidSlots
  <2>4. Opened(c) = 0 .. c.max_used - 1
    BY Fields, Numbers DEF CacheInv, Opened, Slots
  <2>5. Cardinality(Opened(c)) = c.max_used
    <3>1. c.max_used \in Nat
      BY Fields
    <3>2. 0 \in Int /\ c.max_used - 1 \in Int
      BY <3>1
    <3>3. Cardinality(0 .. c.max_used - 1)
            = IF 0 > c.max_used - 1 THEN 0 ELSE (c.max_used - 1) - 0 + 1
      BY <3>2, FS_Interval
    <3> QED
      BY <2>4, <3>1, <3>3
  <2> QED
    BY <2>3, <2>5 DEF CacheInv
<1>5. ~FreeListEmpty(c) => c.free_head \in Dead(c)
  BY <1>1, <1>3 DEF Lists, FreeListEmpty
<1> QED
  BY <1>4, <1>5

\* What becomes of a cache to which an item is added.
Added(c, item) ==
    LET a == Add(c, item)
        h == AddedHandle(c)
        r == Resize(c)
    IN  /\ h \in Handles /\ h.idx \in Slots \ ValidSlots(c) /\ h.key \in Keys
        /\ h.idx = IF FreeListEmpty(c) THEN c.max_used ELSE c.free_head
        /\ a.handles = [c.handles EXCEPT ![h.idx] = Entry(TRUE, h.key, h.idx)]
        /\ a.items = [c.items EXCEPT ![h.idx] = item]
        /\ a.current_used = c.current_used + 1
        /\ a.max_used = IF FreeListEmpty(c) THEN c.max_used + 1 ELSE c.max_used
        /\ a.capacity = r.capacity /\ c.current_used < r.capacity
        /\ r.capacity \in 1 .. 2 * CapacityBound /\ c.max_used <= r.capacity
        /\ a.free_head = FreeHeadAfterTake(c) /\ a.free_head \in Slots
        /\ a = [handles |-> a.handles, items |-> a.items, current_used |-> a.current_used,
                max_used |-> a.max_used, capacity |-> a.capacity, free_head |-> a.free_head]

\* A new item gets a slot that is not in use.
LEMMA AddChanges ==
  ASSUME NEW S, NEW c \in CacheType(S), CacheInv(c), c.current_used < CapacityBound, NEW item \in S
  PROVE  Added(c, item)
<1> DEFINE a == Add(c, item)
           h == AddedHandle(c)
           r == Resize(c)
<1>1. /\ r.handles = c.handles /\ r.items = c.items /\ r.max_used = c.max_used
      /\ r.free_head = c.free_head /\ r.current_used = c.current_used
      /\ r.capacity = IF c.current_used = c.capacity THEN 2 * c.capacity ELSE c.capacity
      /\ r = [handles |-> r.handles, items |-> r.items, current_used |-> r.current_used,
              max_used |-> r.max_used, capacity |-> r.capacity, free_head |-> r.free_head]
  BY Fields DEF Resize
<1>2. /\ c.current_used \in Nat /\ c.max_used \in Nat /\ c.capacity \in 1 .. 2 * CapacityBound
      /\ c.current_used <= c.capacity /\ c.max_used <= c.capacity /\ c.max_used <= CapacityBound
  BY Fields DEF CacheInv, CacheType
<1>3. /\ c.current_used < r.capacity /\ c.max_used <= r.capacity
      /\ r.capacity \in 1 .. 2 * CapacityBound
  BY <1>1, <1>2, Numbers
<1>4. FreeListEmpty(r) <=> FreeListEmpty(c)
  BY <1>1 DEF FreeListEmpty
<1>5. ~NoSlotLeft(r)
  BY <1>1, <1>2, <1>3, <1>4, FreeHead DEF NoSlotLeft
<1>6. h = [key |-> NextKey(r), idx |-> NextSlot(r)]
  BY <1>5 DEF AddedHandle, NextHandle
<1>7. a = [Take(r) EXCEPT !.items[NextSlot(r)] = item, !.current_used = @ + 1]
  BY <1>5 DEF Add
<1>8. Take(r) = [r EXCEPT !.handles[NextSlot(r)] = Entry(TRUE, NextKey(r), NextSlot(r)),
                          !.free_head = FreeHeadAfterTake(r),
                          !.max_used = IF FreeListEmpty(r) THEN @ + 1 ELSE @]
  BY <1>5 DEF Take
<1>9. FreeHeadAfterTake(r) = FreeHeadAfterTake(c)
  BY <1>1, <1>4 DEF FreeHeadAfterTake
<1>10. /\ NextSlot(r) = IF FreeListEmpty(c) THEN c.max_used ELSE c.free_head
       /\ NextKey(r) = IF FreeListEmpty(c) THEN 0 ELSE KeyAfter(c.handles[c.free_head].key)
  BY <1>1, <1>4 DEF NextSlot, NextKey
<1>11. /\ NextSlot(r) \in Slots \ ValidSlots(c) /\ NextKey(r) \in Keys
       /\ FreeHeadAfterTake(c) \in Slots
  <2>1. CASE FreeListEmpty(c)
    BY <1>2, <1>10, <2>1, Fields, Numbers DEF Slots, Keys, ValidSlots, FreeHeadAfterTake
  <2>2. CASE ~FreeListEmpty(c)
    <3>1. c.free_head \in Dead(c) /\ c.free_head \in Slots /\ c.handles[c.free_head].key \in Keys
      BY <2>2, FreeHead DEF Dead, Opened, CacheInv
    <3>2. KeyAfter(c.handles[c.free_head].key) \in Keys
      BY <3>1, Numbers DEF KeyAfter, Keys
    <3>3. c.handles[c.free_head].link \in Slots
      BY <3>1, Fields
    <3> QED
      BY <1>10, <2>2, <3>1, <3>2, <3>3 DEF Dead, FreeHeadAfterTake
  <2> QED
    BY <2>1, <2>2
<1>12. h \in Handles /\ h.idx = NextSlot(r) /\ h.key = NextKey(r)
  BY <1>6, <1>11 DEF Handles
<1> HIDE DEF a, h, r
<1>13. /\ a.handles = [c.handles EXCEPT ![h.idx] = Entry(TRUE, h.key, h.idx)]
       /\ a.items = [c.items EXCEPT ![h.idx] = item]
       /\ a.current_used = c.current_used + 1
       /\ a.max_used = IF FreeListEmpty(c) THEN c.max_used + 1 ELSE c.max_used
       /\ a.capacity = r.capacity
       /\ a.free_head = FreeHeadAfterTake(c)
       /\ a = [handles |-> a.handles, items |-> a.items, current_used |-> a.current_used,
               max_used |-> a.max_used, capacity |-> a.capacity, free_head |-> a.free_head]
  BY <1>1, <1>4, <1>7, <1>8, <1>9, <1>12
<1> QED
  BY <1>3, <1>10, <1>11, <1>12, <1>13 DEF Added, a, h, r

LEMMA AddKeeps ==
  ASSUME NEW S, NEW c \in CacheType(S), CacheInv(c), c.current_used < CapacityBound, NEW item \in S
  PROVE  LET a == Add(c, item)
             h == AddedHandle(c)
         IN  /\ a \in CacheType(S) /\ CacheInv(a)
             /\ h \in Handles /\ h.idx \notin ValidSlots(c)
             /\ a.items = [c.items EXCEPT ![h.idx] = item]
             /\ a.current_used = c.current_used + 1
             /\ CheckHandle(a, h)
             /\ \A g \in Handles \cup {NullHandle} :
                  CheckHandle(a, g) <=> CheckHandle(c, g) \/ g = h
<1> DEFINE a == Add(c, item)
           h == AddedHandle(c)
           r == Resize(c)
<1>0. /\ h \in Handles /\ h.idx \in Slots \ ValidSlots(c) /\ h.key \in Keys
      /\ h.idx = IF FreeListEmpty(c) THEN c.max_used ELSE c.free_head
      /\ a.handles = [c.handles EXCEPT ![h.idx] = Entry(TRUE, h.key, h.idx)]
      /\ a.items = [c.items EXCEPT ![h.idx] = item]
      /\ a.current_used = c.current_used + 1
      /\ a.max_used = IF FreeListEmpty(c) THEN c.max_used + 1 ELSE c.max_used
      /\ a.capacity = r.capacity /\ c.current_used < r.capacity
      /\ r.capacity \in 1 .. 2 * CapacityBound /\ c.max_used <= r.capacity
      /\ a.free_head = FreeHeadAfterTake(c) /\ a.free_head \in Slots
      /\ a = [handles |-> a.handles, items |-> a.items, current_used |-> a.current_used,
              max_used |-> a.max_used, capacity |-> a.capacity, free_head |-> a.free_head]
  <2>1. Added(c, item)
    BY AddChanges
  <2> QED
    BY <2>1 DEF Added
<1> DEFINE i == h.idx
<1>1. /\ h \in Handles /\ i \in Slots \ ValidSlots(c) /\ h.key \in Keys
      /\ IF FreeListEmpty(c) THEN i = c.max_used ELSE i = c.free_head
      /\ a.handles = [c.handles EXCEPT ![i] = Entry(TRUE, h.key, i)]
      /\ a.items = [c.items EXCEPT ![i] = item]
      /\ a.current_used = c.current_used + 1
      /\ a.max_used = IF FreeListEmpty(c) THEN c.max_used + 1 ELSE c.max_used
      /\ a.capacity = r.capacity /\ c.current_used < r.capacity
      /\ r.capacity \in 1 .. 2 * CapacityBound /\ c.max_used <= r.capacity
      /\ a.free_head = FreeHeadAfterTake(c) /\ a.free_head \in Slots
      /\ a = [handles |-> a.handles, items |-> a.items, current_used |-> a.current_used,
              max_used |-> a.max_used, capacity |-> a.capacity, free_head |-> a.free_head]
  BY <1>0
<1>2. /\ c.current_used \in Nat /\ c.max_used \in Nat
      /\ c.max_used <= c.capacity /\ c.max_used <= CapacityBound
      /\ FreeListEmpty(c) => Opened(c) = ValidSlots(c) /\ c.max_used = c.current_used
      /\ ~FreeListEmpty(c) => c.free_head \in Dead(c)
  BY Fields, FreeHead DEF CacheInv
<1> HIDE DEF a, h, r, i
<1>3. /\ a.max_used \in Nat /\ a.max_used <= CapacityBound /\ a.max_used <= a.capacity
      /\ a.current_used \in Nat /\ a.current_used <= CapacityBound
      /\ a.current_used <= a.capacity
  BY <1>1, <1>2, Numbers
<1>4. \A j \in Slots : a.handles[j] = IF j = i THEN Entry(TRUE, h.key, i) ELSE c.handles[j]
  BY <1>1, Fields
<1>5. a \in CacheType(S)
  <2>1. a.handles \in [Slots -> [valid : BOOLEAN, key : Keys \cup {MAX_GENERATIONS}, link : Slots]]
    BY <1>1, Fields DEF Entry
  <2>2. a.items \in [Slots -> S \cup {NoItem}]
    BY <1>1, Fields
  <2>3. a.current_used \in 0 .. IDX_MASK /\ a.max_used \in 0 .. IDX_MASK
    BY <1>3, Numbers
  <2> QED
    BY <1>1, <2>1, <2>2, <2>3 DEF CacheType
<1>6. Opened(a) = Opened(c) \cup {i} /\ i \in Slots
  BY <1>1, <1>2, Numbers DEF Opened, Dead, Slots
<1>7. ValidSlots(a) = ValidSlots(c) \cup {i}
  BY <1>4, <1>6 DEF ValidSlots, Opened, Entry
<1>8. Dead(a) = Dead(c) \ {i}
  BY <1>6, <1>7 DEF Dead
<1>9. a.current_used = Cardinality(ValidSlots(a))
  BY <1>1, <1>7, SlotsFinite, FS_AddElement DEF CacheInv
<1>10. \A j \in Opened(a) : a.handles[j].key \in Keys
  BY <1>1, <1>4, <1>6 DEF CacheInv, Entry, Opened
<1>11. \A j \in Dead(a) : a.handles[j] = c.handles[j]
  BY <1>4, <1>8 DEF Dead, Opened
<1>12. Chain(a)
  <2>1. PICK n \in Nat : \E s \in [1 .. n -> Dead(c)] : Lists(c, n, s)
    BY DEF CacheInv, Chain
  <2>2. PICK s \in [1 .. n -> Dead(c)] : Lists(c, n, s)
    BY <2>1
  <2>3. CASE FreeListEmpty(c)
    <3>1. Dead(a) = Dead(c) /\ a.free_head = c.free_head
      BY <1>1, <1>2, <1>8, <2>3 DEF FreeHeadAfterTake, Dead
    <3>2. Lists(a, n, s)
      BY <1>11, <2>2, <3>1 DEF Lists
    <3> QED
      BY <2>2, <3>1, <3>2 DEF Chain
  <2>4. CASE ~FreeListEmpty(c)
    <3>1. n # 0 /\ i = s[1] /\ i \in Dead(c)
      BY <1>1, <1>2, <2>2, <2>4 DEF Lists, FreeListEmpty
    <3>2. n - 1 \in Nat /\ \A k \in 1 .. n - 1 : k + 1 \in 1 .. n /\ k + 1 # 1
      BY <2>2, <3>1
    <3>3. PICK z \in [1 .. n - 1 -> Slots] : z = [k \in 1 .. n - 1 |-> s[k + 1]]
      BY <2>2, <3>2 DEF Dead, Opened
    <3>4. \A k \in 1 .. n - 1 : z[k] = s[k + 1] /\ z[k] \in Dead(a)
      BY <1>8, <2>2, <3>1, <3>2, <3>3 DEF Lists
    <3>5. z \in [1 .. n - 1 -> Dead(a)]
      BY <3>3, <3>4
    <3>6. \A j \in Dead(a) : \E k \in 1 .. n - 1 : z[k] = j
      <4>1. SUFFICES ASSUME NEW j \in Dead(a)
                     PROVE  \E k \in 1 .. n - 1 : z[k] = j
        OBVIOUS
      <4>2. PICK k \in 1 .. n : s[k] = j
        BY <1>8, <2>2 DEF Lists
      <4>3. k # 1
        BY <1>8, <3>1, <4>2
      <4>4. k - 1 \in 1 .. n - 1 /\ (k - 1) + 1 = k
        BY <2>1, <4>3
      <4> QED
        BY <3>4, <4>2, <4>4
    <3>7. \A j, k \in 1 .. n - 1 : z[j] = z[k] => j = k
      <4>1. SUFFICES ASSUME NEW j \in 1 .. n - 1, NEW k \in 1 .. n - 1, z[j] = z[k]
                     PROVE  j = k
        OBVIOUS
      <4>2. j + 1 = k + 1
        BY <2>2, <3>2, <3>4, <4>1 DEF Lists
      <4> QED
        BY <4>2
    <3>8. a.free_head = IF n - 1 = 0 THEN IDX_MASK ELSE z[1]
      <4>1. a.free_head = c.handles[s[1]].link
        BY <1>1, <2>4, <3>1 DEF FreeHeadAfterTake
      <4>2. c.handles[s[1]].link = IF 1 < n THEN s[1 + 1] ELSE IDX_MASK
        BY <2>1, <2>2, <3>1 DEF Lists
      <4>3. n - 1 # 0 => 1 \in 1 .. n - 1 /\ 1 < n
        BY <2>1, <3>1
      <4>4. n - 1 = 0 => ~(1 < n)
        BY <2>1
      <4> QED
        BY <3>4, <4>1, <4>2, <4>3, <4>4
    <3>9. \A k \in 1 .. n - 1 :
            a.handles[z[k]].link = IF k < n - 1 THEN z[k + 1] ELSE IDX_MASK
      <4>1. SUFFICES ASSUME NEW k \in 1 .. n - 1
                     PROVE  a.handles[z[k]].link = IF k < n - 1 THEN z[k + 1] ELSE IDX_MASK
        OBVIOUS
      <4>2. a.handles[z[k]] = c.handles[s[k + 1]]
        BY <1>11, <3>4
      <4>3. c.handles[s[k + 1]].link = IF k + 1 < n THEN s[(k + 1) + 1] ELSE IDX_MASK
        BY <2>2, <3>2 DEF Lists
      <4>4. (k + 1 < n <=> k < n - 1) /\ (k < n - 1 => k + 1 \in 1 .. n - 1)
        BY <2>1
      <4> QED
        BY <3>4, <4>2, <4>3, <4>4
    <3>10. Lists(a, n - 1, z)
      BY <3>6, <3>7, <3>8, <3>9 DEF Lists
    <3> QED
      BY <3>2, <3>5, <3>10 DEF Chain
  <2> QED
    BY <2>3, <2>4
<1>13. CacheInv(a)
  BY <1>3, <1>9, <1>10, <1>12 DEF CacheInv
<1>14. ASSUME NEW g \in Handles \cup {NullHandle}
       PROVE  CheckHandle(a, g) <=> CheckHandle(c, g) \/ g = h
  <2>1. g.idx \in Slots /\ g = [key |-> g.key, idx |-> g.idx]
    BY Numbers DEF Handles, NullHandle, Slots
  <2>2. h = [key |-> h.key, idx |-> i] /\ h.idx = i
    BY <1>1 DEF Handles, i
  <2>3. CheckHandle(c, g) <=> g.idx \in ValidSlots(c) /\ c.handles[g.idx].key = g.key
    BY <2>1 DEF CheckHandle, ValidSlots
  <2>4. CheckHandle(a, g) <=> g.idx \in ValidSlots(a) /\ a.handles[g.idx].key = g.key
    BY <2>1 DEF CheckHandle, ValidSlots
  <2>5. CASE g.idx = i
    BY <1>1, <1>4, <1>6, <1>7, <2>1, <2>2, <2>3, <2>4, <2>5 DEF Entry
  <2>6. CASE g.idx # i
    BY <1>4, <1>7, <2>1, <2>2, <2>3, <2>4, <2>6
  <2> QED
    BY <2>5, <2>6
<1>15. CheckHandle(a, h)
  BY <1>1, <1>14
<1> QED
  BY <1>1, <1>5, <1>13, <1>14, <1>15 DEF a, h, i

\* A removed slot is the first of the free list, and its handle is none any more.
LEMMA RemoveKeeps ==
  ASSUME NEW S, NEW c \in CacheType(S), CacheInv(c), NEW h \in Handles, CheckHandle(c, h)
  PROVE  LET d == Remove(c, h)
         IN  /\ d \in CacheType(S) /\ CacheInv(d)
             /\ d.items = c.items
             /\ c.current_used \in Nat \ {0} /\ d.current_used = c.current_used - 1
             /\ \A g \in Handles \cup {NullHandle} :
                  CheckHandle(d, g) <=> CheckHandle(c, g) /\ g # h
<1> DEFINE d == Remove(c, h)
           i == h.idx
<1>1. i \in Slots /\ i \in ValidSlots(c) /\ i \in Opened(c) /\ c.handles[i].key = h.key
  BY DEF CheckHandle, ValidSlots, Opened, Handles
<1>2. LinkAfterRemove(c) = c.free_head
  BY DEF LinkAfterRemove, FreeListEmpty
<1>3. d = [c EXCEPT !.handles[i] = Entry(FALSE, @.key, c.free_head),
                    !.free_head = i, !.current_used = @ - 1]
  BY <1>2 DEF Remove
<1>4. /\ c.handles \in [Slots -> [valid : BOOLEAN, key : Keys \cup {MAX_GENERATIONS},
                                  link : Slots]]
      /\ c.current_used \in Nat /\ c.max_used \in Nat /\ c.capacity \in Nat /\ c.free_head \in Slots
      /\ c = [handles |-> c.handles, items |-> c.items, current_used |-> c.current_used,
              max_used |-> c.max_used, capacity |-> c.capacity, free_head |-> c.free_head]
  BY Fields
<1> HIDE DEF d, i
<1>5. /\ d.handles = [c.handles EXCEPT ![i] = Entry(FALSE, c.handles[i].key, c.free_head)]
      /\ d.items = c.items /\ d.max_used = c.max_used /\ d.capacity = c.capacity
      /\ d.current_used = c.current_used - 1 /\ d.free_head = i
      /\ d = [handles |-> d.handles, items |-> d.items, current_used |-> d.current_used,
              max_used |-> d.max_used, capacity |-> d.capacity, free_head |-> d.free_head]
  BY <1>3, <1>4
<1>6. \A j \in Slots : d.handles[j] = IF j = i THEN Entry(FALSE, c.handles[i].key, c.free_head)
                                               ELSE c.handles[j]
  BY <1>1, <1>4, <1>5
<1>7. Opened(d) = Opened(c)
  BY <1>5 DEF Opened
<1>8. ValidSlots(d) = ValidSlots(c) \ {i}
  BY <1>1, <1>5, <1>6 DEF ValidSlots, Entry
<1>9. Dead(d) = Dead(c) \cup {i} /\ i \notin Dead(c)
  BY <1>1, <1>7, <1>8 DEF Dead
<1>10. /\ Cardinality(ValidSlots(d)) = Cardinality(ValidSlots(c)) - 1
       /\ Cardinality(ValidSlots(d)) \in Nat
  BY <1>1, <1>8, SlotsFinite, FS_RemoveElement, FS_CardinalityType
<1>11. /\ d.current_used = Cardinality(ValidSlots(d)) /\ d.current_used \in Nat
       /\ c.current_used \in Nat \ {0}
  BY <1>4, <1>5, <1>10 DEF CacheInv
<1>12. d \in CacheType(S)
  <2>1. d.handles \in [Slots -> [valid : BOOLEAN, key : Keys \cup {MAX_GENERATIONS}, link : Slots]]
    BY <1>1, <1>4, <1>5 DEF Entry
  <2>2. d.current_used \in 0 .. IDX_MASK
    BY <1>5, <1>11, Numbers DEF CacheType
  <2> QED
    BY <1>1, <1>5, <2>1, <2>2 DEF CacheType
<1>13. \A j \in Opened(d) : d.handles[j].key \in Keys
  BY <1>6, <1>7 DEF CacheInv, Entry, Opened
<1>14. Chain(d)
  <2>1. PICK n \in Nat : \E s \in [1 .. n -> Dead(c)] : Lists(c, n, s)
    BY DEF CacheInv, Chain
  <2>2. PICK s \in [1 .. n -> Dead(c)] : Lists(c, n, s)
    BY <2>1
  <2>3. n + 1 \in Nat /\ \A k \in 1 .. n + 1 : k # 1 => k - 1 \in 1 .. n
    BY <2>1
  <2>4. \A k \in 1 .. n : s[k] \in Dead(c) /\ s[k] \in Slots /\ s[k] # i
    BY <1>9, <2>2 DEF Dead, Opened
  <2>5. PICK z \in [1 .. n + 1 -> Slots] :
          z = [k \in 1 .. n + 1 |-> IF k = 1 THEN i ELSE s[k - 1]]
    BY <1>1, <2>3, <2>4
  <2>6. z[1] = i /\ \A k \in 1 .. n + 1 : k # 1 => z[k] = s[k - 1]
    BY <2>1, <2>5
  <2>7. \A k \in 1 .. n : k + 1 \in 1 .. n + 1 /\ z[k + 1] = s[k]
    BY <2>1, <2>6
  <2>8. z \in [1 .. n + 1 -> Dead(d)]
    BY <1>9, <2>3, <2>4, <2>5
  <2>9. \A j \in Dead(d) : \E k \in 1 .. n + 1 : z[k] = j
    <3>1. 1 \in 1 .. n + 1
      BY <2>1
    <3>2. \A j \in Dead(c) : \E k \in 1 .. n : s[k] = j
      BY <2>2 DEF Lists
    <3> QED
      BY <1>9, <2>6, <2>7, <3>1, <3>2
  <2>10. \A j, k \in 1 .. n + 1 : z[j] = z[k] => j = k
    <3>1. SUFFICES ASSUME NEW j \in 1 .. n + 1, NEW k \in 1 .. n + 1, z[j] = z[k]
                   PROVE  j = k
      OBVIOUS
    <3>2. CASE j = 1 \/ k = 1
      BY <2>3, <2>4, <2>6, <3>1, <3>2
    <3>3. CASE j # 1 /\ k # 1
      <4>1. j - 1 = k - 1
        BY <2>2, <2>3, <2>6, <3>1, <3>3 DEF Lists
      <4> QED
        BY <4>1
    <3> QED
      BY <3>2, <3>3
  <2>11. d.free_head = IF n + 1 = 0 THEN IDX_MASK ELSE z[1]
    BY <1>5, <2>1, <2>6
  <2>12. \A k \in 1 .. n + 1 :
           d.handles[z[k]].link = IF k < n + 1 THEN z[k + 1] ELSE IDX_MASK
    <3>1. SUFFICES ASSUME NEW k \in 1 .. n + 1
                   PROVE  d.handles[z[k]].link = IF k < n + 1 THEN z[k + 1] ELSE IDX_MASK
      OBVIOUS
    <3>2. CASE k = 1
      <4>1. d.handles[z[k]].link = c.free_head
        BY <1>1, <1>6, <2>6, <3>2 DEF Entry
      <4>2. c.free_head = IF n = 0 THEN IDX_MASK ELSE s[1]
        BY <2>2 DEF Lists
      <4>3. n # 0 => 1 \in 1 .. n /\ 1 < n + 1
        BY <2>1
      <4>4. n = 0 => ~(1 < n + 1)
        OBVIOUS
      <4> QED
        BY <2>7, <3>2, <4>1, <4>2, <4>3, <4>4
    <3>3. CASE k # 1
      <4>1. k - 1 \in 1 .. n /\ z[k] = s[k - 1]
        BY <2>3, <2>6, <3>3
      <4>2. d.handles[z[k]] = c.handles[s[k - 1]]
        BY <1>6, <2>4, <4>1
      <4>3. c.handles[s[k - 1]].link = IF k - 1 < n THEN s[(k - 1) + 1] ELSE IDX_MASK
        BY <2>2, <4>1 DEF Lists
      <4>4. (k - 1 < n <=> k < n + 1) /\ (k - 1) + 1 = k /\ (k < n + 1 => k \in 1 .. n)
        BY <2>1
      <4> QED
        BY <2>7, <4>2, <4>3, <4>4
    <3> QED
      BY <3>2, <3>3
  <2>13. Lists(d, n + 1, z)
    BY <2>9, <2>10, <2>11, <2>12 DEF Lists
  <2> QED
    BY <2>3, <2>8, <2>13 DEF Chain
<1>15. CacheInv(d)
  <2>1. d.current_used <= d.capacity
    BY <1>4, <1>5 DEF CacheInv
  <2> QED
    BY <1>5, <1>11, <1>13, <1>14, <2>1 DEF CacheInv
<1>16. ASSUME NEW g \in Handles \cup {NullHandle}
       PROVE  CheckHandle(d, g) <=> CheckHandle(c, g) /\ g # h
  <2>1. g.idx \in Slots /\ g = [key |-> g.key, idx |-> g.idx]
    BY Numbers DEF Handles, NullHandle, Slots
  <2>2. h = [key |-> h.key, idx |-> i] /\ h.idx = i
    BY DEF Handles, i
  <2>3. CheckHandle(c, g) <=> g.idx \in ValidSlots(c) /\ c.handles[g.idx].key = g.key
    BY <2>1 DEF CheckHandle, ValidSlots
  <2>4. CheckHandle(d, g) <=> g.idx \in ValidSlots(d) /\ d.handles[g.idx].key = g.key
    BY <2>1 DEF CheckHandle, ValidSlots
  <2>5. CASE g.idx = i
    BY <1>1, <1>8, <2>1, <2>2, <2>3, <2>4, <2>5
  <2>6. CASE g.idx # i
    BY <1>6, <1>8, <2>1, <2>2, <2>3, <2>4, <2>6
  <2> QED
    BY <2>5, <2>6
<1> QED
  BY <1>5, <1>11, <1>12, <1>15, <1>16 DEF d

\* What holds of a cache without its items holds of its twin.
LEMMA TwinsSound ==
  ASSUME NEW c, NEW d, Twins(c, d), CacheInv(c)
  PROVE  CacheInv(d)
<1>1. /\ c.handles = d.handles /\ c.current_used = d.current_used /\ c.max_used = d.max_used
      /\ c.capacity = d.capacity /\ c.free_head = d.free_head
  BY DEF Twins
<1>2. ValidSlots(c) = ValidSlots(d) /\ Opened(c) = Opened(d) /\ Dead(c) = Dead(d)
  BY <1>1 DEF ValidSlots, Opened, Dead
<1>3. ASSUME NEW n, NEW s, Lists(c, n, s)
      PROVE  Lists(d, n, s)
  BY <1>1, <1>2, <1>3, Zenon DEF Lists
<1>4. Chain(d)
  BY <1>2, <1>3, Zenon DEF CacheInv, Chain
<1> QED
  BY <1>1, <1>2, <1>4, Zenon DEF CacheInv

\* Twins stay twins.
LEMMA TwinsAdd ==
  ASSUME NEW S, NEW T, NEW c \in CacheType(S), NEW d \in CacheType(T), Twins(c, d),
         CacheInv(c), c.current_used < CapacityBound, NEW x \in S, NEW y \in T
  PROVE  /\ CacheInv(d)
         /\ AddedHandle(c) = AddedHandle(d) /\ Twins(Add(c, x), Add(d, y))
<1>1. /\ c.handles = d.handles /\ c.current_used = d.current_used /\ c.max_used = d.max_used
      /\ c.capacity = d.capacity /\ c.free_head = d.free_head
  BY DEF Twins
<1>2. CacheInv(d)
  BY TwinsSound
<1>3. Added(c, x) /\ Added(d, y)
  BY <1>1, <1>2, AddChanges
<1>4. FreeListEmpty(c) <=> FreeListEmpty(d)
  BY <1>1 DEF FreeListEmpty
<1>5. AddedHandle(c) = AddedHandle(d) /\ Resize(c).capacity = Resize(d).capacity
  <2>1. /\ Resize(c).handles = Resize(d).handles /\ Resize(c).max_used = Resize(d).max_used
        /\ Resize(c).free_head = Resize(d).free_head
        /\ Resize(c).capacity = Resize(d).capacity
    BY <1>1, Fields DEF Resize
  <2>2. FreeListEmpty(Resize(c)) <=> FreeListEmpty(Resize(d))
    BY <2>1 DEF FreeListEmpty
  <2> QED
    BY <2>1, <2>2 DEF AddedHandle, NextHandle, NoSlotLeft, NextSlot, NextKey
<1>6. FreeHeadAfterTake(c) = FreeHeadAfterTake(d)
  BY <1>1, <1>4 DEF FreeHeadAfterTake
<1>7. /\ Add(c, x).handles = Add(d, y).handles
      /\ Add(c, x).current_used = Add(d, y).current_used
      /\ Add(c, x).max_used = Add(d, y).max_used
      /\ Add(c, x).capacity = Add(d, y).capacity
      /\ Add(c, x).free_head = Add(d, y).free_head
  BY <1>1, <1>3, <1>4, <1>5, <1>6 DEF Added
<1> QED
  BY <1>2, <1>5, <1>7 DEF Twins

LEMMA TwinsAnswer ==
  ASSUME NEW c, NEW d, Twins(c, d), NEW h
  PROVE  CheckHandle(c, h) <=> CheckHandle(d, h)
BY DEF Twins, CheckHandle

LEMMA TwinsAddedHandle ==
  ASSUME NEW S, NEW T, NEW c \in CacheType(S), NEW d \in CacheType(T), Twins(c, d)
  PROVE  AddedHandle(c) = AddedHandle(d)
<1>1. /\ Resize(c).handles = Resize(d).handles /\ Resize(c).max_used = Resize(d).max_used
      /\ Resize(c).free_head = Resize(d).free_head
      /\ Resize(c).capacity = Resize(d).capacity
  BY Fields DEF Resize, Twins
<1>2. FreeListEmpty(Resize(c)) <=> FreeListEmpty(Resize(d))
  BY <1>1 DEF FreeListEmpty
<1> QED
  BY <1>1, <1>2 DEF AddedHandle, NextHandle, NoSlotLeft, NextSlot, NextKey

LEMMA TwinsRemove ==
  ASSUME NEW S, NEW T, NEW c \in CacheType(S), NEW d \in CacheType(T), Twins(c, d),
         CacheInv(c), NEW h \in Handles, CheckHandle(c, h)
  PROVE  CacheInv(d) /\ CheckHandle(d, h) /\ Twins(Remove(c, h), Remove(d, h))
<1>1. /\ c.handles = d.handles /\ c.current_used = d.current_used /\ c.max_used = d.max_used
      /\ c.capacity = d.capacity /\ c.free_head = d.free_head
  BY DEF Twins
<1>2. CacheInv(d)
  BY TwinsSound
<1>3. CheckHandle(d, h)
  BY TwinsAnswer
<1>4. LinkAfterRemove(c) = LinkAfterRemove(d)
  BY <1>1 DEF LinkAfterRemove, FreeListEmpty
<1>5. Twins(Remove(c, h), Remove(d, h))
  BY <1>1, <1>3, <1>4, Fields DEF Remove, Twins
<1> QED
  BY <1>2, <1>3, <1>5

\* Two handles in use of one slot are the same.
LEMMA OneHandle ==
  ASSUME NEW c, NEW g \in Handles, NEW h \in Handles, CheckHandle(c, g), CheckHandle(c, h),
         g.idx = h.idx
  PROVE  g = h
BY DEF CheckHandle, Handles

LEMMA NullUnused ==
  ASSUME NEW S, NEW c \in CacheType(S), CacheInv(c)
  PROVE  ~CheckHandle(c, NullHandle)
BY Fields, Numbers DEF CheckHandle, NullHandle, CacheInv

-----------------------------------------------------------------------------
(* The steps that leave the caches alone.                                    *)

LEMMA InitHolds == Init => CInv
<1> SUFFICES ASSUME Init
             PROVE  CInv
  OBVIOUS
<1>1. /\ InitialCapacity \in 1 .. 2 * CapacityBound /\ 0 <= InitialCapacity
      /\ IDX_MASK \in Slots /\ 0 \in 0 .. IDX_MASK
  BY Numbers, ComponentCacheAssumption DEF Slots
<1>2. NewCache(InitialCapacity) \in CacheType({Component})
  BY <1>1 DEF NewCache, CacheType, Entry
<1>3. NewCache(InitialCapacity) \in CacheType(LockType)
  BY <1>1 DEF NewCache, CacheType, Entry
<1>4. TypeOK
  BY <1>2, <1>3 DEF Init, TypeOK, FreshLock, LockType
<1>5. /\ components.max_used = 0 /\ components.current_used = 0
      /\ components.free_head = IDX_MASK /\ components.capacity = InitialCapacity
  BY DEF Init, NewCache
<1>6. Opened(components) = {} /\ ValidSlots(components) = {} /\ Dead(components) = {}
  BY <1>5, Numbers DEF Opened, ValidSlots, Dead, Slots
<1>7. Chain(components)
  <2>1. PICK s \in [1 .. 0 -> Dead(components)] : TRUE
    <3>1. [k \in 1 .. 0 |-> k] \in [1 .. 0 -> Dead(components)]
      OBVIOUS
    <3> QED
      BY <3>1
  <2>2. Lists(components, 0, s)
    BY <1>5, <1>6 DEF Lists
  <2> QED
    BY <2>1, <2>2 DEF Chain
<1>8. CacheInv(components)
  BY <1>1, <1>5, <1>6, <1>7, Numbers, FS_EmptySet, ComponentCacheAssumption DEF CacheInv
<1>9. Twins(components, component_locks)
  BY DEF Init, Twins
<1>10. \A h \in Handles : ~CheckHandle(components, h)
  BY <1>5, Numbers DEF CheckHandle, Handles, Slots
<1>11. Bounded
  <2>1. Emplacing = {}
    BY DEF Emplacing, Init
  <2> QED
    BY <1>5, <2>1, FS_EmptySet, Numbers DEF Bounded
<1>12. Callers
  BY <1>10 DEF Callers, Init, Removing
<1>13. TypeLock
  BY DEF TypeLock, Init, FreshLock, Exclusive
<1>14. Locks
  BY <1>10 DEF Locks
<1> QED
  BY <1>4, <1>8, <1>9, <1>11, <1>12, <1>13, <1>14 DEF CInv, Calls

\* The locks of components are where they were, while nobody gets or ungets one.
LEMMA LocksSame ==
  ASSUME Locks, UNCHANGED <<caches, held>>,
         \A u \in Threads : held[u] => handle'[u] = handle[u] /\ write'[u] = write[u]
  PROVE  Locks'
<1>1. components' = components /\ component_locks' = component_locks /\ held' = held
  BY DEF caches
<1>2. ASSUME NEW h \in Handles, CheckHandle(components, h), LockOf(h)
      PROVE  LockOf(h)'
  BY <1>1, <1>2 DEF LockOf
<1> QED
  BY <1>1, <1>2 DEF Locks

LEMMA CachesSame ==
  ASSUME CacheInv(components), Twins(components, component_locks), UNCHANGED caches
  PROVE  CacheInv(components)' /\ Twins(components, component_locks)'
<1>1. components' = components /\ component_locks' = component_locks
  BY DEF caches
<1>2. CacheInv(components)'
  BY <1>1
<1>3. Twins(components, component_locks)'
  BY <1>1 DEF Twins
<1> QED
  BY <1>2, <1>3

LEMMA Counted ==
  ASSUME TypeOK
  PROVE  /\ IsFiniteSet(Emplacing) /\ Cardinality(Emplacing) \in Nat
         /\ components.current_used \in Nat
<1>1. IsFiniteSet(Emplacing)
  BY ComponentCacheAssumption, FS_Subset DEF Emplacing
<1> QED
  BY <1>1, FS_CardinalityType, Fields DEF TypeOK

LEMMA BoundedSame ==
  ASSUME Bounded, UNCHANGED components, Emplacing' = Emplacing
  PROVE  Bounded'
BY DEF Bounded

\* A call begins.
LEMMA BeginKeeps ==
  ASSUME CInv, NEW t \in Threads,
         \/ EmplaceCall(t)
         \/ \E h \in ClientHandles : RemoveCall(t, h)
         \/ \E h \in ClientHandles, w \in BOOLEAN : GetCall(t, h, w)
         \/ \E w \in BOOLEAN : LockCall(t, w)
         \/ UngetCall(t)
  PROVE  CInv'
<1>1. /\ pc[t] = "idle" /\ UNCHANGED <<caches, type_lock, held>>
      /\ \E label \in {"emplace", "remove", "get", "lock", "unget"} :
           pc' = [pc EXCEPT ![t] = label]
  BY DEF EmplaceCall, RemoveCall, GetCall, LockCall, UngetCall, Call, Goto
<1>2. /\ pc \in [Threads -> {"idle", "emplace", "remove", "remove_component", "get",
                             "get_component", "unget", "lock", "locked"}]
      /\ handle \in [Threads -> Handles \cup {NullHandle}]
      /\ write \in [Threads -> BOOLEAN] /\ held \in [Threads -> BOOLEAN]
      /\ lookups \subseteq Handles
  BY DEF CInv, TypeOK
<1>3. components' = components /\ component_locks' = component_locks /\ type_lock' = type_lock
      /\ held' = held
  BY <1>1 DEF caches
<1>4. /\ \A u \in Threads \ {t} :
           pc'[u] = pc[u] /\ handle'[u] = handle[u] /\ write'[u] = write[u]
      /\ handle' \in [Threads -> Handles \cup {NullHandle}] /\ write' \in [Threads -> BOOLEAN]
      /\ lookups' \subseteq lookups
      /\ held[t] => handle'[t] = handle[t] /\ write'[t] = write[t]
  <2>1. CASE EmplaceCall(t) \/ UngetCall(t)
    BY <1>2, <2>1 DEF EmplaceCall, UngetCall, Goto
  <2>2. ASSUME NEW label, NEW h \in Handles \cup {NullHandle}, NEW w \in BOOLEAN,
               Call(t, label, h, w), ~held[t], lookups' \subseteq lookups
        PROVE  <1>4!:
    BY <1>2, <2>2 DEF Call, Goto
  <2>3. CASE \E h \in ClientHandles : RemoveCall(t, h)
    BY <2>2, <2>3 DEF RemoveCall, ClientHandles
  <2>4. CASE \E h \in ClientHandles, w \in BOOLEAN : GetCall(t, h, w)
    BY <2>2, <2>4 DEF GetCall, ClientHandles
  <2>5. CASE \E w \in BOOLEAN : LockCall(t, w)
    BY <2>2, <2>5 DEF LockCall
  <2> QED
    BY <2>1, <2>3, <2>4, <2>5
<1>5. TypeOK'
  <2>1. pc' \in [Threads -> {"idle", "emplace", "remove", "remove_component", "get",
                             "get_component", "unget", "lock", "locked"}]
    BY <1>1, <1>2
  <2>2. /\ components' \in CacheType({Component}) /\ component_locks' \in CacheType(LockType)
        /\ type_lock' \in LockType /\ held' \in [Threads -> BOOLEAN]
    BY <1>3 DEF CInv, TypeOK
  <2> QED
    BY <1>2, <1>4, <2>1, <2>2 DEF TypeOK
<1>6. Locks'
  BY <1>1, <1>4, LocksSame DEF CInv, Calls
<1>7. TypeLock'
  <2>1. pc'[t] \in {"emplace", "remove", "get", "lock", "unget"}
    BY <1>1, <1>2
  <2> QED
    BY <1>1, <1>3, <1>4, <2>1 DEF TypeLock, CInv, Calls, Exclusive
<1>8. Bounded'
  <2>1. CASE EmplaceCall(t)
    <3>1. Emplacing' = Emplacing \cup {t} /\ t \notin Emplacing
      BY <1>2, <2>1 DEF Emplacing, EmplaceCall, Goto
    <3>2. Cardinality(Emplacing') = Cardinality(Emplacing) + 1
      BY <3>1, Counted, FS_AddElement DEF CInv
    <3>3. components.current_used + Cardinality(Emplacing) < CapacityBound
      BY <2>1 DEF EmplaceCall, WithinBounds, Emplacing
    <3> QED
      BY <1>3, <3>2, <3>3, Counted, Numbers DEF Bounded, CInv
  <2>2. CASE ~EmplaceCall(t)
    <3>1. Emplacing' = Emplacing
      BY <1>2, <2>2
        DEF Emplacing, EmplaceCall, RemoveCall, GetCall, LockCall, UngetCall, Call, Goto
    <3> QED
      BY <1>3, <3>1, BoundedSame DEF CInv, Calls
  <2> QED
    BY <2>1, <2>2
<1>9. Callers'
  <2>1. \A h \in lookups' : CheckHandle(components, h)'
    BY <1>3, <1>4 DEF CInv, Calls, Callers
  <2>2. ASSUME NEW h \in ClientHandles, RemoveCall(t, h)
        PROVE  Callers'
    <3>1. /\ h \in lookups /\ lookups' = lookups \ {h} /\ ~held[t] /\ pc'[t] = "remove"
          /\ handle'[t] = h /\ write'[t] = TRUE
      BY <1>2, <2>2 DEF RemoveCall, Call, Goto
    <3>2. CheckHandle(components, h)'
      BY <1>3, <3>1 DEF CInv, Calls, Callers
    <3>3. \A u \in Threads \ {t} : Removing(u)' = Removing(u) /\ (Removing(u) => handle'[u] # h)
      BY <1>4, <3>1 DEF CInv, Calls, Callers, Removing
    <3> QED
      BY <1>3, <1>4, <2>1, <3>1, <3>2, <3>3 DEF CInv, Calls, Callers, Removing
  <2>3. CASE ~\E h \in ClientHandles : RemoveCall(t, h)
    <3>1. /\ lookups' = lookups
          /\ \/ pc'[t] = "emplace" /\ handle' = handle
             \/ pc'[t] \in {"get", "lock"} /\ ~held[t]
             \/ pc'[t] = "unget" /\ held[t] /\ handle' = handle
      BY <1>2, <2>3 DEF EmplaceCall, GetCall, LockCall, UngetCall, Call, Goto
    <3> QED
      BY <1>1, <1>3, <1>4, <2>1, <3>1 DEF CInv, Calls, Callers, Removing
  <2> QED
    BY <2>2, <2>3
<1> QED
  BY <1>1, <1>5, <1>6, <1>7, <1>8, <1>9, CachesSame DEF CInv, Calls

\* Steps in which only the type lock changes, or the caller's place.
LEMMA TypeLockKeeps ==
  ASSUME CInv, NEW t \in Threads,
         TypeQueue(t) \/ RemoveLockType(t) \/ GetLookup(t) \/ Lock(t) \/ Unlock(t)
  PROVE  CInv'
<1>1. /\ UNCHANGED <<caches, held, lookups>>
      /\ pc[t] \notin {"idle", "unget"}
  BY DEF TypeQueue, WantsTypeWrite, RemoveLockType, GetLookup, Lock, Unlock
<1>2. /\ pc \in [Threads -> {"idle", "emplace", "remove", "remove_component", "get",
                             "get_component", "unget", "lock", "locked"}]
      /\ handle \in [Threads -> Handles \cup {NullHandle}]
      /\ write \in [Threads -> BOOLEAN] /\ held \in [Threads -> BOOLEAN]
      /\ lookups \subseteq Handles /\ type_lock \in LockType
  BY DEF CInv, TypeOK
<1>3. components' = components /\ component_locks' = component_locks /\ held' = held
      /\ lookups' = lookups
  BY <1>1 DEF caches
<1>4. /\ type_lock' \in LockType
      /\ pc' \in [Threads -> {"idle", "emplace", "remove", "remove_component", "get",
                              "get_component", "unget", "lock", "locked"}]
      /\ handle' \in [Threads -> Handles \cup {NullHandle}]
      /\ write' \in [Threads -> BOOLEAN]
  <2>1. CASE TypeQueue(t)
    BY <1>2, <2>1 DEF TypeQueue, Queued, LockType
  <2>2. CASE RemoveLockType(t)
    <3>1. type_lock' = [type_lock EXCEPT !.writing = {t}, !.queued = @ \ {t}]
      BY <2>2 DEF RemoveLockType, Locked
    <3>2. type_lock' \in LockType
      BY <1>2, <3>1 DEF LockType
    <3> QED
      BY <1>2, <2>2, <3>2 DEF RemoveLockType, Goto
  <2>3. CASE GetLookup(t)
    <3>1. CASE CheckHandle(components, handle[t])
      BY <1>2, <2>3, <3>1 DEF GetLookup, TypeLockInGet, Locked, LockType, Goto
    <3>2. CASE ~CheckHandle(components, handle[t])
      BY <1>2, <1>3, <2>3, <3>2 DEF GetLookup, Goto, Return
    <3> QED
      BY <3>1, <3>2
  <2>4. CASE Lock(t)
    BY <1>2, <2>4 DEF Lock, Locked, LockType, Goto
  <2>5. CASE Unlock(t)
    BY <1>2, <2>5 DEF Unlock, Unlocked, LockType, Goto, Return
  <2> QED
    BY <2>1, <2>2, <2>3, <2>4, <2>5
<1>5. TypeOK'
  <2>1. /\ components' \in CacheType({Component}) /\ component_locks' \in CacheType(LockType)
        /\ held' \in [Threads -> BOOLEAN]
    BY <1>3 DEF CInv, TypeOK
  <2> QED
    BY <1>2, <1>3, <1>4, <2>1 DEF TypeOK
<1>6. \A u \in Threads \ {t} :
        pc'[u] = pc[u] /\ handle'[u] = handle[u] /\ write'[u] = write[u]
  BY <1>2 DEF TypeQueue, RemoveLockType, GetLookup, Lock, Unlock, Goto, Return
<1>7. \/ pc' = pc /\ handle' = handle /\ write' = write
      \/ pc[t] = "remove" /\ pc'[t] = "remove_component" /\ handle' = handle /\ write' = write
      \/ /\ pc[t] = "get" /\ pc'[t] = "get_component" /\ handle' = handle
         /\ CheckHandle(components, handle[t])
      \/ pc[t] \in {"get", "locked"} /\ pc'[t] = "idle"
      \/ pc[t] = "lock" /\ pc'[t] = "locked" /\ handle' = handle
  BY <1>2 DEF TypeQueue, RemoveLockType, GetLookup, Lock, Unlock, Goto, Return
<1>8. held[t] => handle' = handle /\ write' = write
  BY <1>1, <1>2, <1>3, <1>7 DEF CInv, Calls, Callers
<1>9. Locks'
  BY <1>1, <1>6, <1>8, LocksSame DEF CInv, Calls
<1>10. Bounded'
  <2>1. Emplacing' = Emplacing
    BY <1>2, <1>6, <1>7 DEF Emplacing
  <2> QED
    BY <1>3, <2>1, BoundedSame DEF CInv, Calls
<1>11. Callers'
  BY <1>3, <1>6, <1>7 DEF CInv, Calls, Callers, Removing
<1>12. TypeLock'
  <2> USE DEF CInv, Calls
  <2>1. CASE TypeQueue(t)
    BY <1>2, <2>1 DEF TypeQueue, Queued, LockType, TypeLock, Exclusive
  <2>2. CASE RemoveLockType(t)
    BY <1>2, <1>6, <2>2 DEF RemoveLockType, CanLock, Locked, LockType, Goto, TypeLock, Exclusive
  <2>3. CASE GetLookup(t)
    <3>1. CASE CheckHandle(components, handle[t])
      BY <1>2, <1>6, <2>3, <3>1
        DEF GetLookup, TypeLockInGet, CanLock, Locked, LockType, Goto, TypeLock, Exclusive
    <3>2. CASE ~CheckHandle(components, handle[t])
      BY <1>2, <1>6, <2>3, <3>2 DEF GetLookup, Goto, Return, TypeLock, Exclusive
    <3> QED
      BY <3>1, <3>2
  <2>4. CASE Lock(t)
    BY <1>2, <1>6, <2>4 DEF Lock, CanLock, Locked, LockType, Goto, TypeLock, Exclusive
  <2>5. CASE Unlock(t)
    BY <1>2, <1>6, <2>5 DEF Unlock, Unlocked, LockType, Goto, Return, TypeLock, Exclusive
  <2> QED
    BY <2>1, <2>2, <2>3, <2>4, <2>5
<1> QED
  BY <1>1, <1>5, <1>9, <1>10, <1>11, <1>12, CachesSame DEF CInv, Calls

-----------------------------------------------------------------------------
(* The steps about one component.                                            *)

\* The lock of a component that exists is the item its handle names.
LEMMA LockIs ==
  ASSUME CInv, NEW h \in Handles, CheckHandle(components, h)
  PROVE  /\ ComponentLock(h) = component_locks.items[h.idx]
         /\ ComponentLock(h) \in LockType /\ LockOf(h)
<1>1. CheckHandle(component_locks, h)
  BY TwinsAnswer DEF CInv
<1>2. LockOf(h)
  BY DEF CInv, Calls, Locks
<1> QED
  BY <1>1, <1>2 DEF ComponentLock, Get, LockOf

\* A change of one lock leaves the handles and the other locks alone.
LEMMA WithLockKeeps ==
  ASSUME CInv, NEW h \in Handles, CheckHandle(components, h), NEW l \in LockType,
         component_locks' = WithLock(h, l), UNCHANGED components
  PROVE  /\ component_locks' \in CacheType(LockType)
         /\ CacheInv(components)' /\ Twins(components, component_locks)'
         /\ component_locks'.items[h.idx] = l
         /\ \A g \in Handles : CheckHandle(components, g) /\ g # h =>
              component_locks'.items[g.idx] = component_locks.items[g.idx]
<1>1. component_locks \in CacheType(LockType)
  BY DEF CInv, TypeOK
<1>2. /\ component_locks.items \in [Slots -> LockType \cup {NoItem}] /\ h.idx \in Slots
      /\ \A g \in Handles : g.idx \in Slots
      /\ component_locks = [handles |-> component_locks.handles, items |-> component_locks.items,
              current_used |-> component_locks.current_used, max_used |-> component_locks.max_used,
              capacity |-> component_locks.capacity, free_head |-> component_locks.free_head]
  BY <1>1, Fields DEF Handles
<1>3. /\ component_locks'.items = [component_locks.items EXCEPT ![h.idx] = l]
      /\ component_locks'.handles = component_locks.handles
      /\ component_locks'.current_used = component_locks.current_used
      /\ component_locks'.max_used = component_locks.max_used
      /\ component_locks'.capacity = component_locks.capacity
      /\ component_locks'.free_head = component_locks.free_head
      /\ component_locks' = [component_locks EXCEPT !.items = component_locks'.items]
  BY <1>2 DEF WithLock
<1>4. component_locks' \in CacheType(LockType)
  BY <1>1, <1>2, <1>3 DEF CacheType
<1>5. \A g \in Handles : CheckHandle(components, g) /\ g # h => g.idx # h.idx
  BY OneHandle
<1>6. CacheInv(components)'
  BY DEF CInv
<1>7. Twins(components, component_locks)'
  BY <1>3 DEF CInv, Twins
<1> QED
  BY <1>2, <1>3, <1>4, <1>5, <1>6, <1>7

LEMMA ComponentQueueKeeps ==
  ASSUME CInv, NEW t \in Threads, ComponentQueue(t)
  PROVE  CInv'
<1> DEFINE h == handle[t]
           l == ComponentLock(h)
<1>1. /\ component_locks' = WithLock(h, Queued(l, t))
      /\ UNCHANGED <<components, type_lock, pc, handle, write, held, lookups>>
  BY DEF ComponentQueue
<1>2. CheckHandle(components, h) /\ h \in Handles
  BY NullUnused DEF ComponentQueue, CInv, Calls, Callers, Removing, TypeOK
<1>3. /\ l = component_locks.items[h.idx] /\ l \in LockType /\ LockOf(h)
  BY <1>2, LockIs
<1> HIDE DEF h, l
<1>4. /\ Queued(l, t) \in LockType /\ Queued(l, t).reading = l.reading
      /\ Queued(l, t).writing = l.writing
  BY <1>3 DEF Queued, LockType
<1>5. /\ component_locks' \in CacheType(LockType)
      /\ CacheInv(components)' /\ Twins(components, component_locks)'
      /\ component_locks'.items[h.idx] = Queued(l, t)
      /\ \A g \in Handles : CheckHandle(components, g) /\ g # h =>
           component_locks'.items[g.idx] = component_locks.items[g.idx]
  BY <1>1, <1>2, <1>4, WithLockKeeps
<1>6. TypeOK'
  BY <1>1, <1>5 DEF CInv, TypeOK
<1>7. Bounded' /\ Callers' /\ TypeLock'
  BY <1>1 DEF CInv, Calls, Bounded, Emplacing, Callers, Removing, TypeLock
<1>8. ASSUME NEW g \in Handles, CheckHandle(components, g)
      PROVE  LockOf(g)'
  <2>1. CASE g = h
    BY <1>1, <1>3, <1>4, <1>5, <2>1 DEF LockOf, Exclusive
  <2>2. CASE g # h
    <3>1. LockOf(g)
      BY <1>8 DEF CInv, Calls, Locks
    <3>2. component_locks'.items[g.idx] = component_locks.items[g.idx]
      BY <1>5, <1>8, <2>2
    <3> QED
      BY <1>1, <3>1, <3>2 DEF LockOf
  <2> QED
    BY <2>1, <2>2
<1>9. Locks'
  BY <1>1, <1>8 DEF Locks
<1> QED
  BY <1>5, <1>6, <1>7, <1>9 DEF CInv, Calls

LEMMA GetComponentKeeps ==
  ASSUME CInv, NEW t \in Threads, GetComponent(t)
  PROVE  CInv'
<1> DEFINE h == handle[t]
           l == ComponentLock(h)
           m == Locked(l, t, write[t])
<1>1. /\ component_locks' = WithLock(h, m) /\ CanLock(l, write[t]) /\ pc[t] = "get_component"
      /\ type_lock' = Unlocked(type_lock, t, FALSE) /\ held' = [held EXCEPT ![t] = TRUE]
      /\ UNCHANGED <<components, lookups>> /\ Return(t)
  BY DEF GetComponent, GetGuard
<1>2. CheckHandle(components, h) /\ h \in Handles /\ ~held[t]
  BY <1>1, NullUnused DEF CInv, Calls, Callers, TypeOK
<1>3. /\ l = component_locks.items[h.idx] /\ l \in LockType /\ LockOf(h)
  BY <1>2, LockIs
<1> HIDE DEF h, l, m
<1>4. /\ pc \in [Threads -> {"idle", "emplace", "remove", "remove_component", "get",
                             "get_component", "unget", "lock", "locked"}]
      /\ held \in [Threads -> BOOLEAN] /\ write \in [Threads -> BOOLEAN]
      /\ type_lock \in LockType
  BY DEF CInv, TypeOK
<1>5. /\ pc' = [pc EXCEPT ![t] = "idle"] /\ handle' = handle /\ write' = write
      /\ held'[t] /\ \A u \in Threads \ {t} : held'[u] = held[u] /\ pc'[u] = pc[u]
      /\ pc'[t] = "idle"
  BY <1>1, <1>4 DEF Return, Goto
<1>6. /\ m \in LockType /\ l.writing = {}
      /\ write[t] => l.reading = {} /\ m.reading = {} /\ m.writing = {t}
      /\ ~write[t] => m.reading = l.reading \cup {t} /\ m.writing = {}
  <2>1. CASE write[t]
    <3>1. m = [l EXCEPT !.writing = {t}, !.queued = @ \ {t}]
      BY <2>1 DEF m, Locked
    <3> QED
      BY <1>1, <1>3, <2>1, <3>1 DEF CanLock, LockType
  <2>2. CASE ~write[t]
    <3>1. m = [l EXCEPT !.reading = @ \cup {t}]
      BY <2>2 DEF m, Locked
    <3> QED
      BY <1>1, <1>3, <2>2, <3>1 DEF CanLock, LockType
  <2> QED
    BY <2>1, <2>2
<1>7. /\ component_locks' \in CacheType(LockType)
      /\ CacheInv(components)' /\ Twins(components, component_locks)'
      /\ component_locks'.items[h.idx] = m
      /\ \A g \in Handles : CheckHandle(components, g) /\ g # h =>
           component_locks'.items[g.idx] = component_locks.items[g.idx]
  BY <1>1, <1>2, <1>6, WithLockKeeps
<1>8. type_lock' = [type_lock EXCEPT !.reading = @ \ {t}] /\ type_lock' \in LockType
  BY <1>1, <1>4 DEF Unlocked, LockType
<1>9. TypeOK'
  BY <1>1, <1>4, <1>5, <1>7, <1>8 DEF CInv, TypeOK
<1>10. TypeLock'
  BY <1>1, <1>4, <1>5, <1>8 DEF CInv, Calls, TypeLock, LockType, Exclusive
<1>11. Bounded'
  <2>1. Emplacing' = Emplacing
    BY <1>1, <1>5 DEF Emplacing
  <2> QED
    BY <1>1, <2>1, BoundedSame DEF CInv, Calls
<1>12. Callers'
  BY <1>1, <1>2, <1>5 DEF CInv, Calls, Callers, Removing, h
<1>13. ASSUME NEW g \in Handles, CheckHandle(components, g)
       PROVE  LockOf(g)'
  <2>1. CASE g = h
    <3>1. \A u \in Threads \ {t} :
            /\ u \in l.reading <=> held[u] /\ handle[u] = h /\ ~write[u]
            /\ u \in l.writing <=> held[u] /\ handle[u] = h /\ write[u]
      BY <1>3 DEF LockOf
    <3>2. \A u \in Threads :
            /\ u \in m.reading <=> held'[u] /\ handle'[u] = h /\ ~write'[u]
            /\ u \in m.writing <=> held'[u] /\ handle'[u] = h /\ write'[u]
      BY <1>4, <1>5, <1>6, <3>1 DEF h
    <3>3. Exclusive(m)
      BY <1>6 DEF Exclusive
    <3> QED
      BY <1>6, <1>7, <2>1, <3>2, <3>3 DEF LockOf
  <2>2. CASE g # h
    <3>1. LockOf(g)
      BY <1>13 DEF CInv, Calls, Locks
    <3>2. component_locks'.items[g.idx] = component_locks.items[g.idx]
      BY <1>7, <1>13, <2>2
    <3>3. \A u \in Threads : (held'[u] /\ handle'[u] = g <=> held[u] /\ handle[u] = g)
      BY <1>2, <1>5, <2>2 DEF h
    <3> QED
      BY <1>5, <3>1, <3>2, <3>3 DEF LockOf
  <2> QED
    BY <2>1, <2>2
<1>14. Locks'
  BY <1>1, <1>13 DEF Locks
<1> QED
  BY <1>7, <1>9, <1>10, <1>11, <1>12, <1>14 DEF CInv, Calls

LEMMA UngetKeeps ==
  ASSUME CInv, NEW t \in Threads, Unget(t)
  PROVE  CInv'
<1> DEFINE h == handle[t]
           l == ComponentLock(h)
           m == Unlocked(l, t, write[t])
<1>1. held[t]
  BY DEF Unget, CInv, Calls, Callers
<1>2. CheckHandle(components, h) /\ h \in Handles
  BY <1>1, NullUnused DEF CInv, Calls, Callers, TypeOK
<1>3. /\ component_locks' = WithLock(h, m) /\ pc[t] = "unget"
      /\ held' = [held EXCEPT ![t] = FALSE]
      /\ UNCHANGED <<components, lookups, type_lock>> /\ Return(t)
  BY <1>2 DEF Unget, ComponentReleased
<1>4. /\ l = component_locks.items[h.idx] /\ l \in LockType /\ LockOf(h)
  BY <1>2, LockIs
<1> HIDE DEF h, l, m
<1>5. /\ pc \in [Threads -> {"idle", "emplace", "remove", "remove_component", "get",
                             "get_component", "unget", "lock", "locked"}]
      /\ held \in [Threads -> BOOLEAN] /\ write \in [Threads -> BOOLEAN]
      /\ handle \in [Threads -> Handles \cup {NullHandle}]
  BY DEF CInv, TypeOK
<1>6. /\ pc' = [pc EXCEPT ![t] = "idle"]
      /\ handle' = [handle EXCEPT ![t] = NullHandle] /\ write' = [write EXCEPT ![t] = FALSE]
      /\ ~held'[t] /\ pc'[t] = "idle"
      /\ \A u \in Threads \ {t} : /\ held'[u] = held[u] /\ pc'[u] = pc[u]
                                  /\ handle'[u] = handle[u] /\ write'[u] = write[u]
  BY <1>3, <1>5 DEF Return, Goto
<1>7. /\ m \in LockType
      /\ write[t] => l.writing = {t} /\ l.reading = {} /\ m.reading = {} /\ m.writing = {}
      /\ ~write[t] => m.reading = l.reading \ {t} /\ m.writing = l.writing /\ l.writing = {}
  <2>1. /\ t \in l.reading <=> ~write[t]
        /\ t \in l.writing <=> write[t]
    BY <1>1, <1>4 DEF LockOf, h
  <2>2. \A u \in l.writing : l.reading = {} /\ \A v \in l.writing : v = u
    BY <1>4 DEF LockOf, Exclusive
  <2>3. CASE write[t]
    <3>1. m = [l EXCEPT !.writing = {}]
      BY <2>3 DEF m, Unlocked
    <3> QED
      BY <1>4, <2>1, <2>2, <2>3, <3>1 DEF LockType
  <2>4. CASE ~write[t]
    <3>1. m = [l EXCEPT !.reading = @ \ {t}]
      BY <2>4 DEF m, Unlocked
    <3> QED
      BY <1>4, <2>1, <2>2, <2>4, <3>1 DEF LockType
  <2> QED
    BY <2>3, <2>4
<1>8. /\ component_locks' \in CacheType(LockType)
      /\ CacheInv(components)' /\ Twins(components, component_locks)'
      /\ component_locks'.items[h.idx] = m
      /\ \A g \in Handles : CheckHandle(components, g) /\ g # h =>
           component_locks'.items[g.idx] = component_locks.items[g.idx]
  BY <1>2, <1>3, <1>7, WithLockKeeps
<1>9. TypeOK'
  BY <1>3, <1>5, <1>6, <1>8 DEF CInv, TypeOK
<1>10. TypeLock'
  BY <1>3, <1>6 DEF CInv, Calls, TypeLock, Exclusive
<1>11. Bounded'
  <2>1. Emplacing' = Emplacing
    BY <1>3, <1>6 DEF Emplacing
  <2> QED
    BY <1>3, <2>1, BoundedSame DEF CInv, Calls
<1>12. Callers'
  BY <1>3, <1>6 DEF CInv, Calls, Callers, Removing
<1>13. ASSUME NEW g \in Handles, CheckHandle(components, g)
       PROVE  LockOf(g)'
  <2>1. CASE g = h
    <3>1. \A u \in Threads \ {t} :
            /\ u \in l.reading <=> held[u] /\ handle[u] = h /\ ~write[u]
            /\ u \in l.writing <=> held[u] /\ handle[u] = h /\ write[u]
      BY <1>4 DEF LockOf
    <3>2. \A u \in Threads :
            /\ u \in m.reading <=> held'[u] /\ handle'[u] = h /\ ~write'[u]
            /\ u \in m.writing <=> held'[u] /\ handle'[u] = h /\ write'[u]
      BY <1>6, <1>7, <3>1
    <3>3. Exclusive(m)
      BY <1>7 DEF Exclusive
    <3> QED
      BY <1>7, <1>8, <2>1, <3>2, <3>3 DEF LockOf
  <2>2. CASE g # h
    <3>1. LockOf(g)
      BY <1>13 DEF CInv, Calls, Locks
    <3>2. component_locks'.items[g.idx] = component_locks.items[g.idx]
      BY <1>8, <1>13, <2>2
    <3>3. \A u \in Threads :
            /\ held'[u] /\ handle'[u] = g <=> held[u] /\ handle[u] = g
            /\ held'[u] => write'[u] = write[u]
      BY <1>6, <2>2 DEF h
    <3> QED
      BY <3>1, <3>2, <3>3 DEF LockOf
  <2> QED
    BY <2>1, <2>2
<1>14. Locks'
  BY <1>3, <1>13 DEF Locks
<1> QED
  BY <1>8, <1>9, <1>10, <1>11, <1>12, <1>14 DEF CInv, Calls

-----------------------------------------------------------------------------
(* Components come and go.                                                   *)

LEMMA EmplaceKeeps ==
  ASSUME CInv, NEW t \in Threads, Emplace(t)
  PROVE  CInv'
<1> DEFINE h == AddedHandle(components)
<1>1. /\ pc[t] = "emplace" /\ CanLock(type_lock, TRUE)
      /\ components' = Add(components, Component)
      /\ component_locks' = Add(component_locks, FreshLock)
      /\ type_lock' = Unlocked(Locked(type_lock, t, TRUE), t, TRUE)
      /\ lookups' = lookups \cup {h} /\ held' = held /\ Return(t)
  BY DEF Emplace
<1>2. /\ components \in CacheType({Component}) /\ component_locks \in CacheType(LockType)
      /\ pc \in [Threads -> {"idle", "emplace", "remove", "remove_component", "get",
                             "get_component", "unget", "lock", "locked"}]
      /\ handle \in [Threads -> Handles \cup {NullHandle}]
      /\ write \in [Threads -> BOOLEAN] /\ held \in [Threads -> BOOLEAN]
      /\ type_lock \in LockType /\ lookups \subseteq Handles
      /\ CacheInv(components) /\ Twins(components, component_locks)
  BY DEF CInv, TypeOK
<1>3. /\ pc' = [pc EXCEPT ![t] = "idle"] /\ pc'[t] = "idle"
      /\ handle' \in [Threads -> Handles \cup {NullHandle}] /\ write' \in [Threads -> BOOLEAN]
      /\ held[t] => handle' = handle /\ write' = write
      /\ \A u \in Threads \ {t} : pc'[u] = pc[u] /\ handle'[u] = handle[u] /\ write'[u] = write[u]
  BY <1>1, <1>2 DEF Return, Goto
<1>4. /\ Emplacing' = Emplacing \ {t}
      /\ components.current_used + 1 + Cardinality(Emplacing') <= CapacityBound
      /\ components.current_used < CapacityBound
  <2>1. Emplacing' = Emplacing \ {t} /\ t \in Emplacing
    BY <1>1, <1>3 DEF Emplacing
  <2>2. /\ Cardinality(Emplacing') = Cardinality(Emplacing) - 1
        /\ Cardinality(Emplacing') \in Nat
    <3>1. IsFiniteSet(Emplacing \ {t})
      BY Counted, FS_Subset DEF CInv
    <3> QED
      BY <2>1, <3>1, Counted, FS_RemoveElement, FS_CardinalityType DEF CInv
  <2>3. components.current_used \in Nat /\ Cardinality(Emplacing) \in Nat
    BY Counted DEF CInv
  <2>4. components.current_used + Cardinality(Emplacing) <= CapacityBound
    BY DEF CInv, Calls, Bounded
  <2> QED
    BY <2>1, <2>2, <2>3, <2>4, Numbers
<1>5. FreshLock \in LockType
  BY DEF FreshLock, LockType
<1>6. /\ CacheInv(component_locks) /\ h = AddedHandle(component_locks)
      /\ Twins(components, component_locks)'
  BY <1>1, <1>2, <1>4, <1>5, TwinsAdd
<1>7. component_locks.current_used < CapacityBound
  BY <1>2, <1>4 DEF Twins
<1>8. /\ components' \in CacheType({Component}) /\ CacheInv(components)'
      /\ h \in Handles /\ h.idx \notin ValidSlots(components)
      /\ components'.current_used = components.current_used + 1
      /\ \A g \in Handles \cup {NullHandle} :
           CheckHandle(components', g) <=> CheckHandle(components, g) \/ g = h
  BY <1>1, <1>2, <1>4, AddKeeps
<1>9. /\ component_locks' \in CacheType(LockType)
      /\ component_locks'.items = [component_locks.items EXCEPT ![h.idx] = FreshLock]
  BY <1>1, <1>2, <1>5, <1>6, <1>7, AddKeeps
<1> HIDE DEF h
<1>10. \A g \in Handles : CheckHandle(components, g) => g.idx \in Slots /\ g.idx # h.idx /\ g # h
  BY <1>8 DEF CheckHandle, ValidSlots, Handles
<1>11. /\ type_lock.reading = {} /\ type_lock.writing = {}
       /\ type_lock' \in LockType /\ type_lock'.reading = {} /\ type_lock'.writing = {}
  BY <1>1, <1>2 DEF CanLock, Locked, Unlocked, LockType
<1>12. TypeOK'
  BY <1>1, <1>2, <1>3, <1>8, <1>9, <1>11 DEF TypeOK
<1>13. TypeLock'
  BY <1>1, <1>3, <1>11 DEF CInv, Calls, TypeLock, Exclusive
<1>14. Bounded'
  BY <1>4, <1>8 DEF Bounded
<1>15. Callers'
  <2>1. ASSUME NEW u \in Threads, held[u] \/ pc[u] = "get_component" \/ Removing(u)
        PROVE  /\ handle[u] \in Handles /\ CheckHandle(components, handle[u])
               /\ handle[u] # h /\ CheckHandle(components', handle[u])
    <3>1. CheckHandle(components, handle[u]) /\ handle[u] \in Handles
      BY <1>2, <2>1, NullUnused DEF CInv, Calls, Callers
    <3> QED
      BY <1>8, <1>10, <3>1
  <2>2. \A g \in lookups' : CheckHandle(components', g)
    BY <1>1, <1>2, <1>8 DEF CInv, Calls, Callers
  <2>3. \A u \in Threads \ {t} : Removing(u)' = Removing(u)
    BY <1>3 DEF Removing
  <2>4. ~Removing(t)'
    BY <1>3 DEF Removing
  <2>5. ASSUME NEW u \in Threads
        PROVE  /\ held'[u] => pc'[u] \in {"idle", "emplace", "unget"}
               /\ pc'[u] = "unget" => held'[u]
               /\ held'[u] \/ pc'[u] = "get_component" \/ Removing(u)'
                    => CheckHandle(components', handle'[u])
               /\ Removing(u)' =>
                    /\ write'[u] /\ handle'[u] \notin lookups'
                    /\ \A v \in Threads : Removing(v)' /\ handle'[v] = handle'[u] => v = u
    <3>1. CASE u = t
      BY <1>1, <1>3, <2>1, <2>4, <3>1
    <3>2. CASE u # t
      BY <1>1, <1>3, <2>1, <2>3, <2>4, <3>2 DEF CInv, Calls, Callers
    <3> QED
      BY <3>1, <3>2
  <2> QED
    BY <2>2, <2>5 DEF Callers
<1>16. ASSUME NEW g \in Handles, CheckHandle(components', g)
       PROVE  LockOf(g)'
  <2>1. CASE g = h
    <3>1. \A u \in Threads : ~(held'[u] /\ handle'[u] = h)
      <4>1. SUFFICES ASSUME NEW u \in Threads, held[u], handle[u] = h
                     PROVE  FALSE
        BY <1>1, <1>3
      <4>2. CheckHandle(components, h)
        BY <4>1 DEF CInv, Calls, Callers
      <4> QED
        BY <1>8, <1>10, <4>2
    <3>2. component_locks'.items[h.idx] = FreshLock
      BY <1>2, <1>8, <1>9, Fields DEF Handles
    <3> QED
      BY <1>5, <2>1, <3>1, <3>2 DEF LockOf, FreshLock, Exclusive
  <2>2. CASE g # h
    <3>1. CheckHandle(components, g)
      BY <1>8, <1>16, <2>2
    <3>2. LockOf(g)
      BY <3>1 DEF CInv, Calls, Locks
    <3>3. component_locks'.items[g.idx] = component_locks.items[g.idx]
      BY <1>2, <1>9, <1>10, <3>1, Fields
    <3>4. \A u \in Threads : held'[u] = held[u] /\ (held[u] => handle'[u] = handle[u]
                                                              /\ write'[u] = write[u])
      BY <1>1, <1>3
    <3> QED
      BY <3>2, <3>3, <3>4 DEF LockOf
  <2> QED
    BY <2>1, <2>2
<1>17. Locks'
  BY <1>16 DEF Locks
<1> QED
  BY <1>6, <1>8, <1>12, <1>13, <1>14, <1>15, <1>17 DEF CInv, Calls

LEMMA RemoveComponentKeeps ==
  ASSUME CInv, NEW t \in Threads, RemoveComponent(t)
  PROVE  CInv'
<1> DEFINE h == handle[t]
<1>1. /\ pc[t] = "remove_component" /\ CanLock(ComponentLock(h), TRUE)
      /\ components' = Remove(components, h) /\ component_locks' = Remove(component_locks, h)
      /\ type_lock' = Unlocked(type_lock, t, TRUE)
      /\ held' = held /\ lookups' = lookups /\ Return(t)
  BY DEF RemoveComponent, LocksWithout
<1>2. /\ components \in CacheType({Component}) /\ component_locks \in CacheType(LockType)
      /\ pc \in [Threads -> {"idle", "emplace", "remove", "remove_component", "get",
                             "get_component", "unget", "lock", "locked"}]
      /\ handle \in [Threads -> Handles \cup {NullHandle}]
      /\ write \in [Threads -> BOOLEAN] /\ held \in [Threads -> BOOLEAN]
      /\ type_lock \in LockType /\ lookups \subseteq Handles
      /\ CacheInv(components) /\ Twins(components, component_locks)
  BY DEF CInv, TypeOK
<1>3. Removing(t) /\ CheckHandle(components, h) /\ h \in Handles /\ ~held[t]
  BY <1>1, <1>2, NullUnused DEF CInv, Calls, Callers, Removing
<1>4. /\ pc' = [pc EXCEPT ![t] = "idle"] /\ pc'[t] = "idle"
      /\ handle' \in [Threads -> Handles \cup {NullHandle}] /\ write' \in [Threads -> BOOLEAN]
      /\ \A u \in Threads \ {t} : pc'[u] = pc[u] /\ handle'[u] = handle[u] /\ write'[u] = write[u]
  BY <1>1, <1>2 DEF Return, Goto
<1>5. /\ ComponentLock(h) = component_locks.items[h.idx] /\ LockOf(h)
  BY <1>3, LockIs
<1>6. h \notin lookups /\ \A u \in Threads : Removing(u) /\ handle[u] = h => u = t
  BY <1>3 DEF CInv, Calls, Callers
<1> HIDE DEF h
<1>7. /\ CacheInv(component_locks) /\ CheckHandle(component_locks, h)
      /\ Twins(components, component_locks)'
  BY <1>1, <1>2, <1>3, TwinsRemove
<1>8. /\ components' \in CacheType({Component}) /\ CacheInv(components)'
      /\ components.current_used \in Nat \ {0}
      /\ components'.current_used = components.current_used - 1
      /\ \A g \in Handles \cup {NullHandle} :
           CheckHandle(components', g) <=> CheckHandle(components, g) /\ g # h
  BY <1>1, <1>2, <1>3, RemoveKeeps
<1>9. component_locks' \in CacheType(LockType) /\ component_locks'.items = component_locks.items
  BY <1>1, <1>2, <1>3, <1>7, RemoveKeeps
<1>10. /\ t \in type_lock.writing /\ type_lock.reading = {}
       /\ \A u \in type_lock.writing : u = t
  BY <1>1 DEF CInv, Calls, TypeLock, Exclusive
<1>11. type_lock' = [type_lock EXCEPT !.writing = {}] /\ type_lock' \in LockType
  BY <1>1, <1>2 DEF Unlocked, LockType
<1>12. TypeOK'
  BY <1>1, <1>2, <1>4, <1>8, <1>9, <1>11 DEF TypeOK
<1>13. TypeLock'
  BY <1>2, <1>4, <1>10, <1>11 DEF CInv, Calls, TypeLock, LockType, Exclusive
<1>14. Bounded'
  <2>1. Emplacing' = Emplacing
    BY <1>1, <1>4 DEF Emplacing
  <2> QED
    BY <1>8, <2>1, Counted, Numbers DEF CInv, Calls, Bounded
<1>15. \A u \in Threads : held[u] => handle[u] # h
  BY <1>1, <1>5 DEF LockOf, CanLock
<1>16. \A u \in Threads \ {t} :
         held[u] \/ pc[u] = "get_component" \/ Removing(u) =>
           CheckHandle(components', handle[u])
  <2>1. SUFFICES ASSUME NEW u \in Threads \ {t},
                        held[u] \/ pc[u] = "get_component" \/ Removing(u)
                 PROVE  CheckHandle(components', handle[u])
    OBVIOUS
  <2>2. pc[u] # "get_component"
    BY <1>10 DEF CInv, Calls, TypeLock
  <2>3. handle[u] # h
    BY <1>6, <1>15, <2>1, <2>2
  <2>4. CheckHandle(components, handle[u])
    BY <2>1 DEF CInv, Calls, Callers
  <2> QED
    BY <1>2, <1>8, <2>3, <2>4
<1>17. Callers'
  <2>1. \A g \in lookups' : CheckHandle(components', g)
    BY <1>1, <1>2, <1>6, <1>8 DEF CInv, Calls, Callers
  <2>2. \A u \in Threads \ {t} : Removing(u)' = Removing(u)
    BY <1>4 DEF Removing
  <2>3. ~Removing(t)'
    BY <1>4 DEF Removing
  <2>4. ASSUME NEW u \in Threads
        PROVE  /\ held'[u] => pc'[u] \in {"idle", "emplace", "unget"}
               /\ pc'[u] = "unget" => held'[u]
               /\ held'[u] \/ pc'[u] = "get_component" \/ Removing(u)'
                    => CheckHandle(components', handle'[u])
               /\ Removing(u)' =>
                    /\ write'[u] /\ handle'[u] \notin lookups'
                    /\ \A v \in Threads : Removing(v)' /\ handle'[v] = handle'[u] => v = u
    <3>1. CASE u = t
      BY <1>1, <1>3, <1>4, <2>3, <3>1
    <3>2. CASE u # t
      BY <1>1, <1>4, <1>16, <2>2, <2>3, <3>2 DEF CInv, Calls, Callers
    <3> QED
      BY <3>1, <3>2
  <2> QED
    BY <2>1, <2>4 DEF Callers
<1>18. ASSUME NEW g \in Handles, CheckHandle(components', g)
       PROVE  LockOf(g)'
  <2>1. LockOf(g)
    BY <1>8, <1>18 DEF CInv, Calls, Locks
  <2>2. \A u \in Threads : held'[u] = held[u] /\ (held[u] => handle'[u] = handle[u]
                                                            /\ write'[u] = write[u])
    BY <1>1, <1>3, <1>4
  <2> QED
    BY <1>9, <2>1, <2>2 DEF LockOf
<1>19. Locks'
  BY <1>18 DEF Locks
<1> QED
  BY <1>7, <1>8, <1>12, <1>13, <1>14, <1>17, <1>19 DEF CInv, Calls

LEMMA StutterKeeps == CInv /\ UNCHANGED vars => CInv'
<1> SUFFICES ASSUME CInv, UNCHANGED vars
             PROVE  CInv'
  OBVIOUS
<1>1. /\ UNCHANGED caches /\ type_lock' = type_lock /\ pc' = pc /\ handle' = handle
      /\ write' = write /\ held' = held /\ lookups' = lookups
      /\ components' = components /\ component_locks' = component_locks
  BY DEF vars, caches
<1>2. TypeOK' /\ Bounded' /\ Callers' /\ TypeLock'
  BY <1>1 DEF CInv, Calls, TypeOK, Bounded, Emplacing, Callers, Removing, TypeLock
<1> QED
  BY <1>1, <1>2, LocksSame, CachesSame DEF CInv, Calls

LEMMA NextKeeps == CInv /\ [Next]_vars => CInv'
<1> SUFFICES ASSUME CInv, [Next]_vars
             PROVE  CInv'
  OBVIOUS
<1>1. ASSUME NEW t \in Threads, Step(t)
      PROVE  CInv'
  BY <1>1, TypeLockKeeps, ComponentQueueKeeps, EmplaceKeeps, RemoveComponentKeeps,
     GetComponentKeeps, BeginKeeps, UngetKeeps DEF Step
<1>2. ASSUME NEW t \in Threads,
             \/ EmplaceCall(t)
             \/ \E h \in ClientHandles : RemoveCall(t, h)
             \/ \E h \in ClientHandles, w \in BOOLEAN : GetCall(t, h, w)
             \/ \E w \in BOOLEAN : LockCall(t, w)
      PROVE  CInv'
  BY <1>2, BeginKeeps
<1> QED
  BY <1>1, <1>2, StutterKeeps DEF Next

\* The assertion of component_cache_emplace_component holds: both caches answer to the same
\* handles, for any threads, numbers of components and generations (component_cache.c:41-85).
THEOREM MatchCorrect == Spec => []LocksMatch
<1>1. CInv => LocksMatch
  BY TwinsAnswer, TwinsAddedHandle DEF CInv, TypeOK, LocksMatch
<1> QED
  BY <1>1, InitHolds, NextKeeps, PTL DEF Spec

\* What a thread got for writing it shares with nobody, and what it got or waits for exists, with
\* its lock, until it is done with it (component_cache.c:53-108).
THEOREM UseCorrect == Spec => []ExclusiveUse
<1>1. CInv => ExclusiveUse
  <2> SUFFICES ASSUME CInv
               PROVE  ExclusiveUse
    OBVIOUS
  <2>1. ASSUME NEW t \in Threads, held[t] \/ pc[t] = "get_component"
        PROVE  CheckHandle(components, handle[t]) /\ CheckHandle(component_locks, handle[t])
    BY <2>1, TwinsAnswer DEF CInv, Calls, Callers
  <2>2. ASSUME NEW t \in Threads, NEW u \in Threads, held[t], held[u], handle[t] = handle[u],
               write[t]
        PROVE  t = u
    <3>1. CheckHandle(components, handle[t]) /\ handle[t] \in Handles
      BY <2>1, <2>2, NullUnused DEF CInv, TypeOK
    <3>2. LockOf(handle[t])
      BY <3>1 DEF CInv, Calls, Locks
    <3> QED
      BY <2>2, <3>2 DEF LockOf, Exclusive
  <2> QED
    BY <2>1, <2>2 DEF ExclusiveUse
<1> QED
  BY <1>1, InitHolds, NextKeeps, PTL DEF Spec

=============================================================================
