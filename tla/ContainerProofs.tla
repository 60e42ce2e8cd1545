---------------------------- MODULE ContainerProofs ----------------------------
(***************************************************************************)
(* Two containers of core/, for any capacities, contents and sequences of  *)
(* calls.                                                                  *)
(*                                                                         *)
(* The hash table of cache_map.c loses nothing and crashes only where it   *)
(* must.  link_array.c keeps every node of its block on one list, and      *)
(* clients see a sequence.                                                 *)
(***************************************************************************)
EXTENDS CacheMap, LinkArray, SequenceTheorems, FiniteSetTheorems, WellFoundedInduction, TLAPS

Positions(count) == 0 .. (count * BucketCapacity - 1)

InUse(items, i) == items[i].handle # NullHandle

\* A table: entries in use are in the bucket of their key, and no two have the same handle,
\* nor the same key, unless that is the one of unused entries.
TableOk(t) ==
    /\ t.count \in Nat \ {0}
    /\ t.items \in [Positions(t.count) -> Entries]
    /\ \A i \in Positions(t.count) :
         /\ InUse(t.items, i) => i \in Bucket(t.items[i].key, t.count)
         /\ ~InUse(t.items, i) => t.items[i].key = NoKey
    /\ \A i, j \in Positions(t.count) :
         i # j /\ InUse(t.items, i) /\ InUse(t.items, j) =>
           /\ t.items[i].handle # t.items[j].handle
           /\ t.items[i].key = t.items[j].key => t.items[i].key = NoKey

\* Only the first entry with the key -1 is in use.
FirstInUse(t) ==
    \A i \in Positions(t.count), j \in Bucket(NoKey, t.count) :
      InUse(t.items, i) /\ t.items[i].key = NoKey /\ t.items[j].key = NoKey => i <= j

\* The first n entries of t are in u, but for those with the key -1, and no other entries are.
Carried(t, u, n) ==
    /\ \A i \in Positions(u.count) :
         InUse(u.items, i) => \E m \in 0 .. n - 1 : u.items[i] = t.items[m]
    /\ \A m \in 0 .. n - 1 :
         t.items[m].key # NoKey => \E i \in Positions(u.count) : u.items[i] = t.items[m]

\* Keys that share a bucket of d share one of c.
Coarsens(c, d) ==
    \A k, l \in Int : BucketIndex(k, d) = BucketIndex(l, d) => BucketIndex(k, c) = BucketIndex(l, c)

\* t was resized any number of times.
Grown(t, u) ==
    /\ TableOk(u)
    /\ Carried(t, u, t.count * BucketCapacity)
    /\ u = t \/ Coarsens(2 * t.count, u.count)
    /\ \A k \in Int : BucketItem(t, k) # NoEntry => BucketItem(u, k) # NoEntry

\* The entries in use are those of the items in the cache, but for items under the key -1.
Held(t) ==
    /\ \A i \in Positions(t.count) : InUse(t.items, i) =>
         /\ t.items[i].handle \in DOMAIN cache
         /\ key_of[t.items[i].handle] = t.items[i].key
    /\ \A h \in DOMAIN cache : key_of[h] # NoKey =>
         \E i \in Positions(t.count) : t.items[i] = [key |-> key_of[h], handle |-> h]

\* So is what the calls should have made.
Promised ==
    /\ \A h \in DOMAIN cache : key_of[h] # NoKey =>
         key_of[h] \in DOMAIN content /\ content[key_of[h]] = cache[h]
    /\ \A k \in DOMAIN content : k # NoKey => \E h \in DOMAIN cache : key_of[h] = k

\* The inductive invariant of the map.
MInv ==
    /\ TypeOK
    /\ status = "freed" => bucket_count = 0 /\ DOMAIN cache = {}
    /\ status # "freed" => TableOk(table)
    /\ Held(table)
    /\ Promised
    /\ CrashesKnown

-----------------------------------------------------------------------------
(* Buckets.                                                                  *)

LEMMA Numbers ==
  /\ BucketCapacity \in Nat \ {0} /\ BucketCount \in Nat \ {0}
  /\ HashedKeys \subseteq Int /\ NullHandle \notin Handles
BY CacheMapAssumption

\* A row of width n is left only by going n further.
LEMMA Rows ==
  ASSUME NEW n \in Nat \ {0}, NEW q \in Int, NEW p \in Int,
         NEW r \in 0 .. n - 1, NEW s \in 0 .. n - 1, q * n + r = p * n + s
  PROVE  q = p /\ r = s
<1>1. ASSUME NEW a \in Int, NEW b \in Int, a + 1 <= b
      PROVE  a * n + n <= b * n
  <2>1. (b - a - 1) * n >= 0
    BY <1>1
  <2>2. (b - a - 1) * n = b * n - a * n - n
    OBVIOUS
  <2> QED
    BY <2>1, <2>2
<1>2. q * n \in Int /\ p * n \in Int
  OBVIOUS
<1>3. ~(q + 1 <= p) /\ ~(p + 1 <= q)
  BY <1>1, <1>2
<1> QED
  BY <1>2, <1>3

LEMMA LastRow ==
  ASSUME NEW n \in Nat \ {0}, NEW c \in Nat \ {0}, NEW b \in 0 .. c - 1
  PROVE  b * n + n <= c * n /\ c * n \in Nat
<1>1. PICK d \in Nat : c = b + 1 + d
  <2>1. c - (b + 1) \in Nat /\ c = b + 1 + (c - (b + 1))
    OBVIOUS
  <2> QED
    BY <2>1
<1>2. d * n \in Nat /\ b * n \in Nat /\ c * n = b * n + n + d * n
  BY <1>1
<1> QED
  BY <1>2

LEMMA Division ==
  ASSUME NEW c \in Nat \ {0}, NEW k \in Int
  PROVE  k % c \in 0 .. c - 1 /\ \E q \in Int : k = q * c + (k % c)
<1>1. k % c \in 0 .. c - 1 /\ k \div c \in Int /\ k = (k \div c) * c + (k % c)
  OBVIOUS
<1> QED
  BY <1>1

LEMMA BucketFacts ==
  ASSUME NEW c \in Nat \ {0}, NEW k \in Int
  PROVE  /\ BucketIndex(k, c) \in 0 .. c - 1
         /\ BucketIndex(k, c) * BucketCapacity \in Nat
         /\ Bucket(k, c) = BucketIndex(k, c) * BucketCapacity
                             .. (BucketIndex(k, c) * BucketCapacity + BucketCapacity - 1)
         /\ Bucket(k, c) \subseteq Positions(c) /\ Bucket(k, c) # {}
         /\ IsFiniteSet(Bucket(k, c)) /\ Cardinality(Bucket(k, c)) = BucketCapacity
<1>1. BucketIndex(k, c) \in 0 .. c - 1
  BY Division DEF BucketIndex
<1>. DEFINE b == BucketIndex(k, c)
            a == b * BucketCapacity
<1>2. a \in Nat /\ BucketCapacity \in Nat \ {0}
  BY <1>1, Numbers
<1>3. Bucket(k, c) = a .. (a + BucketCapacity - 1)
  <2>1. Bucket(k, c) = {a + j : j \in 0 .. (BucketCapacity - 1)}
    BY DEF Bucket
  <2>. HIDE DEF a
  <2>2. ASSUME NEW i \in a .. (a + BucketCapacity - 1)
        PROVE  \E j \in 0 .. (BucketCapacity - 1) : i = a + j
    <3>1. i - a \in 0 .. (BucketCapacity - 1) /\ i = a + (i - a)
      BY <1>2
    <3> QED
      BY <3>1
  <2>3. ASSUME NEW j \in 0 .. (BucketCapacity - 1)
        PROVE  a + j \in a .. (a + BucketCapacity - 1)
    BY <1>2
  <2> QED
    BY <2>1, <2>2, <2>3
<1>4. a + BucketCapacity <= c * BucketCapacity /\ c * BucketCapacity \in Nat
  <2>1. b \in 0 .. c - 1
    BY <1>1
  <2>. HIDE DEF b
  <2> QED
    BY <1>2, <2>1, LastRow
<1>5. Bucket(k, c) \subseteq Positions(c)
  BY <1>2, <1>3, <1>4 DEF Positions
<1>6. IsFiniteSet(Bucket(k, c)) /\ Cardinality(Bucket(k, c)) = BucketCapacity
  <2>. HIDE DEF a
  <2>1. a \in Int /\ a + BucketCapacity - 1 \in Int /\ ~(a > a + BucketCapacity - 1)
    BY <1>2
  <2>2. (a + BucketCapacity - 1) - a + 1 = BucketCapacity
    BY <1>2
  <2> QED
    BY <1>3, <2>1, <2>2, FS_Interval
<1>7. Bucket(k, c) # {}
  <2>. HIDE DEF a
  <2>1. a \in a .. (a + BucketCapacity - 1)
    BY <1>2
  <2> QED
    BY <1>3, <2>1
<1> QED
  BY <1>1, <1>2, <1>3, <1>5, <1>6, <1>7

\* Buckets are apart.
LEMMA OneBucket ==
  ASSUME NEW c \in Nat \ {0}, NEW k \in Int, NEW l \in Int, NEW i \in Bucket(k, c),
         i \in Bucket(l, c)
  PROVE  BucketIndex(k, c) = BucketIndex(l, c)
<1>1. PICK j \in 0 .. (BucketCapacity - 1) : i = BucketIndex(k, c) * BucketCapacity + j
  BY DEF Bucket
<1>2. PICK m \in 0 .. (BucketCapacity - 1) : i = BucketIndex(l, c) * BucketCapacity + m
  BY DEF Bucket
<1>3. BucketIndex(k, c) \in Int /\ BucketIndex(l, c) \in Int
  BY BucketFacts
<1>. HIDE DEF BucketIndex
<1> QED
  BY <1>1, <1>2, <1>3, Numbers, Rows

\* Doubling the table splits buckets, and joins none.
LEMMA DoublingSplits ==
  ASSUME NEW c \in Nat \ {0}
  PROVE  Coarsens(c, 2 * c)
<1>1. ASSUME NEW p \in Int, NEW s \in 0 .. c - 1, NEW u \in Int, NEW v \in 0 .. c - 1,
             p * c + s = u * c + v
      PROVE  s = v
  BY <1>1, Rows
<1>2. ASSUME NEW k \in Int
      PROVE  k % c = IF k % (2 * c) < c THEN k % (2 * c) ELSE (k % (2 * c)) - c
  <2>1. 2 * c \in Nat \ {0}
    OBVIOUS
  <2>2. k % (2 * c) \in 0 .. 2 * c - 1 /\ k % c \in 0 .. c - 1
    BY <2>1, Division
  <2>3. PICK q \in Int : k = q * (2 * c) + (k % (2 * c))
    BY <2>1, Division
  <2>4. PICK p \in Int : k = p * c + (k % c)
    BY Division
  <2>. DEFINE r == k % (2 * c)
              s == k % c
  <2>5. r \in 0 .. 2 * c - 1 /\ s \in 0 .. c - 1 /\ p * c + s = q * (2 * c) + r
    BY <2>2, <2>3, <2>4
  <2>. HIDE DEF r, s
  <2>6. CASE r < c
    <3>1. 2 * q \in Int /\ r \in 0 .. c - 1 /\ p * c + s = (2 * q) * c + r
      BY <2>5, <2>6
    <3>2. s = r
      BY <1>1, <2>5, <3>1
    <3> QED
      BY <2>6, <3>2 DEF r, s
  <2>7. CASE ~(r < c)
    <3>1. 2 * q + 1 \in Int /\ r - c \in 0 .. c - 1 /\ p * c + s = (2 * q + 1) * c + (r - c)
      BY <2>5, <2>7
    <3>2. s = r - c
      BY <1>1, <2>5, <3>1
    <3> QED
      BY <2>7, <3>2 DEF r, s
  <2> QED
    BY <2>6, <2>7
<1> QED
  BY <1>2 DEF Coarsens, BucketIndex

\* A bucket does not fit into another one of which a place is taken.
LEMMA NoRoomFor ==
  ASSUME NEW c \in Nat \ {0}, NEW d \in Nat \ {0}, NEW k \in Int, NEW n \in Bucket(k, c),
         NEW f \in [Bucket(k, d) -> Bucket(k, c) \ {n}],
         \A i, j \in Bucket(k, d) : f[i] = f[j] => i = j
  PROVE  FALSE
<1>1. /\ IsFiniteSet(Bucket(k, c)) /\ Cardinality(Bucket(k, c)) = BucketCapacity
      /\ IsFiniteSet(Bucket(k, d)) /\ Cardinality(Bucket(k, d)) = BucketCapacity
  BY BucketFacts
<1>2. /\ IsFiniteSet(Bucket(k, c) \ {n})
      /\ Cardinality(Bucket(k, c) \ {n}) = BucketCapacity - 1
  BY <1>1, FS_RemoveElement
<1>3. Cardinality(Bucket(k, c) \ {n}) < Cardinality(Bucket(k, d))
  BY <1>1, <1>2, Numbers
<1>4. \E i, j \in Bucket(k, d) : i # j /\ f[i] = f[j]
  BY <1>1, <1>2, <1>3, FS_PigeonHole
<1> QED
  BY <1>4

Less == {r \in Nat \X Nat : r[1] < r[2]}

\* A nonempty set of naturals has a least element.
LEMMA Least ==
  ASSUME NEW S \in SUBSET Nat, S # {}
  PROVE  \E n \in S : \A m \in S : n <= m
<1>1. IsWellFoundedOn(Less, Nat)
  BY NatLessThanWellFounded DEF OpToRel, Less
<1>2. PICK n \in S : \A m \in S : ~(<<m, n>> \in Less)
  BY <1>1, WFMin
<1>3. \A m \in S : ~(m < n)
  BY <1>2 DEF Less
<1> QED
  BY <1>3

LEMMA FirstIs ==
  ASSUME NEW S \in SUBSET Nat
  PROVE  /\ S = {} <=> First(S) = NoEntry
         /\ S # {} => First(S) \in S /\ \A i \in S : First(S) <= i
<1>1. ASSUME S # {}
      PROVE  First(S) \in S /\ \A i \in S : First(S) <= i
  <2>1. \E n \in S : \A m \in S : n <= m
    BY <1>1, Least
  <2> QED
    BY <1>1, <2>1 DEF First, Min
<1> QED
  BY <1>1 DEF First, NoEntry

LEMMA EntriesAre ==
  ASSUME NEW t, TableOk(t)
  PROVE  /\ t.count * BucketCapacity \in Nat \ {0} /\ 0 \in Positions(t.count)
         /\ Positions(t.count) \subseteq Nat
         /\ t.items # Crash
         /\ \A i \in Positions(t.count) : t.items[i] \in Entries /\ t.items[i].key \in Int
<1>1. t.count * BucketCapacity \in Nat \ {0}
  BY Numbers DEF TableOk
<1>2. 0 \in Positions(t.count) /\ Positions(t.count) \subseteq Nat
  BY <1>1 DEF Positions
<1>3. DOMAIN t.items = Positions(t.count)
  BY DEF TableOk
<1>4. DOMAIN Crash = {}
  BY DEF Crash
<1>5. \A i \in Positions(t.count) : t.items[i] \in Entries
  BY DEF TableOk
<1>6. \A e \in Entries : e.key \in Int
  <2>1. HashedKeys \cup {NoKey} \subseteq Int
    BY Numbers DEF NoKey
  <2>2. \A e \in Entries : e.key \in HashedKeys \cup {NoKey}
    BY DEF Entries
  <2> QED
    BY <2>1, <2>2
<1> QED
  BY <1>1, <1>2, <1>3, <1>4, <1>5, <1>6

\* The entry of a key.
LEMMA BucketItemIs ==
  ASSUME NEW t, TableOk(t), NEW k \in Int
  PROVE  /\ BucketItem(t, k) # NoEntry =>
              /\ BucketItem(t, k) \in Bucket(k, t.count) /\ BucketItem(t, k) \in Positions(t.count)
              /\ t.items[BucketItem(t, k)].key = k
         /\ \A i \in Bucket(k, t.count) : t.items[i].key = k =>
              BucketItem(t, k) # NoEntry /\ BucketItem(t, k) <= i
<1>. DEFINE S == {i \in Bucket(k, t.count) : t.items[i].key = k}
<1>1. Bucket(k, t.count) \subseteq Positions(t.count) /\ Positions(t.count) \subseteq Nat
  BY BucketFacts, EntriesAre DEF TableOk
<1>2. S \in SUBSET Nat /\ BucketItem(t, k) = First(S)
  BY <1>1 DEF BucketItem
<1>3. /\ S = {} <=> First(S) = NoEntry
      /\ S # {} => First(S) \in S /\ \A i \in S : First(S) <= i
  BY <1>2, FirstIs
<1> QED
  BY <1>1, <1>2, <1>3

LEMMA FreeItemIs ==
  ASSUME NEW t, TableOk(t), NEW k \in Int
  PROVE  /\ FreeItem(t, k) # NoEntry =>
              /\ FreeItem(t, k) \in Bucket(k, t.count) /\ FreeItem(t, k) \in Positions(t.count)
              /\ t.items[FreeItem(t, k)].handle = NullHandle
         /\ \A i \in Bucket(k, t.count) : t.items[i].handle = NullHandle => FreeItem(t, k) # NoEntry
<1>. DEFINE S == {i \in Bucket(k, t.count) : t.items[i].handle = NullHandle}
<1>1. Bucket(k, t.count) \subseteq Positions(t.count) /\ Positions(t.count) \subseteq Nat
  BY BucketFacts, EntriesAre DEF TableOk
<1>2. S \in SUBSET Nat /\ FreeItem(t, k) = First(S)
  BY <1>1 DEF FreeItem
<1>3. /\ S = {} <=> First(S) = NoEntry
      /\ S # {} => First(S) \in S /\ \A i \in S : First(S) <= i
  BY <1>2, FirstIs
<1> QED
  BY <1>1, <1>2, <1>3

-----------------------------------------------------------------------------
(* Growing.                                                                  *)

\* Where an entry of a table came from.
LEMMA Source ==
  ASSUME NEW t, NEW u, TableOk(t), TableOk(u), u.count = 2 * t.count,
         NEW n \in 0 .. t.count * BucketCapacity, Carried(t, u, n),
         NEW k \in Int, NEW i \in Bucket(k, u.count), InUse(u.items, i)
  PROVE  \E m \in Bucket(k, t.count) :
           m < n /\ m \in Positions(t.count) /\ u.items[i] = t.items[m] /\ InUse(t.items, m)
<1>1. t.count \in Nat \ {0} /\ u.count \in Nat \ {0} /\ Coarsens(t.count, u.count)
  BY DoublingSplits DEF TableOk
<1>2. i \in Positions(u.count) /\ Positions(u.count) \subseteq Nat
  BY <1>1, BucketFacts, EntriesAre
<1>3. PICK m \in 0 .. n - 1 : u.items[i] = t.items[m]
  BY <1>2 DEF Carried
<1>4. m \in Positions(t.count) /\ m < n /\ InUse(t.items, m)
  <2>1. t.count * BucketCapacity \in Nat
    BY EntriesAre
  <2> QED
    BY <1>3, <2>1 DEF Positions, InUse
<1>. DEFINE l == t.items[m].key
<1>5. l \in Int /\ i \in Bucket(l, u.count) /\ m \in Bucket(l, t.count)
  BY <1>2, <1>3, <1>4, EntriesAre DEF TableOk
<1>6. BucketIndex(l, t.count) = BucketIndex(k, t.count)
  <2>1. BucketIndex(l, u.count) = BucketIndex(k, u.count)
    BY <1>1, <1>5, OneBucket
  <2> QED
    BY <1>1, <1>5, <2>1 DEF Coarsens
<1>7. m \in Bucket(k, t.count)
  BY <1>5, <1>6 DEF Bucket
<1> QED
  BY <1>3, <1>4, <1>7

\* A bucket of the new table is not filled from one of the old table without one place.
LEMMA NotFilled ==
  ASSUME NEW t, NEW u, TableOk(t), TableOk(u), NEW k \in Int, NEW n \in Bucket(k, t.count),
         \A i \in Bucket(k, u.count) :
           InUse(u.items, i) /\ \E m \in Bucket(k, t.count) \ {n} : u.items[i] = t.items[m]
  PROVE  FALSE
<1>1. /\ t.count \in Nat \ {0} /\ u.count \in Nat \ {0}
      /\ Bucket(k, u.count) \subseteq Positions(u.count)
  BY BucketFacts DEF TableOk
<1>. DEFINE f == [i \in Bucket(k, u.count) |->
                    CHOOSE m \in Bucket(k, t.count) \ {n} : u.items[i] = t.items[m]]
<1>2. ASSUME NEW i \in Bucket(k, u.count)
      PROVE  f[i] \in Bucket(k, t.count) \ {n} /\ u.items[i] = t.items[f[i]]
  OBVIOUS
<1>3. f \in [Bucket(k, u.count) -> Bucket(k, t.count) \ {n}]
  BY <1>2
<1>4. ASSUME NEW i \in Bucket(k, u.count), NEW j \in Bucket(k, u.count), f[i] = f[j]
      PROVE  i = j
  <2>1. u.items[i] = u.items[j]
    BY <1>2, <1>4
  <2> QED
    BY <1>1, <2>1 DEF TableOk
<1>. HIDE DEF f
<1> QED
  BY <1>1, <1>3, <1>4, NoRoomFor

\* The entries that n moves make of an empty table.
Loop(t, u, n) ==
    /\ u.count = 2 * t.count
    /\ TableOk(u)
    /\ FirstInUse(u)
    /\ Carried(t, u, n)

\* The last bucket ends the table.
LEMMA LastBucket ==
  ASSUME NEW c \in Nat \ {0}, NEW m \in Bucket(NoKey, c), NEW n \in Positions(c), m < n
  PROVE  n \in Bucket(NoKey, c)
<1>1. BucketIndex(NoKey, c) = c - 1
  <2>0. PICK k \in Int : k = -1
    OBVIOUS
  <2>1. k % c \in 0 .. c - 1
    BY Division
  <2>2. PICK q \in Int : k = q * c + (k % c)
    BY Division
  <2>3. PICK r \in 0 .. c - 1 : r = k % c
    BY <2>1
  <2>4. PICK v \in 0 .. c - 1 : v = c - 1
    OBVIOUS
  <2>5. q * c + r = (-1) * c + v
    BY <2>0, <2>2, <2>3, <2>4
  <2>6. r = v
    BY <2>5, Rows
  <2> QED
    BY <2>0, <2>3, <2>4, <2>6 DEF BucketIndex, NoKey
<1>2. Bucket(NoKey, c) = ((c - 1) * BucketCapacity)
                           .. ((c - 1) * BucketCapacity + BucketCapacity - 1)
  BY <1>1, BucketFacts DEF NoKey
<1>3. /\ (c - 1) * BucketCapacity \in Nat
      /\ (c - 1) * BucketCapacity + BucketCapacity = c * BucketCapacity
  BY Numbers
<1> QED
  BY <1>2, <1>3, Numbers DEF Positions

\* Every entry finds a place in the new table.
LEMMA MoveFits ==
  ASSUME NEW t, NEW u, TableOk(t), NEW n \in Positions(t.count), Loop(t, u, n)
  PROVE  NextBucketItem(u, t.items[n].key) # NoEntry
<1>. DEFINE k == t.items[n].key
<1>1. /\ k \in Int /\ t.count \in Nat \ {0} /\ TableOk(u) /\ u.count \in Nat \ {0}
      /\ u.count = 2 * t.count /\ Carried(t, u, n)
  BY EntriesAre DEF TableOk, Loop
<1>0. n \in 0 .. t.count * BucketCapacity
  <2>1. t.count * BucketCapacity \in Nat
    BY EntriesAre
  <2> QED
    BY <2>1 DEF Positions
<1>. SUFFICES ASSUME BucketItem(u, k) = NoEntry, FreeItem(u, k) = NoEntry
              PROVE  FALSE
  BY DEF NextBucketItem
<1>. HIDE DEF k
<1>2. ASSUME NEW i \in Bucket(k, u.count)
      PROVE  InUse(u.items, i)
  BY <1>1, FreeItemIs DEF InUse
<1>3. ASSUME NEW i \in Bucket(k, u.count)
      PROVE  \E m \in Bucket(k, t.count) : m < n /\ u.items[i] = t.items[m]
  BY <1>0, <1>1, <1>2, Source
<1>4. n \in Bucket(k, t.count)
  <2>1. CASE InUse(t.items, n)
    BY <2>1 DEF TableOk, k
  <2>2. CASE ~InUse(t.items, n)
    <3>1. k = NoKey
      BY <2>2 DEF TableOk, k
    <3>2. Bucket(k, u.count) # {}
      BY <1>1, BucketFacts
    <3>3. PICK m \in Bucket(k, t.count) : m < n
      BY <1>3, <3>2
    <3> QED
      BY <1>1, <3>1, <3>3, LastBucket
  <2> QED
    BY <2>1, <2>2
<1>5. ASSUME NEW i \in Bucket(k, u.count)
      PROVE  \E m \in Bucket(k, t.count) \ {n} : u.items[i] = t.items[m]
  <2>1. PICK m \in Bucket(k, t.count) : m < n /\ u.items[i] = t.items[m]
    BY <1>3
  <2>2. m # n
    <3>1. n \in Nat
      BY EntriesAre
    <3> QED
      BY <2>1, <3>1
  <2> QED
    BY <2>1, <2>2
<1> QED
  BY <1>1, <1>2, <1>4, <1>5, NotFilled

\* An entry is put where nothing is lost.
LEMMA MovePlace ==
  ASSUME NEW t, NEW u, TableOk(t), NEW n \in Positions(t.count), Loop(t, u, n)
  PROVE  LET k == t.items[n].key
             i == NextBucketItem(u, k)
         IN  /\ i \in Bucket(k, u.count) /\ i \in Positions(u.count)
             /\ u.items[i].key = NoKey
             /\ k = NoKey => \A j \in Bucket(NoKey, u.count) : u.items[j].key = NoKey => i <= j
             /\ k # NoKey => ~InUse(u.items, i)
<1>. DEFINE k == t.items[n].key
            i == NextBucketItem(u, k)
<1>1. /\ k \in Int /\ TableOk(u) /\ u.count \in Nat \ {0}
      /\ Bucket(k, u.count) \subseteq Positions(u.count)
  BY EntriesAre, BucketFacts DEF TableOk, Loop
<1>2. i # NoEntry
  BY MoveFits
<1>. HIDE DEF k
<1>3. CASE k = NoKey
  <2>1. BucketItem(u, k) # NoEntry
    <3>1. CASE FreeItem(u, k) # NoEntry
      <4>1. PICK j \in Bucket(k, u.count) : u.items[j].handle = NullHandle
        BY <1>1, <3>1, FreeItemIs
      <4>2. u.items[j].key = k
        BY <1>1, <1>3, <4>1 DEF TableOk, InUse
      <4> QED
        BY <1>1, <4>1, <4>2, BucketItemIs
    <3> QED
      BY <1>2, <3>1 DEF NextBucketItem
  <2>2. i = BucketItem(u, k)
    BY <2>1 DEF NextBucketItem
  <2>3. /\ i \in Bucket(k, u.count) /\ i \in Positions(u.count) /\ u.items[i].key = k
        /\ \A j \in Bucket(k, u.count) : u.items[j].key = k => i <= j
    BY <1>1, <2>1, <2>2, BucketItemIs
  <2> QED
    BY <1>3, <2>3 DEF k
<1>4. CASE k # NoKey
  <2>1. BucketItem(u, k) = NoEntry
    <3>1. SUFFICES ASSUME BucketItem(u, k) # NoEntry
                   PROVE  FALSE
      OBVIOUS
    <3>2. PICK j \in Bucket(k, u.count) : u.items[j].key = k
      BY <1>1, <3>1, BucketItemIs
    <3>3. InUse(u.items, j) /\ j \in Positions(u.count)
      BY <1>1, <1>4, <3>2 DEF TableOk
    <3>4. n \in Nat /\ n \in 0 .. t.count * BucketCapacity /\ u.count = 2 * t.count
          /\ Carried(t, u, n)
      BY EntriesAre DEF Loop, Positions
    <3>5. PICK m \in Bucket(k, t.count) :
            m < n /\ m \in Positions(t.count) /\ u.items[j] = t.items[m] /\ InUse(t.items, m)
      BY <1>1, <3>2, <3>3, <3>4, Source
    <3>6. m # n /\ t.items[m].key = k
      BY <3>2, <3>4, <3>5
    <3>7. InUse(t.items, n)
      BY <1>4 DEF k, TableOk
    <3> QED
      BY <1>4, <3>5, <3>6, <3>7 DEF k, TableOk
  <2>2. i = FreeItem(u, k)
    BY <2>1 DEF NextBucketItem
  <2>3. i \in Bucket(k, u.count) /\ i \in Positions(u.count) /\ ~InUse(u.items, i)
    BY <1>1, <1>2, <2>2, FreeItemIs DEF InUse
  <2>4. u.items[i].key = NoKey
    BY <1>1, <2>3 DEF TableOk
  <2> QED
    BY <1>4, <2>3, <2>4 DEF k
<1> QED
  BY <1>3, <1>4

LEMMA MoveKeeps ==
  ASSUME NEW t, NEW u, TableOk(t), NEW n \in Positions(t.count), Loop(t, u, n), NEW v,
         v.count = u.count,
         v.items = [u.items EXCEPT ![NextBucketItem(u, t.items[n].key)] = t.items[n]]
  PROVE  Loop(t, v, n + 1)
<1>. DEFINE k == t.items[n].key
            i == NextBucketItem(u, k)
<1>1. /\ i \in Bucket(k, u.count) /\ i \in Positions(u.count)
      /\ u.items[i].key = NoKey
      /\ k = NoKey => \A j \in Bucket(NoKey, u.count) : u.items[j].key = NoKey => i <= j
      /\ k # NoKey => ~InUse(u.items, i)
  BY MovePlace
<1>2. /\ TableOk(u) /\ FirstInUse(u) /\ Carried(t, u, n) /\ u.count = 2 * t.count
      /\ u.items \in [Positions(u.count) -> Entries]
      /\ t.items[n] \in Entries /\ k \in Int
      /\ Positions(u.count) \subseteq Nat
      /\ Bucket(NoKey, u.count) \subseteq Positions(u.count)
  <2>1. TableOk(u) /\ u.count \in Nat \ {0} /\ NoKey \in Int
    BY DEF Loop, TableOk, NoKey
  <2> QED
    BY <2>1, EntriesAre, BucketFacts DEF Loop, TableOk
<1>3. n \in Nat /\ n - 1 \in Int /\ \A m : m \in 0 .. n <=> m \in 0 .. n - 1 \/ m = n
  BY EntriesAre
<1>4. /\ v.items[i] = t.items[n]
      /\ \A j \in Positions(u.count) : j # i => v.items[j] = u.items[j]
      /\ v.items \in [Positions(u.count) -> Entries]
  BY <1>1, <1>2
<1>5. InUse(t.items, n) => i \in Bucket(v.items[i].key, u.count)
  BY <1>1, <1>4
<1>6. ~InUse(t.items, n) => k = NoKey
  BY DEF TableOk
<1>. HIDE DEF i, k
<1>7. ASSUME NEW j \in Positions(u.count), j # i, InUse(u.items, j), InUse(t.items, n)
      PROVE  /\ u.items[j].handle # t.items[n].handle
             /\ u.items[j].key = t.items[n].key => t.items[n].key = NoKey
  <2>1. PICK m \in 0 .. n - 1 : u.items[j] = t.items[m]
    BY <1>2, <1>7 DEF Carried
  <2>2. m \in Positions(t.count) /\ m # n /\ InUse(t.items, m)
    <3>1. n \in 0 .. t.count * BucketCapacity - 1 /\ t.count * BucketCapacity \in Nat
      BY EntriesAre DEF Positions
    <3> QED
      BY <1>7, <2>1, <3>1 DEF InUse, Positions
  <2> QED
    BY <1>7, <2>1, <2>2 DEF TableOk
<1>8. TableOk(v)
  <2>1. ASSUME NEW j \in Positions(u.count)
        PROVE  /\ InUse(v.items, j) => j \in Bucket(v.items[j].key, u.count)
               /\ ~InUse(v.items, j) => v.items[j].key = NoKey
    BY <1>2, <1>4, <1>5, <1>6 DEF TableOk, InUse, k
  <2>2. ASSUME NEW j \in Positions(u.count), NEW l \in Positions(u.count), j # l,
               InUse(v.items, j), InUse(v.items, l)
        PROVE  /\ v.items[j].handle # v.items[l].handle
               /\ v.items[j].key = v.items[l].key => v.items[j].key = NoKey
    <3>1. CASE j = i
      BY <1>4, <1>7, <2>2, <3>1 DEF InUse
    <3>2. CASE l = i
      BY <1>4, <1>7, <2>2, <3>2 DEF InUse
    <3>3. CASE j # i /\ l # i
      BY <1>2, <1>4, <2>2, <3>3 DEF TableOk, InUse
    <3> QED
      BY <3>1, <3>2, <3>3
  <2> QED
    BY <1>2, <1>4, <2>1, <2>2 DEF TableOk
<1>9. FirstInUse(v)
  <2> SUFFICES ASSUME NEW p \in Positions(u.count), NEW j \in Bucket(NoKey, u.count),
                      InUse(v.items, p), v.items[p].key = NoKey, v.items[j].key = NoKey
               PROVE  p <= j
    BY DEF FirstInUse
  <2>1. j \in Positions(u.count) /\ p \in Nat /\ j \in Nat /\ i \in Nat
    BY <1>1, <1>2
  <2>2. u.items[j].key = NoKey
    BY <1>1, <1>4, <2>1
  <2>3. CASE p = i
    <3>1. k = NoKey
      BY <1>4, <2>3 DEF k
    <3> QED
      BY <1>1, <2>2, <2>3, <3>1
  <2>4. CASE p # i
    <3>1. InUse(u.items, p) /\ u.items[p].key = NoKey
      BY <1>4, <2>4 DEF InUse
    <3> QED
      BY <1>2, <2>2, <3>1 DEF FirstInUse
  <2> QED
    BY <2>3, <2>4
<1>10. Carried(t, v, n + 1)
  <2>1. ASSUME NEW p \in Positions(u.count), InUse(v.items, p)
        PROVE  \E m \in 0 .. n : v.items[p] = t.items[m]
    <3>1. CASE p = i
      BY <1>3, <1>4, <3>1
    <3>2. CASE p # i
      BY <1>2, <1>3, <1>4, <2>1, <3>2 DEF Carried, InUse
    <3> QED
      BY <3>1, <3>2
  <2>2. ASSUME NEW m \in 0 .. n, t.items[m].key # NoKey
        PROVE  \E p \in Positions(u.count) : v.items[p] = t.items[m]
    <3>1. CASE m = n
      BY <1>1, <1>4, <3>1
    <3>2. CASE m # n
      <4>1. PICK p \in Positions(u.count) : u.items[p] = t.items[m]
        BY <1>2, <1>3, <2>2, <3>2 DEF Carried
      <4>2. p # i
        BY <1>1, <2>2, <4>1
      <4> QED
        BY <1>4, <4>1, <4>2
    <3> QED
      BY <3>1, <3>2
  <2>3. (n + 1) - 1 = n
    BY <1>3
  <2> QED
    BY <2>1, <2>2, <2>3 DEF Carried
<1> QED
  BY <1>2, <1>8, <1>9, <1>10 DEF Loop

\* The moves one by one.
Moves(t, f, m) ==
    f = [n \in 0 .. m |->
           IF n = 0 THEN UnusedItems(2 * t.count)
           ELSE MovedTo(f[n - 1], 2 * t.count, t.items[NthMoved(n, t.count)])]

LEMMA MovesExist ==
  ASSUME NEW t, NEW m \in Nat
  PROVE  \E f : Moves(t, f, m)
<1>. DEFINE Bad == {n \in Nat : ~\E f : Moves(t, f, n)}
            Moved(n, items) == MovedTo(items, 2 * t.count, t.items[NthMoved(n, t.count)])
            Is(f, n) == f[n] = IF n = 0 THEN UnusedItems(2 * t.count) ELSE Moved(n, f[n - 1])
<1>1. SUFFICES ASSUME Bad # {}
               PROVE  FALSE
  OBVIOUS
<1>2. Bad \in SUBSET Nat
  OBVIOUS
<1>3. PICK b \in Bad : \A n \in Bad : b <= n
  BY <1>1, <1>2, Least
<1>4. CASE b = 0
  <2>. DEFINE f == [n \in 0 .. 0 |-> UnusedItems(2 * t.count)]
  <2>1. Moves(t, f, 0)
    BY DEF Moves
  <2> QED
    BY <1>3, <1>4, <2>1
<1>5. CASE b # 0
  <2>1. b \in Nat /\ b - 1 \in Nat /\ b - 1 \notin Bad
    BY <1>3, <1>5
  <2>2. PICK f : Moves(t, f, b - 1)
    BY <2>1
  <2>3. \A n \in 0 .. b - 1 : Is(f, n)
    BY <2>2 DEF Moves
  <2>. DEFINE g == [n \in 0 .. b |-> IF n = b THEN Moved(b, f[b - 1]) ELSE f[n]]
  <2>4. ASSUME NEW n \in 0 .. b
        PROVE  Is(g, n)
    <3>1. CASE n = 0
      BY <1>5, <2>1, <2>3, <3>1
    <3>2. CASE n # 0 /\ n # b
      <4>1. n \in 0 .. b - 1 /\ n - 1 \in 0 .. b /\ n - 1 # b
        BY <2>1, <3>2
      <4>2. g[n] = f[n] /\ g[n - 1] = f[n - 1] /\ Is(f, n)
        BY <2>3, <3>2, <4>1
      <4>. HIDE DEF g, Moved
      <4> QED
        BY <3>2, <4>2
    <3>3. CASE n = b
      <4>1. b - 1 \in 0 .. b /\ b - 1 # b
        BY <2>1
      <4>2. g[n] = Moved(b, f[b - 1]) /\ g[b - 1] = f[b - 1]
        BY <3>3, <4>1
      <4>. HIDE DEF g, Moved
      <4> QED
        BY <1>5, <3>3, <4>2
    <3> QED
      BY <3>1, <3>2, <3>3
  <2>5. g = [n \in 0 .. b |-> g[n]]
    OBVIOUS
  <2>. HIDE DEF g
  <2>6. Moves(t, g, b)
    BY <2>4, <2>5 DEF Moves
  <2> QED
    BY <1>3, <2>6
<1> QED
  BY <1>4, <1>5

LEMMA Emptied ==
  ASSUME NEW c \in Nat \ {0}
  PROVE  /\ UnusedItems(c) \in [Positions(c) -> Entries]
         /\ \A i \in Positions(c) : UnusedItems(c)[i] = Unused /\ ~InUse(UnusedItems(c), i)
         /\ TableOk(Table(c, UnusedItems(c)))
<1>1. Unused \in Entries
  BY DEF Unused, Entries
<1>2. UnusedItems(c) = [i \in Positions(c) |-> Unused]
  BY DEF UnusedItems, Positions
<1>3. /\ UnusedItems(c) \in [Positions(c) -> Entries]
      /\ \A i \in Positions(c) : UnusedItems(c)[i] = Unused
  BY <1>1, <1>2
<1>4. \A i \in Positions(c) : ~InUse(UnusedItems(c), i) /\ UnusedItems(c)[i].key = NoKey
  BY <1>3 DEF InUse, Unused
<1> QED
  BY <1>3, <1>4 DEF TableOk, Table

\* The moves find every entry a place, and keep what Loop says.
LEMMA MovesLoop ==
  ASSUME NEW t, TableOk(t), NEW f, Moves(t, f, t.count * BucketCapacity)
  PROVE  Loop(t, Table(2 * t.count, f[t.count * BucketCapacity]), t.count * BucketCapacity)
<1>. DEFINE m == t.count * BucketCapacity
            After(n) == Table(2 * t.count, f[n])
            Bad == {n \in 0 .. m : ~Loop(t, After(n), n)}
<1>1. m \in Nat /\ t.count \in Nat \ {0} /\ 2 * t.count \in Nat \ {0}
  BY EntriesAre DEF TableOk
<1>. HIDE DEF m
<1>2. SUFFICES ASSUME Bad # {}
               PROVE  FALSE
  BY <1>1 DEF m
<1>3. Bad \in SUBSET Nat
  BY <1>1
<1>4. PICK b \in Bad : \A n \in Bad : b <= n
  BY <1>2, <1>3, Least
<1>5. \A n \in 0 .. m : f[n] = IF n = 0 THEN UnusedItems(2 * t.count)
                               ELSE MovedTo(f[n - 1], 2 * t.count, t.items[NthMoved(n, t.count)])
  BY DEF Moves, m
<1>6. CASE b = 0
  <2>. DEFINE u == Table(2 * t.count, UnusedItems(2 * t.count))
  <2>1. /\ TableOk(u) /\ u.count = 2 * t.count
        /\ \A i \in Positions(u.count) : ~InUse(u.items, i)
    BY <1>1, Emptied DEF Table
  <2>2. After(0) = u
    BY <1>1, <1>5
  <2>. HIDE DEF u
  <2>3. 0 .. 0 - 1 = {}
    OBVIOUS
  <2>4. Loop(t, u, 0)
    BY <2>1, <2>3 DEF Loop, FirstInUse, Carried
  <2> QED
    BY <1>4, <1>6, <2>2, <2>4
<1>7. CASE b # 0
  <2>. DEFINE n == b - 1
              u == After(n)
              v == After(b)
              entry == t.items[n]
  <2>1. n \in 0 .. m /\ n \notin Bad /\ n \in Positions(t.count) /\ b \in 0 .. m /\ n + 1 = b
    BY <1>1, <1>4, <1>7 DEF m, Positions
  <2>2. Loop(t, u, n)
    BY <2>1
  <2>3. f[b] = MovedTo(f[n], 2 * t.count, entry)
    BY <1>5, <1>7, <2>1 DEF NthMoved
  <2>4. u.count = 2 * t.count /\ u.items = f[n] /\ v.count = 2 * t.count /\ v.items = f[b]
    BY DEF Table
  <2>5. u.items # Crash
    BY <2>2, EntriesAre DEF Loop
  <2>6. NextBucketItem(u, entry.key) # NoEntry
    BY <2>1, <2>2, MoveFits
  <2>7. v.items = [u.items EXCEPT ![NextBucketItem(u, entry.key)] = entry]
    BY <2>3, <2>4, <2>5, <2>6 DEF MovedTo
  <2>. HIDE DEF u, v
  <2>8. Loop(t, v, n + 1)
    BY <2>1, <2>2, <2>4, <2>7, MoveKeeps
  <2> QED
    BY <1>4, <2>1, <2>8 DEF v
<1> QED
  BY <1>6, <1>7

\* What growing makes of a table.
LEMMA ResizedIs ==
  ASSUME NEW t, TableOk(t)
  PROVE  Loop(t, Resized(t), t.count * BucketCapacity)
<1>. DEFINE m == t.count * BucketCapacity
            f == CHOOSE g : Moves(t, g, m)
<1>1. m \in Nat
  BY EntriesAre
<1>. HIDE DEF m
<1>2. Moves(t, f, m)
  BY <1>1, MovesExist
<1>3. Resized(t) = Table(2 * t.count, f[m])
  BY DEF Resized, Moves, NewCount, m
<1>. HIDE DEF f
<1> QED
  BY <1>2, <1>3, MovesLoop DEF m

\* A key that has an entry keeps one: the entry of -1 is not the last that is filled.
LEMMA KeysKept ==
  ASSUME NEW t, TableOk(t), NEW u, Loop(t, u, t.count * BucketCapacity), NEW k \in Int,
         BucketItem(t, k) # NoEntry
  PROVE  BucketItem(u, k) # NoEntry
<1>. DEFINE n == BucketItem(t, k)
            m == t.count * BucketCapacity
<1>1. /\ TableOk(u) /\ u.count = 2 * t.count /\ Carried(t, u, m) /\ m \in 0 .. m
      /\ u.count \in Nat \ {0} /\ Bucket(k, u.count) \subseteq Positions(u.count)
  <2>1. TableOk(u) /\ u.count = 2 * t.count /\ Carried(t, u, m)
    BY DEF Loop
  <2>2. m \in Nat
    BY EntriesAre
  <2>3. m \in 0 .. m
    <3>. HIDE DEF m
    <3> QED
      BY <2>2
  <2>4. u.count \in Nat \ {0}
    BY <2>1 DEF TableOk
  <2> QED
    BY <2>1, <2>3, <2>4, BucketFacts
<1>2. n \in Bucket(k, t.count) /\ n \in Positions(t.count) /\ t.items[n].key = k
  BY BucketItemIs
<1>. HIDE DEF n
<1>3. CASE k # NoKey
  <2>1. InUse(t.items, n) /\ n \in 0 .. m - 1
    BY <1>2, <1>3 DEF TableOk, Positions
  <2>2. PICK i \in Positions(u.count) : u.items[i] = t.items[n]
    BY <1>1, <1>2, <1>3, <2>1 DEF Carried
  <2>3. i \in Bucket(k, u.count) /\ u.items[i].key = k
    BY <1>1, <1>2, <2>1, <2>2 DEF TableOk, InUse
  <2> QED
    BY <1>1, <2>3, BucketItemIs
<1>4. CASE k = NoKey
  <2>. SUFFICES ASSUME BucketItem(u, k) = NoEntry
                PROVE  FALSE
    OBVIOUS
  <2>1. ASSUME NEW i \in Bucket(k, u.count)
        PROVE  InUse(u.items, i) /\ u.items[i].key # k
    <3>1. u.items[i].key # k
      BY <1>1, BucketItemIs
    <3> QED
      BY <1>1, <1>4, <3>1 DEF TableOk
  <2>2. ASSUME NEW i \in Bucket(k, u.count)
        PROVE  \E p \in Bucket(k, t.count) \ {n} : u.items[i] = t.items[p]
    <3>1. PICK p \in Bucket(k, t.count) :
            p < m /\ p \in Positions(t.count) /\ u.items[i] = t.items[p] /\ InUse(t.items, p)
      BY <1>1, <2>1, Source
    <3>2. p # n
      BY <1>2, <2>1, <3>1
    <3> QED
      BY <3>1, <3>2
  <2>3. \A i \in Bucket(k, u.count) :
          InUse(u.items, i) /\ \E p \in Bucket(k, t.count) \ {n} : u.items[i] = t.items[p]
    BY <2>1, <2>2
  <2>4. TableOk(u) /\ n \in Bucket(k, t.count)
    BY <1>1, <1>2
  <2>. HIDE DEF m
  <2> QED
    BY <2>3, <2>4, NotFilled
<1> QED
  BY <1>3, <1>4

LEMMA GrownItself ==
  ASSUME NEW t, TableOk(t)
  PROVE  Grown(t, t)
<1>1. 0 .. t.count * BucketCapacity - 1 = Positions(t.count)
  BY DEF Positions
<1>2. Carried(t, t, t.count * BucketCapacity)
  BY <1>1 DEF Carried
<1> QED
  BY <1>2 DEF Grown

LEMMA GrownMore ==
  ASSUME NEW t, TableOk(t), NEW v, Grown(t, v)
  PROVE  Grown(t, Resized(v))
<1>. DEFINE u == Resized(v)
            m == t.count * BucketCapacity
            n == v.count * BucketCapacity
<1>1. TableOk(v) /\ Carried(t, v, m) /\ Loop(v, u, n)
  BY ResizedIs DEF Grown
<1>. HIDE DEF u
<1>2. TableOk(u) /\ Carried(v, u, n) /\ u.count = 2 * v.count
  BY <1>1 DEF Loop
<1>3. /\ t.count \in Nat \ {0} /\ v.count \in Nat \ {0}
      /\ Positions(t.count) = 0 .. m - 1 /\ Positions(v.count) = 0 .. n - 1
  BY <1>1 DEF TableOk, Positions
<1>4. Carried(t, u, m)
  <2>1. ASSUME NEW i \in Positions(u.count), InUse(u.items, i)
        PROVE  \E p \in 0 .. m - 1 : u.items[i] = t.items[p]
    <3>1. PICK j \in Positions(v.count) : u.items[i] = v.items[j]
      BY <1>2, <1>3, <2>1 DEF Carried
    <3>2. InUse(v.items, j)
      BY <2>1, <3>1 DEF InUse
    <3> QED
      BY <1>1, <3>1, <3>2 DEF Carried
  <2>2. ASSUME NEW p \in 0 .. m - 1, t.items[p].key # NoKey
        PROVE  \E i \in Positions(u.count) : u.items[i] = t.items[p]
    <3>1. PICK j \in 0 .. n - 1 : v.items[j] = t.items[p]
      BY <1>1, <1>3, <2>2 DEF Carried
    <3> QED
      BY <1>2, <2>2, <3>1 DEF Carried
  <2> QED
    BY <2>1, <2>2 DEF Carried
<1>5. Coarsens(2 * t.count, u.count)
  <2>1. CASE v = t
    BY <1>2, <2>1 DEF Coarsens
  <2>2. CASE v # t
    <3>1. Coarsens(2 * t.count, v.count)
      BY <2>2 DEF Grown
    <3>2. Coarsens(v.count, u.count)
      BY <1>2, <1>3, DoublingSplits
    <3> QED
      BY <3>1, <3>2 DEF Coarsens
  <2> QED
    BY <2>1, <2>2
<1>6. ASSUME NEW k \in Int, BucketItem(t, k) # NoEntry
      PROVE  BucketItem(u, k) # NoEntry
  <2>1. BucketItem(v, k) # NoEntry
    BY <1>6 DEF Grown
  <2> QED
    BY <1>1, <2>1, KeysKept
<1>7. Grown(t, u)
  BY <1>2, <1>4, <1>5, <1>6 DEF Grown
<1> QED
  BY <1>7 DEF u

-----------------------------------------------------------------------------
(* Storing.                                                                  *)

LEMMA Fields ==
  ASSUME NEW k, NEW h, NEW e, e = [key |-> k, handle |-> h]
  PROVE  e.key = k /\ e.handle = h
OBVIOUS

LEMMA HeldWhenGrown ==
  ASSUME NEW t, TableOk(t), Held(t), NEW u, Grown(t, u)
  PROVE  Held(u)
<1>1. Carried(t, u, t.count * BucketCapacity)
      /\ Positions(t.count) = 0 .. t.count * BucketCapacity - 1
  BY DEF Grown, Positions
<1>2. ASSUME NEW i \in Positions(u.count), InUse(u.items, i)
      PROVE  /\ u.items[i].handle \in DOMAIN cache
             /\ key_of[u.items[i].handle] = u.items[i].key
  <2>1. PICK m \in Positions(t.count) : u.items[i] = t.items[m]
    BY <1>1, <1>2 DEF Carried
  <2> QED
    BY <1>2, <2>1 DEF Held, InUse
<1>3. ASSUME NEW h \in DOMAIN cache, key_of[h] # NoKey
      PROVE  \E i \in Positions(u.count) : u.items[i] = [key |-> key_of[h], handle |-> h]
  <2>1. PICK m \in Positions(t.count) : t.items[m] = [key |-> key_of[h], handle |-> h]
    BY <1>3 DEF Held
  <2> QED
    BY <1>1, <1>3, <2>1 DEF Carried
<1> QED
  BY <1>2, <1>3 DEF Held

\* A key is put where nobody's entry is but its own.
LEMMA PlaceIs ==
  ASSUME NEW t, TableOk(t), NEW k \in Int, NextBucketItem(t, k) # NoEntry
  PROVE  LET i == NextBucketItem(t, k) IN
         /\ i \in Bucket(k, t.count) /\ i \in Positions(t.count)
         /\ InUse(t.items, i) => t.items[i].key = k
         /\ \A j \in Positions(t.count) :
              j # i /\ InUse(t.items, j) /\ t.items[j].key = k => k = NoKey
<1>1. CASE BucketItem(t, k) # NoEntry
  <2>. DEFINE i == BucketItem(t, k)
  <2>1. i \in Bucket(k, t.count) /\ i \in Positions(t.count) /\ t.items[i].key = k
    BY <1>1, BucketItemIs
  <2>2. NextBucketItem(t, k) = i
    BY <1>1 DEF NextBucketItem
  <2>. HIDE DEF i
  <2>3. ASSUME NEW j \in Positions(t.count), j # i, InUse(t.items, j), t.items[j].key = k
        PROVE  k = NoKey
    BY <2>1, <2>3 DEF TableOk
  <2> QED
    BY <2>1, <2>2, <2>3
<1>2. CASE BucketItem(t, k) = NoEntry
  <2>. DEFINE i == FreeItem(t, k)
  <2>1. NextBucketItem(t, k) = i
    BY <1>2 DEF NextBucketItem
  <2>2. i \in Bucket(k, t.count) /\ i \in Positions(t.count) /\ ~InUse(t.items, i)
    BY <2>1, FreeItemIs DEF InUse
  <2>. HIDE DEF i
  <2>3. ASSUME NEW j \in Positions(t.count), InUse(t.items, j), t.items[j].key = k
        PROVE  FALSE
    <3>1. j \in Bucket(k, t.count)
      BY <2>3 DEF TableOk
    <3> QED
      BY <1>2, <2>3, <3>1, BucketItemIs
  <2> QED
    BY <2>1, <2>2, <2>3
<1> QED
  BY <1>1, <1>2

Living == status = "in use"

\* Storing keeps the invariant, whatever became of the table.
LEMMA StoreAtKeeps ==
  ASSUME MInv, Living, NEW t, TableOk(t), Held(t),
         NEW k \in HashedKeys, NEW item \in Items, Handles # DOMAIN cache,
         NextBucketItem(t, k) # NoEntry, StoreAt(t, NextBucketItem(t, k), k, item)
  PROVE  MInv'
<1>. DEFINE i == NextBucketItem(t, k)
            old == t.items[i].handle
            rest == Without(cache, old)
            h == NewHandle(rest)
            new == [key |-> k, handle |-> h]
<1>1. /\ k \in Int /\ i \in Bucket(k, t.count) /\ i \in Positions(t.count)
      /\ InUse(t.items, i) => t.items[i].key = k
      /\ \A j \in Positions(t.count) :
           j # i /\ InUse(t.items, j) /\ t.items[j].key = k => k = NoKey
  <2>1. k \in Int
    BY Numbers
  <2> QED
    BY <2>1, PlaceIs
<1>2. /\ bucket_count' = t.count
      /\ bucket_items' = [t.items EXCEPT ![i] = new]
      /\ cache' = Map!With(rest, h, item)
      /\ key_of' = Map!With(Restrict(key_of, DOMAIN rest), h, k)
      /\ content' = Map!With(content, k, item)
      /\ status' = status /\ wanted' = wanted
  BY DEF StoreAt, Map!Put
<1>. HIDE DEF i
<1>3. /\ TypeOK
      /\ cache \in [DOMAIN cache -> Items] /\ DOMAIN cache \subseteq Handles
      /\ key_of \in [DOMAIN cache -> HashedKeys]
      /\ t.count \in Nat /\ t.items \in [Positions(t.count) -> Entries]
  BY DEF MInv, TypeOK, TableOk
<1>4. /\ DOMAIN rest = DOMAIN cache \ {old}
      /\ \A l \in DOMAIN rest : rest[l] = cache[l]
  BY DEF Without, Restrict
<1>. HIDE DEF rest
<1>5. h \in Handles /\ h \notin DOMAIN rest /\ h # NullHandle
  <2>1. \E g \in Handles : g \notin DOMAIN rest
    BY <1>3, <1>4
  <2> QED
    BY <2>1, Numbers DEF NewHandle
<1>. HIDE DEF h
<1>6. /\ DOMAIN cache' = DOMAIN rest \cup {h}
      /\ cache'[h] = item /\ key_of'[h] = k
      /\ \A l \in DOMAIN rest : cache'[l] = cache[l] /\ key_of'[l] = key_of[l]
      /\ cache' \in [DOMAIN cache' -> Items]
      /\ key_of' \in [DOMAIN cache' -> HashedKeys]
  <2>1. cache' = [l \in DOMAIN rest \cup {h} |-> IF l = h THEN item ELSE rest[l]]
    BY <1>2 DEF Map!With
  <2>2. key_of' = [l \in DOMAIN rest \cup {h} |-> IF l = h THEN k ELSE key_of[l]]
    BY <1>2 DEF Map!With, Restrict
  <2> QED
    BY <1>3, <1>4, <1>5, <2>1, <2>2
<1>7. /\ DOMAIN content' = DOMAIN content \cup {k} /\ content'[k] = item
      /\ \A l \in DOMAIN content : l # k => content'[l] = content[l]
  BY <1>2 DEF Map!With
<1>8. /\ bucket_items'[i] = new /\ new.key = k /\ new.handle = h
      /\ \A j \in Positions(t.count) : j # i => bucket_items'[j] = t.items[j]
      /\ bucket_items' \in [Positions(t.count) -> Entries]
  <2>1. new \in Entries /\ new.key = k /\ new.handle = h
    BY <1>5 DEF Entries
  <2>. HIDE DEF new
  <2> QED
    BY <1>1, <1>2, <1>3, <2>1
<1>. HIDE DEF new
\* The entries beside it refer to items that stay.
<1>9. ASSUME NEW j \in Positions(t.count), j # i, InUse(t.items, j)
      PROVE  /\ t.items[j].handle \in DOMAIN rest
             /\ t.items[j].handle # h
             /\ t.items[j].key = key_of[t.items[j].handle]
             /\ t.items[j].key = k => k = NoKey
  <2>1. t.items[j].handle \in DOMAIN cache /\ t.items[j].key = key_of[t.items[j].handle]
    BY <1>9 DEF Held
  <2>2. t.items[j].handle # old
    BY <1>1, <1>9 DEF TableOk, InUse
  <2> QED
    BY <1>1, <1>4, <1>5, <1>9, <2>1, <2>2
\* The items that stay have the entries beside it.
<1>10. ASSUME NEW l \in DOMAIN rest, key_of[l] # NoKey
       PROVE  \E j \in Positions(t.count) :
                /\ j # i /\ InUse(t.items, j)
                /\ t.items[j] = [key |-> key_of[l], handle |-> l]
  <2>1. l \in DOMAIN cache /\ l # old /\ l # NullHandle
    BY <1>3, <1>4, Numbers
  <2>. HIDE DEF old
  <2>2. PICK j \in Positions(t.count) : t.items[j] = [key |-> key_of[l], handle |-> l]
    BY <1>10, <2>1 DEF Held
  <2>3. t.items[j].handle = l
    BY <2>2, Fields
  <2> QED
    BY <2>1, <2>2, <2>3 DEF InUse, old
<1>11. TableOk(Table(bucket_count', bucket_items'))
  <2>1. ASSUME NEW j \in Positions(t.count)
        PROVE  /\ InUse(bucket_items', j) => j \in Bucket(bucket_items'[j].key, t.count)
               /\ ~InUse(bucket_items', j) => bucket_items'[j].key = NoKey
    <3>1. CASE j = i
      BY <1>1, <1>5, <1>8, <3>1 DEF InUse
    <3>2. CASE j # i
      BY <1>8, <3>2 DEF InUse, TableOk
    <3> QED
      BY <3>1, <3>2
  <2>2. ASSUME NEW j \in Positions(t.count), NEW l \in Positions(t.count), j # l,
               InUse(bucket_items', j), InUse(bucket_items', l)
        PROVE  /\ bucket_items'[j].handle # bucket_items'[l].handle
               /\ bucket_items'[j].key = bucket_items'[l].key => bucket_items'[j].key = NoKey
    <3>1. CASE j = i
      BY <1>8, <1>9, <2>2, <3>1 DEF InUse
    <3>2. CASE l = i
      BY <1>8, <1>9, <2>2, <3>2 DEF InUse
    <3>3. CASE j # i /\ l # i
      BY <1>8, <2>2, <3>3 DEF InUse, TableOk
    <3> QED
      BY <3>1, <3>2, <3>3
  <2>3. t.count \in Nat \ {0}
    BY DEF TableOk
  <2> QED
    BY <1>2, <1>8, <2>1, <2>2, <2>3 DEF TableOk, Table
<1>12. Held(table)'
  <2>1. ASSUME NEW j \in Positions(t.count), InUse(bucket_items', j)
        PROVE  /\ bucket_items'[j].handle \in DOMAIN cache'
               /\ key_of'[bucket_items'[j].handle] = bucket_items'[j].key
    <3>1. CASE j = i
      BY <1>6, <1>8, <3>1
    <3>2. CASE j # i
      BY <1>6, <1>8, <1>9, <2>1, <3>2 DEF InUse
    <3> QED
      BY <3>1, <3>2
  <2>2. ASSUME NEW l \in DOMAIN cache', key_of'[l] # NoKey
        PROVE  \E j \in Positions(t.count) :
                 bucket_items'[j] = [key |-> key_of'[l], handle |-> l]
    <3>1. CASE l = h
      BY <1>1, <1>6, <1>8, <3>1 DEF new
    <3>2. CASE l # h
      <4>1. l \in DOMAIN rest /\ key_of'[l] = key_of[l]
        BY <1>6, <2>2, <3>2
      <4> QED
        BY <1>8, <1>10, <2>2, <4>1
    <3> QED
      BY <3>1, <3>2
  <2> QED
    BY <1>2, <2>1, <2>2 DEF Held, table, Table
<1>13. Promised'
  <2>1. ASSUME NEW l \in DOMAIN cache', key_of'[l] # NoKey
        PROVE  key_of'[l] \in DOMAIN content' /\ content'[key_of'[l]] = cache'[l]
    <3>1. CASE l = h
      BY <1>6, <1>7, <3>1
    <3>2. CASE l # h
      <4>1. l \in DOMAIN rest /\ key_of'[l] = key_of[l] /\ cache'[l] = cache[l]
            /\ l \in DOMAIN cache
        BY <1>4, <1>6, <2>1, <3>2
      <4>2. key_of[l] # k
        <5>1. PICK j \in Positions(t.count) :
                /\ j # i /\ InUse(t.items, j)
                /\ t.items[j] = [key |-> key_of[l], handle |-> l]
          BY <1>10, <2>1, <4>1
        <5>2. t.items[j].key = key_of[l]
          BY <5>1, Fields
        <5> QED
          BY <1>9, <2>1, <4>1, <5>1, <5>2
      <4>3. key_of[l] \in DOMAIN content /\ content[key_of[l]] = cache[l]
        BY <2>1, <4>1 DEF MInv, Promised
      <4> QED
        BY <1>7, <4>1, <4>2, <4>3
    <3> QED
      BY <3>1, <3>2
  <2>2. ASSUME NEW l \in DOMAIN content', l # NoKey
        PROVE  \E g \in DOMAIN cache' : key_of'[g] = l
    <3>1. CASE l = k
      BY <1>6, <3>1
    <3>2. CASE l # k
      <4>1. PICK g \in DOMAIN cache : key_of[g] = l
        BY <1>7, <2>2, <3>2 DEF MInv, Promised
      <4>2. g # old
        <5>1. SUFFICES ASSUME g = old
                       PROVE  FALSE
          OBVIOUS
        <5>2. InUse(t.items, i)
          BY <1>3, <4>1, <5>1, Numbers DEF InUse
        <5> QED
          BY <1>1, <3>2, <4>1, <5>1, <5>2 DEF Held
      <4>3. g \in DOMAIN rest
        BY <1>4, <4>2
      <4> QED
        BY <1>6, <4>1, <4>3
    <3> QED
      BY <3>1, <3>2
  <2> QED
    BY <2>1, <2>2 DEF Promised
<1>14. TypeOK'
  <2>1. DOMAIN cache' \subseteq Handles
    BY <1>3, <1>4, <1>5, <1>6
  <2> QED
    BY <1>2, <1>3, <1>6, <1>8, <2>1 DEF TypeOK, Positions
<1>15. status' = "in use"
  BY <1>2 DEF Living
<1> QED
  BY <1>11, <1>12, <1>13, <1>14, <1>15 DEF MInv, CrashesKnown, table

-----------------------------------------------------------------------------
(* Crashing.                                                                 *)

\* S has the keys in use that share a bucket with k when t has doubled.
HasRivals(t, k, S) ==
    \A m \in Positions(t.count) :
      /\ InUse(t.items, m)
      /\ BucketIndex(t.items[m].key, 2 * t.count) = BucketIndex(k, 2 * t.count)
      => t.items[m].key \in S

\* Keys that fill a bucket together were in use before the table grew.
LEMMA Filled ==
  ASSUME NEW t, TableOk(t), NEW u, Grown(t, u), FirstInUse(u), NEW k \in Int,
         NextBucketItem(u, k) = NoEntry, Coarsens(2 * t.count, u.count),
         NEW S, IsFiniteSet(S), HasRivals(t, k, S)
  PROVE  Cardinality(S) >= BucketCapacity
<1>. DEFINE B == Bucket(k, u.count)
<1>1. /\ TableOk(u) /\ FirstInUse(u) /\ u.count \in Nat \ {0}
      /\ Carried(t, u, t.count * BucketCapacity)
      /\ Positions(t.count) = 0 .. t.count * BucketCapacity - 1
  BY DEF Grown, TableOk, Positions
<1>2. B \subseteq Positions(u.count) /\ IsFiniteSet(B) /\ Cardinality(B) = BucketCapacity
  BY <1>1, BucketFacts
<1>3. BucketItem(u, k) = NoEntry /\ FreeItem(u, k) = NoEntry
  BY DEF NextBucketItem
<1>4. ASSUME NEW i \in B
      PROVE  InUse(u.items, i) /\ u.items[i].key \in S /\ i \in Bucket(u.items[i].key, u.count)
             /\ i \in Nat
  <2>1. InUse(u.items, i)
    BY <1>1, <1>3, FreeItemIs DEF InUse
  <2>2. i \in Positions(u.count) /\ i \in Bucket(u.items[i].key, u.count)
        /\ u.items[i].key \in Int /\ i \in Nat
    BY <1>1, <1>2, <2>1, EntriesAre DEF TableOk
  <2>3. PICK m \in Positions(t.count) : u.items[i] = t.items[m]
    BY <1>1, <2>1, <2>2 DEF Carried
  <2>4. InUse(t.items, m)
    BY <2>1, <2>3 DEF InUse
  <2>5. BucketIndex(u.items[i].key, u.count) = BucketIndex(k, u.count)
    BY <1>1, <2>2, OneBucket
  <2>6. BucketIndex(u.items[i].key, 2 * t.count) = BucketIndex(k, 2 * t.count)
    BY <2>2, <2>5 DEF Coarsens
  <2> QED
    BY <2>1, <2>2, <2>3, <2>4, <2>6 DEF HasRivals
<1>. DEFINE f == [i \in B |-> u.items[i].key]
<1>5. f \in [B -> S]
  BY <1>4
<1>6. ASSUME NEW i \in B, NEW j \in B, f[i] = f[j]
      PROVE  i = j
  <2>1. SUFFICES ASSUME i # j
                 PROVE  FALSE
    OBVIOUS
  <2>2. u.items[i].key = u.items[j].key /\ i \in Positions(u.count) /\ j \in Positions(u.count)
    BY <1>2, <1>6
  <2>3. u.items[i].key = NoKey /\ u.items[j].key = NoKey
    BY <1>1, <1>4, <2>1, <2>2 DEF TableOk
  <2>4. i <= j /\ j <= i
    BY <1>1, <1>4, <2>2, <2>3 DEF FirstInUse
  <2> QED
    BY <1>4, <2>1, <2>4
<1>. HIDE DEF f, B
<1>7. f \in Injection(B, S)
  BY <1>5, <1>6 DEF Injection, IsInjective
<1>8. Cardinality(B) <= Cardinality(S)
  BY <1>7, FS_Injection
<1> QED
  BY <1>2, <1>8

LEMMA RivalsFinite ==
  ASSUME NEW k \in Int, NEW c \in Nat \ {0}, TableOk(table)
  PROVE  IsFiniteSet(Rivals(k, c))
<1>. DEFINE P == Positions(bucket_count)
            S == {j \in P : /\ bucket_items[j].handle # NullHandle
                            /\ BucketIndex(bucket_items[j].key, c) = BucketIndex(k, c)}
            f == [j \in S |-> bucket_items[j].key]
<1>1. DOMAIN bucket_items = P /\ bucket_count * BucketCapacity - 1 \in Int
  <2>1. bucket_items \in [P -> Entries] /\ bucket_count \in Nat
    BY DEF TableOk, table, Table
  <2> QED
    BY <2>1, Numbers
<1>2. IsFiniteSet(P)
  <2>. DEFINE n == bucket_count * BucketCapacity - 1
  <2>1. P = 0 .. n /\ n \in Int
    BY <1>1 DEF Positions
  <2>. HIDE DEF n
  <2> QED
    BY <2>1, FS_Interval
<1>3. IsFiniteSet(S)
  <2>1. S \in SUBSET P
    OBVIOUS
  <2> QED
    BY <1>2, <2>1, FS_Subset
<1>4. Rivals(k, c) = {bucket_items[j].key : j \in S}
  BY <1>1 DEF Rivals
<1>. HIDE DEF S
<1>5. f \in Surjection(S, Rivals(k, c))
  BY <1>4 DEF Surjection
<1>. HIDE DEF f
<1> QED
  BY <1>3, <1>5, FS_Surjection

LEMMA CrashIsKnown ==
  ASSUME TableOk(table), NEW v, Grown(table, v), NEW k \in Int,
         NextBucketItem(Resized(v), k) = NoEntry
  PROVE  /\ k \notin Rivals(k, bucket_count)
         /\ Cardinality(Rivals(k, 2 * bucket_count)) >= BucketCapacity
<1>. DEFINE u == Resized(v)
<1>1. Grown(table, u) /\ Loop(v, u, v.count * BucketCapacity) /\ TableOk(u) /\ TableOk(v)
  <2>1. TableOk(v)
    BY DEF Grown
  <2> QED
    BY <2>1, GrownMore, ResizedIs DEF Loop
<1>. HIDE DEF u
<1>2. table.count = bucket_count /\ table.items = bucket_items
      /\ DOMAIN bucket_items = Positions(bucket_count) /\ bucket_count \in Nat \ {0}
  BY DEF table, Table, TableOk
<1>3. k \notin Rivals(k, bucket_count)
  <2>1. SUFFICES ASSUME k \in Rivals(k, bucket_count)
                 PROVE  FALSE
    OBVIOUS
  <2>2. PICK i \in Positions(bucket_count) :
          bucket_items[i].key = k /\ bucket_items[i].handle # NullHandle
    BY <1>2, <2>1 DEF Rivals
  <2>3. i \in Bucket(k, bucket_count)
    BY <1>2, <2>2 DEF TableOk, InUse
  <2>4. BucketItem(table, k) # NoEntry
    BY <1>2, <2>2, <2>3, BucketItemIs
  <2>5. BucketItem(u, k) # NoEntry
    BY <1>1, <2>4 DEF Grown
  <2> QED
    BY <2>5 DEF NextBucketItem, u
<1>4. Coarsens(2 * bucket_count, u.count)
  <2>1. u.count = 2 * v.count /\ v.count \in Nat \ {0}
    BY <1>1 DEF Loop, TableOk
  <2>2. CASE v = table
    BY <1>2, <2>1, <2>2 DEF Coarsens
  <2>3. CASE v # table
    <3>1. Coarsens(2 * bucket_count, v.count)
      BY <1>2, <2>3 DEF Grown
    <3>2. Coarsens(v.count, u.count)
      BY <2>1, DoublingSplits
    <3> QED
      BY <3>1, <3>2 DEF Coarsens
  <2> QED
    BY <2>2, <2>3
<1>5. 2 * bucket_count \in Nat \ {0}
  BY <1>2
<1>6. IsFiniteSet(Rivals(k, 2 * bucket_count))
  BY <1>5, RivalsFinite
<1>7. HasRivals(table, k, Rivals(k, 2 * bucket_count))
  BY <1>2 DEF Rivals, InUse, HasRivals
<1>8. NextBucketItem(u, k) = NoEntry
  BY DEF u
<1>9. Coarsens(2 * table.count, u.count)
  BY <1>2, <1>4
<1>10. Grown(table, u) /\ FirstInUse(u)
  BY <1>1 DEF Loop
<1>11. Cardinality(Rivals(k, 2 * bucket_count)) >= BucketCapacity
  <2>. DEFINE S == Rivals(k, 2 * bucket_count)
  <2>1. IsFiniteSet(S) /\ HasRivals(table, k, S)
    BY <1>6, <1>7
  <2>. HIDE DEF S
  <2>2. Cardinality(S) >= BucketCapacity
    BY <1>8, <1>9, <1>10, <2>1, Filled
  <2> QED
    BY <2>2 DEF S
<1> QED
  BY <1>3, <1>11

LEMMA CrashKeeps ==
  ASSUME MInv, Living, NEW v, Grown(table, v), NEW k \in HashedKeys,
         NextBucketItem(Resized(v), k) = NoEntry, Crashed(k)
  PROVE  MInv'
<1>1. TableOk(table)
  BY DEF MInv, Living
<1>2. k \notin Rivals(k, bucket_count) /\ Cardinality(Rivals(k, 2 * bucket_count)) >= BucketCapacity
  BY <1>1, CrashIsKnown, Numbers
<1>3. /\ bucket_count' = bucket_count /\ bucket_items' = bucket_items /\ cache' = cache
      /\ key_of' = key_of /\ content' = content /\ wanted' = k
      /\ status' = "crashed" /\ table' = table
  BY DEF Crashed, table
<1>4. TypeOK'
  BY <1>3 DEF MInv, TypeOK
<1>5. CrashesKnown'
  BY <1>2, <1>3 DEF CrashesKnown, Rivals
<1>6. Held(table)' /\ Promised' /\ TableOk(table')
  BY <1>1, <1>3 DEF MInv, Held, Promised
<1> QED
  BY <1>3, <1>4, <1>5, <1>6 DEF MInv

-----------------------------------------------------------------------------
(* The calls.                                                                *)

LEMMA WithRoomGrown ==
  ASSUME NEW t, TableOk(t), NEW v, Grown(t, v)
  PROVE  Grown(t, WithRoom(v))
BY GrownMore DEF WithRoom

LEMMA StoreKeeps ==
  ASSUME MInv, Living, Handles # DOMAIN cache, NEW t, Grown(table, t),
         NEW k \in HashedKeys, NEW item \in Items, Store(t, k, item)
  PROVE  MInv'
<1>. DEFINE full == t.items # Crash /\ NextBucketItem(t, k) = NoEntry
            grown == IF full THEN Resized(t) ELSE t
<1>1. TableOk(table) /\ Held(table)
  BY DEF MInv, Living
<1>2. Grown(table, grown)
  BY <1>1, GrownMore
<1>3. TableOk(grown) /\ Held(grown)
  BY <1>1, <1>2, HeldWhenGrown DEF Grown
<1>4. grown.items # Crash
  BY <1>3, EntriesAre
<1>5. CASE NextBucketItem(grown, k) = NoEntry
  <2>1. Crashed(k)
    BY <1>5 DEF Store
  <2>2. full
    <3>1. t.items # Crash
      BY EntriesAre DEF Grown
    <3> QED
      BY <1>5, <3>1
  <2>3. NextBucketItem(Resized(t), k) = NoEntry
    BY <1>5, <2>2
  <2> QED
    BY <2>1, <2>3, CrashKeeps
<1>6. CASE NextBucketItem(grown, k) # NoEntry
  <2>1. StoreAt(grown, NextBucketItem(grown, k), k, item)
    BY <1>4, <1>6 DEF Store
  <2>. HIDE DEF grown
  <2> QED
    BY <1>3, <1>6, <2>1, StoreAtKeeps
<1> QED
  BY <1>5, <1>6

LEMMA AddKeeps ==
  ASSUME MInv, NEW k \in HashedKeys, NEW item \in Items,
         Add(k, item) \/ EmplaceHashed(k, item) \/ Emplace(k, item)
  PROVE  MInv'
<1>1. Living /\ Handles # DOMAIN cache
  BY DEF Add, EmplaceHashed, Emplace, Living, WithinBounds
<1>2. TableOk(table)
  BY <1>1 DEF MInv, Living
<1>3. Grown(table, WithRoom(table))
  BY <1>2, GrownItself, WithRoomGrown
<1>4. CASE Add(k, item) \/ EmplaceHashed(k, item)
  <2>1. Store(WithRoom(table), k, item)
    BY <1>4 DEF Add, EmplaceHashed
  <2> QED
    BY <1>1, <1>3, <2>1, StoreKeeps
<1>5. CASE Emplace(k, item)
  <2>. DEFINE t == WithRoom(table)
  <2>1. TableOk(t) /\ Grown(table, WithRoom(t))
    BY <1>2, <1>3, WithRoomGrown DEF Grown
  <2>2. t.items # Crash
    BY <2>1, EntriesAre
  <2>3. Store(WithRoom(t), k, item)
    BY <1>5, <2>2 DEF Emplace
  <2>. HIDE DEF t
  <2> QED
    BY <1>1, <2>1, <2>3, StoreKeeps
<1> QED
  BY <1>4, <1>5

LEMMA RemoveKeeps ==
  ASSUME MInv, NEW k \in HashedKeys, Remove(k)
  PROVE  MInv'
<1>. DEFINE i == BucketItem(table, k)
            old == bucket_items[i].handle
            rest == Without(cache, old)
<1>1. /\ Living /\ TableOk(table) /\ Held(table) /\ Promised /\ TypeOK /\ k \in Int
      /\ table.count = bucket_count /\ table.items = bucket_items
      /\ bucket_count \in Nat \ {0} /\ bucket_items \in [Positions(bucket_count) -> Entries]
  BY Numbers DEF MInv, Living, Remove, TableOk, table, Table
<1>2. /\ DOMAIN content' = DOMAIN content \ {k}
      /\ \A l \in DOMAIN content' : content'[l] = content[l]
      /\ bucket_count' = bucket_count /\ Living' /\ wanted' = wanted
  <2>1. content' = [l \in DOMAIN content \ {k} |-> content[l]]
    BY DEF Remove, Map!Delete, Map!Restrict
  <2>2. bucket_count' = bucket_count /\ status' = status /\ wanted' = wanted
    BY DEF Remove
  <2>3. Living'
    BY <1>1, <2>2 DEF Living
  <2> QED
    BY <2>1, <2>2, <2>3
<1>3. i # NoEntry => i \in Positions(bucket_count) /\ bucket_items[i].key = k
  BY <1>1, BucketItemIs
<1>4. \A j \in Positions(bucket_count) : InUse(bucket_items, j) /\ bucket_items[j].key = k =>
        i # NoEntry
  BY <1>1, BucketItemIs DEF TableOk
<1>5. IF i = NoEntry THEN /\ bucket_items' = bucket_items /\ cache' = cache /\ key_of' = key_of
      ELSE /\ bucket_items' = [bucket_items EXCEPT ![i] = Unused]
           /\ cache' = rest /\ key_of' = Restrict(key_of, DOMAIN rest)
  BY DEF Remove
<1>. HIDE DEF i
<1>6. Unused \in Entries /\ Unused.handle = NullHandle /\ Unused.key = NoKey
  BY DEF Unused, Entries
<1>7. \A j \in Positions(bucket_count) :
        ~InUse(bucket_items', j) \/ bucket_items'[j] = bucket_items[j]
  BY <1>1, <1>3, <1>5, <1>6 DEF InUse
<1>8. /\ bucket_items' \in [Positions(bucket_count) -> Entries]
      /\ \A j \in Positions(bucket_count) : j # i => bucket_items'[j] = bucket_items[j]
      /\ i # NoEntry => bucket_items'[i] = Unused
  BY <1>1, <1>3, <1>5, <1>6
<1>9. /\ DOMAIN cache' = IF i = NoEntry THEN DOMAIN cache ELSE DOMAIN cache \ {old}
      /\ \A l \in DOMAIN cache' : cache'[l] = cache[l] /\ key_of'[l] = key_of[l]
      /\ cache' \in [DOMAIN cache' -> Items] /\ key_of' \in [DOMAIN cache' -> HashedKeys]
      /\ DOMAIN cache' \subseteq Handles
  BY <1>1, <1>5 DEF TypeOK, Without, Restrict
<1>10. TableOk(table')
  <2>1. table'.count = bucket_count /\ table'.items = bucket_items'
    BY <1>2 DEF table, Table
  <2>2. ASSUME NEW j \in Positions(bucket_count)
        PROVE  /\ InUse(bucket_items', j) => j \in Bucket(bucket_items'[j].key, bucket_count)
               /\ ~InUse(bucket_items', j) => bucket_items'[j].key = NoKey
    <3>1. CASE i # NoEntry /\ j = i
      BY <1>6, <1>8, <3>1 DEF InUse
    <3>2. CASE ~(i # NoEntry /\ j = i)
      <4>1. bucket_items'[j] = bucket_items[j]
        BY <1>5, <1>8, <3>2
      <4> QED
        BY <1>1, <4>1 DEF TableOk, InUse
    <3> QED
      BY <3>1, <3>2
  <2>3. ASSUME NEW j \in Positions(bucket_count), NEW l \in Positions(bucket_count), j # l,
               InUse(bucket_items', j), InUse(bucket_items', l)
        PROVE  /\ bucket_items'[j].handle # bucket_items'[l].handle
               /\ bucket_items'[j].key = bucket_items'[l].key => bucket_items'[j].key = NoKey
    <3>1. bucket_items'[j] = bucket_items[j] /\ bucket_items'[l] = bucket_items[l]
      BY <1>7, <2>3
    <3> QED
      BY <1>1, <2>3, <3>1 DEF TableOk, InUse
  <2> QED
    BY <1>1, <1>8, <2>1, <2>2, <2>3 DEF TableOk
\* An entry that goes takes its item with it, and no other entry's.
<1>11. ASSUME NEW j \in Positions(bucket_count), InUse(bucket_items', j)
       PROVE  /\ bucket_items'[j].handle \in DOMAIN cache'
              /\ key_of'[bucket_items'[j].handle] = bucket_items'[j].key
  <2>1. bucket_items'[j] = bucket_items[j] /\ InUse(bucket_items, j)
    BY <1>7, <1>11 DEF InUse
  <2>2. bucket_items[j].handle \in DOMAIN cache
        /\ key_of[bucket_items[j].handle] = bucket_items[j].key
    BY <1>1, <2>1 DEF Held
  <2>3. CASE i = NoEntry
    BY <1>9, <2>1, <2>2, <2>3
  <2>4. CASE i # NoEntry
    <3>1. j # i
      BY <1>6, <1>8, <1>11, <2>4 DEF InUse
    <3>2. bucket_items[j].handle # old
      BY <1>1, <1>3, <2>1, <2>4, <3>1 DEF TableOk, InUse
    <3> QED
      BY <1>9, <2>1, <2>2, <2>4, <3>2
  <2> QED
    BY <2>3, <2>4
<1>12. ASSUME NEW l \in DOMAIN cache', key_of'[l] # NoKey
       PROVE  /\ \E j \in Positions(bucket_count) :
                   bucket_items'[j] = [key |-> key_of'[l], handle |-> l]
              /\ key_of'[l] # k
  <2>1. l \in DOMAIN cache /\ key_of'[l] = key_of[l] /\ (i # NoEntry => l # old) /\ l # NullHandle
    BY <1>9, Numbers
  <2>2. PICK j \in Positions(bucket_count) : bucket_items[j] = [key |-> key_of[l], handle |-> l]
    BY <1>1, <1>12, <2>1 DEF Held
  <2>3. bucket_items[j].key = key_of[l] /\ bucket_items[j].handle = l
    BY <2>2, Fields
  <2>4. InUse(bucket_items, j)
    BY <2>1, <2>3 DEF InUse
  <2>5. i # NoEntry => j # i
    BY <2>1, <2>3
  <2>6. bucket_items'[j] = bucket_items[j]
    BY <1>5, <1>8, <2>5
  <2>7. key_of[l] # k
    <3>1. SUFFICES ASSUME key_of[l] = k
                   PROVE  FALSE
      OBVIOUS
    <3>2. i # NoEntry
      BY <1>4, <2>3, <2>4, <3>1
    <3>3. InUse(bucket_items, i) /\ bucket_items[i].key = k /\ k # NoKey
      BY <1>1, <1>3, <1>12, <2>1, <3>1, <3>2 DEF TableOk
    <3> QED
      BY <1>1, <1>3, <2>3, <2>4, <2>5, <3>1, <3>2, <3>3 DEF TableOk
  <2> QED
    BY <2>1, <2>2, <2>6, <2>7
<1>13. Held(table)'
  BY <1>2, <1>11, <1>12 DEF Held, table, Table
<1>14. Promised'
  <2>1. ASSUME NEW l \in DOMAIN cache', key_of'[l] # NoKey
        PROVE  key_of'[l] \in DOMAIN content' /\ content'[key_of'[l]] = cache'[l]
    <3>1. l \in DOMAIN cache /\ key_of'[l] = key_of[l] /\ cache'[l] = cache[l] /\ key_of[l] # k
      BY <1>9, <1>12, <2>1
    <3> QED
      BY <1>1, <1>2, <2>1, <3>1 DEF Promised
  <2>2. ASSUME NEW l \in DOMAIN content', l # NoKey
        PROVE  \E g \in DOMAIN cache' : key_of'[g] = l
    <3>1. l \in DOMAIN content /\ l # k
      BY <1>2
    <3>2. PICK g \in DOMAIN cache : key_of[g] = l
      BY <1>1, <2>2, <3>1 DEF Promised
    <3>3. i # NoEntry => g # old
      <4>1. SUFFICES ASSUME i # NoEntry, g = old
                     PROVE  FALSE
        OBVIOUS
      <4>2. InUse(bucket_items, i)
        BY <1>1, <3>2, <4>1, Numbers DEF InUse, TypeOK
      <4> QED
        BY <1>1, <1>3, <3>1, <3>2, <4>1, <4>2 DEF Held
    <3> QED
      BY <1>9, <3>2, <3>3
  <2> QED
    BY <2>1, <2>2 DEF Promised
<1>15. TypeOK'
  BY <1>1, <1>2, <1>8, <1>9 DEF TypeOK, Positions, Living
<1> QED
  BY <1>2, <1>10, <1>13, <1>14, <1>15 DEF MInv, CrashesKnown, Living

LEMMA ClearKeeps ==
  ASSUME MInv, Clear
  PROVE  MInv'
<1>1. /\ TypeOK /\ TableOk(table) /\ Held(table)
      /\ table.count = bucket_count /\ table.items = bucket_items
      /\ bucket_count \in Nat \ {0} /\ DOMAIN bucket_items = Positions(bucket_count)
  BY DEF MInv, Clear, TableOk, table, Table
<1>2. /\ DOMAIN cache' = DOMAIN cache \ Referred
      /\ \A l \in DOMAIN cache' : cache'[l] = cache[l] /\ key_of'[l] = key_of[l]
      /\ DOMAIN key_of' = DOMAIN cache'
      /\ cache' \in [DOMAIN cache' -> Items] /\ key_of' \in [DOMAIN cache' -> HashedKeys]
      /\ DOMAIN cache' \subseteq Handles
  BY <1>1 DEF Clear, Restrict, TypeOK
<1>3. /\ bucket_items' = UnusedItems(bucket_count) /\ bucket_count' = bucket_count
      /\ Living' /\ wanted' = wanted
      /\ DOMAIN content' = {} /\ table' = Table(bucket_count, UnusedItems(bucket_count))
  <2>1. /\ bucket_items' = UnusedItems(bucket_count) /\ bucket_count' = bucket_count
        /\ Living' /\ wanted' = wanted /\ content' = <<>>
    BY DEF Clear, Map!Clear, Living
  <2> QED
    BY <2>1 DEF table
<1>4. /\ bucket_items' \in [Positions(bucket_count) -> Entries]
      /\ \A i \in Positions(bucket_count) : ~InUse(bucket_items', i)
      /\ TableOk(table')
  BY <1>1, <1>3, Emptied
\* The items that stay are under -1.
<1>5. ASSUME NEW l \in DOMAIN cache', key_of'[l] # NoKey
      PROVE  FALSE
  <2>1. l \in DOMAIN cache /\ l \notin Referred /\ key_of[l] # NoKey /\ l # NullHandle
    BY <1>2, <1>5, Numbers
  <2>2. PICK i \in Positions(bucket_count) : bucket_items[i] = [key |-> key_of[l], handle |-> l]
    BY <1>1, <2>1 DEF Held
  <2>3. bucket_items[i].handle = l
    BY <2>2, Fields
  <2> QED
    BY <1>1, <2>1, <2>3 DEF Referred
<1>6. Held(table)' /\ Promised'
  BY <1>3, <1>4, <1>5 DEF Held, Promised, table, Table
<1>7. TypeOK'
  BY <1>1, <1>2, <1>3, <1>4 DEF TypeOK, Positions, Living
<1> QED
  BY <1>3, <1>4, <1>6, <1>7 DEF MInv, CrashesKnown, Living

LEMMA UninitKeeps ==
  ASSUME MInv, Uninit
  PROVE  MInv'
<1>1. /\ bucket_count' = 0 /\ DOMAIN bucket_items' = {} /\ DOMAIN cache' = {}
      /\ DOMAIN key_of' = {} /\ DOMAIN content' = {}
      /\ bucket_items' = <<>> /\ cache' = <<>> /\ key_of' = <<>>
      /\ status' = "freed" /\ wanted' = wanted /\ wanted \in HashedKeys \cup {NoKey}
  <2>1. /\ bucket_count' = 0 /\ bucket_items' = <<>> /\ cache' = <<>> /\ key_of' = <<>>
        /\ content' = <<>> /\ status' = "freed" /\ wanted' = wanted /\ TypeOK
    BY DEF MInv, Uninit, Map!Clear
  <2>2. wanted \in HashedKeys \cup {NoKey}
    BY <2>1 DEF TypeOK
  <2>3. DOMAIN <<>> = {}
    OBVIOUS
  <2> QED
    BY <2>1, <2>2, <2>3
<1>2. Positions(0) = {} /\ 0 .. (0 * BucketCapacity - 1) = {}
  <2>1. 0 * BucketCapacity - 1 = -1
    BY Numbers
  <2>2. 0 .. -1 = {}
    OBVIOUS
  <2> QED
    BY <2>1, <2>2 DEF Positions
<1>3. TypeOK'
  <2>1. /\ bucket_items' \in [{} -> Entries]
        /\ cache' \in [{} -> Items] /\ key_of' \in [{} -> HashedKeys]
    BY <1>1
  <2>2. bucket_count' \in Nat /\ DOMAIN cache' \subseteq Handles
    BY <1>1
  <2> QED
    BY <1>1, <1>2, <2>1, <2>2 DEF TypeOK
<1>4. Held(table)' /\ Promised'
  BY <1>1, <1>2 DEF Held, Promised, table, Table
<1> QED
  BY <1>1, <1>3, <1>4 DEF MInv, CrashesKnown

-----------------------------------------------------------------------------
(* The theorems.                                                             *)

LEMMA MInitially ==
  ASSUME Init
  PROVE  MInv
<1>1. /\ bucket_count = BucketCount /\ bucket_items = UnusedItems(BucketCount)
      /\ cache = <<>> /\ key_of = <<>> /\ content = <<>> /\ wanted = NoKey
      /\ Living
  BY DEF Init, Map!Init, Living
<1>2. DOMAIN cache = {} /\ DOMAIN content = {} /\ DOMAIN key_of = {}
  <2>1. DOMAIN <<>> = {}
    OBVIOUS
  <2> QED
    BY <1>1, <2>1
<1>3. /\ bucket_count \in Nat \ {0} /\ table = Table(bucket_count, UnusedItems(bucket_count))
      /\ TableOk(table) /\ bucket_items \in [Positions(bucket_count) -> Entries]
      /\ \A i \in Positions(bucket_count) : ~InUse(bucket_items, i)
  BY <1>1, Numbers, Emptied DEF table
<1>4. TypeOK
  <2>1. cache \in [{} -> Items] /\ key_of \in [{} -> HashedKeys]
    BY <1>1, <1>2
  <2> QED
    BY <1>1, <1>2, <1>3, <2>1 DEF TypeOK, Positions, Living
<1>5. Held(table) /\ Promised
  BY <1>2, <1>3 DEF Held, Promised, table, Table
<1> QED
  BY <1>1, <1>3, <1>4, <1>5 DEF MInv, CrashesKnown, Living

LEMMA MKept ==
  ASSUME MInv, [Next]_vars
  PROVE  MInv'
<1>1. CASE UNCHANGED vars
  <2>1. table' = table /\ cache' = cache /\ key_of' = key_of /\ content' = content
    BY <1>1 DEF vars, table
  <2>2. TypeOK'
    BY <1>1 DEF MInv, TypeOK, vars
  <2>3. Held(table)' /\ Promised'
    BY <2>1 DEF MInv, Held, Promised
  <2>4. CrashesKnown'
    BY <1>1 DEF MInv, CrashesKnown, Rivals, vars
  <2> QED
    BY <1>1, <2>1, <2>2, <2>3, <2>4 DEF MInv, vars
<1>2. CASE Next
  BY <1>2, AddKeeps, RemoveKeeps, ClearKeeps, UninitKeeps DEF Next
<1> QED
  BY <1>1, <1>2

LEMMA AlwaysMInv == Spec => []MInv
<1>1. Init => MInv
  BY MInitially
<1>2. MInv /\ [Next]_vars => MInv'
  BY MKept
<1> QED
  BY <1>1, <1>2, PTL DEF Spec

\* The items under the keys other than -1 are each found through one entry, in the bucket of
\* its key: growing, replacing, removing and clearing (lines 84-103 and 221-312 of cache_map.c)
\* lose no entry, repeat none and leak no item, for any keys, buckets and sequence of calls.
THEOREM MapLosesNothing == Spec => []NothingLost
<1>1. MInv => NothingLost
  <2>. SUFFICES ASSUME MInv
                PROVE  NothingLost
    OBVIOUS
  <2>1. TypeOK /\ Held(table) /\ table.count = bucket_count /\ table.items = bucket_items
        /\ DOMAIN bucket_items = Positions(bucket_count)
    BY DEF MInv, TypeOK, table, Table, Positions
  <2>2. Referred \subseteq DOMAIN cache
    BY <2>1 DEF Held, Referred, InUse
  <2>3. ASSUME NEW h \in DOMAIN cache, key_of[h] \in RealKeys
        PROVE  /\ \E i \in Bucket(key_of[h], bucket_count) :
                    bucket_items[i] = [key |-> key_of[h], handle |-> h]
               /\ Cardinality({i \in DOMAIN bucket_items : bucket_items[i].handle = h}) = 1
               /\ \A other \in DOMAIN cache \ {h} : key_of[other] # key_of[h]
    <3>1. TableOk(table) /\ h # NullHandle /\ key_of[h] # NoKey
      BY <2>1, <2>3, Numbers DEF MInv, TypeOK, RealKeys
    <3>2. PICK i \in Positions(bucket_count) :
            bucket_items[i] = [key |-> key_of[h], handle |-> h]
      BY <2>1, <3>1 DEF Held
    <3>3. bucket_items[i].key = key_of[h] /\ bucket_items[i].handle = h
      BY <3>2, Fields
    <3>4. InUse(bucket_items, i)
      BY <3>1, <3>3 DEF InUse
    <3>5. i \in Bucket(key_of[h], bucket_count)
      BY <2>1, <3>1, <3>3, <3>4 DEF TableOk
    <3>6. {j \in DOMAIN bucket_items : bucket_items[j].handle = h} = {i}
      BY <2>1, <3>1, <3>3, <3>4 DEF TableOk, InUse
    <3>7. ASSUME NEW other \in DOMAIN cache \ {h}, key_of[other] = key_of[h]
          PROVE  FALSE
      <4>1. PICK j \in Positions(bucket_count) :
              bucket_items[j] = [key |-> key_of[other], handle |-> other]
        BY <2>1, <3>1, <3>7 DEF Held
      <4>2. bucket_items[j].key = key_of[h] /\ bucket_items[j].handle = other
        BY <3>7, <4>1, Fields
      <4>3. InUse(bucket_items, j) /\ j # i
        BY <2>1, <3>3, <4>2, Numbers DEF InUse, TypeOK
      <4> QED
        BY <2>1, <3>1, <3>3, <3>4, <4>2, <4>3 DEF TableOk
    <3>8. Cardinality({i}) = 1
      BY FS_Singleton
    <3> QED
      BY <3>2, <3>5, <3>6, <3>7, <3>8
  <2> QED
    BY <2>1, <2>2, <2>3 DEF NothingLost
<1> QED
  BY <1>1, AlwaysMInv, PTL

\* An entry that is NULL is written through only when a new key meets a bucket full of keys
\* that doubling the table does not tell from it (lines 231-244); moving the entries to the
\* larger table (lines 93-98) always finds them a place, for any capacity of the buckets.
THEOREM MapCrashesKnown == Spec => []CrashesKnown
<1>1. MInv => CrashesKnown
  BY DEF MInv
<1> QED
  BY <1>1, AlwaysMInv, PTL

\* Clients see, under the keys other than -1, the map that their calls should have made
\* (lines 84-103, 153-165 and 221-312).
THEOREM MapAnswers == Spec => []AnswersMap
<1>1. MInv => AnswersMap
  <2>. SUFFICES ASSUME MInv, Living, NEW k \in RealKeys
                PROVE  Answer(k) = {content[l] : l \in {k} \cap DOMAIN content}
    BY DEF AnswersMap, Living
  <2>1. /\ TableOk(table) /\ Held(table) /\ Promised
        /\ table.count = bucket_count /\ table.items = bucket_items
    BY DEF MInv, Living, table, Table
  <2>2. k \in Int /\ k # NoKey
    BY Numbers DEF RealKeys
  <2>. DEFINE i == BucketItem(table, k)
              handle == bucket_items[i].handle
  <2>3. Answer(k) = IF i = NoEntry THEN {} ELSE {cache[h] : h \in {handle} \cap DOMAIN cache}
    BY DEF Answer
  <2>4. i # NoEntry => i \in Positions(bucket_count) /\ bucket_items[i].key = k
    BY <2>1, <2>2, BucketItemIs
  <2>. HIDE DEF i
  <2>5. CASE i # NoEntry
    <3>1. InUse(bucket_items, i)
      BY <2>1, <2>2, <2>4, <2>5 DEF TableOk
    <3>2. handle \in DOMAIN cache /\ key_of[handle] = k
      BY <2>1, <2>4, <2>5, <3>1 DEF Held
    <3>3. k \in DOMAIN content /\ content[k] = cache[handle]
      BY <2>1, <2>2, <3>2 DEF Promised
    <3>. HIDE DEF handle
    <3>4. Answer(k) = {cache[handle]}
      BY <2>3, <2>5, <3>2
    <3> QED
      BY <3>3, <3>4
  <2>6. CASE i = NoEntry
    <3>1. k \notin DOMAIN content
      <4>1. SUFFICES ASSUME k \in DOMAIN content
                     PROVE  FALSE
        OBVIOUS
      <4>2. PICK h \in DOMAIN cache : key_of[h] = k
        BY <2>1, <2>2, <4>1 DEF Promised
      <4>3. PICK j \in Positions(bucket_count) : bucket_items[j] = [key |-> k, handle |-> h]
        BY <2>1, <2>2, <4>2 DEF Held
      <4>4. bucket_items[j].key = k /\ bucket_items[j].handle = h
        BY <4>3, Fields
      <4>5. j \in Bucket(k, bucket_count)
        BY <2>1, <2>2, <4>4 DEF TableOk
      <4> QED
        BY <2>1, <2>2, <2>6, <4>4, <4>5, BucketItemIs DEF i
    <3> QED
      BY <2>3, <2>6, <3>1
  <2> QED
    BY <2>5, <2>6
<1> QED
  BY <1>1, AlwaysMInv, PTL

-----------------------------------------------------------------------------
(* The two lists of a link array.                                           *)

\* The nodes s[1] .. s[m] are those met from first along the links.
Threads(s, m, first, links) ==
    /\ first = IF m = 0 THEN None ELSE s[1]
    /\ \A j \in 1 .. m : links[s[j]] = IF j = m THEN None ELSE s[j + 1]

\* And in the opposite order from last.
ThreadsBack(s, m, last, links) ==
    /\ last = IF m = 0 THEN None ELSE s[m]
    /\ \A j \in 1 .. m : links[s[j]] = IF j = 1 THEN None ELSE s[j - 1]

Once(s, m) == \A i, j \in 1 .. m : s[i] = s[j] => i = j

Has(s, m, n) == \E j \in 1 .. m : s[j] = n

FreeCount(a) == a.capacity - a.count

\* The nodes of a are those of u, which are used, and those of f, which are free.
Shared(a, u, f) ==
    /\ a.capacity \in 0 .. CapacityBound /\ a.count \in 0 .. a.capacity
    /\ u \in [1 .. a.count -> 0 .. a.capacity - 1] /\ Once(u, a.count)
    /\ f \in [1 .. FreeCount(a) -> 0 .. a.capacity - 1] /\ Once(f, FreeCount(a))
    /\ \A n \in 0 .. a.capacity - 1 : Has(u, a.count, n) <=> ~Has(f, FreeCount(a), n)

\* And the lists of a are u and f in this order.
Whole(a, u, f) ==
    /\ Shared(a, u, f)
    /\ Threads(u, a.count, a.usedhead, a.next)
    /\ ThreadsBack(u, a.count, a.usedtail, a.prev)
    /\ Threads(f, FreeCount(a), a.freehead, a.next)
    /\ FreeCount(a) > 0 => a.prev[a.freehead] = None

Ends == Nodes \cup {None}

Links == [Nodes -> Ends]

Arrays ==
    [next : Links, prev : Links, data : [Nodes -> Elements \cup {NoItem}],
     count : 0 .. CapacityBound, capacity : 0 .. CapacityBound,
     usedhead : Ends, usedtail : Ends, freehead : Ends]

-----------------------------------------------------------------------------
(* What walking along the links meets.                                       *)

LEMMA Bounds ==
  /\ CapacityBound \in Nat \ {0} /\ DEFAULT_CAPACITY \in 1 .. CapacityBound
  /\ Nodes = 0 .. (CapacityBound - 1) /\ None \notin Nodes
  /\ Nodes \subseteq Ends /\ None \in Ends
BY LinkArrayAssumption DEF Nodes, None, Ends

\* A function that starts with first and follows the links is the one Along follows.
LEMMA AlongIs ==
  ASSUME NEW first, NEW links, NEW n \in Nat, NEW s,
         s = [k \in 0 .. n |-> IF k = 0 THEN first ELSE links[s[k - 1]]]
  PROVE  Along(first, links, n) = s[n]
<1>. DEFINE Is(g) == g = [k \in 0 .. n |-> IF k = 0 THEN first ELSE links[g[k - 1]]]
            r == CHOOSE g : Is(g)
            Bad == {k \in 0 .. n : r[k] # s[k]}
<1>1. Along(first, links, n) = r[n]
  BY DEF Along
<1>2. Is(s) /\ Is(r)
  OBVIOUS
<1>3. \A k \in 0 .. n : /\ r[k] = IF k = 0 THEN first ELSE links[r[k - 1]]
                        /\ s[k] = IF k = 0 THEN first ELSE links[s[k - 1]]
  BY <1>2
<1>. HIDE DEF r, Is
<1>4. \A k \in 0 .. n : r[k] = s[k]
  <2>1. SUFFICES ASSUME Bad # {}
                 PROVE  FALSE
    OBVIOUS
  <2>2. PICK b \in Bad : \A k \in Bad : b <= k
    <3>1. Bad \in SUBSET Nat
      OBVIOUS
    <3> QED
      BY <2>1, <3>1, Least
  <2>3. CASE b = 0
    BY <1>3, <2>2, <2>3
  <2>4. CASE b # 0
    <3>1. b \in 0 .. n /\ b - 1 \in 0 .. n /\ b - 1 \notin Bad
      BY <2>2, <2>4
    <3>2. r[b - 1] = s[b - 1]
      BY <3>1
    <3>3. r[b] = s[b]
      BY <1>3, <2>4, <3>1, <3>2
    <3> QED
      BY <2>2, <3>3
  <2> QED
    BY <2>3, <2>4
<1>5. n \in 0 .. n
  OBVIOUS
<1> QED
  BY <1>1, <1>4, <1>5

\* The walks of at most k nodes from every node.
Walks(links, w, m) ==
    w = [k \in 0 .. m |->
          [n \in Nodes \cup {None} |->
             IF k = 0 \/ n = None THEN <<>> ELSE <<n>> \o w[k - 1][links[n]]]]

LEMMA WalksExist ==
  ASSUME NEW links, NEW m \in Nat
  PROVE  \E w : Walks(links, w, m)
<1>. DEFINE Bad == {k \in Nat : ~\E w : Walks(links, w, k)}
            Longer(k, walks) == [n \in Nodes \cup {None} |->
                                   IF k = 0 \/ n = None THEN <<>>
                                   ELSE <<n>> \o walks[links[n]]]
            Is(w, k) == w[k] = Longer(k, w[k - 1])
<1>1. SUFFICES ASSUME Bad # {}
               PROVE  FALSE
  OBVIOUS
<1>2. Bad \in SUBSET Nat
  OBVIOUS
<1>3. PICK b \in Bad : \A n \in Bad : b <= n
  BY <1>1, <1>2, Least
<1>4. CASE b = 0
  <2>. DEFINE w == [k \in 0 .. 0 |-> [n \in Nodes \cup {None} |-> <<>>]]
  <2>1. Walks(links, w, 0)
    BY DEF Walks
  <2> QED
    BY <1>3, <1>4, <2>1
<1>5. CASE b # 0
  <2>1. b \in Nat /\ b - 1 \in Nat /\ b - 1 \notin Bad
    BY <1>3, <1>5
  <2>2. PICK w : Walks(links, w, b - 1)
    BY <2>1
  <2>3. \A k \in 0 .. b - 1 : Is(w, k)
    BY <2>2 DEF Walks
  <2>. DEFINE v == [k \in 0 .. b |-> IF k = b THEN Longer(b, w[b - 1]) ELSE w[k]]
  <2>4. ASSUME NEW k \in 0 .. b
        PROVE  Is(v, k)
    <3>1. CASE k = 0
      <4>1. k \in 0 .. b - 1 /\ k # b
        BY <1>5, <2>1, <3>1
      <4>4. v[k] = w[k]
        BY <4>1
      <4>5. Is(w, k)
        BY <2>3, <4>1
      <4>2. Longer(k, w[k - 1]) = Longer(k, v[k - 1])
        BY <3>1
      <4>. HIDE DEF v, Longer
      <4> QED
        BY <4>2, <4>4, <4>5
    <3>2. CASE k # 0 /\ k # b
      <4>1. k \in 0 .. b - 1 /\ k - 1 \in 0 .. b /\ k - 1 # b
        BY <2>1, <3>2
      <4>2. v[k] = w[k] /\ v[k - 1] = w[k - 1] /\ Is(w, k)
        BY <2>3, <3>2, <4>1
      <4>. HIDE DEF v, Longer
      <4> QED
        BY <3>2, <4>2
    <3>3. CASE k = b
      <4>1. b - 1 \in 0 .. b /\ b - 1 # b
        BY <2>1
      <4>2. v[k] = Longer(b, w[b - 1]) /\ v[b - 1] = w[b - 1]
        BY <3>3, <4>1
      <4>. HIDE DEF v, Longer
      <4> QED
        BY <1>5, <3>3, <4>2
    <3> QED
      BY <3>1, <3>2, <3>3
  <2>5. v = [k \in 0 .. b |-> v[k]]
    OBVIOUS
  <2>. HIDE DEF v
  <2>6. Walks(links, v, b)
    BY <2>4, <2>5 DEF Walks
  <2> QED
    BY <1>3, <2>6
<1> QED
  BY <1>4, <1>5

LEMMA Prepend ==
  ASSUME NEW S, NEW x \in S, NEW l \in Nat, NEW g \in [1 .. l -> S]
  PROVE  <<x>> \o g = [t \in 1 .. l + 1 |-> IF t = 1 THEN x ELSE g[t - 1]]
<1>1. g \in Seq(S) /\ Len(g) = l /\ <<x>> \in Seq(S) /\ Len(<<x>>) = 1
  OBVIOUS
<1>2. /\ Len(<<x>> \o g) = l + 1 /\ <<x>> \o g \in Seq(S)
      /\ \A t \in 1 .. l + 1 : (<<x>> \o g)[t] = IF t = 1 THEN x ELSE g[t - 1]
  BY <1>1, ConcatProperties
<1>3. <<x>> \o g = [t \in 1 .. l + 1 |-> (<<x>> \o g)[t]]
  BY <1>2
<1> QED
  BY <1>2, <1>3

\* A list of nodes that are threaded is what a walk along the links meets.
LEMMA WalkIs ==
  ASSUME NEW m \in 0 .. CapacityBound, NEW s \in [1 .. m -> Nodes],
         NEW first, NEW links, Threads(s, m, first, links)
  PROVE  Walk(first, links) = s
<1>. DEFINE top == CapacityBound + 1
            w == CHOOSE v : Walks(links, v, top)
            At(i) == IF i = m + 1 THEN None ELSE s[i]
            Length(k, i) == IF k < m + 1 - i THEN k ELSE m + 1 - i
            Part(k, i) == [t \in 1 .. Length(k, i) |-> s[i - 1 + t]]
            Bad == {k \in 0 .. top : \E i \in 1 .. m + 1 : w[k][At(i)] # Part(k, i)}
<1>1. top \in Nat /\ m \in Nat /\ m < top
  BY Bounds
<1>2. Walk(first, links) = w[top][first]
  BY DEF Walk, Walks
<1>3. Walks(links, w, top)
  BY <1>1, WalksExist
<1>4. \A k \in 0 .. top, n \in Nodes \cup {None} :
        w[k][n] = IF k = 0 \/ n = None THEN <<>> ELSE <<n>> \o w[k - 1][links[n]]
  <2>. DEFINE Step(k) == [n \in Nodes \cup {None} |->
                           IF k = 0 \/ n = None THEN <<>> ELSE <<n>> \o w[k - 1][links[n]]]
  <2>1. w = [k \in 0 .. top |-> Step(k)]
    BY <1>3 DEF Walks
  <2>2. \A k \in 0 .. top : w[k] = Step(k)
    <3>. HIDE DEF Step
    <3> QED
      BY <2>1
  <2>. HIDE DEF w, top
  <2> QED
    BY <2>2
<1>5. \A i \in 1 .. m + 1 : At(i) \in Nodes \cup {None}
  BY <1>1
<1>. HIDE DEF w, top
<1>6. \A k \in 0 .. top, i \in 1 .. m + 1 : w[k][At(i)] = Part(k, i)
  <2>1. SUFFICES ASSUME Bad # {}
                 PROVE  FALSE
    <3>. HIDE DEF At, Part
    <3> QED
      OBVIOUS
  <2>2. PICK b \in Bad : \A k \in Bad : b <= k
    <3>1. Bad \in SUBSET Nat
      BY <1>1
    <3>. HIDE DEF Bad
    <3> QED
      BY <2>1, <3>1, Least
  <2>3. PICK i \in 1 .. m + 1 : w[b][At(i)] # Part(b, i)
    BY <2>2
  <2>4. b \in 0 .. top /\ b \in Nat
    BY <1>1, <2>2
  <2>5. CASE b = 0 \/ i = m + 1
    <3>1. w[b][At(i)] = <<>>
      BY <1>4, <1>5, <2>3, <2>4, <2>5
    <3>2. Length(b, i) = 0
      BY <1>1, <2>3, <2>4, <2>5
    <3>3. Part(b, i) = <<>>
      BY <3>2
    <3> QED
      BY <2>3, <3>1, <3>3
  <2>6. CASE b # 0 /\ i # m + 1
    <3>1. i \in 1 .. m /\ i + 1 \in 1 .. m + 1 /\ At(i) = s[i] /\ s[i] \in Nodes /\ s[i] # None
      BY <1>1, <2>3, <2>6, Bounds
    <3>2. links[s[i]] = At(i + 1)
      BY <1>1, <3>1 DEF Threads
    <3>3. b - 1 \in 0 .. top /\ b - 1 \notin Bad
      <4>. HIDE DEF Bad
      <4>1. b - 1 < b /\ b - 1 \in 0 .. top
        BY <1>1, <2>4, <2>6
      <4> QED
        BY <2>2, <2>4, <4>1
    <3>4. w[b - 1][At(i + 1)] = Part(b - 1, i + 1)
      BY <3>1, <3>3
    <3>5. w[b][At(i)] = <<s[i]>> \o Part(b - 1, i + 1)
      <4>1. At(i) # None /\ At(i) \in Nodes \cup {None}
        BY <3>1
      <4>2. w[b][At(i)] = <<At(i)>> \o w[b - 1][links[At(i)]]
        <5>. HIDE DEF At
        <5> QED
          BY <1>4, <2>4, <2>6, <4>1
      <4>. HIDE DEF Part
      <4> QED
        BY <3>1, <3>2, <3>4, <4>2
    <3>. DEFINE l == Length(b - 1, i + 1)
                g == Part(b - 1, i + 1)
    <3>6. l \in Nat /\ l + 1 = Length(b, i) /\ \A t \in 1 .. l : i + t \in 1 .. m
      BY <1>1, <2>4, <2>6, <3>1
    <3>7. g \in [1 .. l -> Nodes] /\ \A t \in 1 .. l : g[t] = s[i + t]
      <4>1. \A t \in 1 .. l : (i + 1) - 1 + t = i + t
        BY <3>1, <3>6
      <4> QED
        BY <3>6, <4>1
    <3>. HIDE DEF g
    <3>8. <<s[i]>> \o g = [t \in 1 .. l + 1 |-> IF t = 1 THEN s[i] ELSE g[t - 1]]
      BY <3>1, <3>6, <3>7, Prepend
    <3>9. \A t \in 1 .. l + 1 : (IF t = 1 THEN s[i] ELSE g[t - 1]) = s[i - 1 + t]
      <4>. SUFFICES ASSUME NEW t \in 1 .. l + 1
                    PROVE  (IF t = 1 THEN s[i] ELSE g[t - 1]) = s[i - 1 + t]
        OBVIOUS
      <4>1. CASE t = 1
        BY <3>1, <4>1
      <4>2. CASE t # 1
        <5>1. t - 1 \in 1 .. l /\ i + (t - 1) = i - 1 + t
          BY <3>1, <3>6, <4>2
        <5> QED
          BY <3>7, <4>2, <5>1
      <4> QED
        BY <4>1, <4>2
    <3>10. <<s[i]>> \o g = Part(b, i)
      <4>. HIDE DEF l
      <4> QED
        BY <3>6, <3>8, <3>9
    <3> QED
      BY <2>3, <3>5, <3>10 DEF g
  <2> QED
    BY <2>5, <2>6
<1>7. top \in 0 .. top /\ 1 \in 1 .. m + 1
  BY <1>1
<1>8. w[top][At(1)] = Part(top, 1)
  BY <1>6, <1>7
<1>9. Length(top, 1) = m /\ \A t \in 1 .. m : 1 - 1 + t = t
  BY <1>1
<1>10. Part(top, 1) = s
  BY <1>9
<1>11. At(1) = first
  BY <1>1 DEF Threads
<1> QED
  BY <1>2, <1>8, <1>10, <1>11

-----------------------------------------------------------------------------
(* The fields of an array after an operation.                                *)

LEMMA ArrayFields ==
  ASSUME NEW a \in Arrays
  PROVE  /\ a.next \in Links /\ a.prev \in Links /\ a.data \in [Nodes -> Elements \cup {NoItem}]
         /\ a.count \in 0 .. CapacityBound /\ a.capacity \in 0 .. CapacityBound
         /\ a.usedhead \in Ends /\ a.usedtail \in Ends
         /\ a.freehead \in Ends
BY DEF Arrays

LEMMA SetLinks ==
  ASSUME NEW g \in Links, NEW n \in Ends, NEW v \in Ends
  PROVE  Set(g, n, v) \in Links
BY Bounds DEF Set, Links, Ends

LEMMA SetAt ==
  ASSUME NEW g \in Links, NEW n \in Ends, NEW v, NEW k \in Nodes
  PROVE  Set(g, n, v)[k] = IF k = n THEN v ELSE g[k]
BY Bounds DEF Set, Links, Ends

\* The first free node becomes the first or the last used one.
Taken(a, item, head) ==
    [MakeUsedNode(a, a.freehead, head) EXCEPT !.data[a.freehead] = item, !.count = @ + 1]

FirstFree(a, node) == a.freehead = node /\ a.prev[node] = None

\* What that changes, if it becomes the first.
BecameFirst(a, b, node, item) ==
    /\ b \in Arrays
    /\ b.count = a.count + 1 /\ b.capacity = a.capacity
    /\ b.data = [a.data EXCEPT ![node] = item]
    /\ b.freehead = a.next[node]
    /\ b.usedhead = node
    /\ b.usedtail = IF a.usedhead = None THEN node ELSE a.usedtail
    /\ \A n \in Nodes :
         /\ b.next[n] = IF n = node THEN a.usedhead ELSE a.next[n]
         /\ b.prev[n] = IF n = node THEN None ELSE IF n = a.usedhead THEN node
                        ELSE IF n = a.next[node] THEN None ELSE a.prev[n]

LEMMA FirstFields ==
  ASSUME NEW a \in Arrays, NEW node \in Nodes, FirstFree(a, node),
         NEW item \in Elements, a.count < a.capacity,
         NEW b, b = Taken(a, item, TRUE)
  PROVE  BecameFirst(a, b, node, item)
<1>. DEFINE next == a.next[node]
            back == Set(a.prev, next, None)
            hind == Set(back, a.usedhead, node)
<1>1. /\ a.next \in Links /\ a.prev \in Links /\ a.data \in [Nodes -> Elements \cup {NoItem}]
      /\ a.count \in 0 .. CapacityBound /\ a.capacity \in 0 .. CapacityBound
      /\ a.usedhead \in Ends /\ a.usedtail \in Ends
  BY ArrayFields
<1>2. next \in Ends /\ node \in Ends /\ None \in Ends
  BY <1>1, Bounds DEF Links
<1>. HIDE DEF next
<1>3. back \in Links /\ \A k \in Nodes : back[k] = IF k = next THEN None ELSE a.prev[k]
  <2>1. back \in Links
    BY <1>1, <1>2, SetLinks
  <2>2. \A k \in Nodes : back[k] = IF k = next THEN None ELSE a.prev[k]
    BY <1>1, <1>2, SetAt
  <2> QED
    BY <2>1, <2>2
<1>4. hind \in Links /\ \A k \in Nodes : hind[k] = IF k = a.usedhead THEN node ELSE back[k]
  <2>. HIDE DEF back
  <2>1. hind \in Links
    BY <1>1, <1>2, <1>3, SetLinks
  <2>2. \A k \in Nodes : hind[k] = IF k = a.usedhead THEN node ELSE back[k]
    BY <1>1, <1>2, <1>3, SetAt
  <2> QED
    BY <2>1, <2>2
<1>5. b = [[[a EXCEPT !.next = a.next, !.prev = back, !.freehead = next] EXCEPT
               !.prev = [hind EXCEPT ![node] = None],
               !.next[node] = a.usedhead,
               !.usedhead = node,
               !.usedtail = IF a.usedhead = None THEN node ELSE @] EXCEPT
             !.data[node] = item, !.count = @ + 1]
  BY DEF next, FirstFree, Taken, MakeUsedNode, Set, Arrays
<1>. HIDE DEF back, hind
<1>6. b = [a EXCEPT !.next = [a.next EXCEPT ![node] = a.usedhead],
                    !.prev = [hind EXCEPT ![node] = None],
                    !.freehead = next,
                    !.usedhead = node,
                    !.usedtail = IF a.usedhead = None THEN node ELSE a.usedtail,
                    !.data = [a.data EXCEPT ![node] = item],
                    !.count = a.count + 1]
  BY <1>5 DEF Arrays
<1>7. /\ [a.next EXCEPT ![node] = a.usedhead] \in Links
      /\ [hind EXCEPT ![node] = None] \in Links
      /\ [a.data EXCEPT ![node] = item] \in [Nodes -> Elements \cup {NoItem}]
      /\ a.count + 1 \in 0 .. CapacityBound
  BY <1>1, <1>2, <1>4, Bounds DEF Links
<1>8. b \in Arrays
  BY <1>1, <1>2, <1>6, <1>7 DEF Arrays
<1>9. /\ b.next = [a.next EXCEPT ![node] = a.usedhead]
      /\ b.prev = [hind EXCEPT ![node] = None]
      /\ b.freehead = next /\ b.usedhead = node
      /\ b.usedtail = IF a.usedhead = None THEN node ELSE a.usedtail
      /\ b.data = [a.data EXCEPT ![node] = item]
      /\ b.count = a.count + 1 /\ b.capacity = a.capacity
  BY <1>6 DEF Arrays
<1>10. \A n \in Nodes :
         /\ b.next[n] = IF n = node THEN a.usedhead ELSE a.next[n]
         /\ b.prev[n] = IF n = node THEN None ELSE IF n = a.usedhead THEN node
                        ELSE IF n = next THEN None ELSE a.prev[n]
  BY <1>1, <1>3, <1>4, <1>9 DEF Links
<1> QED
  BY <1>8, <1>9, <1>10 DEF next, BecameFirst

\* And if it becomes the last.
BecameLast(a, b, node, item) ==
    /\ b \in Arrays
    /\ b.count = a.count + 1 /\ b.capacity = a.capacity
    /\ b.data = [a.data EXCEPT ![node] = item]
    /\ b.freehead = a.next[node]
    /\ b.usedtail = node
    /\ b.usedhead = IF a.usedtail = None THEN node ELSE a.usedhead
    /\ \A n \in Nodes :
         /\ b.next[n] = IF n = node THEN None ELSE IF n = a.usedtail THEN node ELSE a.next[n]
         /\ b.prev[n] = IF n = node THEN a.usedtail
                        ELSE IF n = a.next[node] THEN None ELSE a.prev[n]

LEMMA LastFields ==
  ASSUME NEW a \in Arrays, NEW node \in Nodes, FirstFree(a, node),
         NEW item \in Elements, a.count < a.capacity,
         NEW b, b = Taken(a, item, FALSE)
  PROVE  BecameLast(a, b, node, item)
<1>. DEFINE next == a.next[node]
            back == Set(a.prev, next, None)
            forth == Set(a.next, a.usedtail, node)
<1>1. /\ a.next \in Links /\ a.prev \in Links /\ a.data \in [Nodes -> Elements \cup {NoItem}]
      /\ a.count \in 0 .. CapacityBound /\ a.capacity \in 0 .. CapacityBound
      /\ a.usedhead \in Ends /\ a.usedtail \in Ends
  BY ArrayFields
<1>2. next \in Ends /\ node \in Ends /\ None \in Ends
  BY <1>1, Bounds DEF Links
<1>. HIDE DEF next
<1>3. back \in Links /\ \A k \in Nodes : back[k] = IF k = next THEN None ELSE a.prev[k]
  <2>1. back \in Links
    BY <1>1, <1>2, SetLinks
  <2>2. \A k \in Nodes : back[k] = IF k = next THEN None ELSE a.prev[k]
    BY <1>1, <1>2, SetAt
  <2> QED
    BY <2>1, <2>2
<1>4. forth \in Links /\ \A k \in Nodes : forth[k] = IF k = a.usedtail THEN node ELSE a.next[k]
  <2>1. forth \in Links
    BY <1>1, <1>2, SetLinks
  <2>2. \A k \in Nodes : forth[k] = IF k = a.usedtail THEN node ELSE a.next[k]
    BY <1>1, <1>2, SetAt
  <2> QED
    BY <2>1, <2>2
<1>5. b = [[[a EXCEPT !.next = a.next, !.prev = back, !.freehead = next] EXCEPT
               !.next = [forth EXCEPT ![node] = None],
               !.prev[node] = a.usedtail,
               !.usedtail = node,
               !.usedhead = IF a.usedtail = None THEN node ELSE @] EXCEPT
             !.data[node] = item, !.count = @ + 1]
  BY DEF next, FirstFree, Taken, MakeUsedNode, Set, Arrays
<1>. HIDE DEF back, forth
<1>6. b = [a EXCEPT !.next = [forth EXCEPT ![node] = None],
                    !.prev = [back EXCEPT ![node] = a.usedtail],
                    !.freehead = next,
                    !.usedtail = node,
                    !.usedhead = IF a.usedtail = None THEN node ELSE a.usedhead,
                    !.data = [a.data EXCEPT ![node] = item],
                    !.count = a.count + 1]
  BY <1>5 DEF Arrays
<1>7. /\ [forth EXCEPT ![node] = None] \in Links
      /\ [back EXCEPT ![node] = a.usedtail] \in Links
      /\ [a.data EXCEPT ![node] = item] \in [Nodes -> Elements \cup {NoItem}]
      /\ a.count + 1 \in 0 .. CapacityBound
  BY <1>1, <1>2, <1>3, <1>4, Bounds DEF Links
<1>8. b \in Arrays
  BY <1>1, <1>2, <1>6, <1>7 DEF Arrays
<1>9. /\ b.next = [forth EXCEPT ![node] = None]
      /\ b.prev = [back EXCEPT ![node] = a.usedtail]
      /\ b.freehead = next /\ b.usedtail = node
      /\ b.usedhead = IF a.usedtail = None THEN node ELSE a.usedhead
      /\ b.data = [a.data EXCEPT ![node] = item]
      /\ b.count = a.count + 1 /\ b.capacity = a.capacity
  BY <1>6 DEF Arrays
<1>10. \A n \in Nodes :
         /\ b.next[n] = IF n = node THEN None ELSE IF n = a.usedtail THEN node ELSE a.next[n]
         /\ b.prev[n] = IF n = node THEN a.usedtail
                        ELSE IF n = next THEN None ELSE a.prev[n]
  BY <1>1, <1>3, <1>4, <1>9 DEF Links
<1> QED
  BY <1>8, <1>9, <1>10 DEF next, BecameLast

\* What a node that leaves the used list from anywhere changes.
LEMMA FreedFields ==
  ASSUME NEW a \in Arrays, NEW node \in Nodes, a.count > 0,
         NEW b, b = Popped(a, node, node)
  PROVE  /\ b \in Arrays
         /\ b.count = a.count - 1 /\ b.capacity = a.capacity /\ b.data = a.data
         /\ b.freehead = node
         /\ b.usedhead = IF a.prev[node] = None THEN a.next[node] ELSE a.usedhead
         /\ b.usedtail = IF a.next[node] = None THEN a.prev[node] ELSE a.usedtail
         /\ \A n \in Nodes :
              /\ b.next[n] = IF n = node THEN a.freehead
                             ELSE IF n = a.prev[node] THEN a.next[node] ELSE a.next[n]
              /\ b.prev[n] = IF n = node THEN None ELSE IF n = a.freehead THEN node
                             ELSE IF n = a.next[node] THEN a.prev[node] ELSE a.prev[n]
<1>. DEFINE next == a.next[node]
            prev == a.prev[node]
            forth == Set(a.next, prev, next)
            back == Set(a.prev, next, prev)
            hind == Set(back, a.freehead, node)
<1>1. /\ a.next \in Links /\ a.prev \in Links
      /\ a.count \in 0 .. CapacityBound /\ a.capacity \in 0 .. CapacityBound
      /\ a.usedhead \in Ends /\ a.usedtail \in Ends
      /\ a.freehead \in Ends
  BY ArrayFields
<1>2. next \in Ends /\ prev \in Ends /\ node # None /\ node \in Ends /\ None \in Ends
  BY <1>1, Bounds DEF Links
<1>3. /\ forth \in Links /\ \A k \in Nodes : forth[k] = IF k = prev THEN next ELSE a.next[k]
      /\ back \in Links /\ \A k \in Nodes : back[k] = IF k = next THEN prev ELSE a.prev[k]
  <2>1. forth \in Links /\ back \in Links
    BY <1>1, <1>2, SetLinks
  <2>2. \A k \in Nodes : forth[k] = IF k = prev THEN next ELSE a.next[k]
    BY <1>1, <1>2, SetAt
  <2>3. \A k \in Nodes : back[k] = IF k = next THEN prev ELSE a.prev[k]
    BY <1>1, <1>2, SetAt
  <2> QED
    BY <2>1, <2>2, <2>3
<1>4. hind \in Links /\ \A k \in Nodes : hind[k] = IF k = a.freehead THEN node ELSE back[k]
  <2>. HIDE DEF back
  <2>1. hind \in Links
    BY <1>1, <1>2, <1>3, SetLinks
  <2>2. \A k \in Nodes : hind[k] = IF k = a.freehead THEN node ELSE back[k]
    BY <1>1, <1>2, <1>3, SetAt
  <2> QED
    BY <2>1, <2>2
<1>5. b = [[a EXCEPT !.next = [forth EXCEPT ![node] = a.freehead],
                     !.prev = [hind EXCEPT ![node] = None],
                     !.usedhead = IF prev = None THEN next ELSE @,
                     !.usedtail = IF next = None THEN prev ELSE @,
                     !.freehead = node] EXCEPT !.count = @ - 1]
  BY <1>2 DEF Popped, MakeFreeNode, Arrays
<1>6. a.count - 1 \in 0 .. CapacityBound
  BY <1>1, Bounds
<1>. HIDE DEF back, forth, hind, next, prev
<1>7. b = [a EXCEPT !.next = [forth EXCEPT ![node] = a.freehead],
                    !.prev = [hind EXCEPT ![node] = None],
                    !.usedhead = IF prev = None THEN next ELSE a.usedhead,
                    !.usedtail = IF next = None THEN prev ELSE a.usedtail,
                    !.freehead = node,
                    !.count = a.count - 1]
  BY <1>5 DEF Arrays
<1>8. [forth EXCEPT ![node] = a.freehead] \in Links /\ [hind EXCEPT ![node] = None] \in Links
  BY <1>1, <1>2, <1>3, <1>4 DEF Links
<1>9. b \in Arrays
  BY <1>1, <1>2, <1>6, <1>7, <1>8 DEF Arrays
<1>10. /\ b.next = [forth EXCEPT ![node] = a.freehead] /\ b.prev = [hind EXCEPT ![node] = None]
       /\ b.usedhead = IF prev = None THEN next ELSE a.usedhead
       /\ b.usedtail = IF next = None THEN prev ELSE a.usedtail
       /\ b.freehead = node /\ b.data = a.data
       /\ b.count = a.count - 1 /\ b.capacity = a.capacity
  BY <1>7 DEF Arrays
<1>11. \A n \in Nodes :
         /\ b.next[n] = IF n = node THEN a.freehead ELSE IF n = prev THEN next ELSE a.next[n]
         /\ b.prev[n] = IF n = node THEN None ELSE IF n = a.freehead THEN node
                        ELSE IF n = next THEN prev ELSE a.prev[n]
  BY <1>3, <1>4, <1>10 DEF Links
<1> QED
  BY <1>9, <1>10, <1>11 DEF next, prev

-----------------------------------------------------------------------------
(* Lists with one node more or less.                                         *)

Before(x, s, m) == [j \in 1 .. m + 1 |-> IF j = 1 THEN x ELSE s[j - 1]]

After(s, m, x) == [j \in 1 .. m + 1 |-> IF j = m + 1 THEN x ELSE s[j]]

WithoutAt(s, m, i) == [j \in 1 .. m - 1 |-> IF j < i THEN s[j] ELSE s[j + 1]]

LEMMA BeforeIs ==
  ASSUME NEW m \in Nat, NEW S, NEW s \in [1 .. m -> S], Once(s, m), NEW x \in S, ~Has(s, m, x)
  PROVE  /\ Before(x, s, m) \in [1 .. m + 1 -> S] /\ Once(Before(x, s, m), m + 1)
         /\ Before(x, s, m)[1] = x
         /\ \A j \in 1 .. m : Before(x, s, m)[j + 1] = s[j]
         /\ \A n : Has(Before(x, s, m), m + 1, n) <=> n = x \/ Has(s, m, n)
<1>. DEFINE t == Before(x, s, m)
<1>1. t \in [1 .. m + 1 -> S]
  <2>1. \A j \in 1 .. m + 1 : j # 1 => j - 1 \in 1 .. m
    OBVIOUS
  <2> QED
    BY <2>1 DEF Before
<1>2. \A j \in 1 .. m : j + 1 \in 1 .. m + 1 /\ t[j + 1] = s[j]
  BY DEF Before
<1>3. 1 \in 1 .. m + 1 /\ t[1] = x
  BY DEF Before
<1>4. \A j \in 1 .. m + 1 : j = 1 \/ \E k \in 1 .. m : j = k + 1
  <2>1. \A j \in 1 .. m + 1 : j = 1 \/ (j - 1 \in 1 .. m /\ j = (j - 1) + 1)
    OBVIOUS
  <2> QED
    BY <2>1
<1>. HIDE DEF t
<1>5. Once(t, m + 1)
  <2>. SUFFICES ASSUME NEW j \in 1 .. m + 1, NEW k \in 1 .. m + 1, t[j] = t[k]
                PROVE  j = k
    BY DEF Once
  <2>1. \A l \in 1 .. m : t[l + 1] # x
    BY <1>2 DEF Has
  <2>2. CASE j = 1 \/ k = 1
    BY <1>3, <1>4, <2>1, <2>2
  <2>3. CASE j # 1 /\ k # 1
    <3>1. PICK p \in 1 .. m : j = p + 1
      BY <1>4, <2>3
    <3>2. PICK q \in 1 .. m : k = q + 1
      BY <1>4, <2>3
    <3>3. s[p] = s[q]
      BY <1>2, <3>1, <3>2
    <3> QED
      BY <3>1, <3>2, <3>3 DEF Once
  <2> QED
    BY <2>2, <2>3
<1>6. ASSUME NEW n
      PROVE  Has(t, m + 1, n) <=> n = x \/ Has(s, m, n)
  BY <1>2, <1>3, <1>4 DEF Has
<1>7. /\ t[1] = x
      /\ \A j \in 1 .. m : t[j + 1] = s[j]
      /\ \A n : Has(t, m + 1, n) <=> n = x \/ Has(s, m, n)
  BY <1>2, <1>3, <1>6
<1> QED
  BY <1>1, <1>5, <1>7 DEF t

LEMMA AfterIs ==
  ASSUME NEW m \in Nat, NEW S, NEW s \in [1 .. m -> S], Once(s, m), NEW x \in S, ~Has(s, m, x)
  PROVE  /\ After(s, m, x) \in [1 .. m + 1 -> S] /\ Once(After(s, m, x), m + 1)
         /\ After(s, m, x)[m + 1] = x
         /\ \A j \in 1 .. m : After(s, m, x)[j] = s[j]
         /\ \A n : Has(After(s, m, x), m + 1, n) <=> n = x \/ Has(s, m, n)
<1>. DEFINE t == After(s, m, x)
<1>1. t \in [1 .. m + 1 -> S]
  <2>1. \A j \in 1 .. m + 1 : j # m + 1 => j \in 1 .. m
    OBVIOUS
  <2> QED
    BY <2>1 DEF After
<1>2. \A j \in 1 .. m : j \in 1 .. m + 1 /\ t[j] = s[j]
  BY DEF After
<1>3. m + 1 \in 1 .. m + 1 /\ t[m + 1] = x
  BY DEF After
<1>4. \A j \in 1 .. m + 1 : j = m + 1 \/ j \in 1 .. m
  OBVIOUS
<1>. HIDE DEF t
<1>5. Once(t, m + 1)
  BY <1>2, <1>3, <1>4 DEF Once, Has
<1>6. ASSUME NEW n
      PROVE  Has(t, m + 1, n) <=> n = x \/ Has(s, m, n)
  BY <1>2, <1>3, <1>4 DEF Has
<1>7. /\ t[m + 1] = x
      /\ \A j \in 1 .. m : t[j] = s[j]
      /\ \A n : Has(t, m + 1, n) <=> n = x \/ Has(s, m, n)
  BY <1>2, <1>3, <1>6
<1> QED
  BY <1>1, <1>5, <1>7 DEF t

LEMMA WithoutAtIs ==
  ASSUME NEW m \in Nat, NEW S, NEW s \in [1 .. m -> S], Once(s, m), NEW i \in 1 .. m
  PROVE  /\ WithoutAt(s, m, i) \in [1 .. m - 1 -> S] /\ Once(WithoutAt(s, m, i), m - 1)
         /\ \A j \in 1 .. m - 1 : WithoutAt(s, m, i)[j] = IF j < i THEN s[j] ELSE s[j + 1]
         /\ \A n : Has(WithoutAt(s, m, i), m - 1, n) <=> n # s[i] /\ Has(s, m, n)
<1>. DEFINE t == WithoutAt(s, m, i)
            From(j) == IF j < i THEN j ELSE j + 1
<1>1. \A j \in 1 .. m - 1 : From(j) \in 1 .. m /\ From(j) # i
  OBVIOUS
<1>2. \A j \in 1 .. m - 1 : t[j] = s[From(j)]
  BY DEF WithoutAt
<1>3. t \in [1 .. m - 1 -> S]
  BY <1>1 DEF WithoutAt
<1>4. \A j, k \in 1 .. m - 1 : From(j) = From(k) => j = k
  OBVIOUS
<1>5. \A k \in 1 .. m : k # i => \E j \in 1 .. m - 1 : k = From(j)
  <2>. SUFFICES ASSUME NEW k \in 1 .. m, k # i
                PROVE  \E j \in 1 .. m - 1 : k = From(j)
    OBVIOUS
  <2>1. CASE k < i
    BY <2>1
  <2>2. CASE k > i
    <3>1. k - 1 \in 1 .. m - 1 /\ k = From(k - 1)
      BY <2>2
    <3>. HIDE DEF From
    <3> QED
      BY <3>1
  <2> QED
    BY <2>1, <2>2
<1>. HIDE DEF t, From
<1>6. Once(t, m - 1)
  BY <1>1, <1>2, <1>4 DEF Once
<1>7. ASSUME NEW n
      PROVE  Has(t, m - 1, n) <=> n # s[i] /\ Has(s, m, n)
  <2>1. ASSUME NEW j \in 1 .. m - 1, t[j] = n
        PROVE  n # s[i] /\ Has(s, m, n)
    <3>1. From(j) \in 1 .. m /\ From(j) # i /\ s[From(j)] = n
      BY <1>1, <1>2, <2>1
    <3> QED
      BY <3>1 DEF Has, Once
  <2>2. ASSUME NEW k \in 1 .. m, s[k] = n, n # s[i]
        PROVE  Has(t, m - 1, n)
    <3>1. PICK j \in 1 .. m - 1 : k = From(j)
      BY <1>5, <2>2
    <3>2. t[j] = n
      BY <1>2, <2>2, <3>1
    <3> QED
      BY <3>2 DEF Has
  <2> QED
    BY <2>1, <2>2 DEF Has
<1>8. \A j \in 1 .. m - 1 : t[j] = IF j < i THEN s[j] ELSE s[j + 1]
  BY <1>2 DEF From
<1> QED
  BY <1>3, <1>6, <1>7, <1>8 DEF t

LEMMA ThreadsBefore ==
  ASSUME NEW m \in Nat, NEW s, NEW x, NEW first, NEW links, Threads(s, m, first, links),
         NEW after, after[x] = first, \A j \in 1 .. m : after[s[j]] = links[s[j]]
  PROVE  Threads(Before(x, s, m), m + 1, x, after)
<1>. SUFFICES ASSUME NEW j \in 1 .. m + 1
              PROVE  after[Before(x, s, m)[j]] =
                       IF j = m + 1 THEN None ELSE Before(x, s, m)[j + 1]
  BY DEF Threads, Before
<1>1. CASE j = 1
  BY <1>1 DEF Threads, Before
<1>2. CASE j # 1
  <2>1. j - 1 \in 1 .. m /\ Before(x, s, m)[j] = s[j - 1]
    BY <1>2 DEF Before
  <2>2. j # m + 1 => Before(x, s, m)[j + 1] = s[(j - 1) + 1]
    BY <1>2 DEF Before
  <2> QED
    BY <2>1, <2>2 DEF Threads
<1> QED
  BY <1>1, <1>2

LEMMA BackBefore ==
  ASSUME NEW m \in Nat, NEW s, NEW x, NEW last, NEW links, ThreadsBack(s, m, last, links),
         NEW after, after[x] = None,
         \A j \in 1 .. m : after[s[j]] = IF j = 1 THEN x ELSE links[s[j]]
  PROVE  ThreadsBack(Before(x, s, m), m + 1, IF m = 0 THEN x ELSE last, after)
<1>1. (IF m = 0 THEN x ELSE last) = Before(x, s, m)[m + 1]
  BY DEF ThreadsBack, Before
<1>. SUFFICES ASSUME NEW j \in 1 .. m + 1
              PROVE  after[Before(x, s, m)[j]] =
                       IF j = 1 THEN None ELSE Before(x, s, m)[j - 1]
  BY <1>1 DEF ThreadsBack
<1>2. CASE j = 1
  BY <1>2 DEF Before
<1>3. CASE j # 1
  <2>1. j - 1 \in 1 .. m /\ Before(x, s, m)[j] = s[j - 1]
    BY <1>3 DEF Before
  <2>2. Before(x, s, m)[j - 1] = IF j - 1 = 1 THEN x ELSE s[(j - 1) - 1]
    BY <1>3 DEF Before
  <2> QED
    BY <1>3, <2>1, <2>2 DEF ThreadsBack
<1> QED
  BY <1>2, <1>3

LEMMA ThreadsAfter ==
  ASSUME NEW m \in Nat, NEW s, NEW x, NEW first, NEW links, Threads(s, m, first, links),
         NEW after, after[x] = None,
         \A j \in 1 .. m : after[s[j]] = IF j = m THEN x ELSE links[s[j]]
  PROVE  Threads(After(s, m, x), m + 1, IF m = 0 THEN x ELSE first, after)
<1>1. (IF m = 0 THEN x ELSE first) = After(s, m, x)[1]
  BY DEF Threads, After
<1>. SUFFICES ASSUME NEW j \in 1 .. m + 1
              PROVE  after[After(s, m, x)[j]] =
                       IF j = m + 1 THEN None ELSE After(s, m, x)[j + 1]
  BY <1>1 DEF Threads
<1>2. CASE j = m + 1
  BY <1>2 DEF After
<1>3. CASE j # m + 1
  <2>1. j \in 1 .. m /\ After(s, m, x)[j] = s[j]
    BY <1>3 DEF After
  <2>2. After(s, m, x)[j + 1] = IF j = m THEN x ELSE s[j + 1]
    BY <1>3 DEF After
  <2> QED
    BY <1>3, <2>1, <2>2 DEF Threads
<1> QED
  BY <1>2, <1>3

LEMMA BackAfter ==
  ASSUME NEW m \in Nat, NEW s, NEW x, NEW last, NEW links, ThreadsBack(s, m, last, links),
         NEW after, after[x] = last, \A j \in 1 .. m : after[s[j]] = links[s[j]]
  PROVE  ThreadsBack(After(s, m, x), m + 1, x, after)
<1>1. x = After(s, m, x)[m + 1]
  BY DEF After
<1>. SUFFICES ASSUME NEW j \in 1 .. m + 1
              PROVE  after[After(s, m, x)[j]] =
                       IF j = 1 THEN None ELSE After(s, m, x)[j - 1]
  BY <1>1 DEF ThreadsBack
<1>2. CASE j = m + 1
  <2>1. j # 1 => After(s, m, x)[j - 1] = s[m]
    BY <1>2 DEF After
  <2>2. After(s, m, x)[j] = x /\ (j = 1 <=> m = 0)
    BY <1>1, <1>2
  <2> QED
    BY <2>1, <2>2 DEF ThreadsBack
<1>3. CASE j # m + 1
  <2>1. j \in 1 .. m /\ After(s, m, x)[j] = s[j]
    BY <1>3 DEF After
  <2>2. j # 1 => After(s, m, x)[j - 1] = s[j - 1]
    BY <1>3 DEF After
  <2> QED
    BY <2>1, <2>2 DEF ThreadsBack
<1> QED
  BY <1>2, <1>3

LEMMA ThreadsWithout ==
  ASSUME NEW m \in Nat, NEW s, NEW first, NEW links, Threads(s, m, first, links),
         NEW i \in 1 .. m, NEW after,
         \A j \in 1 .. m :
           j # i => after[s[j]] = IF j = i - 1 THEN links[s[i]] ELSE links[s[j]]
  PROVE  Threads(WithoutAt(s, m, i), m - 1, IF i = 1 THEN links[s[i]] ELSE first, after)
<1>. DEFINE t == WithoutAt(s, m, i)
<1>1. \A j \in 1 .. m - 1 : t[j] = IF j < i THEN s[j] ELSE s[j + 1]
  BY DEF WithoutAt
<1>. HIDE DEF t
<1>2. links[s[i]] = IF i = m THEN None ELSE s[i + 1]
  BY DEF Threads
<1>3. (IF i = 1 THEN links[s[i]] ELSE first) = IF m - 1 = 0 THEN None ELSE t[1]
  BY <1>1, <1>2 DEF Threads
<1>4. ASSUME NEW j \in 1 .. m - 1
      PROVE  after[t[j]] = IF j = m - 1 THEN None ELSE t[j + 1]
  <2>1. CASE j < i - 1
    <3>1. t[j] = s[j] /\ j \in 1 .. m /\ j # i /\ j # m /\ j # m - 1 /\ t[j + 1] = s[j + 1]
      BY <1>1, <2>1
    <3> QED
      BY <2>1, <3>1 DEF Threads
  <2>2. CASE j = i - 1
    <3>1. t[j] = s[j] /\ j \in 1 .. m /\ j # i /\ (j = m - 1 <=> i = m)
      BY <1>1, <2>2
    <3>2. j # m - 1 => t[j + 1] = s[i + 1]
      BY <1>1, <2>2
    <3> QED
      BY <1>2, <2>2, <3>1, <3>2
  <2>3. CASE j > i - 1
    <3>1. t[j] = s[j + 1] /\ j + 1 \in 1 .. m /\ j + 1 # i /\ j + 1 # i - 1
      BY <1>1, <2>3
    <3>2. j # m - 1 => t[j + 1] = s[j + 1 + 1]
      BY <1>1, <2>3
    <3> QED
      BY <3>1, <3>2 DEF Threads
  <2> QED
    BY <2>1, <2>2, <2>3
<1> QED
  BY <1>3, <1>4 DEF Threads, t

LEMMA BackWithout ==
  ASSUME NEW m \in Nat, NEW s, NEW last, NEW links, ThreadsBack(s, m, last, links),
         NEW i \in 1 .. m, NEW after,
         \A j \in 1 .. m :
           j # i => after[s[j]] = IF j = i + 1 THEN links[s[i]] ELSE links[s[j]]
  PROVE  ThreadsBack(WithoutAt(s, m, i), m - 1, IF i = m THEN links[s[i]] ELSE last, after)
<1>. DEFINE t == WithoutAt(s, m, i)
<1>1. \A j \in 1 .. m - 1 : t[j] = IF j < i THEN s[j] ELSE s[j + 1]
  BY DEF WithoutAt
<1>. HIDE DEF t
<1>2. links[s[i]] = IF i = 1 THEN None ELSE s[i - 1]
  BY DEF ThreadsBack
<1>3. (IF i = m THEN links[s[i]] ELSE last) = IF m - 1 = 0 THEN None ELSE t[m - 1]
  BY <1>1, <1>2 DEF ThreadsBack
<1>4. ASSUME NEW j \in 1 .. m - 1
      PROVE  after[t[j]] = IF j = 1 THEN None ELSE t[j - 1]
  <2>1. CASE j < i
    <3>1. t[j] = s[j] /\ j \in 1 .. m /\ j # i /\ j # i + 1
      BY <1>1, <2>1
    <3>2. j # 1 => t[j - 1] = s[j - 1]
      BY <1>1, <2>1
    <3> QED
      BY <3>1, <3>2 DEF ThreadsBack
  <2>2. CASE j = i
    <3>1. t[j] = s[i + 1] /\ i + 1 \in 1 .. m /\ i + 1 # i
      BY <1>1, <2>2
    <3>2. j # 1 => t[j - 1] = s[i - 1]
      BY <1>1, <2>2
    <3> QED
      BY <1>2, <2>2, <3>1, <3>2
  <2>3. CASE j > i
    <3>1. t[j] = s[j + 1] /\ j + 1 \in 1 .. m /\ j + 1 # i /\ j + 1 # i + 1 /\ j # 1 /\ j + 1 # 1
      BY <1>1, <2>3
    <3>2. t[j - 1] = s[j] /\ j + 1 - 1 = j
      BY <1>1, <2>3
    <3> QED
      BY <3>1, <3>2 DEF ThreadsBack
  <2> QED
    BY <2>1, <2>2, <2>3
<1> QED
  BY <1>3, <1>4 DEF ThreadsBack, t

-----------------------------------------------------------------------------
(* The operations keep the two lists.                                        *)

LEMMA TakeShared ==
  ASSUME NEW a, NEW u, NEW f, Shared(a, u, f), a.count < a.capacity,
         NEW b, b.capacity = a.capacity, b.count = a.count + 1
  PROVE  /\ FreeCount(a) \in Nat \ {0} /\ FreeCount(b) = FreeCount(a) - 1
         /\ Shared(b, Before(f[1], u, a.count), WithoutAt(f, FreeCount(a), 1))
         /\ Shared(b, After(u, a.count, f[1]), WithoutAt(f, FreeCount(a), 1))
<1>. DEFINE S == 0 .. a.capacity - 1
            m == a.count
            k == FreeCount(a)
            x == f[1]
            g == WithoutAt(f, k, 1)
<1>1. /\ a.capacity \in 0 .. CapacityBound /\ m \in 0 .. a.capacity /\ m \in Nat
      /\ u \in [1 .. m -> S] /\ Once(u, m) /\ f \in [1 .. k -> S] /\ Once(f, k)
      /\ \A n \in S : Has(u, m, n) <=> ~Has(f, k, n)
  BY Bounds DEF Shared
<1>2. k \in Nat \ {0} /\ 1 \in 1 .. k /\ FreeCount(b) = k - 1 /\ m + 1 \in 0 .. a.capacity
  BY <1>1, Bounds DEF FreeCount
<1>3. x \in S /\ Has(f, k, x)
  BY <1>1, <1>2 DEF Has
<1>4. ~Has(u, m, x)
  BY <1>1, <1>3
<1>. HIDE DEF S, m, k
<1>5. /\ g \in [1 .. k - 1 -> S] /\ Once(g, k - 1)
      /\ \A n : Has(g, k - 1, n) <=> n # x /\ Has(f, k, n)
  BY <1>1, <1>2, WithoutAtIs
<1>. HIDE DEF g, x
<1>6. /\ Before(x, u, m) \in [1 .. m + 1 -> S] /\ Once(Before(x, u, m), m + 1)
      /\ \A n : Has(Before(x, u, m), m + 1, n) <=> n = x \/ Has(u, m, n)
  BY <1>1, <1>3, <1>4, BeforeIs
<1>7. /\ After(u, m, x) \in [1 .. m + 1 -> S] /\ Once(After(u, m, x), m + 1)
      /\ \A n : Has(After(u, m, x), m + 1, n) <=> n = x \/ Has(u, m, n)
  BY <1>1, <1>3, <1>4, AfterIs
<1>8. \A n \in S : /\ Has(Before(x, u, m), m + 1, n) <=> ~Has(g, k - 1, n)
                   /\ Has(After(u, m, x), m + 1, n) <=> ~Has(g, k - 1, n)
  BY <1>1, <1>3, <1>5, <1>6, <1>7
<1>9. b.count = m + 1 /\ b.capacity = a.capacity /\ S = 0 .. a.capacity - 1
  BY DEF m, S
<1>10. Shared(b, Before(x, u, m), g) /\ Shared(b, After(u, m, x), g)
  BY <1>1, <1>2, <1>5, <1>6, <1>7, <1>8, <1>9 DEF Shared
<1> QED
  BY <1>2, <1>10 DEF m, k, g, x

LEMMA FreeShared ==
  ASSUME NEW a, NEW u, NEW f, Shared(a, u, f), NEW i \in 1 .. a.count,
         NEW b, b.capacity = a.capacity, b.count = a.count - 1
  PROVE  /\ FreeCount(b) = FreeCount(a) + 1
         /\ Shared(b, WithoutAt(u, a.count, i), Before(u[i], f, FreeCount(a)))
<1>. DEFINE S == 0 .. a.capacity - 1
            m == a.count
            k == FreeCount(a)
            x == u[i]
            v == WithoutAt(u, m, i)
            g == Before(x, f, k)
<1>1. /\ a.capacity \in 0 .. CapacityBound /\ m \in 0 .. a.capacity /\ m \in Nat
      /\ u \in [1 .. m -> S] /\ Once(u, m) /\ f \in [1 .. k -> S] /\ Once(f, k)
      /\ \A n \in S : Has(u, m, n) <=> ~Has(f, k, n)
  BY Bounds DEF Shared
<1>2. /\ k \in Nat /\ i \in 1 .. m /\ FreeCount(b) = k + 1 /\ m - 1 \in 0 .. a.capacity
  BY <1>1, Bounds DEF FreeCount
<1>3. x \in S /\ Has(u, m, x)
  BY <1>1, <1>2 DEF Has
<1>4. ~Has(f, k, x)
  BY <1>1, <1>3
<1>. HIDE DEF S, m, k
<1>5. /\ v \in [1 .. m - 1 -> S] /\ Once(v, m - 1)
      /\ \A n : Has(v, m - 1, n) <=> n # x /\ Has(u, m, n)
  BY <1>1, <1>2, WithoutAtIs
<1>. HIDE DEF v, x
<1>6. /\ g \in [1 .. k + 1 -> S] /\ Once(g, k + 1)
      /\ \A n : Has(g, k + 1, n) <=> n = x \/ Has(f, k, n)
  BY <1>1, <1>2, <1>3, <1>4, BeforeIs
<1>. HIDE DEF g
<1>7. \A n \in S : Has(v, m - 1, n) <=> ~Has(g, k + 1, n)
  BY <1>1, <1>3, <1>5, <1>6
<1>8. b.count = m - 1 /\ b.capacity = a.capacity /\ S = 0 .. a.capacity - 1
  BY DEF m, S
<1>9. Shared(b, v, g)
  BY <1>1, <1>2, <1>5, <1>6, <1>7, <1>8 DEF Shared
<1> QED
  BY <1>2, <1>9 DEF m, k, g, x, v

\* What the lists say of the heads and of each other.
LEMMA WholeFacts ==
  ASSUME NEW a \in Arrays, NEW u, NEW f, Whole(a, u, f)
  PROVE  /\ a.capacity \in Nat /\ a.count \in Nat /\ FreeCount(a) \in Nat
         /\ a.capacity <= CapacityBound /\ a.count <= a.capacity
         /\ \A j \in 1 .. a.count : u[j] \in Nodes /\ u[j] # None
         /\ \A j \in 1 .. FreeCount(a) : f[j] \in Nodes /\ f[j] # None
         /\ \A j \in 1 .. a.count, k \in 1 .. FreeCount(a) : u[j] # f[k]
         /\ \A j, k \in 1 .. a.count : u[j] = u[k] => j = k
         /\ \A j, k \in 1 .. FreeCount(a) : f[j] = f[k] => j = k
         /\ a.usedhead = None <=> a.count = 0
         /\ a.usedtail = None <=> a.count = 0
         /\ a.freehead = None <=> FreeCount(a) = 0
         /\ a.count # 0 => a.usedhead = u[1] /\ a.usedtail = u[a.count]
         /\ FreeCount(a) # 0 => a.freehead = f[1]
<1>1. /\ a.capacity \in 0 .. CapacityBound /\ a.count \in 0 .. a.capacity
      /\ u \in [1 .. a.count -> 0 .. a.capacity - 1] /\ Once(u, a.count)
      /\ f \in [1 .. FreeCount(a) -> 0 .. a.capacity - 1] /\ Once(f, FreeCount(a))
      /\ \A n \in 0 .. a.capacity - 1 : Has(u, a.count, n) <=> ~Has(f, FreeCount(a), n)
  BY DEF Whole, Shared
<1>2. /\ a.capacity \in Nat /\ a.count \in Nat /\ FreeCount(a) \in Nat
      /\ a.capacity <= CapacityBound /\ a.count <= a.capacity
  BY <1>1, Bounds DEF FreeCount
<1>3. \A n \in 0 .. a.capacity - 1 : n \in Nodes /\ n # None
  BY <1>2, Bounds
<1>4. \A j \in 1 .. a.count, k \in 1 .. FreeCount(a) : u[j] # f[k]
  BY <1>1 DEF Has
<1>5. /\ a.usedhead = IF a.count = 0 THEN None ELSE u[1]
      /\ a.usedtail = IF a.count = 0 THEN None ELSE u[a.count]
      /\ a.freehead = IF FreeCount(a) = 0 THEN None ELSE f[1]
  BY DEF Whole, Threads, ThreadsBack
<1>6. /\ \A j \in 1 .. a.count : u[j] \in Nodes /\ u[j] # None
      /\ \A j \in 1 .. FreeCount(a) : f[j] \in Nodes /\ f[j] # None
  BY <1>1, <1>3
<1>7. /\ a.count # 0 => 1 \in 1 .. a.count /\ a.count \in 1 .. a.count
      /\ FreeCount(a) # 0 => 1 \in 1 .. FreeCount(a)
  BY <1>2
<1> QED
  BY <1>1, <1>2, <1>4, <1>5, <1>6, <1>7 DEF Once

-----------------------------------------------------------------------------
Put(a, b, node, item) == b.data = [a.data EXCEPT ![node] = item]

FirstKept(a, b, u, f, item) ==
    /\ b \in Arrays /\ a.freehead = f[1]
    /\ Whole(b, Before(a.freehead, u, a.count), WithoutAt(f, FreeCount(a), 1))
    /\ b.count = a.count + 1 /\ b.capacity = a.capacity
    /\ Put(a, b, a.freehead, item)

LEMMA FirstKeeps ==
  ASSUME NEW a \in Arrays, NEW u, NEW f, Whole(a, u, f), a.count < a.capacity,
         NEW item \in Elements, NEW b, b = Taken(a, item, TRUE)
  PROVE  FirstKept(a, b, u, f, item)
<1>. DEFINE node == a.freehead
            m == a.count
            k == FreeCount(a)
            v == Before(node, u, m)
            g == WithoutAt(f, k, 1)
<1>1. /\ m \in Nat /\ k \in Nat \ {0} /\ 1 \in 1 .. k /\ node = f[1]
      /\ \A j \in 1 .. m : u[j] \in Nodes /\ u[j] # node
      /\ \A j \in 1 .. k : f[j] \in Nodes /\ (j # 1 => f[j] # node)
      /\ \A i \in 1 .. m, j \in 1 .. k : u[i] # f[j]
      /\ \A i, j \in 1 .. m : u[i] = u[j] => i = j
      /\ a.usedhead = None <=> m = 0
      /\ m # 0 => a.usedhead = u[1]
  BY WholeFacts DEF FreeCount
<1>2. node \in Nodes /\ a.prev[node] = None
  BY <1>1 DEF Whole
<1>3. BecameFirst(a, b, node, item)
  <2>1. FirstFree(a, node)
    BY <1>2 DEF FirstFree
  <2>. HIDE DEF node, v, g
  <2> QED
    BY <1>2, <2>1, FirstFields DEF node
<1>4. /\ b \in Arrays /\ b.count = m + 1 /\ b.capacity = a.capacity
      /\ b.data = [a.data EXCEPT ![node] = item]
      /\ b.freehead = a.next[node] /\ b.usedhead = node
      /\ b.usedtail = IF a.usedhead = None THEN node ELSE a.usedtail
  BY <1>3 DEF BecameFirst
<1>5. \A n \in Nodes :
        /\ b.next[n] = IF n = node THEN a.usedhead ELSE a.next[n]
        /\ b.prev[n] = IF n = node THEN None ELSE IF n = a.usedhead THEN node
                       ELSE IF n = a.next[node] THEN None ELSE a.prev[n]
  BY <1>3 DEF BecameFirst
<1>6. FreeCount(b) = k - 1 /\ Shared(b, v, g)
  <2>1. FreeCount(b) = k - 1 /\ Shared(b, Before(f[1], u, m), g)
    BY <1>4, TakeShared DEF Whole
  <2> QED
    BY <1>1, <2>1
<1>7. a.next[node] = IF k = 1 THEN None ELSE f[2]
  BY <1>1 DEF Whole, Threads
<1>8. /\ Threads(u, m, a.usedhead, a.next)
      /\ ThreadsBack(u, m, a.usedtail, a.prev)
      /\ Threads(f, k, node, a.next)
  BY DEF Whole
<1>. HIDE DEF node, m, k
<1>9. m \in Nat /\ k \in Nat /\ 1 \in 1 .. k
  BY <1>1
<1>10. \A j \in 1 .. m : u[j] # a.next[node]
  <2>1. k # 1 => 2 \in 1 .. k
    BY <1>1
  <2>2. \A j \in 1 .. m : u[j] # None
    BY <1>1, Bounds
  <2> QED
    BY <1>1, <1>7, <2>1, <2>2
<1>11. Threads(v, m + 1, node, b.next)
  <2>1. b.next[node] = a.usedhead /\ \A j \in 1 .. m : b.next[u[j]] = a.next[u[j]]
    BY <1>1, <1>2, <1>5
  <2> QED
    BY <1>8, <1>9, <2>1, ThreadsBefore
<1>12. ThreadsBack(v, m + 1, b.usedtail, b.prev)
  <2>1. b.prev[node] = None
    BY <1>2, <1>5
  <2>2. \A j \in 1 .. m : b.prev[u[j]] = IF j = 1 THEN node ELSE a.prev[u[j]]
    <3>. SUFFICES ASSUME NEW j \in 1 .. m
                  PROVE  b.prev[u[j]] = IF j = 1 THEN node ELSE a.prev[u[j]]
      OBVIOUS
    <3>1. m # 0 /\ 1 \in 1 .. m
      BY <1>1
    <3>2. u[j] = a.usedhead <=> j = 1
      BY <1>1, <3>1
    <3> QED
      BY <1>1, <1>5, <1>10, <3>2
  <2>3. b.usedtail = IF m = 0 THEN node ELSE a.usedtail
    BY <1>1, <1>4
  <2>4. ThreadsBack(v, m + 1, IF m = 0 THEN node ELSE a.usedtail, b.prev)
    BY <1>8, <1>9, <2>1, <2>2, BackBefore
  <2> QED
    BY <2>3, <2>4
<1>13. Threads(g, k - 1, b.freehead, b.next)
  <2>1. \A j \in 1 .. k : j # 1 => b.next[f[j]] = a.next[f[j]] /\ j # 1 - 1
    <3>. SUFFICES ASSUME NEW j \in 1 .. k, j # 1
                  PROVE  b.next[f[j]] = a.next[f[j]] /\ j # 1 - 1
      OBVIOUS
    <3>1. f[j] \in Nodes /\ f[j] # node
      BY <1>1
    <3>2. b.next[f[j]] = a.next[f[j]]
      BY <1>5, <3>1
    <3>3. j # 1 - 1
      BY <1>9
    <3> QED
      BY <3>2, <3>3
  <2>2. Threads(g, k - 1, a.next[f[1]], b.next)
    BY <1>1, <1>8, <2>1, ThreadsWithout
  <2> QED
    BY <1>1, <1>4, <2>2
<1>14. k - 1 > 0 => b.prev[b.freehead] = None
  <2>. SUFFICES ASSUME k - 1 > 0
                PROVE  b.prev[b.freehead] = None
    OBVIOUS
  <2>1. 2 \in 1 .. k /\ a.next[node] = f[2]
    BY <1>7, <1>9
  <2>2. b.freehead = f[2]
    BY <1>4, <2>1
  <2>3. f[2] \in Nodes /\ f[2] # node /\ f[2] # None
    BY <1>1, <2>1, Bounds
  <2>4. f[2] # a.usedhead
    <3>1. m # 0 => 1 \in 1 .. m
      BY <1>9
    <3> QED
      BY <1>1, <2>1, <2>3, <3>1
  <2> QED
    BY <1>5, <2>1, <2>2, <2>3, <2>4
<1>. HIDE DEF v, g
<1>15. Whole(b, v, g)
  <2>1. b.count = m + 1
    BY <1>4
  <2>2. b.usedhead = node
    BY <1>4
  <2> QED
    BY <1>6, <1>11, <1>12, <1>13, <1>14, <2>1, <2>2 DEF Whole
<1> QED
  BY <1>1, <1>4, <1>15 DEF node, m, k, v, g, Put, FirstKept

LastKept(a, b, u, f, item) ==
    /\ b \in Arrays /\ a.freehead = f[1]
    /\ Whole(b, After(u, a.count, a.freehead), WithoutAt(f, FreeCount(a), 1))
    /\ b.count = a.count + 1 /\ b.capacity = a.capacity
    /\ Put(a, b, a.freehead, item)

LEMMA LastKeeps ==
  ASSUME NEW a \in Arrays, NEW u, NEW f, Whole(a, u, f), a.count < a.capacity,
         NEW item \in Elements, NEW b, b = Taken(a, item, FALSE)
  PROVE  LastKept(a, b, u, f, item)
<1>. DEFINE node == a.freehead
            m == a.count
            k == FreeCount(a)
            v == After(u, m, node)
            g == WithoutAt(f, k, 1)
<1>1. /\ m \in Nat /\ k \in Nat \ {0} /\ 1 \in 1 .. k /\ node = f[1]
      /\ \A j \in 1 .. m : u[j] \in Nodes /\ u[j] # node
      /\ \A j \in 1 .. k : f[j] \in Nodes /\ (j # 1 => f[j] # node)
      /\ \A i \in 1 .. m, j \in 1 .. k : u[i] # f[j]
      /\ \A i, j \in 1 .. m : u[i] = u[j] => i = j
      /\ a.usedtail = None <=> m = 0
      /\ m # 0 => a.usedtail = u[m]
  BY WholeFacts DEF FreeCount
<1>2. node \in Nodes /\ a.prev[node] = None
  BY <1>1 DEF Whole
<1>3. BecameLast(a, b, node, item)
  <2>1. FirstFree(a, node)
    BY <1>2 DEF FirstFree
  <2>. HIDE DEF node, v, g
  <2> QED
    BY <1>2, <2>1, LastFields DEF node
<1>4. /\ b \in Arrays /\ b.count = m + 1 /\ b.capacity = a.capacity
      /\ b.data = [a.data EXCEPT ![node] = item]
      /\ b.freehead = a.next[node] /\ b.usedtail = node
      /\ b.usedhead = IF a.usedtail = None THEN node ELSE a.usedhead
  BY <1>3 DEF BecameLast
<1>5. \A n \in Nodes :
        /\ b.next[n] = IF n = node THEN None ELSE IF n = a.usedtail THEN node ELSE a.next[n]
        /\ b.prev[n] = IF n = node THEN a.usedtail
                       ELSE IF n = a.next[node] THEN None ELSE a.prev[n]
  BY <1>3 DEF BecameLast
<1>6. FreeCount(b) = k - 1 /\ Shared(b, v, g)
  <2>1. FreeCount(b) = k - 1 /\ Shared(b, After(u, m, f[1]), g)
    BY <1>4, TakeShared DEF Whole
  <2> QED
    BY <1>1, <2>1
<1>7. a.next[node] = IF k = 1 THEN None ELSE f[2]
  BY <1>1 DEF Whole, Threads
<1>8. /\ Threads(u, m, a.usedhead, a.next)
      /\ ThreadsBack(u, m, a.usedtail, a.prev)
      /\ Threads(f, k, node, a.next)
  BY DEF Whole
<1>. HIDE DEF node, m, k
<1>9. m \in Nat /\ k \in Nat /\ 1 \in 1 .. k
  BY <1>1
<1>10. \A j \in 1 .. m : u[j] # a.next[node]
  <2>1. k # 1 => 2 \in 1 .. k
    BY <1>1
  <2>2. \A j \in 1 .. m : u[j] # None
    BY <1>1, Bounds
  <2> QED
    BY <1>1, <1>7, <2>1, <2>2
<1>11. ThreadsBack(v, m + 1, node, b.prev)
  <2>1. b.prev[node] = a.usedtail /\ \A j \in 1 .. m : b.prev[u[j]] = a.prev[u[j]]
    BY <1>1, <1>2, <1>5, <1>10
  <2> QED
    BY <1>8, <1>9, <2>1, BackAfter
<1>12. Threads(v, m + 1, b.usedhead, b.next)
  <2>1. b.next[node] = None
    BY <1>2, <1>5
  <2>2. \A j \in 1 .. m : b.next[u[j]] = IF j = m THEN node ELSE a.next[u[j]]
    <3>. SUFFICES ASSUME NEW j \in 1 .. m
                  PROVE  b.next[u[j]] = IF j = m THEN node ELSE a.next[u[j]]
      OBVIOUS
    <3>1. m # 0 /\ m \in 1 .. m
      BY <1>1
    <3>2. u[j] = a.usedtail <=> j = m
      BY <1>1, <3>1
    <3> QED
      BY <1>1, <1>5, <3>2
  <2>3. b.usedhead = IF m = 0 THEN node ELSE a.usedhead
    BY <1>1, <1>4
  <2>4. Threads(v, m + 1, IF m = 0 THEN node ELSE a.usedhead, b.next)
    BY <1>8, <1>9, <2>1, <2>2, ThreadsAfter
  <2> QED
    BY <2>3, <2>4
<1>13. Threads(g, k - 1, b.freehead, b.next)
  <2>1. \A j \in 1 .. k : j # 1 => b.next[f[j]] = a.next[f[j]] /\ j # 1 - 1
    <3>. SUFFICES ASSUME NEW j \in 1 .. k, j # 1
                  PROVE  b.next[f[j]] = a.next[f[j]] /\ j # 1 - 1
      OBVIOUS
    <3>1. f[j] \in Nodes /\ f[j] # node /\ f[j] # None
      BY <1>1, Bounds
    <3>2. f[j] # a.usedtail
      <4>1. m # 0 => m \in 1 .. m
        BY <1>9
      <4> QED
        BY <1>1, <3>1, <4>1
    <3>3. b.next[f[j]] = a.next[f[j]]
      BY <1>5, <3>1, <3>2
    <3>4. j # 1 - 1
      BY <1>9
    <3> QED
      BY <3>3, <3>4
  <2>2. Threads(g, k - 1, a.next[f[1]], b.next)
    BY <1>1, <1>8, <2>1, ThreadsWithout
  <2> QED
    BY <1>1, <1>4, <2>2
<1>14. k - 1 > 0 => b.prev[b.freehead] = None
  <2>. SUFFICES ASSUME k - 1 > 0
                PROVE  b.prev[b.freehead] = None
    OBVIOUS
  <2>1. 2 \in 1 .. k /\ a.next[node] = f[2]
    BY <1>7, <1>9
  <2>2. b.freehead = f[2]
    BY <1>4, <2>1
  <2>3. f[2] \in Nodes /\ f[2] # node
    BY <1>1, <2>1
  <2> QED
    BY <1>5, <2>1, <2>2, <2>3
<1>. HIDE DEF v, g
<1>15. Whole(b, v, g)
  <2>1. b.count = m + 1
    BY <1>4
  <2>2. b.usedtail = node
    BY <1>4
  <2> QED
    BY <1>6, <1>11, <1>12, <1>13, <1>14, <2>1, <2>2 DEF Whole
<1> QED
  BY <1>1, <1>4, <1>15 DEF node, m, k, v, g, Put, LastKept

LEMMA FreeKeeps ==
  ASSUME NEW a \in Arrays, NEW u, NEW f, Whole(a, u, f), NEW i \in 1 .. a.count,
         NEW b, b = Popped(a, u[i], u[i])
  PROVE  /\ b \in Arrays
         /\ Whole(b, WithoutAt(u, a.count, i), Before(u[i], f, FreeCount(a)))
         /\ b.count = a.count - 1 /\ b.capacity = a.capacity /\ b.data = a.data
<1>. DEFINE node == u[i]
            m == a.count
            k == FreeCount(a)
            v == WithoutAt(u, m, i)
            g == Before(node, f, k)
<1>1. /\ m \in Nat /\ k \in Nat /\ i \in 1 .. m
      /\ \A j \in 1 .. m : u[j] \in Nodes /\ u[j] # None /\ (j # i => u[j] # node)
      /\ \A j \in 1 .. k : f[j] \in Nodes /\ f[j] # None /\ f[j] # node
      /\ \A j \in 1 .. m, l \in 1 .. k : u[j] # f[l]
      /\ \A j, l \in 1 .. m : u[j] = u[l] => j = l
      /\ a.freehead = None <=> k = 0
      /\ k # 0 => a.freehead = f[1] /\ 1 \in 1 .. k
  BY WholeFacts
<1>2. node \in Nodes
  BY <1>1
<1>3. /\ b \in Arrays /\ b.count = m - 1 /\ b.capacity = a.capacity /\ b.data = a.data
      /\ b.freehead = node
      /\ b.usedhead = IF a.prev[node] = None THEN a.next[node] ELSE a.usedhead
      /\ b.usedtail = IF a.next[node] = None THEN a.prev[node] ELSE a.usedtail
      /\ \A n \in Nodes :
           /\ b.next[n] = IF n = node THEN a.freehead
                          ELSE IF n = a.prev[node] THEN a.next[node] ELSE a.next[n]
           /\ b.prev[n] = IF n = node THEN None ELSE IF n = a.freehead THEN node
                          ELSE IF n = a.next[node] THEN a.prev[node] ELSE a.prev[n]
  <2>1. a.count > 0
    BY <1>1
  <2> QED
    BY <1>2, <2>1, FreedFields
<1>4. FreeCount(b) = k + 1 /\ Shared(b, v, g)
  BY <1>3, FreeShared DEF Whole
<1>5. /\ a.next[node] = IF i = m THEN None ELSE u[i + 1]
      /\ a.prev[node] = IF i = 1 THEN None ELSE u[i - 1]
      /\ i # m => i + 1 \in 1 .. m
      /\ i # 1 => i - 1 \in 1 .. m
  BY <1>1 DEF Whole, Threads, ThreadsBack
<1>6. /\ a.next[node] = None <=> i = m
      /\ a.prev[node] = None <=> i = 1
      /\ \A j \in 1 .. m : /\ u[j] = a.next[node] <=> j = i + 1
                           /\ u[j] = a.prev[node] <=> j = i - 1
                           /\ u[j] # a.freehead
  <2>1. /\ a.next[node] = None <=> i = m
        /\ a.prev[node] = None <=> i = 1
    BY <1>1, <1>5
  <2>2. ASSUME NEW j \in 1 .. m
        PROVE  u[j] = a.next[node] <=> j = i + 1
    BY <1>1, <1>5
  <2>3. ASSUME NEW j \in 1 .. m
        PROVE  u[j] = a.prev[node] <=> j = i - 1
    BY <1>1, <1>5
  <2>4. ASSUME NEW j \in 1 .. m
        PROVE  u[j] # a.freehead
    BY <1>1
  <2> QED
    BY <2>1, <2>2, <2>3, <2>4
<1>7. Threads(v, m - 1, b.usedhead, b.next)
  <2>1. \A j \in 1 .. m :
          j # i => b.next[u[j]] = IF j = i - 1 THEN a.next[u[i]] ELSE a.next[u[j]]
    BY <1>1, <1>3, <1>6
  <2>2. b.usedhead = IF i = 1 THEN a.next[u[i]] ELSE a.usedhead
    BY <1>3, <1>6
  <2>3. Threads(u, m, a.usedhead, a.next)
    BY DEF Whole
  <2> QED
    BY <1>1, <2>1, <2>2, <2>3, ThreadsWithout
<1>8. ThreadsBack(v, m - 1, b.usedtail, b.prev)
  <2>1. \A j \in 1 .. m :
          j # i => b.prev[u[j]] = IF j = i + 1 THEN a.prev[u[i]] ELSE a.prev[u[j]]
    BY <1>1, <1>3, <1>6
  <2>2. b.usedtail = IF i = m THEN a.prev[u[i]] ELSE a.usedtail
    BY <1>3, <1>6
  <2>3. ThreadsBack(u, m, a.usedtail, a.prev)
    BY DEF Whole
  <2> QED
    BY <1>1, <2>1, <2>2, <2>3, BackWithout
<1>9. Threads(g, k + 1, b.freehead, b.next)
  <2>1. b.next[node] = a.freehead
    BY <1>2, <1>3
  <2>2. \A j \in 1 .. k : b.next[f[j]] = a.next[f[j]]
    <3>1. \A j \in 1 .. k : f[j] # a.prev[node]
      BY <1>1, <1>5
    <3> QED
      BY <1>1, <1>3, <3>1
  <2>3. Threads(f, k, a.freehead, a.next)
    BY DEF Whole
  <2> QED
    BY <1>1, <1>3, <2>1, <2>2, <2>3, ThreadsBefore
<1>10. b.prev[b.freehead] = None
  BY <1>2, <1>3
<1>. HIDE DEF v, g
<1>11. Whole(b, v, g)
  BY <1>3, <1>4, <1>7, <1>8, <1>9, <1>10 DEF Whole
<1> QED
  BY <1>3, <1>11 DEF v, g

\* The nodes u, which are used, are those before the new ones.
UsedFirst(a, u) ==
    /\ u \in [1 .. a.count -> 0 .. a.count - 1] /\ Once(u, a.count)
    /\ \A n \in 0 .. a.count - 1 : Has(u, a.count, n)
    /\ Threads(u, a.count, a.usedhead, a.next)
    /\ ThreadsBack(u, a.count, a.usedtail, a.prev)

Fresh(a) == [j \in 1 .. FreeCount(a) |-> a.count + (j - 1)]

LEMMA LinkKeeps ==
  ASSUME NEW a \in Arrays, a.count < a.capacity, NEW u, UsedFirst(a, u),
         NEW b, b = LinkNodes(a, a.count)
  PROVE  /\ b \in Arrays /\ b.count = a.count /\ b.capacity = a.capacity /\ b.data = a.data
         /\ UsedFirst(b, u) /\ Whole(b, u, Fresh(a))
<1>. DEFINE m == a.count
            c == a.capacity
            k == FreeCount(a)
            f == Fresh(a)
<1>1. /\ a.next \in Links /\ a.prev \in Links
      /\ m \in Nat /\ c \in Nat /\ m < c /\ c <= CapacityBound
      /\ a.usedhead \in Ends /\ a.usedtail \in Ends
  BY ArrayFields, Bounds
<1>2. k \in Nat \ {0} /\ m + k = c
  BY <1>1 DEF FreeCount
<1>. DEFINE forth == [n \in Nodes |->
                        IF n \notin m .. (c - 1) THEN a.next[n]
                        ELSE IF n + 1 < c THEN n + 1 ELSE None]
            back == [n \in Nodes |->
                       IF n \notin m .. (c - 1) THEN a.prev[n]
                       ELSE IF n - 1 >= m THEN n - 1 ELSE None]
<1>3. b = [a EXCEPT !.next = forth, !.prev = back, !.freehead = m]
  BY DEF LinkNodes
<1>4. /\ \A n \in Nodes : n \in Int /\ n >= 0
      /\ \A n \in 0 .. (c - 1) : n \in Nodes
      /\ None \in Ends /\ \A n \in Nodes : n \in Ends
  BY <1>1, Bounds
<1>5. forth \in Links /\ back \in Links
  <2>1. \A n \in Nodes : a.next[n] \in Ends /\ a.prev[n] \in Ends
    BY <1>1 DEF Links
  <2>2. \A n \in Nodes : n \in m .. (c - 1) /\ n + 1 < c => n + 1 \in Ends
    BY <1>1, <1>4
  <2>3. \A n \in Nodes : n \in m .. (c - 1) /\ n - 1 >= m => n - 1 \in Ends
    BY <1>1, <1>4
  <2> QED
    BY <1>4, <2>1, <2>2, <2>3 DEF Links
<1>6. /\ \A n \in 0 .. m - 1 : forth[n] = a.next[n] /\ back[n] = a.prev[n]
      /\ \A n \in m .. c - 1 : /\ forth[n] = IF n + 1 < c THEN n + 1 ELSE None
                               /\ back[n] = IF n - 1 >= m THEN n - 1 ELSE None
  BY <1>1, <1>4
<1>. HIDE DEF forth, back
<1>7. /\ b.next = forth /\ b.prev = back /\ b.freehead = m
      /\ b.count = m /\ b.capacity = c /\ b.data = a.data
      /\ b.usedhead = a.usedhead /\ b.usedtail = a.usedtail
  BY <1>3 DEF Arrays
<1>8. m \in Ends
  BY <1>1, <1>4
<1>9. b \in Arrays
  BY <1>3, <1>5, <1>8 DEF Arrays
<1>10. /\ u \in [1 .. m -> 0 .. m - 1] /\ Once(u, m)
       /\ \A n \in 0 .. m - 1 : Has(u, m, n)
       /\ Threads(u, m, a.usedhead, a.next) /\ ThreadsBack(u, m, a.usedtail, a.prev)
  BY DEF UsedFirst
<1>11. Threads(u, m, a.usedhead, forth) /\ ThreadsBack(u, m, a.usedtail, back)
  BY <1>6, <1>10 DEF Threads, ThreadsBack
<1>12. UsedFirst(b, u)
  BY <1>7, <1>10, <1>11 DEF UsedFirst
<1>13. /\ f = [j \in 1 .. k |-> m + (j - 1)]
       /\ FreeCount(b) = k
  BY <1>7 DEF Fresh, FreeCount
<1>. HIDE DEF m, c, k, f
<1>14. \A j \in 1 .. k : f[j] = m + (j - 1) /\ f[j] \in m .. c - 1 /\ f[j] \in 0 .. c - 1
  BY <1>1, <1>2, <1>13
<1>15. f \in [1 .. k -> 0 .. c - 1] /\ Once(f, k)
  <2>1. f \in [1 .. k -> 0 .. c - 1]
    BY <1>13, <1>14
  <2>2. \A i, j \in 1 .. k : f[i] = f[j] => i = j
    BY <1>1, <1>2, <1>14
  <2> QED
    BY <2>1, <2>2 DEF Once
<1>16. \A n \in 0 .. c - 1 : Has(u, m, n) <=> ~Has(f, k, n)
  <2>. SUFFICES ASSUME NEW n \in 0 .. c - 1
                PROVE  Has(u, m, n) <=> ~Has(f, k, n)
    OBVIOUS
  <2>1. CASE n < m
    <3>1. Has(u, m, n)
      BY <1>1, <1>10, <2>1
    <3>2. \A j \in 1 .. k : f[j] # n
      BY <1>1, <1>14, <2>1
    <3> QED
      BY <3>1, <3>2 DEF Has
  <2>2. CASE n >= m
    <3>1. \A j \in 1 .. m : u[j] # n
      BY <1>1, <1>10, <2>2
    <3>2. n - m + 1 \in 1 .. k /\ m + ((n - m + 1) - 1) = n
      BY <1>1, <1>2, <2>2
    <3>3. f[n - m + 1] = n
      BY <1>14, <3>2
    <3> QED
      BY <3>1, <3>2, <3>3 DEF Has
  <2> QED
    BY <1>1, <2>1, <2>2
<1>17. Threads(f, k, m, forth)
  <2>1. m = f[1]
    BY <1>1, <1>2, <1>14
  <2>2. ASSUME NEW j \in 1 .. k
        PROVE  forth[f[j]] = IF j = k THEN None ELSE f[j + 1]
    <3>1. f[j] = m + (j - 1) /\ f[j] \in m .. c - 1
      BY <1>14
    <3>2. f[j] + 1 < c <=> j # k
      BY <1>1, <1>2, <3>1
    <3>3. j # k => f[j + 1] = f[j] + 1
      <4>1. j # k => j + 1 \in 1 .. k
        BY <1>2
      <4>2. m + ((j + 1) - 1) = (m + (j - 1)) + 1
        BY <1>1
      <4> QED
        BY <1>14, <3>1, <4>1, <4>2
    <3> QED
      BY <1>6, <3>1, <3>2, <3>3
  <2> QED
    BY <1>2, <2>1, <2>2 DEF Threads
<1>18. back[m] = None
  <2>1. m \in m .. c - 1 /\ ~(m - 1 >= m)
    BY <1>1
  <2> QED
    BY <1>6, <2>1
<1>19. Shared(b, u, f)
  <2>1. u \in [1 .. m -> 0 .. c - 1]
    BY <1>1, <1>10
  <2>2. c \in 0 .. CapacityBound /\ m \in 0 .. c
    BY <1>1, Bounds
  <2> QED
    BY <1>7, <1>10, <1>13, <1>15, <1>16, <2>1, <2>2 DEF Shared
<1>20. Whole(b, u, f)
  BY <1>7, <1>11, <1>13, <1>17, <1>18, <1>19 DEF Whole
<1> QED
  BY <1>7, <1>9, <1>12, <1>20 DEF m, c, f

\* A full array grows, and there is a free node then.
LEMMA GrowKeeps ==
  ASSUME NEW a \in Arrays, a.capacity > 0, Grow(a).capacity <= CapacityBound,
         NEW u, NEW f, Whole(a, u, f)
  PROVE  /\ Grow(a) \in Arrays /\ Grow(a).count = a.count /\ Grow(a).data = a.data
         /\ a.count < Grow(a).capacity
         /\ \E g : Whole(Grow(a), u, g)
<1>1. a.capacity \in Nat /\ a.count \in Nat /\ a.count <= a.capacity
  BY WholeFacts
<1>2. CASE a.count # a.capacity
  BY <1>1, <1>2 DEF Grow
<1>3. CASE a.count = a.capacity
  <2>. DEFINE bigger == [a EXCEPT !.capacity = 2 * @]
              once == LinkNodes(bigger, a.count)
              twice == LinkNodes(once, a.count)
  <2>1. Grow(a) = twice
    BY <1>3 DEF Grow
  <2>2. /\ bigger.count = a.count /\ bigger.capacity = 2 * a.capacity /\ bigger.data = a.data
        /\ bigger.usedhead = a.usedhead /\ bigger.usedtail = a.usedtail
        /\ bigger.next = a.next /\ bigger.prev = a.prev
    BY DEF Arrays
  <2>3. twice.capacity = 2 * a.capacity
    BY <2>2 DEF LinkNodes, Arrays
  <2>4. 2 * a.capacity \in 0 .. CapacityBound
    BY <1>1, <2>1, <2>3, Bounds
  <2>5. bigger \in Arrays
    BY <2>4 DEF Arrays
  <2>6. UsedFirst(bigger, u)
    <3>1. /\ u \in [1 .. a.count -> 0 .. a.count - 1] /\ Once(u, a.count)
          /\ \A n \in 0 .. a.count - 1 : Has(u, a.count, n) <=> ~Has(f, FreeCount(a), n)
          /\ Threads(u, a.count, a.usedhead, a.next)
          /\ ThreadsBack(u, a.count, a.usedtail, a.prev)
      BY <1>3 DEF Whole, Shared
    <3>2. FreeCount(a) = 0
      BY <1>1, <1>3 DEF FreeCount
    <3>3. \A n : ~Has(f, FreeCount(a), n)
      BY <3>2 DEF Has
    <3>. HIDE DEF bigger
    <3> QED
      BY <2>2, <3>1, <3>3 DEF UsedFirst
  <2>7. bigger.count < bigger.capacity
    BY <1>1, <1>3, <2>2
  <2>. HIDE DEF bigger
  <2>8. /\ once \in Arrays /\ once.count = a.count /\ once.capacity = 2 * a.capacity
        /\ once.data = a.data /\ UsedFirst(once, u)
    BY <2>2, <2>5, <2>6, <2>7, LinkKeeps
  <2>. HIDE DEF once
  <2>9. /\ twice \in Arrays /\ twice.count = a.count /\ twice.data = a.data
        /\ Whole(twice, u, Fresh(once))
    BY <2>2, <2>7, <2>8, LinkKeeps
  <2>. HIDE DEF twice
  <2> QED
    BY <2>1, <2>2, <2>3, <2>7, <2>9
<1> QED
  BY <1>2, <1>3

LEMMA NewIs ==
  ASSUME NEW capacity \in Int, capacity <= CapacityBound
  PROVE  /\ NewArray(capacity) \in Arrays /\ NewArray(capacity).count = 0
         /\ \E u, f : Whole(NewArray(capacity), u, f)
<1>. DEFINE c == IF capacity > 0 THEN capacity ELSE DEFAULT_CAPACITY
            blank == [next     |-> [n \in Nodes |-> None],
                      prev     |-> [n \in Nodes |-> None],
                      data     |-> [n \in Nodes |-> NoItem],
                      count    |-> 0,
                      capacity |-> c,
                      usedhead |-> None,
                      usedtail |-> None,
                      freehead |-> 0]
            u == [j \in 1 .. 0 |-> None]
<1>1. c \in 1 .. CapacityBound
  BY Bounds
<1>2. NewArray(capacity) = LinkNodes(blank, blank.count)
  BY DEF NewArray
<1>3. 0 \in Ends /\ None \in Ends
  BY <1>1, Bounds
<1>4. blank \in Arrays
  <2>1. [n \in Nodes |-> None] \in Links
    BY <1>3 DEF Links
  <2>. HIDE DEF c
  <2> QED
    BY <1>1, <1>3, <2>1, Bounds DEF Arrays
<1>5. /\ blank.count = 0 /\ blank.usedhead = None /\ blank.usedtail = None
      /\ blank.count < blank.capacity
  BY <1>1
<1>6. UsedFirst(blank, u)
  <2>1. 1 .. 0 = {} /\ 0 .. 0 - 1 = {}
    OBVIOUS
  <2>2. u \in [1 .. 0 -> 0 .. 0 - 1]
    BY <2>1
  <2>. HIDE DEF blank, u
  <2> QED
    BY <1>5, <2>1, <2>2 DEF UsedFirst, Once, Threads, ThreadsBack
<1>. HIDE DEF blank
<1> QED
  BY <1>2, <1>4, <1>5, <1>6, LinkKeeps

LEMMA NoneIs ==
  /\ NoArray \in Arrays /\ NoArray.count = 0
  /\ \E u, f : Whole(NoArray, u, f)
<1>. DEFINE a == NewArray(DEFAULT_CAPACITY)
            u == [j \in 1 .. 0 |-> None]
<1>1. a \in Arrays /\ a.count = 0
  BY NewIs, Bounds
<1>2. a.usedhead = None /\ a.usedtail = None
  BY DEF NewArray, LinkNodes
<1>. HIDE DEF a
<1>3. NoArray = [a EXCEPT !.capacity = 0, !.freehead = None]
  BY DEF NoArray, a
<1>4. /\ NoArray.count = 0 /\ NoArray.capacity = 0 /\ NoArray.freehead = None
      /\ NoArray.usedhead = None /\ NoArray.usedtail = None
  BY <1>1, <1>2, <1>3 DEF Arrays
<1>5. 0 \in 0 .. CapacityBound /\ None \in Ends
  BY Bounds
<1>6. NoArray \in Arrays
  BY <1>1, <1>3, <1>5 DEF Arrays
<1>7. FreeCount(NoArray) = 0
  BY <1>4 DEF FreeCount
<1>8. 1 .. 0 = {} /\ 0 .. 0 - 1 = {} /\ u \in [1 .. 0 -> 0 .. 0 - 1]
  OBVIOUS
<1>. HIDE DEF u
<1>9. Shared(NoArray, u, u)
  <2>1. 0 \in 0 .. 0
    OBVIOUS
  <2> QED
    BY <1>4, <1>5, <1>7, <1>8, <2>1 DEF Shared, Once
<1>10. Whole(NoArray, u, u)
  BY <1>4, <1>7, <1>8, <1>9 DEF Whole, Threads, ThreadsBack
<1> QED
  BY <1>4, <1>6, <1>10

-----------------------------------------------------------------------------
(* What is in the array.                                                     *)

Contents(a, u) == [j \in 1 .. a.count |-> a.data[u[j]]]

Stored == Elements \cup {NoItem}

LEMMA ContentsIn ==
  ASSUME NEW a \in Arrays, NEW u, NEW f, Whole(a, u, f)
  PROVE  Contents(a, u) \in [1 .. a.count -> Stored]
<1>1. \A j \in 1 .. a.count : u[j] \in Nodes
  BY WholeFacts
<1>2. a.data \in [Nodes -> Elements \cup {NoItem}]
  BY ArrayFields
<1> QED
  BY <1>1, <1>2 DEF Contents, Stored

\* The walks of the properties meet the two lists.
LEMMA ListsAre ==
  ASSUME NEW a \in Arrays, NEW u, NEW f, Whole(a, u, f)
  PROVE  Walk(a.usedhead, a.next) = u /\ Walk(a.freehead, a.next) = f
<1>1. /\ a.count \in 0 .. CapacityBound /\ FreeCount(a) \in 0 .. CapacityBound
      /\ \A n \in 0 .. a.capacity - 1 : n \in Nodes
  BY WholeFacts, Bounds DEF FreeCount
<1>2. u \in [1 .. a.count -> Nodes] /\ f \in [1 .. FreeCount(a) -> Nodes]
  BY <1>1 DEF Whole, Shared
<1>3. Threads(u, a.count, a.usedhead, a.next) /\ Threads(f, FreeCount(a), a.freehead, a.next)
  BY DEF Whole
<1> QED
  BY <1>1, <1>2, <1>3, WalkIs

\* _internal_at finds the element from either end.
LEMMA NodeAtIs ==
  ASSUME NEW a \in Arrays, NEW u, NEW f, Whole(a, u, f), NEW index \in Int
  PROVE  NodeAt(a, index) = IF index \in 0 .. a.count - 1 THEN u[index + 1] ELSE None
<1>. DEFINE m == a.count
<1>1. m \in Nat /\ (a.usedhead = None <=> m = 0)
  BY WholeFacts
<1>2. Threads(u, m, a.usedhead, a.next) /\ ThreadsBack(u, m, a.usedtail, a.prev)
  BY DEF Whole
<1>. HIDE DEF m
<1>3. CASE index \notin 0 .. m - 1
  BY <1>3 DEF NodeAt, m
<1>4. CASE index \in 0 .. m - 1
  <2>1. m # 0 /\ a.usedhead # None
    BY <1>1, <1>4
  <2>2. Along(a.usedhead, a.next, index) = u[index + 1]
    <3>. DEFINE s == [k \in 0 .. index |-> u[k + 1]]
    <3>1. \A k \in 0 .. index : s[k] = IF k = 0 THEN a.usedhead ELSE a.next[s[k - 1]]
      <4>. SUFFICES ASSUME NEW k \in 0 .. index
                    PROVE  u[k + 1] = IF k = 0 THEN a.usedhead ELSE a.next[s[k - 1]]
        OBVIOUS
      <4>1. CASE k = 0
        BY <1>1, <1>2, <2>1, <4>1 DEF Threads
      <4>2. CASE k # 0
        <5>1. k - 1 \in 0 .. index /\ k \in 1 .. m /\ k # m /\ (k - 1) + 1 = k
          BY <1>1, <1>4, <4>2
        <5>2. s[k - 1] = u[k]
          BY <5>1
        <5>. HIDE DEF s
        <5> QED
          BY <1>2, <4>2, <5>1, <5>2 DEF Threads
      <4> QED
        BY <4>1, <4>2
    <3>2. s = [k \in 0 .. index |-> s[k]] /\ s[index] = u[index + 1] /\ index \in Nat
      BY <1>4
    <3>. HIDE DEF s
    <3>3. s = [k \in 0 .. index |-> IF k = 0 THEN a.usedhead ELSE a.next[s[k - 1]]]
      BY <3>1, <3>2
    <3> QED
      BY <3>2, <3>3, AlongIs
  <2>3. Along(a.usedtail, a.prev, m - 1 - index) = u[index + 1]
    <3>. DEFINE n == m - 1 - index
                s == [k \in 0 .. n |-> u[m - k]]
    <3>1. n \in Nat /\ n < m /\ m - n = index + 1
      BY <1>1, <1>4
    <3>. HIDE DEF n
    <3>2. \A k \in 0 .. n : s[k] = IF k = 0 THEN a.usedtail ELSE a.prev[s[k - 1]]
      <4>. SUFFICES ASSUME NEW k \in 0 .. n
                    PROVE  u[m - k] = IF k = 0 THEN a.usedtail ELSE a.prev[s[k - 1]]
        OBVIOUS
      <4>1. CASE k = 0
        BY <1>1, <1>2, <2>1, <4>1 DEF ThreadsBack
      <4>2. CASE k # 0
        <5>1. /\ k - 1 \in 0 .. n /\ m - (k - 1) \in 1 .. m /\ m - (k - 1) # 1
              /\ m - (k - 1) - 1 = m - k
          BY <1>1, <3>1, <4>2
        <5>2. s[k - 1] = u[m - (k - 1)]
          BY <5>1
        <5>3. a.prev[u[m - (k - 1)]] = u[m - (k - 1) - 1]
          BY <1>2, <5>1 DEF ThreadsBack
        <5>. HIDE DEF s
        <5> QED
          BY <4>2, <5>1, <5>2, <5>3
      <4> QED
        BY <4>1, <4>2
    <3>3. s = [k \in 0 .. n |-> s[k]] /\ s[n] = u[m - n]
      BY <3>1
    <3>. HIDE DEF s
    <3>4. s = [k \in 0 .. n |-> IF k = 0 THEN a.usedtail ELSE a.prev[s[k - 1]]]
      BY <3>2, <3>3
    <3>5. Along(a.usedtail, a.prev, n) = s[n]
      BY <3>1, <3>4, AlongIs
    <3> QED
      BY <3>1, <3>3, <3>5 DEF n
  <2> QED
    BY <1>4, <2>1, <2>2, <2>3 DEF NodeAt, StepsFromEnd, m
<1> QED
  BY <1>3, <1>4 DEF m

LEMMA PushedFront ==
  ASSUME NEW a \in Arrays, NEW u, NEW f, Whole(a, u, f), NEW node \in Nodes,
         \A j \in 1 .. a.count : u[j] # node, NEW item \in Elements,
         NEW b, b.count = a.count + 1, Put(a, b, node, item)
  PROVE  Contents(b, Before(node, u, a.count)) = <<item>> \o Contents(a, u)
<1>. DEFINE m == a.count
            s == Contents(a, u)
<1>1. m \in Nat /\ \A j \in 1 .. m : u[j] \in Nodes
  BY WholeFacts
<1>2. s \in [1 .. m -> Stored] /\ item \in Stored
  BY ContentsIn DEF Stored
<1>3. \A j \in 1 .. m : s[j] = a.data[u[j]]
  BY DEF Contents
<1>. HIDE DEF s
<1>4. <<item>> \o s = [t \in 1 .. m + 1 |-> IF t = 1 THEN item ELSE s[t - 1]]
  BY <1>1, <1>2, Prepend
<1>5. \A t \in 1 .. m + 1 :
        b.data[Before(node, u, m)[t]] = IF t = 1 THEN item ELSE s[t - 1]
  <2>. SUFFICES ASSUME NEW t \in 1 .. m + 1
                PROVE  b.data[Before(node, u, m)[t]] = IF t = 1 THEN item ELSE s[t - 1]
    OBVIOUS
  <2>1. a.data \in [Nodes -> Elements \cup {NoItem}]
    BY ArrayFields
  <2>2. CASE t = 1
    BY <2>1, <2>2 DEF Before, Put
  <2>3. CASE t # 1
    <3>1. t - 1 \in 1 .. m /\ Before(node, u, m)[t] = u[t - 1]
      BY <1>1, <2>3 DEF Before
    <3> QED
      BY <1>1, <1>3, <2>1, <2>3, <3>1 DEF Put
  <2> QED
    BY <2>2, <2>3
<1>6. Contents(b, Before(node, u, m)) =
        [t \in 1 .. m + 1 |-> IF t = 1 THEN item ELSE s[t - 1]]
  BY <1>5 DEF Contents
<1> QED
  BY <1>4, <1>6 DEF s

Appended(g, x) == Append(g, x)

LEMMA AppendIs ==
  ASSUME NEW S, NEW x \in S, NEW l \in Nat, NEW g \in [1 .. l -> S]
  PROVE  Appended(g, x) = [t \in 1 .. l + 1 |-> IF t = l + 1 THEN x ELSE g[t]]
<1>. DEFINE r == Append(g, x)
<1>1. g \in Seq(S) /\ Len(g) = l
  OBVIOUS
<1>2. /\ Len(r) = l + 1 /\ r \in Seq(S)
      /\ \A t \in 1 .. l + 1 : r[t] = IF t = l + 1 THEN x ELSE g[t]
  BY <1>1, AppendProperties
<1>. HIDE DEF r
<1>3. r = [t \in 1 .. l + 1 |-> r[t]]
  BY <1>2
<1>4. r = [t \in 1 .. l + 1 |-> IF t = l + 1 THEN x ELSE g[t]]
  BY <1>2, <1>3
<1> QED
  BY <1>4 DEF r, Appended

LEMMA PushedBack ==
  ASSUME NEW a \in Arrays, NEW u, NEW f, Whole(a, u, f), NEW node \in Nodes,
         \A j \in 1 .. a.count : u[j] # node, NEW item \in Elements,
         NEW b, b.count = a.count + 1, Put(a, b, node, item)
  PROVE  Contents(b, After(u, a.count, node)) = Append(Contents(a, u), item)
<1>. DEFINE m == a.count
            s == Contents(a, u)
            r == [t \in 1 .. m + 1 |-> IF t = m + 1 THEN item ELSE s[t]]
<1>1. m \in Nat /\ \A j \in 1 .. m : u[j] \in Nodes
  BY WholeFacts
<1>2. s \in [1 .. m -> Stored] /\ item \in Stored
  BY ContentsIn DEF Stored
<1>3. \A j \in 1 .. m : s[j] = a.data[u[j]]
  BY DEF Contents
<1>. HIDE DEF s
<1>4. Appended(s, item) = r
  BY <1>1, <1>2, AppendIs
<1>5. \A t \in 1 .. m + 1 :
        b.data[After(u, m, node)[t]] = IF t = m + 1 THEN item ELSE s[t]
  <2>. SUFFICES ASSUME NEW t \in 1 .. m + 1
                PROVE  b.data[After(u, m, node)[t]] = IF t = m + 1 THEN item ELSE s[t]
    OBVIOUS
  <2>1. a.data \in [Nodes -> Elements \cup {NoItem}]
    BY ArrayFields
  <2>2. CASE t = m + 1
    BY <2>1, <2>2 DEF After, Put
  <2>3. CASE t # m + 1
    <3>1. t \in 1 .. m /\ After(u, m, node)[t] = u[t]
      BY <1>1, <2>3 DEF After
    <3> QED
      BY <1>1, <1>3, <2>1, <2>3, <3>1 DEF Put
  <2> QED
    BY <2>2, <2>3
<1>6. Contents(b, After(u, m, node)) = r
  BY <1>5 DEF Contents
<1> QED
  BY <1>4, <1>6 DEF s, Appended

LEMMA RemovedAt ==
  ASSUME NEW m \in Nat, NEW S, NEW s \in [1 .. m -> S], NEW i \in 1 .. m
  PROVE  Deque!RemoveAt(s, i) = WithoutAt(s, m, i)
<1>. DEFINE p == SubSeq(s, 1, i - 1)
            q == SubSeq(s, i + 1, m)
            r == p \o q
<1>1. s \in Seq(S) /\ Len(s) = m
  OBVIOUS
<1>2. Deque!RemoveAt(s, i) = r
  BY <1>1 DEF Deque!RemoveAt
<1>3. /\ p \in Seq(S) /\ Len(p) = i - 1
      /\ \A j \in 1 .. i - 1 : p[j] = s[j]
  BY <1>1
<1>4. /\ q \in Seq(S) /\ Len(q) = m - i
      /\ \A j \in 1 .. m - i : q[j] = s[i + j]
  BY <1>1
<1>. HIDE DEF p, q
<1>5. /\ r \in Seq(S) /\ Len(r) = m - 1
      /\ \A j \in 1 .. m - 1 : r[j] = IF j <= i - 1 THEN p[j] ELSE q[j - (i - 1)]
  BY <1>3, <1>4, ConcatProperties
<1>6. \A j \in 1 .. m - 1 : r[j] = IF j < i THEN s[j] ELSE s[j + 1]
  <2>. SUFFICES ASSUME NEW j \in 1 .. m - 1
                PROVE  r[j] = IF j < i THEN s[j] ELSE s[j + 1]
    OBVIOUS
  <2>1. CASE j < i
    BY <1>3, <1>5, <2>1
  <2>2. CASE ~(j < i)
    <3>1. j - (i - 1) \in 1 .. m - i /\ i + (j - (i - 1)) = j + 1 /\ ~(j <= i - 1)
      BY <2>2
    <3> QED
      BY <1>4, <1>5, <2>2, <3>1
  <2> QED
    BY <2>1, <2>2
<1>. HIDE DEF r
<1>7. r = [j \in 1 .. m - 1 |-> r[j]]
  BY <1>5
<1> QED
  BY <1>2, <1>6, <1>7 DEF WithoutAt

LEMMA PoppedAt ==
  ASSUME NEW a \in Arrays, NEW u, NEW f, Whole(a, u, f), NEW i \in 1 .. a.count,
         NEW b, b.count = a.count - 1, b.data = a.data
  PROVE  Contents(b, WithoutAt(u, a.count, i)) = Deque!RemoveAt(Contents(a, u), i)
<1>. DEFINE m == a.count
            s == Contents(a, u)
<1>1. m \in Nat
  BY WholeFacts
<1>2. s \in [1 .. m -> Stored]
  BY ContentsIn
<1>3. \A j \in 1 .. m : s[j] = a.data[u[j]]
  BY DEF Contents
<1>4. Deque!RemoveAt(s, i) = WithoutAt(s, m, i)
  BY <1>1, <1>2, RemovedAt
<1>. HIDE DEF s
<1>5. Contents(b, WithoutAt(u, m, i)) = WithoutAt(s, m, i)
  <2>1. \A j \in 1 .. m - 1 : j \in 1 .. m /\ j + 1 \in 1 .. m
    BY <1>1
  <2>2. \A j \in 1 .. m - 1 :
          a.data[WithoutAt(u, m, i)[j]] = IF j < i THEN s[j] ELSE s[j + 1]
    BY <1>3, <2>1 DEF WithoutAt
  <2> QED
    BY <2>2 DEF Contents, WithoutAt
<1> QED
  BY <1>4, <1>5 DEF s

-----------------------------------------------------------------------------
(* The operations, and what clients see of them.                             *)

\* The inductive invariant: there are two such lists.
Sane(a) == a \in Arrays /\ \E u, f : Whole(a, u, f)

\* What the refinement mapping makes of an array.
View(a) ==
    [i \in DOMAIN Walk(a.usedhead, a.next) |-> a.data[Walk(a.usedhead, a.next)[i]]]

LEMMA ViewIs ==
  ASSUME NEW a \in Arrays, NEW u, NEW f, Whole(a, u, f)
  PROVE  /\ View(a) = Contents(a, u)
         /\ View(a) \in [1 .. a.count -> Stored]
         /\ DOMAIN View(a) = 1 .. a.count
<1>1. Walk(a.usedhead, a.next) = u
  BY ListsAre
<1>2. DOMAIN u = 1 .. a.count
  BY DEF Whole, Shared
<1>3. Contents(a, u) \in [1 .. a.count -> Stored]
  BY ContentsIn
<1>4. View(a) = Contents(a, u)
  BY <1>1, <1>2 DEF View, Contents
<1> QED
  BY <1>3, <1>4

LEMMA FrontAdded ==
  ASSUME NEW a, Sane(a), a.capacity > 0, Grow(a).capacity <= CapacityBound,
         NEW item \in Elements, NEW b, b = Added(a, item, TRUE)
  PROVE  Sane(b) /\ View(b) = <<item>> \o View(a)
<1>1. PICK u, f : a \in Arrays /\ Whole(a, u, f)
  BY DEF Sane
<1>. DEFINE c == Grow(a)
<1>2. c \in Arrays /\ c.count = a.count /\ c.data = a.data /\ c.count < c.capacity
  BY <1>1, GrowKeeps
<1>3. PICK g : Whole(c, u, g)
  BY <1>1, GrowKeeps
<1>4. b = Taken(c, item, TRUE)
  BY DEF Added, Taken
<1>. HIDE DEF c
<1>. DEFINE v == Before(c.freehead, u, c.count)
<1>5. /\ b \in Arrays /\ Whole(b, v, WithoutAt(g, FreeCount(c), 1))
      /\ b.count = c.count + 1 /\ Put(c, b, c.freehead, item)
      /\ c.freehead = g[1]
  <2>1. FirstKept(c, b, u, g, item)
    BY <1>2, <1>3, <1>4, FirstKeeps
  <2> QED
    BY <2>1 DEF FirstKept
<1>6. c.freehead \in Nodes /\ \A j \in 1 .. c.count : u[j] # c.freehead
  <2>1. 1 \in 1 .. FreeCount(c)
    BY <1>2, <1>3, WholeFacts DEF FreeCount
  <2> QED
    BY <1>2, <1>3, <1>5, <2>1, WholeFacts
<1>. HIDE DEF v
<1>7. Contents(b, v) = <<item>> \o Contents(c, u)
  BY <1>2, <1>3, <1>5, <1>6, PushedFront DEF v
<1>8. View(b) = Contents(b, v)
  BY <1>5, ViewIs
<1>9. View(a) = Contents(c, u)
  <2>1. View(a) = Contents(a, u)
    BY <1>1, ViewIs
  <2> QED
    BY <1>2, <2>1 DEF Contents
<1>10. Sane(b)
  BY <1>5 DEF Sane
<1> QED
  BY <1>7, <1>8, <1>9, <1>10

LEMMA BackAdded ==
  ASSUME NEW a, Sane(a), a.capacity > 0, Grow(a).capacity <= CapacityBound,
         NEW item \in Elements, NEW b, b = Added(a, item, FALSE)
  PROVE  Sane(b) /\ View(b) = Append(View(a), item)
<1>1. PICK u, f : a \in Arrays /\ Whole(a, u, f)
  BY DEF Sane
<1>. DEFINE c == Grow(a)
<1>2. c \in Arrays /\ c.count = a.count /\ c.data = a.data /\ c.count < c.capacity
  BY <1>1, GrowKeeps
<1>3. PICK g : Whole(c, u, g)
  BY <1>1, GrowKeeps
<1>4. b = Taken(c, item, FALSE)
  BY DEF Added, Taken
<1>. HIDE DEF c
<1>. DEFINE v == After(u, c.count, c.freehead)
<1>5. /\ b \in Arrays /\ Whole(b, v, WithoutAt(g, FreeCount(c), 1))
      /\ b.count = c.count + 1 /\ Put(c, b, c.freehead, item)
      /\ c.freehead = g[1]
  <2>1. LastKept(c, b, u, g, item)
    BY <1>2, <1>3, <1>4, LastKeeps
  <2> QED
    BY <2>1 DEF LastKept
<1>6. c.freehead \in Nodes /\ \A j \in 1 .. c.count : u[j] # c.freehead
  <2>1. 1 \in 1 .. FreeCount(c)
    BY <1>2, <1>3, WholeFacts DEF FreeCount
  <2> QED
    BY <1>2, <1>3, <1>5, <2>1, WholeFacts
<1>. HIDE DEF v
<1>7. Contents(b, v) = Append(Contents(c, u), item)
  BY <1>2, <1>3, <1>5, <1>6, PushedBack DEF v
<1>8. View(b) = Contents(b, v)
  BY <1>5, ViewIs
<1>9. View(a) = Contents(c, u)
  <2>1. View(a) = Contents(a, u)
    BY <1>1, ViewIs
  <2> QED
    BY <1>2, <2>1 DEF Contents
<1>10. Sane(b)
  BY <1>5 DEF Sane
<1> QED
  BY <1>7, <1>8, <1>9, <1>10

\* The element at a place is gone, and nothing else.
Lost(a, b, i) ==
    /\ i \in DOMAIN View(a) /\ View(b) = Deque!RemoveAt(View(a), i)
    /\ a.count > 0 /\ b.count = a.count - 1

\* What pop does: nothing to an empty array.
Shrunk(a, b) ==
    Sane(b) /\ ((a.count = 0 /\ b = a) \/ \E i : Lost(a, b, i))

LEMMA PlacePopped ==
  ASSUME NEW a \in Arrays, NEW u, NEW f, Whole(a, u, f), NEW i \in 1 .. a.count,
         NEW b, b = Popped(a, u[i], u[i])
  PROVE  Sane(b) /\ Lost(a, b, i)
<1>. DEFINE v == WithoutAt(u, a.count, i)
            g == Before(u[i], f, FreeCount(a))
<1>1. /\ b \in Arrays /\ Whole(b, v, g)
      /\ b.count = a.count - 1 /\ b.data = a.data
  BY FreeKeeps
<1>. HIDE DEF g
<1>2. Contents(b, v) = Deque!RemoveAt(Contents(a, u), i)
  BY <1>1, PoppedAt
<1>. HIDE DEF v
<1>3. View(b) = Contents(b, v)
  BY <1>1, ViewIs
<1>4. View(a) = Contents(a, u) /\ i \in DOMAIN View(a)
  BY ViewIs
<1>5. a.count > 0
  BY WholeFacts
<1>6. Sane(b)
  BY <1>1 DEF Sane
<1>7. b.count = a.count - 1
  BY <1>1
<1> QED
  BY <1>2, <1>3, <1>4, <1>5, <1>6, <1>7 DEF Lost

LEMMA FrontPopped ==
  ASSUME NEW a, Sane(a), NEW b, b = Popped(a, a.usedhead, a.usedhead)
  PROVE  Shrunk(a, b)
<1>1. PICK u, f : a \in Arrays /\ Whole(a, u, f)
  BY DEF Sane
<1>2. CASE a.count = 0
  <2>1. a.usedhead = None
    BY <1>1, <1>2, WholeFacts
  <2>2. b = a
    BY <2>1 DEF Popped
  <2> QED
    BY <1>2, <2>2 DEF Shrunk
<1>3. CASE a.count # 0
  <2>1. a.usedhead = u[1] /\ 1 \in 1 .. a.count
    BY <1>1, <1>3, WholeFacts
  <2>2. b = Popped(a, u[1], u[1])
    BY <2>1
  <2>3. Sane(b) /\ Lost(a, b, 1)
    BY <1>1, <2>1, <2>2, PlacePopped
  <2> QED
    BY <2>3 DEF Shrunk
<1> QED
  BY <1>2, <1>3

LEMMA BackPopped ==
  ASSUME NEW a, Sane(a), NEW b, b = Popped(a, a.usedtail, a.usedtail)
  PROVE  Shrunk(a, b)
<1>1. PICK u, f : a \in Arrays /\ Whole(a, u, f)
  BY DEF Sane
<1>2. CASE a.count = 0
  <2>1. a.usedtail = None
    BY <1>1, <1>2, WholeFacts
  <2>2. b = a
    BY <2>1 DEF Popped
  <2> QED
    BY <1>2, <2>2 DEF Shrunk
<1>3. CASE a.count # 0
  <2>1. a.usedtail = u[a.count] /\ a.count \in 1 .. a.count
    BY <1>1, <1>3, WholeFacts
  <2>2. b = Popped(a, u[a.count], u[a.count])
    BY <2>1
  <2>3. Sane(b) /\ Lost(a, b, a.count)
    BY <1>1, <2>1, <2>2, PlacePopped
  <2> QED
    BY <2>3 DEF Shrunk
<1> QED
  BY <1>2, <1>3

\* linkarray_pop_at where the element's place is the index of its node.
LEMMA AnyPopped ==
  ASSUME NEW a, Sane(a), NEW index \in Int, NodeAt(a, index) \in {index, None},
         NEW b, b = Popped(a, NodeAt(a, index), index)
  PROVE  Sane(b) /\ (b = a \/ \E i : Lost(a, b, i))
<1>1. PICK u, f : a \in Arrays /\ Whole(a, u, f)
  BY DEF Sane
<1>2. NodeAt(a, index) = IF index \in 0 .. a.count - 1 THEN u[index + 1] ELSE None
  BY <1>1, NodeAtIs
<1>3. CASE NodeAt(a, index) = None
  <2>1. b = a
    BY <1>3 DEF Popped
  <2> QED
    BY <2>1
<1>4. CASE NodeAt(a, index) # None
  <2>1. index \in 0 .. a.count - 1 /\ NodeAt(a, index) = index /\ index = u[index + 1]
    BY <1>2, <1>4
  <2>2. index + 1 \in 1 .. a.count
    BY <1>1, <2>1, WholeFacts
  <2>3. b = Popped(a, u[index + 1], u[index + 1])
    BY <2>1
  <2>4. Sane(b) /\ Lost(a, b, index + 1)
    BY <1>1, <2>2, <2>3, PlacePopped
  <2> QED
    BY <2>4
<1> QED
  BY <1>3, <1>4

\* The arrays that linkarray_clear goes through.
Clears(g, a, m) ==
    g = [n \in 0 .. m |->
          IF n = 0 THEN a ELSE Popped(g[n - 1], g[n - 1].usedhead, g[n - 1].usedhead)]

LEMMA ClearsExist ==
  ASSUME NEW a, NEW m \in Nat
  PROVE  \E g : Clears(g, a, m)
<1>. DEFINE Bad == {k \in Nat : ~\E g : Clears(g, a, k)}
            Rest(b) == Popped(b, b.usedhead, b.usedhead)
            Is(g, k) == g[k] = IF k = 0 THEN a ELSE Rest(g[k - 1])
<1>1. SUFFICES ASSUME Bad # {}
               PROVE  FALSE
  OBVIOUS
<1>2. Bad \in SUBSET Nat
  OBVIOUS
<1>3. PICK b \in Bad : \A n \in Bad : b <= n
  BY <1>1, <1>2, Least
<1>4. CASE b = 0
  <2>. DEFINE g == [k \in 0 .. 0 |-> a]
  <2>1. Clears(g, a, 0)
    BY DEF Clears
  <2> QED
    BY <1>3, <1>4, <2>1
<1>5. CASE b # 0
  <2>1. b \in Nat /\ b - 1 \in Nat /\ b - 1 \notin Bad
    BY <1>3, <1>5
  <2>2. PICK g : Clears(g, a, b - 1)
    BY <2>1
  <2>. HIDE DEF Rest
  <2>3. \A k \in 0 .. b - 1 : Is(g, k)
    BY <2>2 DEF Clears, Rest
  <2>. DEFINE h == [k \in 0 .. b |-> IF k = b THEN Rest(g[b - 1]) ELSE g[k]]
  <2>4. ASSUME NEW k \in 0 .. b
        PROVE  Is(h, k)
    <3>1. CASE k = 0
      <4>1. k \in 0 .. b - 1 /\ k # b
        BY <1>5, <2>1, <3>1
      <4>2. h[k] = g[k] /\ Is(g, k)
        BY <2>3, <4>1
      <4> QED
        BY <3>1, <4>2
    <3>2. CASE k # 0 /\ k # b
      <4>1. k \in 0 .. b - 1 /\ k - 1 \in 0 .. b /\ k - 1 # b
        BY <2>1, <3>2
      <4>2. h[k] = g[k] /\ h[k - 1] = g[k - 1] /\ Is(g, k)
        BY <2>3, <3>2, <4>1
      <4>. HIDE DEF h
      <4> QED
        BY <3>2, <4>2
    <3>3. CASE k = b
      <4>1. b - 1 \in 0 .. b /\ b - 1 # b
        BY <2>1
      <4>2. h[k] = Rest(g[b - 1]) /\ h[b - 1] = g[b - 1]
        BY <3>3, <4>1
      <4>. HIDE DEF h
      <4> QED
        BY <1>5, <3>3, <4>2
    <3> QED
      BY <3>1, <3>2, <3>3
  <2>5. h = [k \in 0 .. b |-> h[k]]
    OBVIOUS
  <2>. HIDE DEF h
  <2>6. h = [k \in 0 .. b |-> IF k = 0 THEN a ELSE Rest(h[k - 1])]
    BY <2>4, <2>5
  <2>7. Clears(h, a, b)
    BY <2>6 DEF Clears, Rest
  <2> QED
    BY <1>3, <2>7
<1> QED
  BY <1>4, <1>5

\* The last of them is empty.
LEMMA ClearedIsEmpty ==
  ASSUME NEW a, Sane(a), NEW g, Clears(g, a, a.count)
  PROVE  Sane(g[a.count]) /\ g[a.count].count = 0
<1>. DEFINE m == a.count
            Fine(k) == Sane(g[k]) /\ g[k].count = m - k
            Bad == {k \in 0 .. m : ~Fine(k)}
<1>1. m \in Nat
  BY WholeFacts DEF Sane
<1>2. \A k \in 0 .. m : g[k] = IF k = 0 THEN a ELSE Popped(g[k - 1], g[k - 1].usedhead,
                                                              g[k - 1].usedhead)
  BY DEF Clears
<1>3. \A k \in 0 .. m : Fine(k)
  <2>1. SUFFICES ASSUME Bad # {}
                 PROVE  FALSE
    BY Zenon
  <2>2. PICK b \in Bad : \A k \in Bad : b <= k
    <3>1. Bad \in SUBSET Nat
      BY <1>1
    <3>. HIDE DEF Bad
    <3> QED
      BY <2>1, <3>1, Least
  <2>3. b \in 0 .. m /\ ~Fine(b)
    BY <2>2
  <2>4. CASE b = 0
    <3>1. g[b] = a /\ m - b = m
      BY <1>1, <1>2, <2>3, <2>4
    <3> QED
      BY <2>3, <3>1
  <2>5. CASE b # 0
    <3>1. b - 1 \in 0 .. m /\ b - 1 < b
      BY <1>1, <2>3, <2>5
    <3>2. Fine(b - 1)
      BY <1>1, <2>2, <2>3, <3>1
    <3>. DEFINE c == g[b - 1]
                d == g[b]
    <3>3. d = Popped(c, c.usedhead, c.usedhead)
      BY <1>2, <2>3, <2>5
    <3>4. Sane(c) /\ c.count = m - (b - 1)
      BY <3>2
    <3>. HIDE DEF c, d
    <3>5. Shrunk(c, d)
      BY <3>3, <3>4, FrontPopped
    <3>6. c.count # 0
      BY <1>1, <2>3, <3>1, <3>4
    <3>7. Sane(d) /\ d.count = c.count - 1
      BY <3>5, <3>6 DEF Shrunk, Lost
    <3>8. d.count = m - b
      BY <1>1, <2>3, <3>4, <3>7
    <3> QED
      BY <2>3, <3>7, <3>8 DEF d
  <2> QED
    BY <2>4, <2>5
<1>4. Fine(m) /\ m - m = 0
  BY <1>1, <1>3
<1> QED
  BY <1>4

LEMMA ViewEmpty ==
  ASSUME NEW a, Sane(a), a.count = 0
  PROVE  View(a) = <<>>
<1>1. View(a) \in [1 .. 0 -> Stored]
  BY ViewIs DEF Sane
<1> QED
  BY <1>1

-----------------------------------------------------------------------------
(* Every step.                                                               *)

\* What clients see of a step.
Seen(a, b) ==
    \/ View(b) = View(a)
    \/ \E item \in Elements : \/ View(b) = <<item>> \o View(a)
                              \/ View(b) = Append(View(a), item)
    \/ \E i \in DOMAIN View(a) : View(b) = Deque!RemoveAt(View(a), i)
    \/ View(b) = <<>>

LEMMA StepIs ==
  ASSUME ~PopAtAnywhere, Sane(array), [LinkArrayNext]_array
  PROVE  Sane(array') /\ Seen(array, array')
<1>1. CASE UNCHANGED array
  BY <1>1 DEF Seen
<1>2. ASSUME NEW item \in Elements, PushFront(item)
      PROVE  Sane(array') /\ Seen(array, array')
  <2>1. Sane(array') /\ View(array') = <<item>> \o View(array)
    BY <1>2, FrontAdded DEF PushFront, Usable
  <2> QED
    BY <2>1 DEF Seen
<1>3. ASSUME NEW item \in Elements, PushBack(item)
      PROVE  Sane(array') /\ Seen(array, array')
  <2>1. Sane(array') /\ View(array') = Append(View(array), item)
    BY <1>3, BackAdded DEF PushBack, Usable
  <2> QED
    BY <2>1 DEF Seen
<1>4. CASE PopFront
  <2>1. Shrunk(array, array')
    BY <1>4, FrontPopped DEF PopFront
  <2> QED
    BY <2>1 DEF Shrunk, Lost, Seen
<1>5. CASE PopBack
  <2>1. Shrunk(array, array')
    BY <1>5, BackPopped DEF PopBack
  <2> QED
    BY <2>1 DEF Shrunk, Lost, Seen
<1>6. ASSUME NEW index \in -1 .. CapacityBound, PopAt(index)
      PROVE  Sane(array') /\ Seen(array, array')
  <2>1. index \in Int
    BY <1>6, Bounds
  <2>2. NodeAt(array, index) \in {index, None}
    BY <1>6 DEF PopAt
  <2>3. array' = Popped(array, NodeAt(array, index), index)
    BY <1>6 DEF PopAt
  <2>4. Sane(array') /\ (array' = array \/ \E i : Lost(array, array', i))
    BY <2>1, <2>2, <2>3, AnyPopped
  <2> QED
    BY <2>4 DEF Lost, Seen
<1>7. CASE LinkArrayClear
  <2>. DEFINE g == CHOOSE h : Clears(h, array, array.count)
  <2>1. array.count \in Nat
    BY WholeFacts DEF Sane
  <2>2. Clears(g, array, array.count)
    BY <2>1, ClearsExist
  <2>3. array' = g[array.count]
    BY <1>7 DEF LinkArrayClear, Clears
  <2>. HIDE DEF g
  <2>4. Sane(array') /\ array'.count = 0
    BY <2>2, <2>3, ClearedIsEmpty
  <2>5. View(array') = <<>>
    BY <2>4, ViewEmpty
  <2> QED
    BY <2>4, <2>5 DEF Seen
<1>8. CASE LinkArrayUninit
  <2>1. array' = NoArray
    BY <1>8 DEF LinkArrayUninit
  <2>2. Sane(NoArray) /\ NoArray.count = 0
    BY NoneIs DEF Sane
  <2>3. View(NoArray) = <<>>
    BY <2>2, ViewEmpty
  <2> QED
    BY <2>1, <2>2, <2>3 DEF Seen
<1> QED
  BY <1>1, <1>2, <1>3, <1>4, <1>5, <1>6, <1>7, <1>8 DEF LinkArrayNext

LEMMA InitIs ==
  ASSUME LinkArrayInit
  PROVE  Sane(array) /\ View(array) = <<>>
<1>1. PICK capacity \in Capacities : array = NewArray(capacity)
  BY DEF LinkArrayInit
<1>2. capacity \in Int /\ capacity <= CapacityBound
  BY LinkArrayAssumption
<1>3. Sane(array) /\ array.count = 0
  BY <1>1, <1>2, NewIs DEF Sane
<1> QED
  BY <1>3, ViewEmpty

\* What the invariant says of the properties.
LEMMA SaneIsPartitioned ==
  ASSUME Sane(array)
  PROVE  NodesPartitioned
<1>1. PICK u, f : array \in Arrays /\ Whole(array, u, f)
  BY DEF Sane
<1>2. LinkArrayTypeOK
  BY <1>1 DEF LinkArrayTypeOK, Arrays, Links, Ends
<1>3. UsedList = u /\ FreeList = f
  BY <1>1, ListsAre DEF UsedList, FreeList
<1>. DEFINE m == array.count
            k == FreeCount(array)
            S == 0 .. array.capacity - 1
<1>4. /\ m \in Nat /\ k \in Nat /\ m + k = array.capacity
      /\ u \in [1 .. m -> S] /\ f \in [1 .. k -> S]
      /\ \A n \in S : Has(u, m, n) <=> ~Has(f, k, n)
  <2>1. m \in Nat /\ k \in Nat /\ array.capacity \in Nat
    BY <1>1, WholeFacts
  <2>2. m + k = array.capacity
    BY <2>1 DEF FreeCount
  <2> QED
    BY <1>1, <2>1, <2>2 DEF Whole, Shared
<1>. HIDE DEF m, k, S
<1>5. Len(u) = m /\ Len(f) = k
  BY <1>4
<1>6. Range(u) \cup Range(f) = S
  BY <1>4 DEF Range, Has
<1>7. AtAgrees
  <2>. SUFFICES ASSUME NEW index \in -1 .. CapacityBound
                PROVE  NodeAt(array, index) =
                         IF index \in 0 .. (array.count - 1) THEN UsedList[index + 1] ELSE None
    BY DEF AtAgrees
  <2>1. index \in Int
    BY Bounds
  <2> QED
    BY <1>1, <1>3, <2>1, NodeAtIs
<1>8. /\ Len(UsedList) = array.count
      /\ Len(UsedList) + Len(FreeList) = array.capacity
      /\ Range(UsedList) \cup Range(FreeList) = 0 .. (array.capacity - 1)
  BY <1>3, <1>4, <1>5, <1>6 DEF m, S
<1> QED
  BY <1>2, <1>7, <1>8 DEF NodesPartitioned

LEMMA SaneAlways ==
  ASSUME ~PopAtAnywhere
  PROVE  LinkArraySpec => []Sane(array)
<1>1. LinkArrayInit => Sane(array)
  BY InitIs
<1>2. Sane(array) /\ [LinkArrayNext]_array => Sane(array)'
  <2>1. Sane(array) /\ [LinkArrayNext]_array => Sane(array')
    BY StepIs
  <2>2. Sane(array)' = Sane(array')
    BY DEF Sane
  <2> QED
    BY <2>1
<1> QED
  BY <1>1, <1>2, PTL DEF LinkArraySpec

\* Where linkarray_pop_at names elements by their nodes, every node of the block is
\* on exactly one of the two lists, and both ends reach every element.
THEOREM NodesCorrect ==
  ASSUME ~PopAtAnywhere
  PROVE  LinkArraySpec => []NodesPartitioned
<1>1. LinkArraySpec => []Sane(array)
  BY SaneAlways
<1>2. Sane(array) => NodesPartitioned
  BY SaneIsPartitioned
<1> QED
  BY <1>1, <1>2, PTL

\* And clients see a sequence that grows at its ends: link_array.c implements the
\* deque.
THEOREM DequeCorrect ==
  ASSUME ~PopAtAnywhere
  PROVE  LinkArraySpec => ImplementsDeque
<1>. DEFINE contents == [i \in DOMAIN UsedList |-> array.data[UsedList[i]]]
<1>1. LinkArraySpec => []Sane(array)
  BY SaneAlways
<1>2. contents = View(array) /\ contents' = View(array')
  BY DEF View, UsedList
<1>3. LinkArrayInit => Deque!Init
  BY <1>2, InitIs DEF Deque!Init
<1>4. Sane(array) /\ [LinkArrayNext]_array => [Deque!Next]_contents
  <2>. SUFFICES ASSUME Sane(array), [LinkArrayNext]_array
                PROVE  [Deque!Next]_contents
    OBVIOUS
  <2>1. Seen(array, array')
    BY StepIs
  <2>2. CASE View(array') = View(array)
    BY <1>2, <2>2
  <2>3. ASSUME NEW item \in Elements, View(array') = <<item>> \o View(array)
        PROVE  Deque!Next
    BY <1>2, <2>3 DEF Deque!Next, Deque!PushFront
  <2>4. ASSUME NEW item \in Elements, View(array') = Append(View(array), item)
        PROVE  Deque!Next
    BY <1>2, <2>4 DEF Deque!Next, Deque!PushBack
  <2>5. ASSUME NEW i \in DOMAIN View(array), View(array') = Deque!RemoveAt(View(array), i)
        PROVE  Deque!Next
    BY <1>2, <2>5 DEF Deque!Next, Deque!PopAt
  <2>6. CASE View(array') = <<>>
    BY <1>2, <2>6 DEF Deque!Next, Deque!Clear
  <2> QED
    BY <2>1, <2>2, <2>3, <2>4, <2>5, <2>6 DEF Seen
<1> QED
  BY <1>1, <1>3, <1>4, PTL DEF LinkArraySpec, ImplementsDeque, Deque!Spec

=============================================================================
