--------------------------- MODULE EcsWorldProofs ---------------------------
(***************************************************************************)
(* Proofs about EcsWorld, for any numbers of threads, entities, component  *)
(* types and systems: components belong to their entities, an entity stays *)
(* while a call changes it or tells systems of it, all that are in a call  *)
(* wait in two ways only, and a system has the entities that qualify.      *)
(*                                                                         *)
(* The second is a matter of the entities lock: who changes an entity has  *)
(* it for reading (Holds), and who destroys one has it for writing         *)
(* (Excludes).  The first needs that a new handle has no lookups, hence    *)
(* that there is a new handle (Enough), and that what a call found is so   *)
(* until it has changed it (Said); nothing in the code keeps two calls for *)
(* one entity apart, but when they are not, it is recorded (Apart).  The   *)
(* last follows what each system has yet to be told (Due).                 *)
(***************************************************************************)
EXTENDS EcsWorld, FiniteSetTheorems, WellFoundedInduction, TLAPS

Components == Entities \X Types \X Nat

\* The call of t is past its look at the entity.
Acting(t) == at[t] \notin {"idle", "lock"}

\* It has changed the world and is sending its event.
Sending(t) == at[t] \in {"send", "state", "command", "direct"}

LockType == [reading : [Threads -> Int], writing : SUBSET Threads, queued : SUBSET Threads]

CallType ==
    /\ call \in [Threads -> {"none", "create", "destroy", "add", "remove"}]
    /\ at \in [Threads -> {"idle", "lock", "change", "send", "state", "command", "direct",
                           "undefined"}]
    /\ entity \in [Threads -> Entities]
    /\ type \in [Threads -> Types]
    /\ found \in [Threads -> Components]

WorldType ==
    /\ live \subseteq created /\ created \subseteq Entities
    /\ lookups \in [Entities -> Seq(Components)]
    /\ components \subseteq Components /\ IsFiniteSet(components)
    /\ overlapped \subseteq [entity : Entities, types : SUBSET Types]

Typed == WorldType /\ entities_lock \in LockType /\ CallType

\* Who has the entities lock for reading between steps.
Holds == \A t \in Threads : entities_lock.reading[t] = IF Reading(t) THEN 1 ELSE 0

\* Who has it for writing.
Excludes ==
    \A t \in Threads : call[t] = "destroy" /\ Acting(t) => entities_lock.writing = {t}

\* Calls are about handles that were given out.
Given ==
    \A t \in Threads : call[t] \in {"destroy", "add", "remove"} => entity[t] \in created

\* There is a new handle for each call that is to get one.
Enough ==
    Cardinality(created) + Cardinality(Creating) <= Cardinality(Entities)

\* A handle that was not given out has no lookups.
Unused == \A e \in Entities \ created : lookups[e] = <<>>

\* The lookups of an entity are of its components.
Homes == \A e \in Entities : \A i \in DOMAIN lookups[e] : lookups[e][i][1] = e

Changing(t) == call[t] \in {"add", "remove"} /\ Acting(t)

\* Calls for one entity of which one at least adds do not overlap unnoticed.
Apart ==
    \A t, u \in Threads :
      /\ t # u
      /\ Changing(t) /\ Changing(u) /\ entity[t] = entity[u]
      /\ "add" \in {call[t], call[u]}
      => [entity |-> entity[t], types |-> {type[t], type[u]}] \in overlapped

\* Where an array of lookups has those of a type, and what they are.
Slots(array, c) == {i \in DOMAIN array : array[i][2] = c}

Items(array, c) == {array[i] : i \in Slots(array, c)}

Single(array, c) == \A i, j \in Slots(array, c) : i = j

Owned(e, c) ==
    /\ {x \in components : x[1] = e /\ x[2] = c} = Items(lookups[e], c)
    /\ Slots(lookups[e], c) # {} => e \in live
    /\ Single(lookups[e], c)

Owns == \A e \in Entities, c \in Types : ~Overlapped(e, {c}) => Owned(e, c)

\* What a call found, and what it says, is so.
Said(t) ==
    ~Overlapped(entity[t], {type[t]}) =>
      /\ call[t] = "add" /\ at[t] = "change" => Slots(lookups[entity[t]], type[t]) = {}
      /\ call[t] = "add" /\ Sending(t) => Slots(lookups[entity[t]], type[t]) # {}
      /\ call[t] = "remove" /\ at[t] = "change" =>
           Items(lookups[entity[t]], type[t]) \subseteq {found[t]}
      /\ call[t] = "remove" /\ Sending(t) => Slots(lookups[entity[t]], type[t]) = {}

Found ==
    \A t \in Threads : call[t] = "remove" /\ at[t] = "change" =>
      found[t][1] = entity[t] /\ found[t][2] = type[t]

\* The part of IInv that says nothing of the entities lock.
World ==
    /\ Given /\ Enough /\ Unused /\ Homes
    /\ Apart /\ Owns /\ Found
    /\ \A t \in Threads : Said(t)

IInv == Typed /\ World /\ Holds /\ Excludes /\ EntitiesStay

-----------------------------------------------------------------------------
(* Cardinalities.                                                            *)

LEMMA AtMostOneMore ==
  ASSUME NEW S, IsFiniteSet(S), NEW x, NEW T \in SUBSET (S \cup {x})
  PROVE  Cardinality(T) \in Nat /\ Cardinality(T) <= Cardinality(S) + 1
<1>1. Cardinality(S) \in Nat
  BY FS_CardinalityType
<1>2. IsFiniteSet(S \cup {x}) /\ Cardinality(S \cup {x}) <= Cardinality(S) + 1
  BY <1>1, FS_AddElement
<1>3. Cardinality(S \cup {x}) \in Nat
  BY <1>2, FS_CardinalityType
<1>4. IsFiniteSet(T) /\ Cardinality(T) <= Cardinality(S \cup {x})
  BY <1>2, FS_Subset
<1>5. Cardinality(T) \in Nat
  BY <1>4, FS_CardinalityType
<1> QED
  BY <1>1, <1>2, <1>3, <1>4, <1>5

LEMMA Finite ==
  ASSUME Typed
  PROVE  /\ IsFiniteSet(created) /\ IsFiniteSet(Creating)
         /\ Cardinality(created) \in Nat
         /\ Cardinality(Creating) \in Nat
         /\ Cardinality(Entities) \in Nat
<1>1. IsFiniteSet(created)
  BY EcsWorldAssumption, FS_Subset DEF Typed, WorldType
<1>2. Creating \in SUBSET Threads
  BY DEF Creating
<1>3. IsFiniteSet(Creating)
  BY <1>2, EcsWorldAssumption, FS_Subset
<1> QED
  BY <1>1, <1>3, EcsWorldAssumption, FS_CardinalityType

\* A call to create finds a handle that was not given out.
LEMMA NewHandleExists ==
  ASSUME Typed, Enough, NEW t \in Threads, call[t] = "create"
  PROVE  NewHandle \in Entities \ created
<1>1. t \in Creating
  BY DEF Creating
<1>2. Cardinality(Creating) # 0
  BY <1>1, Finite, FS_EmptySet
<1>3. created # Entities
  BY <1>2, Finite DEF Enough
<1> QED
  BY <1>3 DEF NewHandle, Typed, WorldType

\* Threads that end a call to create, or go on with it, leave enough handles.
LEMMA EnoughKept ==
  ASSUME Typed, Enough, UNCHANGED created,
         {t \in Threads : call'[t] = "create"} \subseteq Creating
  PROVE  Enough'
<1>1. Creating' \in SUBSET Creating
  BY DEF Creating
<1>2. Cardinality(Creating') <= Cardinality(Creating) /\ Cardinality(Creating') \in Nat
  BY <1>1, Finite, FS_Subset, FS_CardinalityType
<1> QED
  BY <1>2, Finite DEF Enough

LEMMA FiniteRange ==
  ASSUME NEW S, NEW f \in Seq(S)
  PROVE  IsFiniteSet(Range(f))
<1>1. DOMAIN f = 1 .. Len(f) /\ IsFiniteSet(1 .. Len(f))
  BY FS_Interval
<1>2. f \in Surjection(DOMAIN f, Range(f))
  BY DEF Surjection, Range
<1> QED
  BY <1>1, <1>2, FS_Surjection

LEMMA InUseFinite ==
  ASSUME Typed
  PROVE  IsFiniteSet(InUse) /\ Cardinality(InUse) \in Nat
<1> USE DEF Typed, WorldType, CallType
<1>1. IsFiniteSet({found[t] : t \in Threads})
  <2>1. found \in Surjection(Threads, {found[t] : t \in Threads})
    BY DEF Surjection
  <2> QED
    BY <2>1, EcsWorldAssumption, FS_Surjection
<1>2. IsFiniteSet(UNION {Range(lookups[e]) : e \in Entities})
  <2> DEFINE R == {Range(lookups[e]) : e \in Entities}
             f == [e \in Entities |-> Range(lookups[e])]
  <2>1. f \in Surjection(Entities, R)
    BY DEF Surjection
  <2>2. IsFiniteSet(R)
    BY <2>1, EcsWorldAssumption, FS_Surjection
  <2>3. \A T \in R : IsFiniteSet(T)
    BY FiniteRange
  <2> QED
    BY <2>2, <2>3, FS_UNION
<1>3. IsFiniteSet(InUse)
  BY <1>1, <1>2, FS_Union DEF InUse
<1> QED
  BY <1>3, FS_CardinalityType

\* There is a new handle for each component.
LEMMA NewComponentTyped ==
  ASSUME Typed, NEW e \in Entities, NEW c \in Types
  PROVE  /\ NewComponent(e, c) \in Components
         /\ NewComponent(e, c)[1] = e /\ NewComponent(e, c)[2] = c
<1> DEFINE k == Cardinality(InUse)
           f == [n \in 0 .. k |-> <<e, c, n>>]
<1>1. k \in Nat /\ IsFiniteSet(InUse)
  BY InUseFinite
<1>2. \E n \in 0 .. k : <<e, c, n>> \notin InUse
  <2> SUFFICES ASSUME \A n \in 0 .. k : <<e, c, n>> \in InUse
               PROVE  FALSE
    OBVIOUS
  <2>1. f \in [0 .. k -> InUse]
    OBVIOUS
  <2>2. IsFiniteSet(0 .. k) /\ Cardinality(0 .. k) = k + 1
    BY <1>1, FS_Interval
  <2>3. \A m, n \in 0 .. k : f[m] = f[n] => m = n
    OBVIOUS
  <2>4. Cardinality(InUse) < Cardinality(0 .. k)
    BY <1>1, <2>2
  <2> HIDE DEF f, k
  <2> QED
    BY <1>1, <2>1, <2>2, <2>3, <2>4, FS_PigeonHole
<1>3. (CHOOSE n \in 0 .. k : <<e, c, n>> \notin InUse) \in Nat
  BY <1>1, <1>2
<1> QED
  BY <1>3 DEF NewComponent, Components

-----------------------------------------------------------------------------
(* Arrays of lookups.                                                        *)

Less == {r \in Nat \X Nat : r[1] < r[2]}

\* A nonempty set of naturals has a least element: the first place of an item, and
\* below, the least number of commands for which something is not so.
LEMMA Least ==
  ASSUME NEW S \in SUBSET Nat, S # {}
  PROVE  \E n \in S : \A m \in S : n <= m
<1>1. IsWellFoundedOn(Less, Nat)
  BY NatLessThanWellFounded DEF OpToRel, Less
<1>2. PICK n \in S : \A m \in S : ~(<<m, n>> \in Less)
  BY <1>1, WFMin
<1>3. \A m \in S : ~(m < n)
  BY <1>2 DEF Less
<1> QED
  BY <1>3

\* array_find finds an item that is there.
LEMMA FindFinds ==
  ASSUME NEW S, NEW s \in Seq(S), NEW x
  PROVE  /\ ArrayFind(s, x) = 0 <=> \A i \in DOMAIN s : s[i] # x
         /\ ArrayFind(s, x) # 0 => ArrayFind(s, x) \in DOMAIN s /\ s[ArrayFind(s, x)] = x
<1>1. DOMAIN s = 1 .. Len(s) /\ Len(s) \in Nat
  OBVIOUS
<1>2. CASE \A i \in DOMAIN s : s[i] # x
  BY <1>1, <1>2 DEF ArrayFind
<1>3. CASE ~(\A i \in DOMAIN s : s[i] # x)
  <2> DEFINE P == {i \in DOMAIN s : s[i] = x}
  <2>1. P \in SUBSET Nat /\ P # {}
    BY <1>1, <1>3
  <2>2. PICK n \in P : \A m \in P : n <= m
    BY <2>1, Least
  <2>3. \A j \in 1 .. (n - 1) : s[j] # x
    BY <1>1, <2>2
  <2>4. \E i \in DOMAIN s : s[i] = x /\ \A j \in 1 .. (i - 1) : s[j] # x
    BY <2>2, <2>3
  <2>5. ArrayFind(s, x) = CHOOSE i \in DOMAIN s : s[i] = x /\ \A j \in 1 .. (i - 1) : s[j] # x
    BY <1>3 DEF ArrayFind
  <2>6. ArrayFind(s, x) \in DOMAIN s /\ s[ArrayFind(s, x)] = x
    BY <2>4, <2>5
  <2> QED
    BY <1>1, <1>3, <2>6
<1> QED
  BY <1>2, <1>3

LEMMA TypeFound ==
  ASSUME Typed, NEW e \in Entities, NEW c
  PROVE  /\ Find(e, c) = 0 <=> Slots(lookups[e], c) = {}
         /\ Find(e, c) # 0 => Find(e, c) \in Slots(lookups[e], c)
<1>1. lookups[e] \in Seq(Components)
  BY DEF Typed, WorldType
<1>2. DOMAIN TypesOf(e) = DOMAIN lookups[e] /\ DOMAIN lookups[e] = 1 .. Len(lookups[e])
  BY <1>1 DEF TypesOf
<1>3. \A i \in DOMAIN lookups[e] : TypesOf(e)[i] = lookups[e][i][2] /\ TypesOf(e)[i] \in Types
  BY <1>1 DEF TypesOf, Components
<1>4. TypesOf(e) \in Seq(Types)
  BY <1>1, <1>3 DEF TypesOf
<1> QED
  BY <1>2, <1>3, <1>4, FindFinds DEF Find, Slots

\* What array_add does to the lookups of each type.
LEMMA AppendSlots ==
  ASSUME NEW s \in Seq(Components), NEW x \in Components, NEW c
  PROVE  /\ Append(s, x) \in Seq(Components)
         /\ x[2] # c => Items(Append(s, x), c) = Items(s, c)
         /\ x[2] # c => (Slots(Append(s, x), c) = {} <=> Slots(s, c) = {})
         /\ x[2] # c /\ Single(s, c) => Single(Append(s, x), c)
         /\ x[2] = c => Slots(Append(s, x), c) # {}
         /\ x[2] = c /\ Slots(s, c) = {} =>
              Single(Append(s, x), c) /\ Items(Append(s, x), c) = {x}
         /\ \A i \in DOMAIN Append(s, x) :
              Append(s, x)[i] = x \/ (i \in DOMAIN s /\ Append(s, x)[i] = s[i])
<1> DEFINE n == Len(s)
           r == Append(s, x)
<1>1. /\ n \in Nat /\ DOMAIN s = 1 .. n /\ DOMAIN r = 1 .. n + 1
      /\ \A i \in 1 .. n : r[i] = s[i]
      /\ r[n + 1] = x /\ 1 .. n + 1 = (1 .. n) \cup {n + 1} /\ n + 1 \notin 1 .. n
      /\ r \in Seq(Components)
  OBVIOUS
<1> HIDE DEF n, r
<1>2. CASE x[2] # c
  <2>1. Slots(r, c) = Slots(s, c)
    BY <1>1, <1>2 DEF Slots
  <2>2. \A i \in Slots(s, c) : r[i] = s[i]
    BY <1>1 DEF Slots
  <2>3. Items(r, c) = Items(s, c)
    BY <2>1, <2>2 DEF Items
  <2>4. Single(s, c) => Single(r, c)
    BY <2>1 DEF Single
  <2>5. \A i \in DOMAIN r : r[i] = x \/ (i \in DOMAIN s /\ r[i] = s[i])
    BY <1>1
  <2> QED
    BY <1>1, <1>2, <2>1, <2>3, <2>4, <2>5 DEF r
<1>3. CASE x[2] = c
  <2>1. Slots(r, c) = Slots(s, c) \cup {n + 1}
    BY <1>1, <1>3 DEF Slots
  <2> QED
    BY <1>1, <1>3, <2>1 DEF Items, Single, r
<1> QED
  BY <1>2, <1>3

\* What array_remove_at does to them.
LEMMA RemoveSlots ==
  ASSUME NEW s \in Seq(Components), NEW i \in DOMAIN s, NEW c
  PROVE  /\ ArrayRemoveAt(s, i) \in Seq(Components)
         /\ s[i][2] # c => Items(ArrayRemoveAt(s, i), c) = Items(s, c)
         /\ s[i][2] # c => (Slots(ArrayRemoveAt(s, i), c) = {} <=> Slots(s, c) = {})
         /\ Single(s, c) => Single(ArrayRemoveAt(s, i), c)
         /\ s[i][2] = c /\ Single(s, c) => Slots(ArrayRemoveAt(s, i), c) = {}
         /\ Items(ArrayRemoveAt(s, i), c) \subseteq Items(s, c)
         /\ \A k \in DOMAIN ArrayRemoveAt(s, i) :
              \E m \in DOMAIN s : ArrayRemoveAt(s, i)[k] = s[m]
<1> DEFINE n == Len(s)
           r == ArrayRemoveAt(s, i)
           f(k) == IF k = i THEN n ELSE k
<1>1. n \in Nat \ {0} /\ DOMAIN s = 1 .. n /\ i \in 1 .. n
  OBVIOUS
<1>2. [s EXCEPT ![i] = s[n]] \in Seq(Components) /\ Len([s EXCEPT ![i] = s[n]]) = n
  <2>1. [s EXCEPT ![i] = s[n]] \in [1 .. n -> Components]
    BY <1>1
  <2> QED
    BY <1>1, <2>1
<1>3. /\ r \in Seq(Components) /\ DOMAIN r = 1 .. n - 1
      /\ \A k \in 1 .. n - 1 : r[k] = IF k = i THEN s[n] ELSE s[k]
  BY <1>1, <1>2 DEF ArrayRemoveAt
<1> HIDE DEF r, n
<1>4. \A k \in DOMAIN r : f(k) \in DOMAIN s /\ f(k) # i /\ r[k] = s[f(k)]
  BY <1>1, <1>3
<1>5. \A k, m \in DOMAIN r : f(k) = f(m) => k = m
  BY <1>1, <1>3
<1>6. \A m \in DOMAIN s \ {i} : \E k \in DOMAIN r : f(k) = m
  <2> SUFFICES ASSUME NEW m \in 1 .. n, m # i
               PROVE  \E k \in 1 .. n - 1 : f(k) = m
    BY <1>1, <1>3
  <2>1. CASE m = n
    <3>1. i \in 1 .. n - 1
      BY <1>1, <2>1
    <3> QED
      BY <2>1, <3>1
  <2>2. CASE m # n
    <3>1. m \in 1 .. n - 1
      BY <1>1, <2>2
    <3> QED
      BY <3>1
  <2> QED
    BY <2>1, <2>2
<1> HIDE DEF f
<1>7. \A k \in Slots(r, c) : f(k) \in Slots(s, c) \ {i} /\ r[k] = s[f(k)]
  BY <1>4 DEF Slots
<1>8. \A m \in Slots(s, c) \ {i} : \E k \in Slots(r, c) : f(k) = m
  BY <1>4, <1>6 DEF Slots
<1>9. Slots(r, c) \subseteq DOMAIN r
  BY DEF Slots
<1>10. Single(s, c) => Single(r, c)
  BY <1>5, <1>7, <1>9 DEF Single
<1>11. s[i][2] = c /\ Single(s, c) => Slots(r, c) = {}
  BY <1>7 DEF Single, Slots
<1>12. s[i][2] # c => Items(r, c) = Items(s, c) /\ (Slots(r, c) = {} <=> Slots(s, c) = {})
  <2>1. s[i][2] # c => i \notin Slots(s, c)
    BY DEF Slots
  <2> QED
    BY <1>7, <1>8, <2>1 DEF Items
<1>13. Items(r, c) \subseteq Items(s, c)
  BY <1>7 DEF Items
<1> QED
  BY <1>3, <1>4, <1>10, <1>11, <1>12, <1>13 DEF r

-----------------------------------------------------------------------------
(* Initially.                                                                *)

LEMMA AnyTyped == AnyEntity \in Entities /\ AnyType \in Types /\ AnyComponent \in Components
BY EcsWorldAssumption DEF AnyEntity, AnyType, AnyComponent, Components

LEMMA InitInv == Init => IInv
<1> SUFFICES ASSUME Init
             PROVE  IInv
  OBVIOUS
<1> USE EcsWorldAssumption, AnyTyped
<1>1. Typed
  <2>1. IsFiniteSet({})
    BY FS_EmptySet
  <2> QED
    BY <2>1 DEF Init, Typed, WorldType, CallType, LockType, FreshLock
<1>2. Enough
  <2>1. Creating = {}
    BY DEF Init, Creating
  <2>2. Cardinality(created) = 0 /\ Cardinality(Creating) = 0
    BY <2>1, FS_EmptySet DEF Init
  <2> QED
    BY <2>2, <1>1, Finite DEF Enough
<1>3. Given /\ Unused /\ Homes /\ Apart /\ Found /\ \A t \in Threads : Said(t)
  BY DEF Init, Given, Unused, Homes, Apart, Changing, Acting, Found, Said, Sending
<1>4. Owns
  BY DEF Init, Owns, Owned, Slots, Items, Single
<1>5. Holds /\ Excludes /\ EntitiesStay
  BY DEF Init, Holds, Excludes, EntitiesStay, FreshLock, Reading, Acting
<1> QED
  BY <1>1, <1>2, <1>3, <1>4, <1>5 DEF IInv, World

-----------------------------------------------------------------------------
(* What is recorded of calls that overlapped.                                *)

LEMMA OverlappedMore ==
  ASSUME overlapped \subseteq overlapped', NEW e, NEW T
  PROVE  Overlapped(e, T) => Overlapped(e, T)'
BY DEF Overlapped

LEMMA OverlappedWider ==
  ASSUME NEW e, NEW T, NEW S \in SUBSET T
  PROVE  Overlapped(e, S) => Overlapped(e, T)
BY DEF Overlapped

\* Two calls for an entity that overlap have overlapped.
LEMMA Together ==
  ASSUME Apart, NEW t \in Threads, NEW u \in Threads, t # u,
         Changing(t), Changing(u), entity[t] = entity[u], "add" \in {call[t], call[u]},
         NEW T, type[t] \in T, type[u] \in T
  PROVE  Overlapped(entity[t], T)
<1>1. [entity |-> entity[t], types |-> {type[t], type[u]}] \in overlapped
  BY DEF Apart
<1> QED
  BY <1>1 DEF Overlapped

-----------------------------------------------------------------------------
(* Steps that change nothing of the world.                                   *)

\* A thread goes on with the sending of its event, or none does anything here.
LEMMA QuietStep ==
  ASSUME IInv, UNCHANGED <<world, call, entity, type, found, overlapped>>, Typed',
         entities_lock'.reading = entities_lock.reading,
         entities_lock'.writing = entities_lock.writing,
         \A t \in Threads : at'[t] = at[t] \/ (Sending(t) /\ Sending(t)')
  PROVE  IInv'
<1> USE DEF IInv, World
<1>1. Enough' /\ Given' /\ Unused' /\ Homes'
  BY DEF Enough, Creating, Given, Unused, Homes, world
<1>2. Owns'
  BY DEF Owns, Owned, Overlapped, Slots, Items, Single, world
<1>3. \A t \in Threads : /\ Sending(t)' <=> Sending(t)
                         /\ Acting(t)' <=> Acting(t)
                         /\ at'[t] = "change" <=> at[t] = "change"
                         /\ at'[t] = "undefined" <=> at[t] = "undefined"
  BY DEF Sending, Acting
<1>4. Apart'
  BY <1>3 DEF Apart, Changing
<1>5. Found'
  BY <1>3 DEF Found
<1>6. ASSUME NEW t \in Threads
      PROVE  Said(t)'
  BY <1>3 DEF Said, Overlapped, Slots, Items, world
<1>7. \A t \in Threads : Reading(t)' <=> Reading(t)
  BY <1>3 DEF Reading, Acting
<1>8. Holds' /\ Excludes'
  BY <1>3, <1>7 DEF Holds, Excludes
<1>9. EntitiesStay'
  BY <1>3, <1>7 DEF EntitiesStay, Acting, world
<1> QED
  BY <1>1, <1>2, <1>4, <1>5, <1>6, <1>8, <1>9

\* A step that moves a thread from one place in the sending of its event to another.
LEMMA SendingStep ==
  ASSUME IInv, NEW t \in Threads, NEW label \in {"send", "state", "command", "direct"},
         Sending(t), at' = [at EXCEPT ![t] = label],
         UNCHANGED <<world, call, entity, type, found, entities_lock, overlapped>>
  PROVE  IInv'
<1>1. Typed'
  BY DEF IInv, Typed, WorldType, CallType, world
<1>2. \A u \in Threads : at'[u] = at[u] \/ (Sending(u) /\ Sending(u)')
  BY DEF IInv, Typed, CallType, Sending
<1> QED
  BY <1>1, <1>2, QuietStep

\* A step of the update, or any that concerns nothing here.
LEMMA OtherStep ==
  ASSUME IInv, UNCHANGED <<world, entities_lock, call, at, entity, type, found, overlapped>>
  PROVE  IInv'
<1>1. Typed'
  BY DEF IInv, Typed, WorldType, CallType, world
<1> QED
  BY <1>1, QuietStep

LEMMA QueueInv ==
  ASSUME IInv, NEW t \in Threads, Queue(t)
  PROVE  IInv'
<1>1. /\ entities_lock' \in LockType
      /\ entities_lock'.reading = entities_lock.reading
      /\ entities_lock'.writing = entities_lock.writing
  BY DEF IInv, Typed, LockType, Queue
<1>2. Typed'
  BY <1>1 DEF IInv, Typed, WorldType, CallType, Queue, world, caller, history
<1> QED
  BY <1>1, <1>2, QuietStep DEF Queue, caller, history

\* Going on with the sending of an event.
LEMMA SendInv ==
  ASSUME IInv, NEW t \in Threads,
         \/ \E s \in Systems : AddQualify(t, s) \/ RemoveSend(t, s)
         \/ ReadState(t) \/ QueueCommand(t) \/ Direct(t)
  PROVE  IInv'
<1> USE DEF history
<1>1. ASSUME NEW s \in Systems, AddQualify(t, s)
      PROVE  IInv'
  <2>1. CASE HasComponents(entity[t], Required[s])
    BY <1>1, <2>1, SendingStep DEF AddQualify, Callback, Goto, Sending
  <2>2. CASE ~HasComponents(entity[t], Required[s])
    BY <1>1, <2>2, OtherStep DEF AddQualify
  <2> QED
    BY <2>1, <2>2
<1>2. ASSUME NEW s \in Systems, RemoveSend(t, s)
      PROVE  IInv'
  BY <1>2, SendingStep DEF RemoveSend, Goto, Delivery, Sending
<1>3. CASE ReadState(t)
  BY <1>3, SendingStep DEF ReadState, Goto, Delivery, Sending
<1>4. CASE QueueCommand(t)
  BY <1>4, SendingStep DEF QueueCommand, Delivered, Goto, Sending
<1>5. CASE Direct(t)
  BY <1>5, SendingStep DEF Direct, Delivered, Goto, Sending
<1> QED
  BY <1>1, <1>2, <1>3, <1>4, <1>5

-----------------------------------------------------------------------------
(* The beginning and the end of a call.                                      *)

\* What the step of t leaves to the others.
OthersKept(t) ==
    \A u \in Threads \ {t} :
      /\ call'[u] = call[u] /\ at'[u] = at[u] /\ entity'[u] = entity[u]
      /\ type'[u] = type[u] /\ found'[u] = found[u]

\* The lock for reading is now nobody's but who else had it, and the other lock theirs.
LockLeft(t) ==
    /\ \A u \in Threads :
         entities_lock'.reading[u] = IF u = t THEN 0 ELSE entities_lock.reading[u]
    /\ \A u \in Threads \ {t} : entities_lock.writing = {u} => entities_lock'.writing = {u}

\* A thread that is at the beginning or the end of a call now.
LEMMA EdgeStep ==
  ASSUME IInv, NEW t \in Threads, UNCHANGED <<world, overlapped>>, Typed', Enough',
         OthersKept(t), LockLeft(t), at'[t] \in {"idle", "lock"},
         call'[t] \in {"destroy", "add", "remove"} => entity'[t] \in created
  PROVE  IInv'
<1> USE DEF IInv, World, OthersKept
<1>1. Given' /\ Unused' /\ Homes'
  BY DEF Given, Unused, Homes, world
<1>2. Owns'
  BY DEF Owns, Owned, Overlapped, Slots, Items, Single, world
<1>3. ~Acting(t)' /\ ~Sending(t)' /\ ~Reading(t)' /\ at'[t] # "change"
  BY DEF Acting, Sending, Reading
<1>4. \A u \in Threads \ {t} : /\ Acting(u)' <=> Acting(u)
                               /\ Sending(u)' <=> Sending(u)
                               /\ Reading(u)' <=> Reading(u)
  BY DEF Acting, Sending, Reading
<1>5. Apart'
  BY <1>3, <1>4 DEF Apart, Changing
<1>6. Found'
  BY <1>3 DEF Found
<1>7. ASSUME NEW u \in Threads
      PROVE  Said(u)'
  <2>1. CASE u = t
    BY <1>3, <2>1 DEF Said
  <2>2. CASE u # t
    <3>1. /\ call'[u] = call[u] /\ at'[u] = at[u] /\ entity'[u] = entity[u]
          /\ type'[u] = type[u] /\ found'[u] = found[u]
          /\ lookups' = lookups /\ overlapped' = overlapped
          /\ Sending(u)' <=> Sending(u)
      BY <1>4, <2>2 DEF world
    <3>2. Said(u)
      OBVIOUS
    <3> QED
      BY ONLY <3>1, <3>2 DEF Said, Overlapped, Slots, Items
  <2> QED
    BY <2>1, <2>2
<1>8. Holds'
  BY <1>3, <1>4 DEF Holds, LockLeft
<1>9. Excludes'
  BY <1>3, <1>4 DEF Excludes, LockLeft
<1>10. EntitiesStay'
  BY <1>3, <1>4 DEF EntitiesStay, Acting, world
<1> QED
  BY <1>1, <1>2, <1>5, <1>6, <1>7, <1>8, <1>9, <1>10

\* A call begins; to create, only if there is a handle to spare for it.
LEMMA BeginInv ==
  ASSUME IInv, NEW t \in Threads, Call(t)
  PROVE  IInv'
<1> USE DEF IInv, Typed, WorldType, CallType
<1>1. PICK name \in {"create", "destroy", "add", "remove"}, e \in Entities, c \in Types :
        /\ Begin(t, name, e, c)
        /\ name = "create" =>
             Cardinality(created) + Cardinality(Creating) < Cardinality(Entities)
        /\ name \in {"destroy", "add", "remove"} => e \in created
  BY AnyTyped DEF Call
<1>2. /\ at[t] = "idle" /\ at' = [at EXCEPT ![t] = "lock"]
      /\ call' = [call EXCEPT ![t] = name] /\ entity' = [entity EXCEPT ![t] = e]
      /\ type' = [type EXCEPT ![t] = c]
      /\ UNCHANGED <<world, entities_lock, found, overlapped>>
  BY <1>1 DEF Begin, MayCall, history
<1>3. Typed'
  BY <1>2 DEF world
<1>4. Enough'
  <2>1. CASE name = "create"
    <3>1. Creating' \in SUBSET (Creating \cup {t})
      BY <1>2 DEF Creating
    <3>2. Cardinality(Creating') \in Nat /\ Cardinality(Creating') <= Cardinality(Creating) + 1
      BY <3>1, Finite, AtMostOneMore
    <3> QED
      BY <1>1, <1>2, <2>1, <3>2, Finite DEF Enough, world
  <2>2. CASE name # "create"
    <3>1. {u \in Threads : call'[u] = "create"} \subseteq Creating
      BY <1>2, <2>2 DEF Creating
    <3> QED
      BY <1>2, <3>1, EnoughKept DEF world, World
  <2> QED
    BY <2>1, <2>2
<1>5. OthersKept(t) /\ at'[t] = "lock" /\ call'[t] = name /\ entity'[t] = e
  BY <1>2 DEF OthersKept
<1>6. LockLeft(t)
  BY <1>2 DEF LockLeft, Holds, Reading
<1> QED
  BY <1>1, <1>2, <1>3, <1>4, <1>5, <1>6, EdgeStep

\* A call ends that changed nothing in this step.
LEMMA ReturnStep ==
  ASSUME IInv, NEW t \in Threads, Return(t), UNCHANGED <<world, overlapped>>,
         entities_lock' \in LockType, LockLeft(t)
  PROVE  IInv'
<1> USE DEF IInv, Typed, WorldType, CallType, Return, Goto
<1>1. Typed'
  BY AnyTyped DEF world
<1>2. Enough'
  <2>1. {u \in Threads : call'[u] = "create"} \subseteq Creating
    BY DEF Creating
  <2> QED
    BY <2>1, EnoughKept DEF world, World
<1>3. OthersKept(t) /\ at'[t] = "idle" /\ call'[t] = "none"
  BY DEF OthersKept
<1> QED
  BY <1>1, <1>2, <1>3, EdgeStep

LEMMA FinishInv ==
  ASSUME IInv, NEW t \in Threads, Finish(t)
  PROVE  IInv'
<1> USE DEF IInv, Typed, LockType
<1>1. at[t] = "send" /\ Return(t) /\ UNCHANGED <<world, overlapped>>
  BY DEF Finish, history
<1>2. CASE call[t] = "add"
  <2>1. entities_lock' = ReadUnlocked(entities_lock, t)
    BY <1>2 DEF Finish
  <2>2. /\ entities_lock' \in LockType /\ entities_lock'.writing = entities_lock.writing
        /\ entities_lock'.reading =
             [entities_lock.reading EXCEPT ![t] = entities_lock.reading[t] - 1]
    BY <2>1 DEF ReadUnlocked
  <2>3. entities_lock.reading[t] = 1
    BY <1>1, <1>2 DEF Holds, Reading
  <2>4. LockLeft(t)
    BY <2>2, <2>3 DEF LockLeft
  <2> QED
    BY <1>1, <2>2, <2>4, ReturnStep
<1>3. CASE call[t] # "add"
  <2>1. \/ call[t] = "destroy" /\ entities_lock' = WriteUnlocked(entities_lock)
        \/ entities_lock' = entities_lock
    BY <1>3 DEF Finish
  <2>2. /\ entities_lock' \in LockType
        /\ entities_lock'.reading = entities_lock.reading
        /\ \A u \in Threads \ {t} : entities_lock.writing = {u} => entities_lock'.writing = {u}
    <3>1. CASE call[t] = "destroy" /\ entities_lock' = WriteUnlocked(entities_lock)
      <4>1. entities_lock.writing = {t}
        BY <1>1, <3>1 DEF Excludes, Acting
      <4> QED
        BY <3>1, <4>1 DEF WriteUnlocked
    <3>2. CASE entities_lock' = entities_lock
      BY <3>2
    <3> QED
      BY <2>1, <3>1, <3>2
  <2>3. entities_lock.reading[t] = 0
    BY <1>1, <1>3 DEF Holds, Reading
  <2>4. LockLeft(t)
    BY <2>2, <2>3 DEF LockLeft
  <2> QED
    BY <1>1, <2>2, <2>4, ReturnStep
<1> QED
  BY <1>2, <1>3

-----------------------------------------------------------------------------
(* The calls that change the world.                                          *)

LEMMA CreateInv ==
  ASSUME IInv, NEW t \in Threads, CreateEntity(t)
  PROVE  IInv'
<1> USE DEF IInv, World, Typed, WorldType, CallType
<1>1. NewHandle \in Entities \ created
  BY NewHandleExists DEF CreateEntity
<1>2. /\ call[t] = "create" /\ at[t] = "lock" /\ entities_lock.writing = {}
      /\ live' = live \cup {NewHandle} /\ created' = created \cup {NewHandle}
      /\ at' = [at EXCEPT ![t] = "idle"] /\ call' = [call EXCEPT ![t] = "none"]
      /\ entity' = [entity EXCEPT ![t] = AnyEntity] /\ type' = [type EXCEPT ![t] = AnyType]
      /\ UNCHANGED <<lookups, components, found, overlapped>>
      /\ entities_lock' = WriteUnlocked(WriteLocked(entities_lock, t))
  BY DEF CreateEntity, CanWrite, Return, Goto, history
<1>3. /\ entities_lock' \in LockType
      /\ entities_lock'.reading = entities_lock.reading
  BY <1>2 DEF WriteLocked, WriteUnlocked, LockType
<1>4. Typed'
  BY <1>1, <1>2, <1>3, AnyTyped
<1>5. Enough'
  <2>1. Creating' = Creating \ {t} /\ t \in Creating
    BY <1>2 DEF Creating
  <2>2. Cardinality(Creating') = Cardinality(Creating) - 1
    BY <2>1, Finite, FS_RemoveElement
  <2>3. Cardinality(created') = Cardinality(created) + 1
    BY <1>1, <1>2, Finite, FS_AddElement
  <2> QED
    BY <2>2, <2>3, Finite DEF Enough
<1>6. /\ ~Acting(t)' /\ ~Sending(t)' /\ ~Reading(t)' /\ at'[t] # "change"
      /\ ~Acting(t) /\ ~Sending(t) /\ ~Reading(t)
  BY <1>2 DEF Acting, Sending, Reading
<1>7. \A u \in Threads \ {t} : /\ call'[u] = call[u] /\ at'[u] = at[u]
                               /\ entity'[u] = entity[u] /\ type'[u] = type[u]
                               /\ found'[u] = found[u]
                               /\ Acting(u)' <=> Acting(u)
                               /\ Sending(u)' <=> Sending(u)
                               /\ Reading(u)' <=> Reading(u)
  BY <1>2 DEF Acting, Sending, Reading
<1>8. Given' /\ Unused' /\ Homes'
  BY <1>2 DEF Given, Unused, Homes
<1>9. Owns'
  <2> SUFFICES ASSUME NEW e \in Entities, NEW c \in Types, ~Overlapped(e, {c})'
               PROVE  Owned(e, c)'
    BY DEF Owns
  <2>1. Owned(e, c)
    BY <1>2 DEF Owns, Overlapped
  <2>2. live \subseteq live' /\ lookups' = lookups /\ components' = components
    BY <1>2
  <2> QED
    BY ONLY <2>1, <2>2 DEF Owned, Slots, Items, Single
<1>10. Apart'
  BY <1>2, <1>6, <1>7 DEF Apart, Changing
<1>11. Found'
  BY <1>6, <1>7 DEF Found
<1>12. ASSUME NEW u \in Threads
       PROVE  Said(u)'
  <2>1. CASE u = t
    BY <1>6, <2>1 DEF Said
  <2>2. CASE u # t
    <3>1. /\ call'[u] = call[u] /\ at'[u] = at[u] /\ entity'[u] = entity[u]
          /\ type'[u] = type[u] /\ found'[u] = found[u]
          /\ lookups' = lookups /\ overlapped' = overlapped
          /\ Sending(u)' <=> Sending(u)
      BY <1>2, <1>7, <2>2
    <3>2. Said(u)
      OBVIOUS
    <3> QED
      BY ONLY <3>1, <3>2 DEF Said, Overlapped, Slots, Items
  <2> QED
    BY <2>1, <2>2
<1>13. Holds'
  BY <1>3, <1>6, <1>7 DEF Holds
<1>14. Excludes'
  BY <1>2, <1>6, <1>7 DEF Excludes
<1>15. EntitiesStay'
  <2>1. \A u \in Threads \ {t} : call[u] = "destroy" => ~Acting(u)
    BY <1>2 DEF Excludes
  <2> QED
    BY <1>2, <1>6, <1>7, <2>1 DEF EntitiesStay, Acting
<1> QED
  BY <1>4, <1>5, <1>8, <1>9, <1>10, <1>11, <1>12, <1>13, <1>14, <1>15

\* A writer is let in when nobody is at work with what it found.
LEMMA NobodyReads ==
  ASSUME Holds, CanWrite(entities_lock), NEW u \in Threads
  PROVE  ~Reading(u)
<1>1. Readers(entities_lock) = {}
  BY DEF CanWrite
<1>2. ~(entities_lock.reading[u] > 0)
  BY <1>1 DEF Readers
<1>3. entities_lock.reading[u] = IF Reading(u) THEN 1 ELSE 0
  BY DEF Holds
<1> QED
  BY ONLY <1>2, <1>3

\* Who destroys an entity has it for itself, and takes its lookups and their components.
LEMMA DestroyInv ==
  ASSUME IInv, NEW t \in Threads, DestroyEntity(t)
  PROVE  IInv'
<1> USE DEF IInv, World, Typed, WorldType, CallType
<1> DEFINE e0 == entity[t]
<1>1. /\ call[t] = "destroy" /\ at[t] = "lock" /\ CanWrite(entities_lock)
      /\ entities_lock' = WriteLocked(entities_lock, t)
      /\ UNCHANGED <<created, call, entity, type, found, overlapped>>
  BY DEF DestroyEntity, history
<1>2. PICK label \in {"send", "undefined"} :
        /\ at' = [at EXCEPT ![t] = label]
        /\ label = "send" =>
             /\ live' = live \ {e0} /\ lookups' = [lookups EXCEPT ![e0] = <<>>]
             /\ components' = components \ Range(lookups[e0])
        /\ label = "undefined" => UNCHANGED <<live, lookups, components>>
  <2>1. CASE Range(lookups[entity[t]]) \subseteq components
    BY <2>1 DEF DestroyEntity, Send, Goto, ComponentsWithout
  <2>2. CASE ~(Range(lookups[entity[t]]) \subseteq components)
    BY <2>2 DEF DestroyEntity, Undefined, Goto
  <2> QED
    BY <2>1, <2>2
<1>3. /\ entities_lock' \in LockType
      /\ entities_lock'.reading = entities_lock.reading
      /\ entities_lock'.writing = {t} /\ entities_lock.writing = {}
  BY <1>1 DEF WriteLocked, LockType, CanWrite
<1>4. /\ e0 \in Entities /\ live' \subseteq live /\ components' \subseteq components
      /\ \A e \in Entities : lookups'[e] = lookups[e] \/ lookups'[e] = <<>>
      /\ lookups' \in [Entities -> Seq(Components)]
  <2>1. <<>> \in Seq(Components) /\ e0 \in Entities
    BY <1>1
  <2>2. CASE label = "send"
    <3>1. /\ live' = live \ {e0} /\ lookups' = [lookups EXCEPT ![e0] = <<>>]
          /\ components' = components \ Range(lookups[e0])
      BY <1>2, <2>2
    <3>2. lookups' \in [Entities -> Seq(Components)]
      BY <2>1, <3>1
    <3>3. \A e \in Entities : lookups'[e] = lookups[e] \/ lookups'[e] = <<>>
      BY <2>1, <3>1
    <3> QED
      BY <2>1, <3>1, <3>2, <3>3
  <2>3. CASE label = "undefined"
    BY <1>2, <2>1, <2>3
  <2> QED
    BY <2>2, <2>3
<1>5. Typed'
  <2>1. IsFiniteSet(components')
    BY <1>4, FS_Subset
  <2> QED
    BY <1>1, <1>2, <1>3, <1>4, <2>1
<1>6. /\ Enough' /\ Given'
  BY <1>1 DEF Enough, Creating, Given
<1>7. Unused' /\ Homes'
  BY <1>1, <1>4 DEF Unused, Homes
<1>8. \A u \in Threads : ~Reading(u)
  BY <1>1, NobodyReads
<1>9. /\ ~Reading(t)' /\ ~Acting(t)
      /\ \A u \in Threads \ {t} : /\ at'[u] = at[u]
                                  /\ Reading(u)' <=> Reading(u)
                                  /\ Acting(u)' <=> Acting(u)
                                  /\ Sending(u)' <=> Sending(u)
  BY <1>1, <1>2 DEF Reading, Acting, Sending
<1>10. Owns'
  <2> SUFFICES ASSUME NEW e \in Entities, NEW c \in Types, ~Overlapped(e, {c})'
               PROVE  Owned(e, c)'
    BY DEF Owns
  <2>1. Owned(e, c)
    BY <1>1 DEF Owns, Overlapped
  <2>2. CASE label = "undefined"
    BY <1>2, <2>1, <2>2 DEF Owned, Slots, Items, Single
  <2>3. CASE label = "send" /\ e # e0
    <3>1. \A x \in Range(lookups[e0]) : x[1] = e0
      BY DEF Range, Homes
    <3>2. lookups'[e] = lookups[e] /\ (e \in live' <=> e \in live)
      BY <1>2, <2>3
    <3>3. {x \in components' : x[1] = e /\ x[2] = c} = {x \in components : x[1] = e /\ x[2] = c}
      BY <1>2, <2>3, <3>1
    <3> QED
      BY <2>1, <3>2, <3>3 DEF Owned, Slots, Items, Single
  <2>4. CASE label = "send" /\ e = e0
    <3>1. lookups'[e] = <<>>
      BY <1>2, <2>4
    <3>2. Slots(<<>>, c) = {} /\ Items(<<>>, c) = {}
      BY DEF Slots, Items
    <3>3. Items(lookups[e], c) \subseteq Range(lookups[e])
      BY DEF Items, Slots, Range
    <3>4. {x \in components' : x[1] = e /\ x[2] = c} = {}
      BY <1>2, <2>1, <2>4, <3>3 DEF Owned
    <3>5. Slots(lookups[e], c)' = {} /\ Items(lookups[e], c)' = {}
      BY <3>1, <3>2 DEF Slots, Items
    <3> QED
      BY <3>4, <3>5 DEF Owned, Single
  <2> QED
    BY <2>2, <2>3, <2>4
<1>11. Apart'
  BY <1>1, <1>9 DEF Apart, Changing
<1>12. Found'
  BY <1>1, <1>9 DEF Found
<1>13. ASSUME NEW u \in Threads
       PROVE  Said(u)'
  <2>1. CASE u = t
    BY <1>1, <2>1 DEF Said
  <2>2. CASE u # t
    <3>1. ~(call[u] = "add" /\ Acting(u)) /\ ~(call[u] = "remove" /\ at[u] = "change")
      BY <1>8 DEF Reading, Acting
    <3>2. Sending(u) => Acting(u)
      BY DEF Sending, Acting
    <3>3. SUFFICES ASSUME ~Overlapped(entity[u], {type[u]}), call[u] = "remove", Sending(u)
                   PROVE  Slots(lookups'[entity[u]], type[u]) = {}
      BY <1>1, <1>9, <2>2, <3>1, <3>2 DEF Said, Overlapped, Acting, Slots
    <3>4. Slots(lookups[entity[u]], type[u]) = {}
      BY <3>3 DEF Said
    <3>5. Slots(<<>>, type[u]) = {}
      BY DEF Slots
    <3>6. lookups'[entity[u]] = lookups[entity[u]] \/ lookups'[entity[u]] = <<>>
      BY <1>4
    <3> QED
      BY <3>4, <3>5, <3>6
  <2> QED
    BY <2>1, <2>2
<1>14. Holds'
  BY <1>3, <1>8, <1>9 DEF Holds
<1>15. Excludes'
  BY <1>1, <1>3, <1>9 DEF Excludes
<1>16. EntitiesStay'
  <2>1. \A u \in Threads : ~Reading(u)'
    BY <1>8, <1>9
  <2>2. ASSUME NEW u \in Threads, call'[u] = "destroy",
               at'[u] \notin {"idle", "lock", "undefined"}
        PROVE  entity'[u] \notin live'
    <3>1. CASE u = t
      BY <1>1, <1>2, <2>2, <3>1
    <3>2. CASE u # t
      BY <1>1, <1>4, <1>9, <2>2, <3>2 DEF EntitiesStay
    <3> QED
      BY <3>1, <3>2
  <2> QED
    BY <2>1, <2>2 DEF EntitiesStay
<1> QED
  BY <1>5, <1>6, <1>7, <1>10, <1>11, <1>12, <1>13, <1>14, <1>15, <1>16

\* A call has looked for the component and goes on: calls for the same entity that are
\* past that are recorded.
LEMMA GoOnStep ==
  ASSUME IInv, NEW t \in Threads, call[t] \in {"add", "remove"}, at[t] = "lock", GoOn(t),
         CanRead(entities_lock), entity[t] \in live, UNCHANGED <<world, call, entity, type>>,
         found' \in [Threads -> Components], Found', Said(t)',
         \A u \in Threads \ {t} : found'[u] = found[u]
  PROVE  IInv'
<1> USE DEF IInv, World, Typed, WorldType, CallType
<1>1. /\ at' = [at EXCEPT ![t] = "change"]
      /\ entities_lock' = ReadLocked(entities_lock, t)
      /\ overlapped' = overlapped \cup
           {[entity |-> entity[t], types |-> {type[t], type[u]}] : u \in Overlapping(t)}
  BY DEF GoOn, Goto
<1>2. /\ entities_lock' \in LockType
      /\ entities_lock'.writing = {} /\ entities_lock.writing = {}
      /\ entities_lock'.reading =
           [entities_lock.reading EXCEPT ![t] = entities_lock.reading[t] + 1]
  <2>1. entities_lock \in LockType /\ entities_lock.writing = {}
    BY DEF CanRead
  <2>2. entities_lock' =
          [entities_lock EXCEPT !.reading =
             [entities_lock.reading EXCEPT ![t] = entities_lock.reading[t] + 1]]
    BY ONLY <1>1, <2>1 DEF ReadLocked, LockType
  <2>3. [entities_lock.reading EXCEPT ![t] = entities_lock.reading[t] + 1]
          \in [Threads -> Int]
    BY ONLY <2>1 DEF LockType
  <2> QED
    BY ONLY <2>1, <2>2, <2>3 DEF LockType
<1>3. overlapped \subseteq overlapped'
  BY <1>1
<1>4. overlapped' \subseteq [entity : Entities, types : SUBSET Types]
  <2>1. \A u \in Overlapping(t) :
          [entity |-> entity[t], types |-> {type[t], type[u]}]
            \in [entity : Entities, types : SUBSET Types]
    BY DEF Overlapping
  <2>2. overlapped \subseteq [entity : Entities, types : SUBSET Types]
    OBVIOUS
  <2> QED
    BY ONLY <1>1, <2>1, <2>2
<1>5. Typed'
  BY <1>1, <1>2, <1>4 DEF world
<1>6. Enough' /\ Given' /\ Unused' /\ Homes'
  BY DEF Enough, Creating, Given, Unused, Homes, world
<1>7. /\ ~Acting(t) /\ ~Reading(t) /\ Acting(t)' /\ Reading(t)'
      /\ \A u \in Threads \ {t} : /\ at'[u] = at[u]
                                  /\ Acting(u)' <=> Acting(u)
                                  /\ Sending(u)' <=> Sending(u)
                                  /\ Reading(u)' <=> Reading(u)
  BY <1>1 DEF Acting, Sending, Reading
<1>8. Owns'
  <2> SUFFICES ASSUME NEW e \in Entities, NEW c \in Types, ~Overlapped(e, {c})'
               PROVE  Owned(e, c)'
    BY DEF Owns
  <2>1. Owned(e, c)
    BY <1>3, OverlappedMore DEF Owns
  <2> QED
    BY <2>1 DEF Owned, Slots, Items, Single, world
<1>9. Apart'
  <2> SUFFICES ASSUME NEW x \in Threads, NEW y \in Threads, x # y,
                      Changing(x)', Changing(y)', entity[x] = entity[y],
                      "add" \in {call[x], call[y]}
               PROVE  [entity |-> entity[x], types |-> {type[x], type[y]}] \in overlapped'
    BY DEF Apart
  <2>1. CASE x = t
    <3>1. y \in Overlapping(t)
      BY <1>7, <2>1 DEF Overlapping, Changing, Acting
    <3> QED
      BY <1>1, <2>1, <3>1
  <2>2. CASE y = t
    <3>1. x \in Overlapping(t)
      BY <1>7, <2>2 DEF Overlapping, Changing, Acting
    <3>2. {type[x], type[y]} = {type[t], type[x]}
      BY <2>2
    <3> QED
      BY <1>1, <2>2, <3>1, <3>2
  <2>3. CASE x # t /\ y # t
    BY <1>3, <1>7, <2>3 DEF Apart, Changing
  <2> QED
    BY <2>1, <2>2, <2>3
<1>10. ASSUME NEW u \in Threads \ {t}
       PROVE  Said(u)'
  <2>1. /\ call'[u] = call[u] /\ at'[u] = at[u] /\ entity'[u] = entity[u]
        /\ type'[u] = type[u] /\ found'[u] = found[u] /\ lookups' = lookups
        /\ Sending(u)' <=> Sending(u)
    BY <1>7 DEF world
  <2>2. Said(u)
    OBVIOUS
  <2>3. Overlapped(entity[u], {type[u]}) => Overlapped(entity[u], {type[u]})'
    BY ONLY <1>3, <2>1 DEF Overlapped
  <2> QED
    BY ONLY <2>1, <2>2, <2>3 DEF Said, Slots, Items
<1>11. Holds'
  BY <1>2, <1>7 DEF Holds, LockType
<1>12. \A u \in Threads : call[u] = "destroy" => ~Acting(u)
  BY <1>2 DEF Excludes
<1>13. Excludes'
  BY <1>7, <1>12 DEF Excludes
<1>14. EntitiesStay'
  BY <1>7, <1>12 DEF EntitiesStay, Acting, world
<1> QED
  BY <1>5, <1>6, <1>8, <1>9, <1>10, <1>11, <1>13, <1>14

LEMMA AddFindInv ==
  ASSUME IInv, NEW t \in Threads, AddFind(t)
  PROVE  IInv'
<1> USE DEF IInv, Typed, WorldType, CallType
<1>1. call[t] = "add" /\ at[t] = "lock" /\ CanRead(entities_lock) /\ UNCHANGED world
  BY DEF AddFind
<1>2. CASE Lacks(t)
  <2>1. GoOn(t) /\ UNCHANGED <<call, entity, type, found>>
    BY <1>2 DEF AddFind
  <2>2. at' = [at EXCEPT ![t] = "change"]
    BY <2>1 DEF GoOn, Goto
  <2>3. Slots(lookups[entity[t]], type[t]) = {}
    BY <1>2, TypeFound DEF Lacks
  <2>4. Said(t)'
    BY <1>1, <2>1, <2>2, <2>3 DEF Said, Slots, Sending, world
  <2>5. Found'
    BY <1>1, <2>1, <2>2 DEF Found, World
  <2> QED
    BY <1>1, <1>2, <2>1, <2>4, <2>5, GoOnStep DEF Lacks
<1>3. CASE ~Lacks(t)
  <2>1. Return(t) /\ UNCHANGED <<entities_lock, overlapped>>
    BY <1>3 DEF AddFind
  <2>2. LockLeft(t)
    BY <1>1, <2>1 DEF LockLeft, Holds, Reading
  <2> QED
    BY <1>1, <2>1, <2>2, ReturnStep
<1> QED
  BY <1>2, <1>3

LEMMA RemoveFindInv ==
  ASSUME IInv, NEW t \in Threads, RemoveFind(t)
  PROVE  IInv'
<1> USE DEF IInv, Typed, WorldType, CallType
<1>1. call[t] = "remove" /\ at[t] = "lock" /\ CanRead(entities_lock) /\ UNCHANGED world
  BY DEF RemoveFind
<1>2. CASE Has(t)
  <2> DEFINE e0 == entity[t]
             i == Find(e0, type[t])
  <2>1. /\ GoOn(t) /\ UNCHANGED <<call, entity, type>>
        /\ found' = [found EXCEPT ![t] = lookups[e0][i]]
    BY <1>2 DEF RemoveFind
  <2>2. at' = [at EXCEPT ![t] = "change"] /\ overlapped \subseteq overlapped'
    BY <2>1 DEF GoOn, Goto
  <2>3. i \in Slots(lookups[e0], type[t]) /\ e0 \in live
    BY <1>2, TypeFound DEF Has
  <2>4. i \in DOMAIN lookups[e0] /\ lookups[e0][i][2] = type[t] /\ lookups[e0] \in Seq(Components)
    BY <2>3 DEF Slots
  <2>5. found'[t] = lookups[e0][i] /\ lookups[e0][i] \in Components /\ lookups[e0][i][1] = e0
    BY <2>1, <2>4 DEF World, Homes
  <2>6. /\ found' \in [Threads -> Components]
        /\ \A u \in Threads \ {t} : found'[u] = found[u]
    BY <2>1, <2>5
  <2>7. Found'
    <3>1. found'[t][1] = e0 /\ found'[t][2] = type[t]
      BY <2>4, <2>5
    <3>2. \A u \in Threads \ {t} : found'[u] = found[u] /\ at'[u] = at[u]
      BY <2>2, <2>6
    <3> QED
      BY <2>1, <3>1, <3>2 DEF Found, World
  <2>8. Said(t)'
    <3>1. ~Overlapped(e0, {type[t]}) => Items(lookups[e0], type[t]) \subseteq {found'[t]}
      <4>1. ~Overlapped(e0, {type[t]}) => Single(lookups[e0], type[t])
        BY DEF World, Owns, Owned
      <4> QED
        BY <2>3, <2>5, <4>1 DEF Single, Items
    <3>2. Overlapped(e0, {type[t]}) => Overlapped(e0, {type[t]})'
      BY ONLY <2>1, <2>2 DEF Overlapped
    <3>3. /\ call'[t] = "remove" /\ at'[t] = "change" /\ lookups' = lookups
          /\ entity' = entity /\ type' = type
      BY <1>1, <2>1, <2>2 DEF world
    <3> QED
      BY ONLY <3>1, <3>2, <3>3 DEF Said, Sending, Slots, Items
  <2> QED
    BY <1>1, <2>1, <2>3, <2>6, <2>7, <2>8, GoOnStep
<1>3. CASE ~Has(t)
  <2>1. Return(t) /\ UNCHANGED <<entities_lock, overlapped>>
    BY <1>3 DEF RemoveFind
  <2>2. LockLeft(t)
    BY <1>1, <2>1 DEF LockLeft, Holds, Reading
  <2> QED
    BY <1>1, <2>1, <2>2, ReturnStep
<1> QED
  BY <1>2, <1>3

\* The step of t changes the lookups of its type that its entity has, and no others.
Touches(t) ==
    /\ \A e \in Entities \ {entity[t]} : lookups'[e] = lookups[e]
    /\ \A c \in Types \ {type[t]} :
         /\ Items(lookups'[entity[t]], c) = Items(lookups[entity[t]], c)
         /\ Slots(lookups'[entity[t]], c) = {} <=> Slots(lookups[entity[t]], c) = {}
         /\ Single(lookups[entity[t]], c) => Single(lookups'[entity[t]], c)

\* What others found stays so, unless they overlap; two that remove may.
LEMMA OthersSaid ==
  ASSUME IInv, NEW t \in Threads, NEW u \in Threads, u # t, Touches(t), OthersKept(t),
         UNCHANGED overlapped, Changing(t),
         call[t] = "remove" =>
           /\ Items(lookups'[entity[t]], type[t]) \subseteq Items(lookups[entity[t]], type[t])
           /\ Slots(lookups[entity[t]], type[t]) = {} =>
                Slots(lookups'[entity[t]], type[t]) = {}
  PROVE  Said(u)'
<1> DEFINE e == entity[u]
           c == type[u]
<1>1. /\ call'[u] = call[u] /\ at'[u] = at[u] /\ entity'[u] = entity[u]
      /\ type'[u] = type[u] /\ found'[u] = found[u] /\ overlapped' = overlapped
      /\ Sending(u)' <=> Sending(u)
  BY DEF OthersKept, Sending
<1>2. Said(u) /\ e \in Entities /\ c \in Types
  BY DEF IInv, World, Typed, CallType
<1>3. CASE e # entity[t] \/ c # type[t]
  <2>1. /\ Items(lookups'[e], c) = Items(lookups[e], c)
        /\ Slots(lookups'[e], c) = {} <=> Slots(lookups[e], c) = {}
    BY <1>2, <1>3 DEF Touches
  <2> QED
    BY ONLY <1>1, <1>2, <2>1 DEF Said, Overlapped, Slots, Items
<1>4. CASE e = entity[t] /\ c = type[t] /\ call[u] = "add" /\ Acting(u)
  <2>1. Overlapped(entity[t], {c})
    BY <1>4, Together DEF Changing, IInv, World
  <2> QED
    BY ONLY <1>1, <1>4, <2>1 DEF Said, Overlapped
<1>5. CASE e = entity[t] /\ c = type[t] /\ call[u] = "remove" /\ Acting(u)
  <2>1. CASE call[t] = "add"
    <3>1. Overlapped(entity[t], {c})
      BY <1>5, <2>1, Together DEF Changing, IInv, World
    <3> QED
      BY ONLY <1>1, <1>5, <3>1 DEF Said, Overlapped
  <2>2. CASE call[t] = "remove"
    <3>1. /\ Items(lookups'[e], c) \subseteq Items(lookups[e], c)
          /\ Slots(lookups[e], c) = {} => Slots(lookups'[e], c) = {}
      BY <1>5, <2>2
    <3> QED
      BY ONLY <1>1, <1>2, <1>5, <3>1 DEF Said, Overlapped, Slots, Items
  <2> QED
    BY <2>1, <2>2 DEF Changing
<1>6. CASE ~(call[u] \in {"add", "remove"} /\ Acting(u))
  BY ONLY <1>1, <1>6 DEF Said, Sending, Acting
<1> QED
  BY <1>3, <1>4, <1>5, <1>6

LEMMA AddComponentInv ==
  ASSUME IInv, NEW t \in Threads, AddComponent(t)
  PROVE  IInv'
<1> USE DEF IInv, World, Typed, WorldType, CallType
<1> DEFINE e0 == entity[t]
           c0 == type[t]
           s == lookups[e0]
           x == NewComponent(e0, c0)
<1>1. /\ call[t] = "add" /\ at[t] = "change" /\ at' = [at EXCEPT ![t] = "send"]
      /\ components' = components \cup {x}
      /\ lookups' = [lookups EXCEPT ![e0] = Append(s, x)]
      /\ UNCHANGED <<live, created, entities_lock, call, entity, type, found, overlapped>>
  BY DEF AddComponent, Send, Goto, history
<1>2. e0 \in Entities /\ c0 \in Types /\ s \in Seq(Components) /\ Reading(t) /\ e0 \in live
  BY <1>1 DEF Reading, EntitiesStay
<1>3. x \in Components /\ x[1] = e0 /\ x[2] = c0
  BY <1>2, NewComponentTyped
<1> DEFINE r == Append(s, x)
<1> HIDE DEF x
<1>4. lookups'[e0] = r /\ \A e \in Entities \ {e0} : lookups'[e] = lookups[e]
  BY <1>1, <1>2
<1>18. ASSUME NEW c, c0 # c
       PROVE  /\ Items(r, c) = Items(s, c)
              /\ Slots(r, c) = {} <=> Slots(s, c) = {}
              /\ Single(s, c) => Single(r, c)
  BY ONLY <1>2, <1>3, <1>18, AppendSlots
<1>16. /\ Slots(r, c0) # {}
       /\ Slots(s, c0) = {} => Single(r, c0) /\ Items(r, c0) = {x}
  <2> HIDE DEF c0, s
  <2>1. Slots(r, c0) # {}
    BY ONLY <1>2, <1>3, AppendSlots
  <2>2. Slots(s, c0) = {} => Single(r, c0) /\ Items(r, c0) = {x}
    BY ONLY <1>2, <1>3, AppendSlots
  <2> QED
    BY ONLY <2>1, <2>2
<1>17. /\ r \in Seq(Components)
       /\ \A i \in DOMAIN r : r[i] = x \/ (i \in DOMAIN s /\ r[i] = s[i])
  BY ONLY <1>2, <1>3, AppendSlots
<1> HIDE DEF r
<1>5. Touches(t)
  BY ONLY <1>4, <1>18 DEF Touches
<1>6. Typed'
  <2>1. IsFiniteSet(components')
    BY <1>1, FS_AddElement
  <2>2. lookups' \in [Entities -> Seq(Components)]
    BY <1>1, <1>17 DEF r
  <2>3. components' \subseteq Components
    BY <1>1, <1>3
  <2> QED
    BY <1>1, <2>1, <2>2, <2>3
<1>7. Enough' /\ Given'
  BY <1>1 DEF Enough, Creating, Given
<1>8. Unused'
  <2>1. e0 \in created
    BY <1>2
  <2> QED
    BY <1>1, <1>4, <2>1 DEF Unused
<1>9. Homes'
  <2> SUFFICES ASSUME NEW e \in Entities, NEW i \in DOMAIN lookups'[e]
               PROVE  lookups'[e][i][1] = e
    BY DEF Homes
  <2>1. CASE e = e0
    <3>1. r[i] = x \/ (i \in DOMAIN s /\ r[i] = s[i])
      BY <1>4, <1>17, <2>1
    <3>2. i \in DOMAIN s => s[i][1] = e0
      BY <1>2 DEF Homes
    <3> QED
      BY ONLY <1>3, <1>4, <2>1, <3>1, <3>2
  <2>2. CASE e # e0
    BY <1>4, <2>2 DEF Homes
  <2> QED
    BY <2>1, <2>2
<1>10. /\ \A u \in Threads : /\ Acting(u)' <=> Acting(u)
                             /\ Reading(u)' <=> Reading(u)
       /\ \A u \in Threads \ {t} : at'[u] = at[u]
       /\ at'[t] = "send" /\ Sending(t)'
  BY <1>1 DEF Acting, Reading, Sending
<1>11. Apart'
  BY <1>1, <1>10 DEF Apart, Changing
<1>12. Found'
  BY <1>1, <1>10 DEF Found
<1>13. Holds' /\ Excludes' /\ EntitiesStay'
  BY <1>1, <1>10 DEF Holds, Excludes, EntitiesStay, Acting
<1>14. ASSUME NEW u \in Threads
       PROVE  Said(u)'
  <2>1. CASE u = t
    <3>1. Slots(lookups'[e0], c0) # {}
      BY <1>4, <1>16
    <3> QED
      BY ONLY <1>1, <1>10, <2>1, <3>1 DEF Said, Slots
  <2>2. CASE u # t
    <3>1. OthersKept(t)
      BY <1>1, <1>10 DEF OthersKept
    <3>2. Changing(t)
      BY <1>1 DEF Changing, Acting
    <3> QED
      BY <1>1, <1>5, <2>2, <3>1, <3>2, OthersSaid
  <2> QED
    BY <2>1, <2>2
<1>15. Owns'
  <2> SUFFICES ASSUME NEW e \in Entities, NEW c \in Types, ~Overlapped(e, {c})'
               PROVE  Owned(e, c)'
    BY DEF Owns
  <2>1. Owned(e, c) /\ ~Overlapped(e, {c})
    BY <1>1 DEF Owns, Overlapped
  <2>2. CASE e # e0 \/ c # c0
    <3>1. {y \in components' : y[1] = e /\ y[2] = c} = {y \in components : y[1] = e /\ y[2] = c}
      BY <1>1, <1>3, <2>2
    <3>2. /\ Items(lookups'[e], c) = Items(lookups[e], c)
          /\ Slots(lookups'[e], c) = {} <=> Slots(lookups[e], c) = {}
          /\ Single(lookups[e], c) => Single(lookups'[e], c)
      BY <1>5, <2>2 DEF Touches
    <3> QED
      BY ONLY <1>1, <2>1, <3>1, <3>2 DEF Owned, Slots, Items, Single
  <2>3. CASE e = e0 /\ c = c0
    <3>1. Slots(s, c) = {}
      BY <1>1, <2>1, <2>3 DEF Said
    <3>2. Items(s, c) = {}
      BY ONLY <3>1 DEF Items
    <3>3. {y \in components' : y[1] = e /\ y[2] = c} = {x}
      BY <1>1, <1>3, <2>1, <2>3, <3>2 DEF Owned
    <3>4. Single(lookups'[e], c) /\ Items(lookups'[e], c) = {x}
      BY <1>4, <1>16, <2>3, <3>1
    <3>5. e \in live'
      BY <1>1, <1>2, <2>3
    <3> QED
      BY ONLY <3>3, <3>4, <3>5 DEF Owned, Slots, Items, Single
  <2> QED
    BY <2>2, <2>3
<1> QED
  BY <1>6, <1>7, <1>8, <1>9, <1>11, <1>12, <1>13, <1>14, <1>15

\* What entity_remove_component does to the lookups of each type.
LEMMA WithoutSlots ==
  ASSUME Typed, NEW e \in Entities, NEW d \in Types, NEW c
  PROVE  /\ LookupsWithout(e, d) \in Seq(Components)
         /\ c # d => Items(LookupsWithout(e, d), c) = Items(lookups[e], c)
         /\ c # d => (Slots(LookupsWithout(e, d), c) = {} <=> Slots(lookups[e], c) = {})
         /\ Single(lookups[e], c) => Single(LookupsWithout(e, d), c)
         /\ Single(lookups[e], d) => Slots(LookupsWithout(e, d), d) = {}
         /\ Slots(lookups[e], d) = {} => Slots(LookupsWithout(e, d), d) = {}
         /\ Items(LookupsWithout(e, d), c) \subseteq Items(lookups[e], c)
         /\ \A k \in DOMAIN LookupsWithout(e, d) :
              \E m \in DOMAIN lookups[e] : LookupsWithout(e, d)[k] = lookups[e][m]
<1>1. lookups[e] \in Seq(Components)
  BY DEF Typed, WorldType
<1>2. CASE Find(e, d) = 0
  BY <1>1, <1>2, TypeFound DEF LookupsWithout
<1>3. CASE Find(e, d) # 0
  <2> DEFINE s == lookups[e]
             i == Find(e, d)
             r == LookupsWithout(e, d)
  <2>1. r = ArrayRemoveAt(s, i)
    BY <1>3 DEF LookupsWithout
  <2>2. i \in DOMAIN s /\ s[i][2] = d /\ Slots(s, d) # {}
    BY <1>3, TypeFound DEF Slots
  <2> HIDE DEF r, i
  <2>3. /\ r \in Seq(Components)
        /\ s[i][2] # c => Items(r, c) = Items(s, c)
        /\ s[i][2] # c => (Slots(r, c) = {} <=> Slots(s, c) = {})
        /\ Single(s, c) => Single(r, c)
        /\ Items(r, c) \subseteq Items(s, c)
        /\ \A k \in DOMAIN r : \E m \in DOMAIN s : r[k] = s[m]
    BY ONLY <1>1, <2>1, <2>2, RemoveSlots
  <2>4. Single(s, d) => Slots(r, d) = {}
    BY <1>1, <2>1, <2>2, RemoveSlots
  <2> QED
    BY <2>2, <2>3, <2>4 DEF r
<1> QED
  BY <1>2, <1>3

LEMMA RemoveComponentInv ==
  ASSUME IInv, NEW t \in Threads, RemoveComponent(t)
  PROVE  IInv'
<1> USE DEF IInv, World, Typed, WorldType, CallType
<1> DEFINE e0 == entity[t]
           c0 == type[t]
           s == lookups[e0]
           f == found[t]
<1>1. /\ call[t] = "remove" /\ at[t] = "change"
      /\ UNCHANGED <<live, created, call, entity, type, overlapped>>
  BY DEF RemoveComponent, history
<1>2. /\ e0 \in Entities /\ c0 \in Types /\ s \in Seq(Components) /\ Reading(t)
      /\ f[1] = e0 /\ f[2] = c0
  BY <1>1 DEF Reading, Found
<1>3. Enough' /\ Given'
  BY <1>1 DEF Enough, Creating, Given
<1>4. CASE f \notin components
  <2>1. /\ at' = [at EXCEPT ![t] = "undefined"]
        /\ UNCHANGED <<lookups, components, found, entities_lock>>
    BY <1>4 DEF RemoveComponent, Undefined, Goto
  <2>2. Typed' /\ Unused' /\ Homes'
    BY <1>1, <2>1 DEF Unused, Homes
  <2>3. \A u \in Threads : /\ Acting(u)' <=> Acting(u)
                           /\ Reading(u)' <=> Reading(u)
                           /\ Sending(u)' <=> Sending(u)
                           /\ u # t => at'[u] = at[u]
    BY <1>1, <2>1 DEF Acting, Reading, Sending
  <2>4. at'[t] = "undefined"
    BY <2>1
  <2>5. Owns'
    BY ONLY <1>1, <2>1, Owns DEF Owns, Owned, Overlapped, Slots, Items, Single
  <2>6. Apart' /\ Found'
    BY <1>1, <2>1, <2>3, <2>4 DEF Apart, Changing, Found
  <2>7. Holds' /\ Excludes' /\ EntitiesStay'
    BY <1>1, <2>1, <2>3 DEF Holds, Excludes, EntitiesStay, Acting
  <2>8. ASSUME NEW u \in Threads
        PROVE  Said(u)'
    <3>1. /\ lookups' = lookups /\ overlapped' = overlapped /\ entity' = entity
          /\ type' = type /\ call' = call /\ found' = found
          /\ Sending(u)' <=> Sending(u)
          /\ at'[u] = "change" => at[u] = "change"
      BY <1>1, <2>1, <2>3, <2>4
    <3>2. Said(u)
      OBVIOUS
    <3> QED
      BY ONLY <3>1, <3>2 DEF Said, Overlapped, Slots, Items
  <2> QED
    BY <1>3, <2>2, <2>5, <2>6, <2>7, <2>8
<1>5. CASE f \in components
  <2> DEFINE r == LookupsWithout(e0, c0)
  <2>1. /\ at' = [at EXCEPT ![t] = "send"] /\ lookups' = [lookups EXCEPT ![e0] = r]
        /\ components' = components \ {f} /\ found' = [found EXCEPT ![t] = AnyComponent]
        /\ entities_lock' = ReadUnlocked(entities_lock, t)
    BY <1>5 DEF RemoveComponent, Send, Goto
  <2> HIDE DEF r
  <2>2. /\ entities_lock' \in LockType /\ entities_lock'.writing = entities_lock.writing
        /\ entities_lock'.reading =
             [entities_lock.reading EXCEPT ![t] = entities_lock.reading[t] - 1]
    <3>1. entities_lock \in LockType
      OBVIOUS
    <3> QED
      BY ONLY <2>1, <3>1 DEF ReadUnlocked, LockType
  <2>3. lookups'[e0] = r /\ \A e \in Entities \ {e0} : lookups'[e] = lookups[e]
    BY <1>2, <2>1
  <2>4. r \in Seq(Components) /\ \A k \in DOMAIN r : \E m \in DOMAIN s : r[k] = s[m]
    BY <1>2, WithoutSlots DEF r
  <2>5. Touches(t)
    <3>1. ASSUME NEW c
          PROVE  c0 # c =>
                   /\ Items(r, c) = Items(s, c)
                   /\ Slots(r, c) = {} <=> Slots(s, c) = {}
                   /\ Single(s, c) => Single(r, c)
      <4>1. Typed /\ e0 \in Entities /\ c0 \in Types
        BY <1>2
      <4> QED
        BY ONLY <4>1, WithoutSlots DEF r
    <3> QED
      BY ONLY <2>3, <3>1 DEF Touches
  <2>6. Typed'
    <3>1. IsFiniteSet(components')
      BY <2>1, FS_RemoveElement
    <3> QED
      BY <1>1, <2>1, <2>2, <2>4, <3>1, AnyTyped
  <2>7. Unused'
    <3>1. e0 \in created
      BY <1>1 DEF Given
    <3> QED
      BY <1>1, <2>3, <3>1 DEF Unused
  <2>8. Homes'
    <3> SUFFICES ASSUME NEW e \in Entities, NEW i \in DOMAIN lookups'[e]
                 PROVE  lookups'[e][i][1] = e
      BY DEF Homes
    <3>1. CASE e = e0
      BY <1>2, <2>3, <2>4, <3>1 DEF Homes
    <3>2. CASE e # e0
      BY <2>3, <3>2 DEF Homes
    <3> QED
      BY <3>1, <3>2
  <2>9. OthersKept(t)
    BY <1>1, <2>1 DEF OthersKept
  <2>10. at'[t] = "send" /\ Acting(t)' /\ ~Reading(t)' /\ Acting(t)
    BY <1>1, <2>1 DEF Acting, Reading
  <2>11. \A u \in Threads : /\ Acting(u)' <=> Acting(u)
                            /\ u # t => (Reading(u)' <=> Reading(u)) /\ at'[u] = at[u]
    BY <1>1, <2>9, <2>10 DEF Acting, Reading, OthersKept
  <2>12. Apart'
    BY <1>1, <2>11 DEF Apart, Changing
  <2>13. Found'
    BY <1>1, <2>9, <2>10 DEF Found, OthersKept
  <2>14. Holds'
    <3>1. entities_lock.reading[t] = 1
      BY <1>2 DEF Holds
    <3> QED
      BY <2>2, <2>10, <2>11, <3>1 DEF Holds, LockType
  <2>15. Excludes'
    BY <1>1, <2>2, <2>11 DEF Excludes
  <2>16. EntitiesStay'
    <3>1. \A u \in Threads : Reading(u)' => Reading(u)
      BY <2>10, <2>11
    <3>2. \A u \in Threads : call[u] = "destroy" => at'[u] = at[u]
      BY <1>1, <2>11
    <3> QED
      BY <1>1, <3>1, <3>2 DEF EntitiesStay
  <2>17. ASSUME NEW u \in Threads
         PROVE  Said(u)'
    <3>1. CASE u = t
      <4>1. ~Overlapped(e0, {c0}) => Slots(r, c0) = {}
        BY <1>2, WithoutSlots DEF Owns, Owned, r
      <4> QED
        BY ONLY <1>1, <2>3, <2>10, <3>1, <4>1 DEF Said, Overlapped, Slots
    <3>2. CASE u # t
      <4>1. Changing(t)
        BY <1>1 DEF Changing, Acting
      <4>2. Items(r, c0) \subseteq Items(s, c0) /\ (Slots(s, c0) = {} => Slots(r, c0) = {})
        BY <1>2, WithoutSlots DEF r
      <4> QED
        BY <1>1, <2>3, <2>5, <2>9, <3>2, <4>1, <4>2, OthersSaid
    <3> QED
      BY <3>1, <3>2
  <2>18. Owns'
    <3> SUFFICES ASSUME NEW e \in Entities, NEW c \in Types, ~Overlapped(e, {c})'
                 PROVE  Owned(e, c)'
      BY DEF Owns
    <3>1. Owned(e, c) /\ ~Overlapped(e, {c})
      BY <1>1 DEF Owns, Overlapped
    <3>2. CASE e # e0 \/ c # c0
      <4>1. {y \in components' : y[1] = e /\ y[2] = c}
              = {y \in components : y[1] = e /\ y[2] = c}
        BY <1>2, <2>1, <3>2
      <4>2. /\ Items(lookups'[e], c) = Items(lookups[e], c)
            /\ Slots(lookups'[e], c) = {} <=> Slots(lookups[e], c) = {}
            /\ Single(lookups[e], c) => Single(lookups'[e], c)
        BY <2>5, <3>2 DEF Touches
      <4> QED
        BY ONLY <1>1, <3>1, <4>1, <4>2 DEF Owned, Slots, Items, Single
    <3>3. CASE e = e0 /\ c = c0
      <4>1. Items(s, c) \subseteq {f}
        BY <1>1, <3>1, <3>3 DEF Said
      <4>2. Slots(r, c) = {}
        BY <1>2, <3>1, <3>3, WithoutSlots DEF Owned, r
      <4>3. {y \in components' : y[1] = e /\ y[2] = c} = {}
        BY <2>1, <3>1, <3>3, <4>1 DEF Owned
      <4>4. Slots(lookups'[e], c) = {} /\ Items(lookups'[e], c) = {}
        BY <2>3, <3>3, <4>2 DEF Items
      <4> QED
        BY ONLY <4>3, <4>4 DEF Owned, Slots, Items, Single
    <3> QED
      BY <3>2, <3>3
  <2> QED
    BY <1>3, <2>6, <2>7, <2>8, <2>12, <2>13, <2>14, <2>15, <2>16, <2>17, <2>18
<1> QED
  BY <1>4, <1>5

-----------------------------------------------------------------------------

LEMMA NextInv == IInv /\ [Next]_vars => IInv'
<1> SUFFICES ASSUME IInv, [Next]_vars
             PROVE  IInv'
  OBVIOUS
<1>1. ASSUME NEW t \in Threads, Call(t)
      PROVE  IInv'
  BY <1>1, BeginInv
<1>2. ASSUME NEW t \in Threads, Step(t)
      PROVE  IInv'
  BY <1>2, QueueInv, CreateInv, DestroyInv, AddFindInv, AddComponentInv, RemoveFindInv,
     RemoveComponentInv, SendInv, FinishInv DEF Step
<1>3. CASE UpdateSystems
  BY <1>3, OtherStep DEF UpdateSystems, caller, history
<1>4. CASE UpdateStep
  BY <1>4, OtherStep DEF UpdateStep, Process, SetUpdating, LockHandles, SetIdle, caller, history
<1>5. CASE UpdateFuncReturns
  BY <1>5, OtherStep DEF UpdateFuncReturns, caller, history
<1>6. CASE UNCHANGED vars
  BY <1>6, OtherStep DEF vars, caller, history
<1> QED
  BY <1>1, <1>2, <1>3, <1>4, <1>5, <1>6 DEF Next

\* All of it holds in every state of every behaviour.
THEOREM Invariance == Spec => []IInv
BY InitInv, NextInv, PTL DEF Spec

\* A component exists as long as an entity that exists has a lookup of it, and an entity
\* has one of a type at most, whatever threads add, remove and destroy, unless two calls
\* overlapped for this type of this entity.
THEOREM ComponentsCorrect == Spec => []ComponentsOwned
<1>1. ASSUME IInv
      PROVE  ComponentsOwned
  <2> SUFFICES ASSUME NEW e \in Entities, NEW c \in Types, ~Overlapped(e, {c})
               PROVE  LET owned == {x \in Range(lookups[e]) : x[2] = c}
                      IN  /\ {x \in components : x[1] = e /\ x[2] = c} = owned
                          /\ owned # {} => e \in live
                          /\ Cardinality(owned) <= 1
    BY DEF ComponentsOwned
  <2> DEFINE owned == {x \in Range(lookups[e]) : x[2] = c}
  <2>1. Owned(e, c)
    BY <1>1 DEF IInv, World, Owns
  <2>2. owned = Items(lookups[e], c)
    BY DEF Range, Items, Slots
  <2>3. CASE Slots(lookups[e], c) = {}
    <3>1. owned = {}
      BY <2>2, <2>3 DEF Items
    <3>2. Cardinality(owned) = 0
      BY <3>1, FS_EmptySet
    <3> QED
      BY <2>1, <2>2, <3>1, <3>2 DEF Owned
  <2>4. CASE Slots(lookups[e], c) # {}
    <3>1. PICK i \in Slots(lookups[e], c) : TRUE
      BY <2>4
    <3>2. owned = {lookups[e][i]}
      BY <2>1, <2>2, <3>1 DEF Owned, Single, Items
    <3>3. Cardinality(owned) = 1
      BY <3>2, FS_Singleton
    <3> QED
      BY <2>1, <2>2, <2>4, <3>3 DEF Owned
  <2> QED
    BY <2>3, <2>4
<1> QED
  BY <1>1, Invariance, PTL

\* Whatever calls overlap, an entity that a call has found lives until the call has
\* changed its components and, adding one, told the systems; and who destroys an entity
\* tells them when it is gone and nobody is in such a call.
THEOREM EntitiesStayCorrect == Spec => []EntitiesStay
<1>1. IInv => EntitiesStay
  BY DEF IInv
<1> QED
  BY <1>1, Invariance, PTL

-----------------------------------------------------------------------------
(* Who waits for whom.                                                       *)

\* A writer has the entities lock from when it destroyed an entity until its event
\* is sent, and is queued only while it waits for the lock.
Writers ==
    /\ \A t \in entities_lock.writing : call[t] = "destroy" /\ Acting(t)
    /\ \A t \in entities_lock.queued : WantsWrite(t)

InSystem == update.phase \in {"lock", "update_func", "unlocked"}

\* A system that is being updated says so, and Main calls nothing else meanwhile but
\* in the update function, nor does it wait for the list of the system it is in.
Updating ==
    /\ state \in [Systems -> {"idle", "updating"}]
    /\ update \in [phase : {"none", "process", "start", "lock", "update_func", "unlocked",
                            "process_again"},
                   system : DOMAIN SystemOrder, entity : Nat \ {0}]
    /\ InSystem => state[System] = "updating"
    /\ update.phase \notin {"none", "update_func"} => at[Main] = "idle"
    /\ at[Main] = "direct" => ~HandlesLocked(observer[Main])
    /\ observer \in [Threads -> Systems]

Waiting == IInv /\ Writers /\ Updating

LEMMA SystemsTyped ==
  /\ DOMAIN SystemOrder = 1 .. Len(SystemOrder) /\ Len(SystemOrder) \in Nat \ {0}
  /\ 1 \in DOMAIN SystemOrder
  /\ \A i \in DOMAIN SystemOrder : SystemOrder[i] \in Systems
  /\ AnySystem \in Systems
<1>1. SystemOrder \in Seq(Systems) /\ SystemOrder # <<>>
  BY EcsWorldAssumption
<1>2. DOMAIN SystemOrder = 1 .. Len(SystemOrder) /\ Len(SystemOrder) \in Nat \ {0}
  BY <1>1
<1>3. 1 \in DOMAIN SystemOrder
  BY <1>2
<1>4. \A i \in DOMAIN SystemOrder : SystemOrder[i] \in Systems
  BY DEF Systems
<1> QED
  BY <1>2, <1>3, <1>4 DEF AnySystem

LEMMA InitWaiting == Init => Waiting
<1> SUFFICES ASSUME Init
             PROVE  Writers /\ Updating
  BY InitInv DEF Waiting
<1>1. Writers
  BY DEF Init, Writers, FreshLock
<1>2. Updating
  BY SystemsTyped, EcsWorldAssumption DEF Init, Updating, InSystem
<1> QED
  BY <1>1, <1>2

\* What a thread does leaves the others where they were.
LEMMA OnlyItself ==
  ASSUME Waiting, NEW t \in Threads, Call(t) \/ Step(t)
  PROVE  /\ update' = update /\ state' = state
         /\ \A u \in Threads \ {t} :
              at'[u] = at[u] /\ call'[u] = call[u] /\ observer'[u] = observer[u]
<1> USE DEF Waiting, IInv, Typed, CallType, Updating
<1>1. CASE Call(t)
  BY <1>1 DEF Call, Begin, system
<1>2. CASE Queue(t)
  BY <1>2 DEF Queue, system, caller
<1>3. CASE CreateEntity(t) \/ DestroyEntity(t)
  BY <1>3 DEF CreateEntity, DestroyEntity, Return, Send, Goto, Undefined, system
<1>4. CASE AddComponent(t) \/ RemoveComponent(t)
  BY <1>4 DEF AddComponent, RemoveComponent, Send, Goto, Undefined, system
<1>5. CASE AddFind(t) \/ RemoveFind(t)
  BY <1>5 DEF AddFind, RemoveFind, GoOn, Return, Goto, system
<1>6. CASE \E s \in Systems : AddQualify(t, s) \/ RemoveSend(t, s)
  BY <1>6 DEF AddQualify, RemoveSend, Callback, Goto, system
<1>7. CASE ReadState(t) \/ QueueCommand(t) \/ Direct(t)
  BY <1>7 DEF ReadState, QueueCommand, Direct, Delivered, Goto, system
<1>8. CASE Finish(t)
  BY <1>8 DEF Finish, Return, Goto, system
<1> QED
  BY <1>1, <1>2, <1>3, <1>4, <1>5, <1>6, <1>7, <1>8 DEF Step

\* Where a thread gets to, and with whom it is concerned there.
LEMMA Itself ==
  ASSUME Waiting, NEW t \in Threads, Call(t) \/ Step(t)
  PROVE  /\ observer' \in [Threads -> Systems]
         /\ at'[t] = "direct" => state[observer'[t]] # "updating"
         /\ at'[t] = "command" => state[observer'[t]] = "updating"
         /\ at[t] = "idle" => t \in threads
         /\ at[t] = "idle" => t # Main \/ update.phase \in {"none", "update_func"}
<1> USE SystemsTyped DEF Waiting, IInv, Typed, CallType, Updating
<1>1. CASE Call(t)
  BY <1>1 DEF Call, Begin, MayCall
<1>2. CASE Queue(t)
  BY <1>2 DEF Queue, caller, WantsWrite
<1>3. CASE CreateEntity(t) \/ DestroyEntity(t)
  BY <1>3 DEF CreateEntity, DestroyEntity, Return, Send, Goto, Undefined
<1>4. CASE AddComponent(t) \/ RemoveComponent(t)
  BY <1>4 DEF AddComponent, RemoveComponent, Send, Goto, Undefined
<1>9. CASE AddFind(t) \/ RemoveFind(t)
  BY <1>9 DEF AddFind, RemoveFind, GoOn, Return, Goto
<1>5. ASSUME NEW s \in Systems, AddQualify(t, s) \/ RemoveSend(t, s)
      PROVE  /\ observer' \in [Threads -> Systems]
             /\ at'[t] = "direct" => state[observer'[t]] # "updating"
             /\ at'[t] = "command" => state[observer'[t]] = "updating"
             /\ at[t] = "idle" => t \in threads
             /\ at[t] = "idle" => t # Main \/ update.phase \in {"none", "update_func"}
  <2>1. CASE AddQualify(t, s)
    <3>1. at[t] = "send"
      BY <2>1 DEF AddQualify
    <3>2. CASE HasComponents(entity[t], Required[s])
      <4>1. /\ at' = [at EXCEPT ![t] = "state"]
            /\ observer' = [observer EXCEPT ![t] = s]
        BY <2>1, <3>2 DEF AddQualify, Callback, Goto
      <4>2. observer \in [Threads -> Systems] /\ at'[t] = "state"
        BY <4>1
      <4>3. observer' \in [Threads -> Systems]
        BY <1>5, <4>1, <4>2
      <4> QED
        BY <3>1, <4>2, <4>3
    <3>3. CASE ~HasComponents(entity[t], Required[s])
      BY <2>1, <3>1, <3>3 DEF AddQualify
    <3> QED
      BY <3>2, <3>3
  <2>2. CASE RemoveSend(t, s)
    BY <1>5, <2>2 DEF RemoveSend, Goto, Delivery
  <2> QED
    BY <1>5, <2>1, <2>2
<1>6. CASE ReadState(t)
  <2>1. /\ at[t] = "state" /\ observer' = observer
        /\ at' = [at EXCEPT ![t] = IF state[observer[t]] = "updating" THEN "command" ELSE "direct"]
    BY <1>6 DEF ReadState, Goto, Delivery
  <2> QED
    BY <2>1
<1>7. CASE QueueCommand(t) \/ Direct(t)
  <2>1. /\ at[t] # "idle" /\ observer' = [observer EXCEPT ![t] = AnySystem]
        /\ at' = [at EXCEPT ![t] = "send"]
    BY <1>7 DEF QueueCommand, Direct, Delivered, Goto
  <2> QED
    BY <2>1
<1>8. CASE Finish(t)
  BY <1>8 DEF Finish, Return, Goto
<1> QED
  BY <1>1, <1>2, <1>3, <1>4, <1>5, <1>6, <1>7, <1>8, <1>9 DEF Step

LEMMA UpdatingKept ==
  ASSUME Waiting, [Next]_vars
  PROVE  Updating'
<1> USE DEF Updating, InSystem, System
<1>1. ASSUME NEW t \in Threads, Call(t) \/ Step(t)
      PROVE  Updating'
  <2>1. /\ update' = update /\ state' = state /\ observer' \in [Threads -> Systems]
        /\ \A u \in Threads \ {t} : at'[u] = at[u] /\ observer'[u] = observer[u]
        /\ at'[t] = "direct" => state[observer'[t]] # "updating"
        /\ at[t] = "idle" => t # Main \/ update.phase \in {"none", "update_func"}
    BY <1>1, OnlyItself, Itself
  <2>2. CASE t # Main
    BY <2>1, <2>2, EcsWorldAssumption DEF Waiting, HandlesLocked
  <2>3. CASE t = Main
    <3>1. update.phase \in {"none", "update_func"}
      BY <1>1, <2>1, <2>3 DEF Waiting
    <3>2. at'[Main] = "direct" => ~HandlesLocked(observer[Main])'
      BY <2>1, <2>3 DEF Waiting, HandlesLocked
    <3> QED
      BY <2>1, <3>1, <3>2 DEF Waiting
  <2> QED
    BY <2>2, <2>3
<1>2. CASE UpdateSystems
  BY <1>2, SystemsTyped DEF Waiting, UpdateSystems, Phase, HandlesLocked, system, caller
<1>3. CASE Process
  BY <1>3, SystemsTyped DEF Waiting, Process, Onward, HandlesLocked, caller
<1>4. CASE SetUpdating
  BY <1>4, SystemsTyped DEF Waiting, SetUpdating, Phase, HandlesLocked, caller
<1>5. CASE LockHandles
  <2>1. /\ update.phase = "lock" /\ at[Main] = "idle" /\ state[System] = "updating"
        /\ UNCHANGED <<state, at, observer>>
    BY <1>5 DEF Waiting, LockHandles, system, caller
  <2>2. PICK p \in {"unlocked", "update_func"} : update' = [update EXCEPT !.phase = p]
    BY <1>5 DEF LockHandles, Phase
  <2>3. update'.phase = p /\ update'.system = update.system /\ update'.entity = update.entity
    BY <2>2 DEF Waiting
  <2> QED
    BY <2>1, <2>2, <2>3 DEF Waiting, HandlesLocked
<1>6. CASE UpdateFuncReturns
  BY <1>6, SystemsTyped DEF Waiting, UpdateFuncReturns, Phase, HandlesLocked, system, caller
<1>7. CASE SetIdle
  BY <1>7, SystemsTyped DEF Waiting, SetIdle, Onward, HandlesLocked, caller
<1>8. CASE UNCHANGED vars
  BY <1>8 DEF Waiting, vars, HandlesLocked, system, caller
<1> QED
  BY <1>1, <1>2, <1>3, <1>4, <1>5, <1>6, <1>7, <1>8 DEF Next, UpdateStep

LEMMA WritersKept ==
  ASSUME Waiting, [Next]_vars
  PROVE  Writers'
<1> USE DEF Waiting, IInv, Typed, CallType, LockType, Writers, Acting, WantsWrite
<1>1. ASSUME NEW t \in Threads, Call(t)
      PROVE  Writers'
  BY <1>1 DEF Call, Begin, MayCall
<1>2. ASSUME NEW t \in Threads, Queue(t)
      PROVE  Writers'
  BY <1>2 DEF Queue, caller
<1>3. ASSUME NEW t \in Threads, CreateEntity(t)
      PROVE  Writers'
  BY <1>3 DEF CreateEntity, Return, Goto, WriteLocked, WriteUnlocked
<1>4. ASSUME NEW t \in Threads, DestroyEntity(t)
      PROVE  Writers'
  BY <1>4 DEF DestroyEntity, Send, Goto, Undefined, WriteLocked
<1>5. ASSUME NEW t \in Threads,
             AddFind(t) \/ AddComponent(t) \/ RemoveFind(t) \/ RemoveComponent(t)
      PROVE  Writers'
  <2>1. /\ entities_lock'.writing = entities_lock.writing
        /\ entities_lock'.queued = entities_lock.queued
    BY <1>5 DEF AddFind, AddComponent, RemoveFind, RemoveComponent, GoOn, ReadLocked,
                ReadUnlocked
  <2>2. t \notin entities_lock.writing /\ t \notin entities_lock.queued
    BY <1>5 DEF AddFind, AddComponent, RemoveFind, RemoveComponent
  <2>3. \A u \in Threads \ {t} : at'[u] = at[u] /\ call'[u] = call[u]
    BY <1>5, OnlyItself DEF Step
  <2> QED
    BY <2>1, <2>2, <2>3
<1>6. ASSUME NEW t \in Threads,
             \/ \E s \in Systems : AddQualify(t, s) \/ RemoveSend(t, s)
             \/ ReadState(t) \/ QueueCommand(t) \/ Direct(t)
      PROVE  Writers'
  <2>1. entities_lock' = entities_lock /\ call' = call
    BY <1>6 DEF AddQualify, RemoveSend, ReadState, QueueCommand, Direct
  <2>2. Acting(t) /\ Acting(t)'
    BY <1>6 DEF AddQualify, RemoveSend, ReadState, QueueCommand, Direct, Callback, Goto,
                Delivery, Delivered
  <2>3. \A u \in Threads \ {t} : at'[u] = at[u]
    BY <1>6, OnlyItself DEF Step
  <2> QED
    BY <2>1, <2>2, <2>3
<1>7. ASSUME NEW t \in Threads, Finish(t)
      PROVE  Writers'
  BY <1>7 DEF Finish, Return, Goto, ReadUnlocked, WriteUnlocked
<1>8. CASE UpdateSystems \/ UpdateStep \/ UpdateFuncReturns
  BY <1>8 DEF UpdateSystems, UpdateStep, Process, SetUpdating, LockHandles, SetIdle,
              UpdateFuncReturns, caller
<1>9. CASE UNCHANGED vars
  BY <1>9 DEF vars, caller
<1> QED
  BY <1>1, <1>2, <1>3, <1>4, <1>5, <1>6, <1>7, <1>8, <1>9 DEF Next, Step

\* Whoever has the entities lock, or waits for it, leads to one that has it while it
\* sends its event.
LEMMA SomebodyHasIt ==
  ASSUME Waiting, \A t \in Threads : Waits(t) \/ at[t] = "idle",
         ~CanWrite(entities_lock) \/ ~CanRead(entities_lock)
  PROVE  \E u \in Threads : Sending(u) /\ call[u] \in {"add", "destroy"}
<1> USE DEF Waiting, IInv, Typed, CallType, LockType
<1>0. \A u \in Threads : Acting(u) => Sending(u)
  BY DEF Acting, Sending, Waits, WantsWrite
<1>1. CASE entities_lock.writing # {}
  BY <1>0, <1>1 DEF Writers
<1>2. CASE Readers(entities_lock) # {}
  <2>1. PICK u \in Threads : Reading(u)
    BY <1>2 DEF Readers, Holds
  <2>2. Acting(u) /\ Sending(u)
    BY <1>0, <2>1 DEF Reading, Acting
  <2> QED
    BY <2>1, <2>2 DEF Reading, Sending
<1>3. CASE entities_lock.queued # {}
  <2>1. PICK q \in Threads : WantsWrite(q)
    BY <1>3 DEF Writers
  <2>2. ~CanWrite(entities_lock)
    BY <2>1 DEF Waits, WantsWrite
  <2> QED
    BY <1>1, <1>2, <2>2 DEF CanWrite
<1> QED
  BY <1>1, <1>2, <1>3 DEF CanWrite, CanRead

LEMMA WaitingKept == Waiting /\ [Next]_vars => Waiting'
BY NextInv, WritersKept, UpdatingKept DEF Waiting

\* In a deadlock somebody asks for the entities lock that has it, or somebody that has
\* it waits for the list of a system whose update function waits for it.
THEOREM DeadlocksCorrect == Spec => []DeadlocksKnown
<1>1. ASSUME Waiting, NEW w \in Threads, Waits(w),
             \A t \in Threads : Waits(t) \/ at[t] = "idle",
             Waits(Main) \/ update.phase = "none", ~ReadsAgain
      PROVE  Crossed
  <2>1. Main \in Threads
    BY EcsWorldAssumption
  <2>2. ASSUME NEW t \in Threads, at[t] = "direct"
        PROVE  Waits(t) /\ Waits(Main) /\ at[Main] # "direct"
    <3>1. Waits(t)
      BY <1>1, <2>2
    <3>2. HandlesLocked(observer[t])
      BY <2>2, <3>1 DEF Waits, WantsWrite
    <3>3. Waits(Main)
      BY <1>1, <3>2 DEF HandlesLocked
    <3>4. at[Main] # "direct"
      BY <1>1, <2>1, <3>3 DEF Waits, WantsWrite, Waiting, Updating
    <3> QED
      BY <3>1, <3>3, <3>4
  <2>3. ASSUME NEW t \in Threads, Waits(t), at[t] # "direct"
        PROVE  ~CanWrite(entities_lock) \/ ~CanRead(entities_lock)
    BY <2>3 DEF Waits
  <2>4. ~CanWrite(entities_lock) \/ ~CanRead(entities_lock)
    BY <1>1, <2>1, <2>2, <2>3
  <2>5. PICK u \in Threads : Sending(u) /\ call[u] \in {"add", "destroy"}
    BY <1>1, <2>4, SomebodyHasIt
  <2>6. Waits(u)
    BY <1>1, <2>5 DEF Sending
  <2>7. at[u] = "direct"
    BY <1>1, <2>5, <2>6 DEF Sending, ReadsAgain, Waits, WantsWrite
  <2>8. Waits(Main) /\ at[Main] # "direct"
    BY <2>2, <2>7
  <2> QED
    BY <2>5, <2>6, <2>7, <2>8 DEF Crossed
<1>2. Waiting => DeadlocksKnown
  BY <1>1 DEF DeadlocksKnown
<1> QED
  BY <1>2, InitWaiting, WaitingKept, PTL DEF Spec

-----------------------------------------------------------------------------
(* Lists and the commands on them.                                           *)

Commands == [op : {"add", "remove"}, entity : Entities]

Positions(s, e) == {i \in DOMAIN s : s[i] = e}

Count(s, e) == Cardinality(Positions(s, e))

LEMMA PositionsFinite ==
  ASSUME NEW S, NEW s \in Seq(S), NEW e
  PROVE  /\ IsFiniteSet(Positions(s, e)) /\ Count(s, e) \in Nat
         /\ Count(s, e) = 0 <=> \A i \in DOMAIN s : s[i] # e
<1>1. IsFiniteSet(1 .. Len(s)) /\ Positions(s, e) \subseteq 1 .. Len(s)
  BY FS_Interval DEF Positions
<1>2. IsFiniteSet(Positions(s, e))
  BY <1>1, FS_Subset
<1>3. Positions(s, e) = {} <=> \A i \in DOMAIN s : s[i] # e
  BY DEF Positions
<1> QED
  BY <1>2, <1>3, FS_CardinalityType, FS_EmptySet DEF Count

LEMMA CountAppend ==
  ASSUME NEW s \in Seq(Entities), NEW x \in Entities, NEW e
  PROVE  Count(Append(s, x), e) = IF x = e THEN Count(s, e) + 1 ELSE Count(s, e)
<1> DEFINE n == Len(s)
           r == Append(s, x)
<1>1. /\ n \in Nat /\ DOMAIN s = 1 .. n /\ DOMAIN r = 1 .. n + 1
      /\ \A i \in 1 .. n : r[i] = s[i]
      /\ r[n + 1] = x /\ 1 .. n + 1 = (1 .. n) \cup {n + 1} /\ n + 1 \notin 1 .. n
  OBVIOUS
<1> HIDE DEF n, r
<1>2. n + 1 \notin Positions(s, e)
  BY <1>1 DEF Positions
<1>3. CASE x = e
  <2>1. Positions(r, e) = Positions(s, e) \cup {n + 1}
    BY <1>1, <1>3 DEF Positions
  <2> QED
    BY <1>2, <1>3, <2>1, PositionsFinite, FS_AddElement DEF Count, r
<1>4. CASE x # e
  <2>1. Positions(r, e) = Positions(s, e)
    BY <1>1, <1>4 DEF Positions
  <2> QED
    BY <1>4, <2>1 DEF Count, r
<1> QED
  BY <1>3, <1>4

LEMMA CountRemove ==
  ASSUME NEW s \in Seq(Entities), NEW x \in Entities, NEW e
  PROVE  /\ ArrayFindAndRemove(s, x) \in Seq(Entities)
         /\ Count(ArrayFindAndRemove(s, x), e)
              = IF x = e /\ Count(s, e) # 0 THEN Count(s, e) - 1 ELSE Count(s, e)
<1> DEFINE i == ArrayFind(s, x)
<1>1. CASE i = 0
  <2>1. Count(s, x) = 0
    BY <1>1, FindFinds, PositionsFinite
  <2> QED
    BY <1>1, <2>1 DEF ArrayFindAndRemove
<1>2. CASE i # 0
  <2> DEFINE n == Len(s)
             r == ArrayFindAndRemove(s, x)
             f == [k \in Positions(r, e) |-> IF k = i THEN n ELSE k]
  <2>1. i \in 1 .. n /\ s[i] = x /\ n \in Nat \ {0} /\ DOMAIN s = 1 .. n
    BY <1>2, FindFinds
  <2>2. r = SubSeq([s EXCEPT ![i] = s[n]], 1, n - 1)
    BY <1>2 DEF ArrayFindAndRemove, ArrayRemoveAt
  <2>3. [s EXCEPT ![i] = s[n]] \in Seq(Entities) /\ Len([s EXCEPT ![i] = s[n]]) = n
    <3>1. [s EXCEPT ![i] = s[n]] \in [1 .. n -> Entities]
      BY <2>1
    <3> QED
      BY <2>1, <3>1
  <2>4. /\ r \in Seq(Entities) /\ DOMAIN r = 1 .. n - 1
        /\ \A k \in 1 .. n - 1 : r[k] = IF k = i THEN s[n] ELSE s[k]
    BY <2>1, <2>2, <2>3
  <2> HIDE DEF r, i, n
  <2>5. f \in Bijection(Positions(r, e), Positions(s, e) \ {i})
    <3>1. \A k \in Positions(r, e) : k \in 1 .. n - 1 /\ r[k] = e
      BY <2>4 DEF Positions
    <3>2. \A k \in Positions(r, e) : f[k] \in Positions(s, e) \ {i}
      BY <2>1, <2>4, <3>1 DEF Positions
    <3>3. \A k, m \in Positions(r, e) : f[k] = f[m] => k = m
      BY <2>1, <3>1
    <3>4. ASSUME NEW m \in Positions(s, e) \ {i}
          PROVE  \E k \in Positions(r, e) : f[k] = m
      <4>1. m \in 1 .. n /\ s[m] = e /\ m # i
        BY <2>1 DEF Positions
      <4>2. CASE m = n
        <5>1. i \in 1 .. n - 1 /\ r[i] = e
          BY <2>1, <2>4, <4>1, <4>2
        <5> QED
          BY <2>4, <4>2, <5>1 DEF Positions
      <4>3. CASE m # n
        <5>1. m \in 1 .. n - 1 /\ r[m] = e
          BY <2>1, <2>4, <4>1, <4>3
        <5> QED
          BY <2>4, <4>1, <5>1 DEF Positions
      <4> QED
        BY <4>2, <4>3
    <3> QED
      BY <3>2, <3>3, <3>4 DEF Bijection, Injection, Surjection, IsInjective
  <2>6. IsFiniteSet(Positions(r, e)) /\ IsFiniteSet(Positions(s, e)) /\ Count(s, e) \in Nat
    BY <2>4, PositionsFinite
  <2>7. Count(r, e) = Cardinality(Positions(s, e) \ {i})
    <3>1. ExistsBijection(Positions(r, e), Positions(s, e) \ {i})
      BY <2>5 DEF ExistsBijection
    <3> QED
      BY <2>6, <3>1, FS_Bijection DEF Count
  <2>8. CASE x = e
    <3>1. i \in Positions(s, e)
      BY <2>1, <2>8 DEF Positions
    <3>2. Cardinality(Positions(s, e) \ {i}) = Count(s, e) - 1
      BY <2>6, <3>1, FS_RemoveElement DEF Count
    <3>3. Count(s, e) # 0
      BY <2>6, <3>1, FS_EmptySet DEF Count
    <3> QED
      BY <2>4, <2>7, <2>8, <3>2, <3>3 DEF r
  <2>9. CASE x # e
    <3>1. Positions(s, e) \ {i} = Positions(s, e)
      BY <2>1, <2>9 DEF Positions
    <3> QED
      BY <2>4, <2>7, <2>9, <3>1 DEF r, Count
  <2> QED
    BY <2>8, <2>9
<1> QED
  BY <1>1, <1>2

LEMMA AppliedTyped ==
  ASSUME NEW s \in Seq(Entities), NEW c \in Commands
  PROVE  /\ Applied(s, c) \in Seq(Entities)
         /\ \A e : Count(Applied(s, c), e)
                     = IF c.entity # e THEN Count(s, e)
                       ELSE IF c.op = "add" THEN Count(s, e) + 1
                       ELSE IF Count(s, e) = 0 THEN 0 ELSE Count(s, e) - 1
<1>1. c.entity \in Entities /\ c.op \in {"add", "remove"}
  BY DEF Commands
<1>2. CASE c.op = "add"
  BY <1>1, <1>2, CountAppend DEF Applied
<1>3. CASE c.op = "remove"
  <2>1. \A e : Count(s, e) \in Nat
    BY PositionsFinite
  <2> QED
    BY <1>1, <1>3, <2>1, CountRemove DEF Applied
<1> QED
  BY <1>1, <1>2, <1>3

\* f holds the list after each number of the commands.
Steps(f, handles, commands) ==
    f = [n \in 0 .. Len(commands) |->
           IF n = 0 THEN handles ELSE Applied(f[n - 1], commands[n])]

LEMMA StepsAt ==
  ASSUME NEW f, NEW handles, NEW commands \in Seq(Commands), Steps(f, handles, commands)
  PROVE  /\ f[0] = handles
         /\ \A n \in 1 .. Len(commands) : f[n] = Applied(f[n - 1], commands[n])
         /\ DOMAIN f = 0 .. Len(commands)
<1>1. f = [n \in 0 .. Len(commands) |->
           IF n = 0 THEN handles ELSE Applied(f[n - 1], commands[n])]
  BY DEF Steps
<1>2. /\ Len(commands) \in Nat /\ 0 \in 0 .. Len(commands)
      /\ \A n \in 1 .. Len(commands) : n \in 0 .. Len(commands) /\ n # 0
  OBVIOUS
<1>3. DOMAIN f = 0 .. Len(commands)
  BY <1>1
<1>4. \A n \in 0 .. Len(commands) :
        f[n] = IF n = 0 THEN handles ELSE Applied(f[n - 1], commands[n])
  BY <1>1
<1> QED
  BY <1>2, <1>3, <1>4

LEMMA StepsUnique ==
  ASSUME NEW handles, NEW commands \in Seq(Commands), NEW more \in Seq(Commands),
         Len(commands) <= Len(more),
         \A n \in 1 .. Len(commands) : more[n] = commands[n],
         NEW f, Steps(f, handles, commands), NEW g, Steps(g, handles, more)
  PROVE  \A n \in 0 .. Len(commands) : f[n] = g[n]
<1> DEFINE Bad == {n \in 0 .. Len(commands) : f[n] # g[n]}
<1>1. SUFFICES ASSUME Bad # {}
               PROVE  FALSE
  OBVIOUS
<1>7. Bad \in SUBSET Nat
  OBVIOUS
<1>2. PICK n \in Bad : \A m \in Bad : n <= m
  BY <1>1, <1>7, Least
<1>3. f[0] = g[0]
  BY StepsAt
<1>4. n \in 1 .. Len(commands) /\ n \in 1 .. Len(more) /\ n - 1 \in 0 .. Len(commands)
  BY <1>2, <1>3
<1>5. f[n - 1] = g[n - 1]
  BY <1>2, <1>4
<1>6. f[n] = Applied(f[n - 1], commands[n]) /\ g[n] = Applied(g[n - 1], more[n])
  BY <1>4, StepsAt
<1> QED
  BY <1>2, <1>4, <1>5, <1>6

LEMMA StepsExist ==
  ASSUME NEW handles, NEW commands \in Seq(Commands)
  PROVE  \E f : Steps(f, handles, commands)
<1> DEFINE Upto(m, f) == f = [n \in 0 .. m |->
                                IF n = 0 THEN handles ELSE Applied(f[n - 1], commands[n])]
           Bad == {m \in Nat : ~\E f : Upto(m, f)}
<1>1. ASSUME Bad # {}
      PROVE  FALSE
  <2>1. PICK m \in Bad : \A k \in Bad : m <= k
    BY <1>1, Least
  <2>2. CASE m = 0
    <3> DEFINE f == [n \in 0 .. 0 |-> handles]
    <3>1. Upto(0, f)
      OBVIOUS
    <3> QED
      BY <2>1, <2>2, <3>1
  <2>3. CASE m # 0
    <3>1. m - 1 \in Nat /\ m - 1 \notin Bad
      BY <2>1, <2>3
    <3>2. PICK f : Upto(m - 1, f)
      BY <3>1
    <3> DEFINE g == [n \in 0 .. m |-> IF n = m THEN Applied(f[m - 1], commands[m]) ELSE f[n]]
    <3>3. \A n \in 0 .. m : g[n] = IF n = 0 THEN handles ELSE Applied(g[n - 1], commands[n])
      <4> SUFFICES ASSUME NEW n \in 0 .. m
                   PROVE  g[n] = IF n = 0 THEN handles ELSE Applied(g[n - 1], commands[n])
        OBVIOUS
      <4>1. \A k \in 0 .. m - 1 :
              f[k] = IF k = 0 THEN handles ELSE Applied(f[k - 1], commands[k])
        BY <3>2
      <4>2. CASE n = 0
        BY <2>1, <2>3, <4>1, <4>2
      <4>3. CASE n # 0 /\ n # m
        <5>1. n \in 0 .. m - 1 /\ n - 1 \in 0 .. m /\ n - 1 # m
          BY <2>1, <4>3
        <5>2. g[n] = f[n] /\ g[n - 1] = f[n - 1]
          BY <4>3, <5>1
        <5> QED
          BY <4>1, <4>3, <5>1, <5>2
      <4>4. CASE n = m
        <5>1. m - 1 \in 0 .. m /\ m - 1 # m
          BY <3>1
        <5>2. g[n] = Applied(f[m - 1], commands[m]) /\ g[m - 1] = f[m - 1]
          BY <4>4, <5>1
        <5> QED
          BY <2>3, <4>4, <5>2
      <4> QED
        BY <4>2, <4>3, <4>4
    <3>4. DOMAIN g = 0 .. m
      OBVIOUS
    <3>5. g = [n \in 0 .. m |-> g[n]]
      OBVIOUS
    <3> HIDE DEF g
    <3>6. Upto(m, g)
      BY <3>3, <3>5
    <3> QED
      BY <2>1, <3>6
  <2> QED
    BY <2>2, <2>3
<1>2. Len(commands) \in Nat
  OBVIOUS
<1>3. PICK f : Upto(Len(commands), f)
  BY <1>1, <1>2
<1> QED
  BY <1>3 DEF Steps

LEMMA ProcessedIs ==
  ASSUME NEW handles, NEW commands \in Seq(Commands)
  PROVE  \E f : Steps(f, handles, commands) /\ Processed(handles, commands) = f[Len(commands)]
<1> DEFINE d == CHOOSE f : Steps(f, handles, commands)
<1>1. Steps(d, handles, commands)
  BY StepsExist
<1>2. Processed(handles, commands) = d[Len(commands)]
  BY DEF Processed, Steps
<1> QED
  BY <1>1, <1>2

\* One more command is applied to what the others leave.
LEMMA ProcessedOneMore ==
  ASSUME NEW handles, NEW commands \in Seq(Commands), NEW c \in Commands
  PROVE  Processed(handles, Append(commands, c)) = Applied(Processed(handles, commands), c)
<1> DEFINE more == Append(commands, c)
           n == Len(commands)
<1>1. /\ more \in Seq(Commands) /\ Len(more) = n + 1 /\ n \in Nat
      /\ \A k \in 1 .. n : more[k] = commands[k]
      /\ more[n + 1] = c
  OBVIOUS
<1> HIDE DEF more, n
<1>2. PICK f : Steps(f, handles, commands) /\ Processed(handles, commands) = f[n]
  BY ProcessedIs DEF n
<1>3. PICK g : Steps(g, handles, more) /\ Processed(handles, more) = g[n + 1]
  BY <1>1, ProcessedIs
<1>4. f[n] = g[n]
  <2>1. Len(commands) <= Len(more) /\ n \in 0 .. Len(commands)
    BY <1>1 DEF n
  <2>2. \A k \in 1 .. Len(commands) : more[k] = commands[k]
    BY <1>1 DEF n
  <2> QED
    BY <1>1, <1>2, <1>3, <2>1, <2>2, StepsUnique
<1>5. n + 1 \in 1 .. Len(more) /\ (n + 1) - 1 = n
  BY <1>1
<1>6. g[n + 1] = Applied(g[n], c)
  BY <1>1, <1>3, <1>5, StepsAt
<1> QED
  BY <1>2, <1>3, <1>4, <1>6 DEF more

LEMMA ProcessedNone ==
  ASSUME NEW handles
  PROVE  Processed(handles, <<>>) = handles
<1>1. <<>> \in Seq(Commands) /\ Len(<<>>) = 0
  OBVIOUS
<1>2. PICK f : Steps(f, handles, <<>>) /\ Processed(handles, <<>>) = f[0]
  BY <1>1, ProcessedIs
<1> QED
  BY <1>1, <1>2, StepsAt

LEMMA ProcessedTyped ==
  ASSUME NEW handles \in Seq(Entities), NEW commands \in Seq(Commands)
  PROVE  Processed(handles, commands) \in Seq(Entities)
<1>1. PICK f : Steps(f, handles, commands) /\ Processed(handles, commands) = f[Len(commands)]
  BY ProcessedIs
<1> DEFINE Bad == {n \in 0 .. Len(commands) : f[n] \notin Seq(Entities)}
<1>2. ASSUME Bad # {}
      PROVE  FALSE
  <2>5. Bad \in SUBSET Nat
    OBVIOUS
  <2>1. PICK n \in Bad : \A m \in Bad : n <= m
    BY <1>2, <2>5, Least
  <2>2. n \in 1 .. Len(commands) /\ n - 1 \in 0 .. Len(commands)
    BY <1>1, <2>1, StepsAt
  <2>3. f[n - 1] \in Seq(Entities)
    BY <2>1, <2>2
  <2>4. f[n] = Applied(f[n - 1], commands[n]) /\ commands[n] \in Commands
    BY <1>1, <2>2, StepsAt
  <2> QED
    BY <2>1, <2>3, <2>4, AppliedTyped
<1>3. Len(commands) \in 0 .. Len(commands)
  OBVIOUS
<1> QED
  BY <1>1, <1>2, <1>3

-----------------------------------------------------------------------------
(* The lists of the systems.                                                 *)

\* The list of a system once its queue is processed.
Listed(s) == Processed(entity_handles[s], ecs_commands[s])

\* The entity exists and has a lookup of every type that the system requires.
Meets(e, s) ==
    e \in live /\ \A c \in Required[s] : Slots(lookups[e], c) # {}

Wanted(e, s) == Required[s] # {} /\ Meets(e, s)

\* The call of t is about e, and its event has yet to reach s.
Adds(t, e, s) ==
    Sending(t) /\ call[t] = "add" /\ entity[t] = e /\ s \in rest[t]

Takes(t, e, s) ==
    Sending(t) /\ call[t] \in {"remove", "destroy"} /\ entity[t] = e /\ s \in rest[t]

\* A system has what qualifies and nothing else, but for what it has yet to be told.
Due(e, s) ==
    /\ Times(e, s) \in {0, 1}
    /\ Times(e, s) = 1 => Wanted(e, s) \/ \E t \in Threads : Takes(t, e, s)
    /\ Times(e, s) = 0 => ~Wanted(e, s) \/ \E t \in Threads : Adds(t, e, s)
    /\ \A t \in Threads : Adds(t, e, s) => Times(e, s) = 0

\* An event goes to observers of its type, and what a system was found to qualify by
\* stays until the system is told.
Asked(t) ==
    /\ Sending(t) => call[t] \in {"add", "remove", "destroy"}
    /\ Sending(t) /\ call[t] \in {"add", "remove"} => \A s \in rest[t] : type[t] \in Required[s]
    /\ at[t] \in {"state", "command", "direct"} =>
         /\ observer[t] \in rest[t]
         /\ call[t] = "add" /\ ~Overlapped(entity[t], Required[observer[t]]) =>
              Meets(entity[t], observer[t])

ListTypes ==
    /\ entity_handles \in [Systems -> Seq(Entities)]
    /\ ecs_commands \in [Systems -> Seq(Commands)]
    /\ rest \in [Threads -> SUBSET Systems]
    /\ overtaken \subseteq Systems

Listing ==
    /\ ListTypes
    /\ \A t \in Threads : Asked(t)
    /\ \A s \in Systems \ overtaken, e \in Entities : ~Overlapped(e, Required[s]) => Due(e, s)

\* An entity qualifies by its lookups: as many are of types that are required as types
\* are required, and there is one of a type at most unless calls overlapped.
LEMMA QualifiesIs ==
  ASSUME IInv, NEW e \in Entities, NEW s \in Systems, ~Overlapped(e, Required[s])
  PROVE  HasComponents(e, Required[s]) <=> Meets(e, s)
<1> DEFINE R == Required[s]
           L == lookups[e]
           P == {i \in DOMAIN L : L[i][2] \in R}
           f == [i \in P |-> L[i][2]]
           D == {f[i] : i \in P}
<1>1. L \in Seq(Components) /\ DOMAIN L = 1 .. Len(L) /\ Len(L) \in Nat
  BY DEF IInv, Typed, WorldType
<1>2. R \subseteq Types /\ IsFiniteSet(R)
  BY EcsWorldAssumption, FS_Subset
<1>3. P = {i \in DOMAIN L : TypesOf(e)[i] \in R}
  BY DEF TypesOf
<1>4. \A c \in R : Single(L, c)
  <2> SUFFICES ASSUME NEW c \in R
               PROVE  Single(L, c)
    OBVIOUS
  <2>1. ~Overlapped(e, {c})
    BY OverlappedWider
  <2> QED
    BY <1>2, <2>1 DEF IInv, World, Owns, Owned
<1>5. \A c \in R : (\E i \in P : f[i] = c) <=> Slots(L, c) # {}
  BY DEF Slots
<1>6. \A i, j \in P : f[i] = f[j] => i = j
  BY <1>4 DEF Single, Slots
<1>7. D \in SUBSET R
  OBVIOUS
<1>8. f \in Bijection(P, D)
  BY <1>6 DEF Bijection, Injection, Surjection, IsInjective
<1>9. IsFiniteSet(P)
  <2>1. IsFiniteSet(1 .. Len(L)) /\ P \in SUBSET (1 .. Len(L))
    BY <1>1, FS_Interval
  <2> QED
    BY ONLY <2>1, FS_Subset
<1> HIDE DEF P, f
<1>10. Cardinality(P) = Cardinality(D)
  <2>1. ExistsBijection(P, D)
    BY ONLY <1>8 DEF ExistsBijection
  <2> QED
    BY ONLY <1>9, <2>1, FS_Bijection
<1>11. Cardinality(D) = Cardinality(R) <=> D = R
  BY <1>2, <1>7, FS_Subset
<1>12. D = R <=> \A c \in R : Slots(L, c) # {}
  BY <1>5, <1>7
<1> QED
  BY <1>3, <1>10, <1>11, <1>12 DEF HasComponents, Meets

LEMMA TimesIs ==
  ASSUME NEW e, NEW s
  PROVE  Times(e, s) = Count(Listed(s), e) /\ Times(e, s)' = Count(Listed(s)', e)
BY DEF Times, Count, Positions, Listed

\* What Due says of a system and an entity that a step does not concern.
LEMMA DueSame ==
  ASSUME NEW e, NEW s, Due(e, s), Times(e, s)' = Times(e, s),
         Wanted(e, s)' <=> Wanted(e, s),
         \A t \in Threads : /\ Adds(t, e, s)' <=> Adds(t, e, s)
                            /\ Takes(t, e, s)' <=> Takes(t, e, s)
  PROVE  Due(e, s)'
BY DEF Due

\* A step that changes nothing a system is told or knows.
LEMMA QuietLists ==
  ASSUME IInv, Listing, UNCHANGED <<call, entity, type, rest, overtaken, overlapped>>,
         UNCHANGED <<entity_handles, ecs_commands, live, lookups>>,
         \A t \in Threads : Sending(t)' <=> Sending(t),
         \A t \in Threads : Asked(t)'
  PROVE  Listing'
<1>1. ListTypes'
  BY DEF Listing, ListTypes
<1>2. ASSUME NEW s \in Systems \ overtaken, NEW e \in Entities, ~Overlapped(e, Required[s])
      PROVE  Due(e, s)'
  <2>1. Times(e, s)' = Times(e, s)
    BY DEF Times
  <2>2. Wanted(e, s)' <=> Wanted(e, s)
    BY DEF Wanted, Meets, Slots
  <2>3. \A t \in Threads : /\ Adds(t, e, s)' <=> Adds(t, e, s)
                           /\ Takes(t, e, s)' <=> Takes(t, e, s)
    BY DEF Adds, Takes
  <2> QED
    BY <1>2, <2>1, <2>2, <2>3, DueSame DEF Listing
<1> QED
  BY <1>1, <1>2 DEF Listing, Overlapped

\* What Asked says of a thread that does nothing, when lookups of others change at most.
LEMMA AskedSame ==
  ASSUME NEW t, Asked(t), call'[t] = call[t], at'[t] = at[t], entity'[t] = entity[t],
         type'[t] = type[t], rest'[t] = rest[t], observer'[t] = observer[t],
         overlapped \subseteq overlapped',
         /\ Sending(t) /\ call[t] = "add"
         /\ observer[t] \in rest[t] /\ ~Overlapped(entity[t], Required[observer[t]])
         /\ Meets(entity[t], observer[t])
         => Meets(entity[t], observer[t])'
  PROVE  Asked(t)'
<1>1. Sending(t)' <=> Sending(t)
  BY DEF Sending
<1>2. Overlapped(entity[t], Required[observer[t]]) =>
        Overlapped(entity[t], Required[observer[t]])'
  BY DEF Overlapped
<1>3. at[t] \in {"state", "command", "direct"} => Sending(t)
  BY DEF Sending
<1>4. Overlapped(entity[t], Required[observer[t]])' =
        \E x \in overlapped' : x.entity = entity[t] /\ x.types \subseteq Required[observer[t]]
  BY DEF Overlapped
<1> QED
  BY <1>1, <1>2, <1>3 DEF Asked, Overlapped, Meets

\* Nor does one where a call begins, is at its look at the entity, or ends with nobody
\* to be told.
LEMMA EdgeLists ==
  ASSUME IInv, Listing, NEW t \in Threads, overlapped \subseteq overlapped',
         UNCHANGED <<rest, overtaken, observer, entity_handles, ecs_commands, live, lookups>>,
         \A u \in Threads \ {t} : /\ call'[u] = call[u] /\ entity'[u] = entity[u]
                                  /\ type'[u] = type[u] /\ at'[u] = at[u],
         ~Sending(t) \/ rest[t] = {}, at'[t] \in {"idle", "lock", "change", "undefined"}
  PROVE  Listing'
<1>1. ListTypes'
  BY DEF Listing, ListTypes
<1>2. ASSUME NEW u \in Threads
      PROVE  Asked(u)'
  <2>1. CASE u = t
    BY <2>1 DEF Asked, Sending
  <2>2. CASE u # t
    <3>1. \A e, s : Meets(e, s)' <=> Meets(e, s)
      BY DEF Meets, Slots
    <3>2. /\ call'[u] = call[u] /\ entity'[u] = entity[u] /\ type'[u] = type[u]
          /\ at'[u] = at[u] /\ rest'[u] = rest[u] /\ observer'[u] = observer[u]
      BY <2>2
    <3> QED
      BY <3>1, <3>2, AskedSame DEF Listing
  <2> QED
    BY <2>1, <2>2
<1>3. ASSUME NEW s \in Systems \ overtaken, NEW e \in Entities, ~Overlapped(e, Required[s])'
      PROVE  Due(e, s)'
  <2>1. Times(e, s)' = Times(e, s)
    BY DEF Times
  <2>2. Wanted(e, s)' <=> Wanted(e, s)
    BY DEF Wanted, Meets, Slots
  <2>3. \A u \in Threads : /\ Adds(u, e, s)' <=> Adds(u, e, s)
                           /\ Takes(u, e, s)' <=> Takes(u, e, s)
    BY DEF Adds, Takes, Sending
  <2>4. ~Overlapped(e, Required[s])
    BY <1>3, OverlappedMore
  <2> QED
    BY <2>1, <2>2, <2>3, <2>4, DueSame DEF Listing
<1> QED
  BY <1>1, <1>2, <1>3 DEF Listing

LEMMA CreateLists ==
  ASSUME IInv, Listing, NEW t \in Threads, CreateEntity(t)
  PROVE  Listing'
<1> USE DEF IInv, Typed, WorldType, CallType
<1>0. /\ call[t] = "create" /\ at[t] = "lock"
      /\ live' = live \cup {NewHandle} /\ at' = [at EXCEPT ![t] = "idle"]
      /\ call' = [call EXCEPT ![t] = "none"]
      /\ entity' = [entity EXCEPT ![t] = AnyEntity] /\ type' = [type EXCEPT ![t] = AnyType]
      /\ UNCHANGED <<lookups, rest, observer, overtaken, overlapped>>
      /\ UNCHANGED <<entity_handles, ecs_commands>>
  BY DEF CreateEntity, Return, Goto, system, history
<1>1. NewHandle \in Entities \ created
  BY <1>0, NewHandleExists DEF World
<1>2. Slots(lookups[NewHandle], AnyType) = {} /\ \A c : Slots(lookups[NewHandle], c) = {}
  BY <1>1 DEF World, Unused, Slots
<1>3. ListTypes'
  BY <1>0 DEF Listing, ListTypes
<1>4. \A u \in Threads : Sending(u)' <=> Sending(u)
  BY <1>0 DEF Sending
<1>5. ASSUME NEW u \in Threads
      PROVE  Asked(u)'
  <2>1. CASE u = t
    BY <1>0, <2>1 DEF Asked, Sending
  <2>2. CASE u # t
    <3>1. \A e, s : Meets(e, s) => Meets(e, s)'
      BY <1>0 DEF Meets, Slots
    <3>2. /\ call'[u] = call[u] /\ entity'[u] = entity[u] /\ type'[u] = type[u]
          /\ at'[u] = at[u] /\ rest'[u] = rest[u] /\ observer'[u] = observer[u]
      BY <1>0, <2>2
    <3> QED
      BY <1>0, <3>1, <3>2, AskedSame DEF Listing
  <2> QED
    BY <2>1, <2>2
<1>6. ASSUME NEW s \in Systems \ overtaken, NEW e \in Entities, ~Overlapped(e, Required[s])
      PROVE  Due(e, s)'
  <2>1. Times(e, s)' = Times(e, s)
    BY <1>0 DEF Times
  <2>2. Wanted(e, s)' <=> Wanted(e, s)
    BY <1>0, <1>2 DEF Wanted, Meets, Slots
  <2>3. \A u \in Threads : /\ Adds(u, e, s)' <=> Adds(u, e, s)
                           /\ Takes(u, e, s)' <=> Takes(u, e, s)
    BY <1>0, <1>4 DEF Adds, Takes, Sending
  <2> QED
    BY <1>6, <2>1, <2>2, <2>3, DueSame DEF Listing
<1> QED
  BY <1>0, <1>3, <1>5, <1>6 DEF Listing, Overlapped

\* Destroying an entity takes it from every system that has it, in the end.
LEMMA DestroyLists ==
  ASSUME IInv, Listing, NEW t \in Threads, DestroyEntity(t)
  PROVE  Listing'
<1> USE DEF IInv, Typed, WorldType, CallType
<1>0. /\ call[t] = "destroy" /\ at[t] = "lock" /\ CanWrite(entities_lock)
      /\ UNCHANGED <<call, entity, type, observer, overtaken, overlapped>>
      /\ UNCHANGED <<entity_handles, ecs_commands>>
      /\ rest \in [Threads -> SUBSET Systems]
  BY DEF DestroyEntity, system, history, Listing, ListTypes
<1>1. CASE ~(Range(lookups[entity[t]]) \subseteq components)
  <2>1. at' = [at EXCEPT ![t] = "undefined"] /\ UNCHANGED <<live, lookups, rest>>
    BY <1>1 DEF DestroyEntity, Undefined, Goto
  <2> QED
    BY <1>0, <2>1, EdgeLists DEF Sending
<1>2. CASE Range(lookups[entity[t]]) \subseteq components
  <2>0. /\ live' = live \ {entity[t]} /\ lookups' = [lookups EXCEPT ![entity[t]] = <<>>]
        /\ at' = [at EXCEPT ![t] = "send"]
        /\ rest' = [rest EXCEPT ![t] = IF entity[t] \in live THEN Systems ELSE {}]
    BY <1>2 DEF DestroyEntity, Send, Goto
  <2>1. ListTypes'
    BY <1>0, <2>0 DEF Listing, ListTypes
  <2>2. /\ \A u \in Threads : Sending(u)' <=> Sending(u) \/ u = t
        /\ ~Sending(t)
    BY <1>0, <2>0 DEF Sending
  <2>3. \A u \in Threads : ~(call[u] = "add" /\ Sending(u))
    BY <1>0, NobodyReads DEF Reading, Sending
  <2>4. ASSUME NEW u \in Threads
        PROVE  Asked(u)'
    <3>1. CASE u = t
      BY <1>0, <2>0, <3>1 DEF Asked, Sending
    <3>2. CASE u # t
      <4>1. /\ call'[u] = call[u] /\ entity'[u] = entity[u] /\ type'[u] = type[u]
            /\ at'[u] = at[u] /\ rest'[u] = rest[u] /\ observer'[u] = observer[u]
        BY <1>0, <2>0, <3>2
      <4> QED
        BY <1>0, <2>3, <4>1, AskedSame DEF Listing
    <3> QED
      BY <3>1, <3>2
  <2>5. ASSUME NEW s \in Systems \ overtaken, NEW e \in Entities, ~Overlapped(e, Required[s])
        PROVE  Due(e, s)'
    <3>1. Times(e, s)' = Times(e, s)
      BY <1>0 DEF Times
    <3>2. \A u \in Threads : ~Adds(u, e, s)' /\ ~Adds(u, e, s)
      BY <1>0, <2>2, <2>3 DEF Adds
    <3>3. Due(e, s)
      BY <2>5 DEF Listing
    <3>4. CASE e = entity[t] /\ e \in live
      <4>1. ~Wanted(e, s)'
        BY <2>0, <3>4 DEF Wanted, Meets
      <4>2. Takes(t, e, s)'
        BY <1>0, <2>0, <2>2, <3>4 DEF Takes
      <4> QED
        BY <3>1, <3>2, <3>3, <4>1, <4>2 DEF Due
    <3>5. CASE e # entity[t] \/ e \notin live
      <4>1. Wanted(e, s)' <=> Wanted(e, s)
        BY <2>0, <3>5 DEF Wanted, Meets, Slots
      <4>2. \A u \in Threads : Takes(u, e, s)' <=> Takes(u, e, s)
        BY <1>0, <2>0, <2>2, <3>5 DEF Takes
      <4> QED
        BY <3>1, <3>2, <3>3, <4>1, <4>2, DueSame
    <3> QED
      BY <3>4, <3>5
  <2> QED
    BY <1>0, <2>1, <2>4, <2>5 DEF Listing, Overlapped
<1> QED
  BY <1>1, <1>2

\* A component is added: nobody has the entity that lacks it, and nobody takes it away
\* at the time, or the two overlapped.
LEMMA AddLists ==
  ASSUME IInv, Listing, NEW t \in Threads, AddComponent(t)
  PROVE  Listing'
<1> USE DEF IInv, Typed, WorldType, CallType
<1> DEFINE e0 == entity[t]
           c0 == type[t]
           x == NewComponent(e0, c0)
<1>0. /\ call[t] = "add" /\ at[t] = "change" /\ at' = [at EXCEPT ![t] = "send"]
      /\ lookups' = [lookups EXCEPT ![e0] = Append(@, x)]
      /\ rest' = [rest EXCEPT ![t] = Observers(c0)]
      /\ UNCHANGED <<live, call, entity, type, observer, overtaken, overlapped>>
      /\ UNCHANGED <<entity_handles, ecs_commands>>
      /\ rest \in [Threads -> SUBSET Systems] /\ Observers(c0) \subseteq Systems
  BY DEF AddComponent, Send, Goto, system, history, Listing, ListTypes, Observers
<1>1. ListTypes'
  BY <1>0 DEF Listing, ListTypes
<1>2. /\ \A u \in Threads : Sending(u)' <=> Sending(u) \/ u = t
      /\ ~Sending(t) /\ Changing(t) /\ Reading(t)
  BY <1>0 DEF Sending, Changing, Acting, Reading
<1>3. e0 \in Entities /\ c0 \in Types /\ lookups[e0] \in Seq(Components)
  OBVIOUS
<1>4. x \in Components /\ x[2] = c0
  BY <1>3, NewComponentTyped
<1> HIDE DEF x
<1>5. ASSUME NEW c
      PROVE  Slots(lookups'[e0], c) = {} <=> Slots(lookups[e0], c) = {} /\ c # c0
  <2>1. lookups'[e0] = Append(lookups[e0], x)
    BY <1>0, <1>3
  <2>2. CASE c = c0
    <3>1. Slots(Append(lookups[e0], x), c) # {}
      BY ONLY <1>3, <1>4, <2>2, AppendSlots
    <3> QED
      BY <2>1, <2>2, <3>1
  <2>3. CASE c # c0
    <3>1. Slots(Append(lookups[e0], x), c) = {} <=> Slots(lookups[e0], c) = {}
      BY ONLY <1>3, <1>4, <2>3, AppendSlots
    <3> QED
      BY <2>1, <2>3, <3>1
  <2> QED
    BY <2>2, <2>3
<1>6. \A e \in Entities \ {e0} : lookups'[e] = lookups[e]
  BY <1>0
<1>7. ASSUME NEW e \in Entities, NEW s
      PROVE  Meets(e, s) => Meets(e, s)'
  BY <1>0, <1>5, <1>6 DEF Meets
<1>8. ASSUME NEW u \in Threads
      PROVE  Asked(u)'
  <2>1. CASE u = t
    BY <1>0, <2>1 DEF Asked, Observers, Sending
  <2>2. CASE u # t
    <3>1. /\ call'[u] = call[u] /\ entity'[u] = entity[u] /\ type'[u] = type[u]
          /\ at'[u] = at[u] /\ rest'[u] = rest[u] /\ observer'[u] = observer[u]
      BY <1>0, <2>2
    <3> QED
      BY <1>0, <1>7, <3>1, AskedSame DEF Listing
  <2> QED
    BY <2>1, <2>2
<1>9. ASSUME NEW s \in Systems \ overtaken, NEW e \in Entities, ~Overlapped(e, Required[s])
      PROVE  Due(e, s)'
  <2>1. Times(e, s)' = Times(e, s)
    BY <1>0 DEF Times
  <2>2. Due(e, s)
    BY <1>9 DEF Listing
  <2>3. \A u \in Threads : Takes(u, e, s)' <=> Takes(u, e, s)
    BY <1>0, <1>2 DEF Takes
  <2>4. CASE e = e0 /\ c0 \in Required[s]
    <3>1. ~Wanted(e, s)
      <4>1. ~Overlapped(e0, {c0})
        BY <1>9, <2>4, OverlappedWider
      <4>2. Slots(lookups[e0], c0) = {}
        BY <1>0, <4>1 DEF World, Said
      <4> QED
        BY <2>4, <4>2 DEF Wanted, Meets
    <3>2. ASSUME NEW u \in Threads, Takes(u, e, s)
          PROVE  FALSE
      <4>1. CASE call[u] = "remove"
        <5>1. Changing(u) /\ u # t /\ entity[u] = e0
          BY <1>2, <2>4, <3>2, <4>1 DEF Takes, Changing, Sending, Acting
        <5>2. type[u] \in Required[s]
          BY <3>2, <4>1 DEF Takes, Listing, Asked
        <5>3. Overlapped(e0, Required[s])
          BY <1>0, <1>2, <2>4, <5>1, <5>2, Together DEF World
        <5> QED
          BY <1>9, <2>4, <5>3
      <4>2. CASE call[u] = "destroy"
        BY <1>2, <3>2, <4>2 DEF Takes, EntitiesStay, Sending
      <4> QED
        BY <3>2, <4>1, <4>2 DEF Takes
    <3>3. Times(e, s) = 0
      BY <2>2, <3>1, <3>2 DEF Due
    <3>4. Adds(t, e, s)'
      BY <1>0, <1>2, <2>4 DEF Adds, Observers
    <3> QED
      BY <2>1, <3>3, <3>4 DEF Due
  <2>5. CASE e # e0 \/ c0 \notin Required[s]
    <3>1. Wanted(e, s)' <=> Wanted(e, s)
      <4>1. \A c \in Required[s] :
              Slots(lookups'[e], c) = {} <=> Slots(lookups[e], c) = {}
        <5>1. CASE e = e0
          BY ONLY <1>5, <2>5, <5>1
        <5>2. CASE e # e0
          BY ONLY <1>6, <2>5, <5>2
        <5> QED
          BY <5>1, <5>2
      <4> QED
        BY <1>0, <4>1 DEF Wanted, Meets
    <3>2. \A u \in Threads : Adds(u, e, s)' <=> Adds(u, e, s)
      BY <1>0, <1>2, <2>5 DEF Adds, Observers
    <3> QED
      BY <2>1, <2>2, <2>3, <3>1, <3>2, DueSame
  <2> QED
    BY <2>4, <2>5
<1> QED
  BY <1>0, <1>1, <1>8, <1>9 DEF Listing, Overlapped

LEMMA RemoveLists ==
  ASSUME IInv, Listing, NEW t \in Threads, RemoveComponent(t)
  PROVE  Listing'
<1> USE DEF IInv, Typed, WorldType, CallType
<1> DEFINE e0 == entity[t]
           c0 == type[t]
           r == LookupsWithout(e0, c0)
<1>0. /\ call[t] = "remove" /\ at[t] = "change"
      /\ UNCHANGED <<live, call, entity, type, observer, overtaken, overlapped>>
      /\ UNCHANGED <<entity_handles, ecs_commands>>
      /\ rest \in [Threads -> SUBSET Systems] /\ Observers(c0) \subseteq Systems
  BY DEF RemoveComponent, system, history, Listing, ListTypes, Observers
<1>1. CASE found[t] \notin components
  <2>1. at' = [at EXCEPT ![t] = "undefined"] /\ UNCHANGED <<lookups, rest>>
    BY <1>1 DEF RemoveComponent, Undefined, Goto
  <2> QED
    BY <1>0, <2>1, EdgeLists DEF Sending
<1>2. CASE found[t] \in components
  <2>0. /\ at' = [at EXCEPT ![t] = "send"] /\ lookups' = [lookups EXCEPT ![e0] = r]
        /\ rest' = [rest EXCEPT ![t] = Observers(c0)]
    BY <1>2 DEF RemoveComponent, Send, Goto, RemoveObservers
  <2>1. ListTypes'
    BY <1>0, <2>0 DEF Listing, ListTypes
  <2>2. /\ \A u \in Threads : Sending(u)' <=> Sending(u) \/ u = t
        /\ ~Sending(t) /\ Changing(t)
    BY <1>0, <2>0 DEF Sending, Changing, Acting
  <2>3. e0 \in Entities /\ c0 \in Types /\ Typed
    OBVIOUS
  <2>4. lookups'[e0] = r /\ \A e \in Entities \ {e0} : lookups'[e] = lookups[e]
    BY <2>0, <2>3
  <2>5. ASSUME NEW c, c # c0
        PROVE  Slots(r, c) = {} <=> Slots(lookups[e0], c) = {}
    BY ONLY <2>3, <2>5, WithoutSlots
  <2>6. ~Overlapped(e0, {c0}) => Slots(r, c0) = {}
    <3>1. ~Overlapped(e0, {c0}) => Single(lookups[e0], c0)
      BY DEF World, Owns, Owned
    <3> QED
      BY ONLY <2>3, <3>1, WithoutSlots
  <2> HIDE DEF r
  <2>7. ASSUME NEW e \in Entities, NEW s, e # e0 \/ c0 \notin Required[s]
        PROVE  Meets(e, s) <=> Meets(e, s)'
    BY <1>0, <2>4, <2>5, <2>7 DEF Meets
  <2>8. ASSUME NEW u \in Threads
        PROVE  Asked(u)'
    <3>1. CASE u = t
      BY <1>0, <2>0, <3>1 DEF Asked, Observers, Sending
    <3>2. CASE u # t
      <4>1. /\ call'[u] = call[u] /\ entity'[u] = entity[u] /\ type'[u] = type[u]
            /\ at'[u] = at[u] /\ rest'[u] = rest[u] /\ observer'[u] = observer[u]
        BY <1>0, <2>0, <3>2
      <4>2. ASSUME Sending(u), call[u] = "add", observer[u] \in rest[u],
                   ~Overlapped(entity[u], Required[observer[u]])
            PROVE  entity[u] # e0 \/ c0 \notin Required[observer[u]]
        <5>1. type[u] \in Required[observer[u]]
          BY <4>2 DEF Listing, Asked
        <5>2. Changing(u)
          BY <4>2 DEF Changing, Sending, Acting
        <5>3. entity[u] = e0 /\ c0 \in Required[observer[u]] =>
                Overlapped(entity[u], Required[observer[u]])
          BY <2>2, <3>2, <4>2, <5>1, <5>2, Together DEF World
        <5> QED
          BY <4>2, <5>3
      <4>3. entity[u] \in Entities
        OBVIOUS
      <4> QED
        BY <1>0, <2>7, <4>1, <4>2, <4>3, AskedSame DEF Listing
    <3> QED
      BY <3>1, <3>2
  <2>9. ASSUME NEW s \in Systems \ overtaken, NEW e \in Entities, ~Overlapped(e, Required[s])
        PROVE  Due(e, s)'
    <3>1. Times(e, s)' = Times(e, s)
      BY <1>0 DEF Times
    <3>2. Due(e, s)
      BY <2>9 DEF Listing
    <3>3. \A u \in Threads : Adds(u, e, s)' <=> Adds(u, e, s)
      BY <1>0, <2>0, <2>2 DEF Adds
    <3>4. CASE e = e0 /\ c0 \in Required[s]
      <4>1. ~Wanted(e, s)'
        <5>1. ~Overlapped(e0, {c0})
          BY <2>9, <3>4, OverlappedWider
        <5> QED
          BY <2>4, <2>6, <3>4, <5>1 DEF Wanted, Meets
      <4>2. Takes(t, e, s)'
        BY <1>0, <2>0, <2>2, <3>4 DEF Takes, Observers
      <4> QED
        BY <3>1, <3>2, <3>3, <4>1, <4>2 DEF Due
    <3>5. CASE e # e0 \/ c0 \notin Required[s]
      <4>1. Wanted(e, s)' <=> Wanted(e, s)
        BY <2>7, <3>5 DEF Wanted
      <4>2. \A u \in Threads : Takes(u, e, s)' <=> Takes(u, e, s)
        BY <1>0, <2>0, <2>2, <3>5 DEF Takes, Observers
      <4> QED
        BY <3>1, <3>2, <3>3, <4>1, <4>2, DueSame
    <3> QED
      BY <3>4, <3>5
  <2> QED
    BY <1>0, <2>1, <2>8, <2>9 DEF Listing, Overlapped
<1> QED
  BY <1>1, <1>2

LEMMA QualifyLists ==
  ASSUME Waiting, Listing, NEW t \in Threads, NEW s \in Systems, AddQualify(t, s)
  PROVE  Listing'
<1>0. observer \in [Threads -> Systems] /\ rest \in [Threads -> SUBSET Systems]
  BY DEF Waiting, Updating, Listing, ListTypes
<1> USE <1>0 DEF Waiting, IInv, Typed, WorldType, CallType, AddQualify, Goto, system, world,
                 history
<1>1. Sending(t) /\ Sending(t)'
  BY DEF Sending, Callback
<1>2. \A u \in Threads : Sending(u)' <=> Sending(u)
  BY <1>1 DEF Sending, Callback
<1>3. \A e, o : Meets(e, o)' <=> Meets(e, o)
  BY DEF Meets, Slots
<1>4. ~Overlapped(entity[t], Required[s]) =>
        (HasComponents(entity[t], Required[s]) <=> Meets(entity[t], s))
  BY QualifiesIs
<1>5. CASE HasComponents(entity[t], Required[s])
  <2>1. ASSUME NEW u \in Threads
        PROVE  Asked(u)'
    <3>1. /\ at' = [at EXCEPT ![t] = "state"] /\ observer' = [observer EXCEPT ![t] = s]
          /\ s \in rest[t] /\ UNCHANGED <<call, entity, type, rest, overlapped>>
      BY <1>5 DEF Callback
    <3>2. Asked(u)
      BY DEF Listing
    <3>3. CASE u = t
      <4>1. observer'[t] = s /\ at'[t] = "state" /\ Sending(t)'
        BY <3>1, <1>1
      <4>2. ~Overlapped(entity[t], Required[s]) => Meets(entity[t], s)
        BY <1>4, <1>5
      <4> QED
        BY ONLY <1>1, <1>3, <3>1, <3>2, <3>3, <4>1, <4>2 DEF Asked, Overlapped, Meets
    <3>4. CASE u # t
      <4>1. at'[u] = at[u] /\ observer'[u] = observer[u]
        BY <3>1, <3>4
      <4> QED
        BY ONLY <1>3, <3>1, <3>2, <4>1, AskedSame
    <3> QED
      BY <3>3, <3>4
  <2> QED
    BY <1>2, <1>5, <2>1, QuietLists
<1>6. CASE ~HasComponents(entity[t], Required[s])
  <2>1. rest' = [rest EXCEPT ![t] = @ \ {s}] /\ at' = at /\ observer' = observer
    BY <1>6
  <2>2. ListTypes'
    BY <2>1 DEF Listing, ListTypes
  <2>3. ASSUME NEW u \in Threads
        PROVE  Asked(u)'
    <3>1. CASE u = t
      BY <1>1, <2>1, <3>1 DEF Asked, Listing, Sending
    <3>2. CASE u # t
      BY <1>3, <2>1, <3>2, AskedSame DEF Listing
    <3> QED
      BY <3>1, <3>2
  <2>4. ASSUME NEW o \in Systems \ overtaken, NEW e \in Entities, ~Overlapped(e, Required[o])
        PROVE  Due(e, o)'
    <3>1. Times(e, o)' = Times(e, o)
      BY DEF Times
    <3>2. Wanted(e, o)' <=> Wanted(e, o)
      BY <1>3 DEF Wanted
    <3>3. \A u \in Threads : Takes(u, e, o)' <=> Takes(u, e, o)
      BY <1>2, <2>1 DEF Takes, Listing, ListTypes
    <3>4. \A u \in Threads : Adds(u, e, o)' => Adds(u, e, o)
      BY <1>2, <2>1 DEF Adds, Listing, ListTypes
    <3>5. Due(e, o)
      BY <2>4 DEF Listing
    <3>6. CASE e = entity[t] /\ o = s
      <4>1. ~Wanted(e, o)
        BY <1>4, <1>6, <2>4, <3>6 DEF Wanted
      <4> QED
        BY <3>1, <3>2, <3>3, <3>4, <3>5, <4>1 DEF Due
    <3>7. CASE e # entity[t] \/ o # s
      <4>1. \A u \in Threads : Adds(u, e, o)' <=> Adds(u, e, o)
        BY <1>2, <2>1, <3>7 DEF Adds, Listing, ListTypes
      <4> QED
        BY <3>1, <3>2, <3>3, <3>5, <4>1, DueSame
    <3> QED
      BY <3>6, <3>7
  <2> QED
    BY <2>1, <2>2, <2>3, <2>4 DEF Listing, Overlapped
<1> QED
  BY <1>5, <1>6

\* A system learns of the event, at once or by its queue.
LEMMA DeliveredLists ==
  ASSUME IInv, Listing, NEW t \in Threads, NEW o \in Systems,
         at[t] \in {"command", "direct"}, observer[t] = o, Delivered(t),
         UNCHANGED <<world, call, entity, type, overlapped>>,
         entity_handles' \in [Systems -> Seq(Entities)],
         ecs_commands' \in [Systems -> Seq(Commands)],
         observer \in [Threads -> Systems], overtaken \subseteq overtaken',
         overtaken' \subseteq Systems,
         \A s \in Systems \ {o} : Listed(s)' = Listed(s),
         o \notin overtaken' => Listed(o)' = Applied(Listed(o), Command(t))
  PROVE  Listing'
<1> USE DEF IInv, Typed, WorldType, CallType, Delivered, Goto, world
<1>1. Sending(t) /\ Sending(t)'
  BY DEF Sending
<1>2. \A u \in Threads : Sending(u)' <=> Sending(u)
  BY <1>1 DEF Sending
<1>3. /\ rest \in [Threads -> SUBSET Systems] /\ rest' = [rest EXCEPT ![t] = @ \ {o}]
      /\ o \in Systems /\ o \in rest[t]
      /\ call[t] = "add" /\ ~Overlapped(entity[t], Required[o]) => Meets(entity[t], o)
      /\ call[t] \in {"add", "remove", "destroy"}
      /\ call[t] \in {"add", "remove"} => type[t] \in Required[o]
  BY <1>1 DEF Listing, ListTypes, Asked
<1>4. ListTypes'
  BY <1>3 DEF ListTypes, Listing
<1>5. \A e, s : Meets(e, s)' <=> Meets(e, s)
  BY DEF Meets, Slots
<1>6. ASSUME NEW u \in Threads
      PROVE  Asked(u)'
  <2>1. CASE u = t
    BY <1>1, <1>3, <2>1 DEF Asked, Listing
  <2>2. CASE u # t
    <3>1. at'[u] = at[u] /\ rest'[u] = rest[u] /\ observer'[u] = observer[u]
      BY <1>3, <2>2
    <3> QED
      BY <1>5, <3>1, AskedSame DEF Listing
  <2> QED
    BY <2>1, <2>2
<1>7. ASSUME NEW s \in Systems \ overtaken', NEW e \in Entities, ~Overlapped(e, Required[s])
      PROVE  Due(e, s)'
  <2>1. Due(e, s)
    BY <1>7 DEF Listing
  <2>2. Wanted(e, s)' <=> Wanted(e, s)
    BY <1>5 DEF Wanted
  <2>3. /\ Times(e, s) = Count(Listed(s), e) /\ Times(e, s)' = Count(Listed(s)', e)
        /\ Times(e, s) \in {0, 1}
    BY <2>1, TimesIs DEF Due
  <2>4. s = o => Listed(s)' = Applied(Listed(s), Command(t))
    BY <1>7
  <2>5. s # o => Listed(s)' = Listed(s)
    OBVIOUS
  <2>6. Listed(s) \in Seq(Entities)
    BY ProcessedTyped DEF Listed, Listing, ListTypes
  <2>7. /\ Command(t) \in Commands /\ Command(t).entity = entity[t]
        /\ Command(t).op = "add" <=> call[t] = "add"
    BY DEF Command, Commands
  <2>8. CASE s = o /\ e = entity[t] /\ call[t] = "add"
    <3>1. Adds(t, e, s)
      BY <1>1, <1>3, <2>8 DEF Adds
    <3>2. Times(e, s) = 0
      BY <2>1, <3>1 DEF Due
    <3>3. Count(Applied(Listed(s), Command(t)), e) = Count(Listed(s), e) + 1
      BY <2>6, <2>7, <2>8, AppliedTyped
    <3>4. Times(e, s)' = 1
      <4>1. Times(e, s)' = Count(Applied(Listed(s), Command(t)), e)
        BY <2>3, <2>4, <2>8
      <4>2. Count(Listed(s), e) = 0
        BY <2>3, <3>2
      <4> QED
        BY <3>3, <4>1, <4>2
    <3>5. Wanted(e, s)
      BY <1>3, <1>7, <2>8 DEF Wanted
    <3>6. ASSUME NEW u \in Threads, Adds(u, e, s)'
          PROVE  FALSE
      <4>1. u # t
        BY <1>3, <2>8, <3>6 DEF Adds
      <4>2. Sending(u) /\ call[u] = "add" /\ entity[u] = e /\ s \in rest[u]
        BY <1>2, <1>3, <3>6, <4>1 DEF Adds
      <4>3. type[u] \in Required[s] /\ type[t] \in Required[s]
        BY <1>3, <2>8, <4>2 DEF Listing, Asked
      <4>4. Changing(u) /\ Changing(t)
        BY <1>1, <2>8, <4>2 DEF Changing, Sending, Acting
      <4>5. Overlapped(e, Required[s])
        BY <2>8, <4>1, <4>2, <4>3, <4>4, Together DEF World
      <4> QED
        BY <1>7, <4>5
    <3> QED
      BY <2>2, <3>4, <3>5, <3>6 DEF Due
  <2>9. CASE s = o /\ e = entity[t] /\ call[t] # "add"
    <3>1. Count(Applied(Listed(s), Command(t)), e)
            = IF Count(Listed(s), e) = 0 THEN 0 ELSE Count(Listed(s), e) - 1
      BY <2>6, <2>7, <2>9, AppliedTyped
    <3>2. Times(e, s)' = 0
      BY <2>3, <2>4, <2>9, <3>1
    <3>3. ~Wanted(e, s)
      <4>1. CASE call[t] = "remove"
        <5>1. type[t] \in Required[s] /\ ~Overlapped(e, {type[t]})
          BY <1>3, <1>7, <2>9, <4>1, OverlappedWider
        <5>2. Slots(lookups[e], type[t]) = {}
          BY <1>1, <2>9, <4>1, <5>1 DEF World, Said
        <5> QED
          BY <5>1, <5>2 DEF Wanted, Meets
      <4>2. CASE call[t] = "destroy"
        <5>1. e \notin live
          BY <1>1, <2>9, <4>2 DEF EntitiesStay, Sending
        <5> QED
          BY <5>1 DEF Wanted, Meets
      <4> QED
        BY <1>3, <2>9, <4>1, <4>2
    <3> QED
      BY <2>2, <3>2, <3>3 DEF Due
  <2>10. CASE s # o \/ e # entity[t]
    <3>1. Times(e, s)' = Times(e, s)
      <4>1. CASE s = o
        <5>1. Count(Applied(Listed(s), Command(t)), e) = Count(Listed(s), e)
          BY <2>6, <2>7, <2>10, <4>1, AppliedTyped
        <5> QED
          BY <2>3, <2>4, <4>1, <5>1
      <4>2. CASE s # o
        BY <2>3, <2>5, <4>2
      <4> QED
        BY <4>1, <4>2
    <3>2. \A u \in Threads : /\ Adds(u, e, s)' <=> Adds(u, e, s)
                             /\ Takes(u, e, s)' <=> Takes(u, e, s)
      BY <1>2, <1>3, <2>10 DEF Adds, Takes
    <3> QED
      BY <2>1, <2>2, <3>1, <3>2, DueSame
  <2> QED
    BY <2>8, <2>9, <2>10
<1> QED
  BY <1>4, <1>6, <1>7 DEF Listing, Overlapped

LEMMA CommandLists ==
  ASSUME Waiting, Listing, NEW t \in Threads, QueueCommand(t)
  PROVE  Listing'
<1>0. PICK o \in Systems : observer[t] = o
  BY DEF Waiting, Updating
<1>1. IInv /\ observer \in [Threads -> Systems] /\ observer[t] = o
  BY <1>0 DEF Waiting, Updating
<1>2. /\ at[t] = "command" /\ Delivered(t)
      /\ UNCHANGED <<world, call, entity, type, entity_handles, overtaken, overlapped>>
      /\ ecs_commands' = [ecs_commands EXCEPT ![o] = Append(@, Command(t))]
  BY <1>1 DEF QueueCommand, history
<1>3. /\ ecs_commands \in [Systems -> Seq(Commands)]
      /\ entity_handles \in [Systems -> Seq(Entities)] /\ overtaken \subseteq Systems
  BY DEF Listing, ListTypes
<1>4. Command(t) \in Commands
  BY <1>1 DEF Command, Commands, IInv, Typed, CallType
<1>5. ecs_commands' \in [Systems -> Seq(Commands)]
  BY <1>1, <1>2, <1>3, <1>4
<1>6. \A s \in Systems \ {o} : Listed(s)' = Listed(s)
  BY <1>1, <1>2, <1>3 DEF Listed
<1>7. Listed(o)' = Applied(Listed(o), Command(t))
  <2>1. Listed(o)' = Processed(entity_handles'[o], ecs_commands'[o])
    BY <1>1 DEF Listed
  <2>2. ecs_commands'[o] = Append(ecs_commands[o], Command(t)) /\ ecs_commands[o] \in Seq(Commands)
    BY <1>1, <1>2, <1>3
  <2> QED
    BY <1>2, <1>4, <2>1, <2>2, ProcessedOneMore DEF Listed
<1> QED
  BY <1>1, <1>2, <1>3, <1>5, <1>6, <1>7, DeliveredLists

LEMMA DirectLists ==
  ASSUME Waiting, Listing, NEW t \in Threads, Direct(t)
  PROVE  Listing'
<1>0. PICK o \in Systems : observer[t] = o
  BY DEF Waiting, Updating
<1>1. IInv /\ observer \in [Threads -> Systems] /\ observer[t] = o
  BY <1>0 DEF Waiting, Updating
<1>2. /\ at[t] = "direct" /\ Delivered(t)
      /\ UNCHANGED <<world, call, entity, type, ecs_commands, overlapped>>
      /\ entity_handles' = [entity_handles EXCEPT ![o] = Applied(@, Command(t))]
      /\ overtaken' = IF ecs_commands[o] = <<>> THEN overtaken ELSE overtaken \cup {o}
  BY <1>1 DEF Direct
<1>3. /\ ecs_commands \in [Systems -> Seq(Commands)]
      /\ entity_handles \in [Systems -> Seq(Entities)] /\ overtaken \subseteq Systems
  BY DEF Listing, ListTypes
<1>4. Command(t) \in Commands
  BY <1>1 DEF Command, Commands, IInv, Typed, CallType
<1>5. Applied(entity_handles[o], Command(t)) \in Seq(Entities)
  BY <1>1, <1>3, <1>4, AppliedTyped
<1>6. entity_handles' \in [Systems -> Seq(Entities)]
  BY <1>1, <1>2, <1>3, <1>5
<1>7. \A s \in Systems \ {o} : Listed(s)' = Listed(s)
  BY <1>1, <1>2, <1>3 DEF Listed
<1>8. o \notin overtaken' => Listed(o)' = Applied(Listed(o), Command(t))
  <2> SUFFICES ASSUME ecs_commands[o] = <<>>
               PROVE  Listed(o)' = Applied(Listed(o), Command(t))
    BY <1>2
  <2>1. Listed(o)' = Processed(entity_handles'[o], ecs_commands'[o])
    BY <1>1 DEF Listed
  <2>2. entity_handles'[o] = Applied(entity_handles[o], Command(t))
    BY <1>1, <1>2, <1>3
  <2> QED
    BY <1>2, <2>1, <2>2, ProcessedNone DEF Listed
<1>9. overtaken \subseteq overtaken' /\ overtaken' \subseteq Systems
  BY <1>1, <1>2, <1>3
<1> QED
  BY <1>1, <1>2, <1>3, <1>6, <1>7, <1>8, <1>9, DeliveredLists

\* Processing the queue leaves what there was once it was processed.
LEMMA ProcessLists ==
  ASSUME Waiting, Listing, Process
  PROVE  Listing'
<1>1. /\ System \in Systems /\ IInv
      /\ entity_handles' = [entity_handles EXCEPT ![System] = Listed(System)]
      /\ ecs_commands' = [ecs_commands EXCEPT ![System] = <<>>]
      /\ UNCHANGED <<world, caller, overtaken, overlapped>>
  BY SystemsTyped DEF Waiting, Updating, System, Process, Listed, history
<1>2. ListTypes
  BY DEF Listing
<1>3. Listed(System) \in Seq(Entities)
  BY <1>1, <1>2, ProcessedTyped DEF Listed, ListTypes
<1>4. ListTypes'
  BY <1>1, <1>2, <1>3 DEF ListTypes, caller
<1>5. \A t \in Threads : /\ Asked(t)'
                         /\ Sending(t)' <=> Sending(t)
  BY <1>1 DEF Listing, Asked, Sending, Meets, Slots, Overlapped, world, caller
<1>6. \A s \in Systems : Listed(s)' = Listed(s)
  <2> SUFFICES ASSUME NEW s \in Systems
               PROVE  Processed(entity_handles'[s], ecs_commands'[s]) = Listed(s)
    BY DEF Listed
  <2>1. CASE s = System
    <3>1. entity_handles'[s] = Listed(s) /\ ecs_commands'[s] = <<>>
      BY <1>1, <1>2, <2>1 DEF ListTypes
    <3> QED
      BY <3>1, ProcessedNone
  <2>2. CASE s # System
    BY <1>1, <1>2, <2>2 DEF ListTypes, Listed
  <2> QED
    BY <2>1, <2>2
<1>7. ASSUME NEW s \in Systems \ overtaken, NEW e \in Entities, ~Overlapped(e, Required[s])
      PROVE  Due(e, s)'
  <2>1. Times(e, s)' = Times(e, s)
    BY <1>6, TimesIs
  <2>2. Wanted(e, s)' <=> Wanted(e, s)
    BY <1>1 DEF Wanted, Meets, Slots, world
  <2>3. \A t \in Threads : /\ Adds(t, e, s)' <=> Adds(t, e, s)
                           /\ Takes(t, e, s)' <=> Takes(t, e, s)
    BY <1>1, <1>5 DEF Adds, Takes, caller
  <2> QED
    BY <1>7, <2>1, <2>2, <2>3, DueSame DEF Listing
<1> QED
  BY <1>1, <1>4, <1>5, <1>7 DEF Listing, Overlapped

LEMMA ListingKept ==
  ASSUME Waiting, Listing, [Next]_vars
  PROVE  Listing'
<1> USE DEF Waiting
<1>1. ASSUME NEW t \in Threads, Call(t)
      PROVE  Listing'
  BY <1>1, EdgeLists
     DEF Call, Begin, MayCall, world, system, history, Sending, IInv, Typed, CallType
<1>2. ASSUME NEW t \in Threads, Queue(t)
      PROVE  Listing'
  <2>1. UNCHANGED <<world, system, caller, overtaken, overlapped>>
    BY <1>2 DEF Queue, history
  <2>2. \A u \in Threads : Asked(u)'
    BY <2>1 DEF Listing, Asked, Sending, Meets, Slots, Overlapped, world, caller
  <2> QED
    BY <2>1, <2>2, QuietLists DEF world, system, caller, Sending
<1>3. ASSUME NEW t \in Threads, CreateEntity(t) \/ DestroyEntity(t)
      PROVE  Listing'
  BY <1>3, CreateLists, DestroyLists
<1>4. ASSUME NEW t \in Threads, AddFind(t) \/ RemoveFind(t)
      PROVE  Listing'
  <2>1. /\ at[t] = "lock" /\ UNCHANGED <<rest, overtaken, observer, world, system>>
        /\ overlapped \subseteq overlapped'
        /\ \/ at' = [at EXCEPT ![t] = "change"] /\ UNCHANGED <<call, entity, type>>
           \/ /\ at' = [at EXCEPT ![t] = "idle"]
              /\ call' = [call EXCEPT ![t] = "none"]
              /\ entity' = [entity EXCEPT ![t] = AnyEntity]
              /\ type' = [type EXCEPT ![t] = AnyType]
    BY <1>4 DEF AddFind, RemoveFind, GoOn, Return, Goto
  <2> QED
    BY <2>1, EdgeLists DEF Sending, world, system, IInv, Typed, CallType
<1>5. ASSUME NEW t \in Threads, AddComponent(t) \/ RemoveComponent(t)
      PROVE  Listing'
  BY <1>5, AddLists, RemoveLists
<1>6. ASSUME NEW t \in Threads, NEW s \in Systems, AddQualify(t, s)
      PROVE  Listing'
  BY <1>6, QualifyLists
<1>7. ASSUME NEW t \in Threads,
             ReadState(t) \/ \E s \in Systems : RemoveSend(t, s)
      PROVE  Listing'
  <2>1. /\ UNCHANGED <<world, system, call, entity, type, rest, overtaken, overlapped>>
        /\ Sending(t) /\ Sending(t)'
        /\ at'[t] \in {"command", "direct"}
        /\ observer'[t] \in rest[t]
        /\ call[t] = "add" => observer'[t] = observer[t] /\ at[t] = "state"
    BY <1>7 DEF ReadState, RemoveSend, Goto, Delivery, Sending, IInv, Typed, CallType,
                Listing, Asked, Updating, history
  <2>2. \A u \in Threads \ {t} : at'[u] = at[u] /\ observer'[u] = observer[u]
    BY <1>7, OnlyItself DEF Step
  <2>3. \A u \in Threads : Asked(u)'
    BY <2>1, <2>2 DEF Listing, Asked, Sending, Meets, Slots, Overlapped, world
  <2> QED
    BY <2>1, <2>2, <2>3, QuietLists DEF Sending, world, system
<1>8. ASSUME NEW t \in Threads, QueueCommand(t) \/ Direct(t)
      PROVE  Listing'
  BY <1>8, CommandLists, DirectLists
<1>9. ASSUME NEW t \in Threads, Finish(t)
      PROVE  Listing'
  BY <1>9, EdgeLists
     DEF Finish, Return, Goto, world, system, history, IInv, Typed, CallType
<1>10. CASE Process
  BY <1>10, ProcessLists
<1>11. CASE \/ UpdateSystems \/ SetUpdating \/ LockHandles \/ SetIdle
            \/ UpdateFuncReturns \/ UNCHANGED vars
  <2>1. UNCHANGED <<world, entity_handles, ecs_commands, caller, overtaken, overlapped>>
    BY <1>11 DEF UpdateSystems, SetUpdating, LockHandles, SetIdle, UpdateFuncReturns, vars,
                 system, history
  <2>2. \A u \in Threads : Asked(u)'
    BY <2>1 DEF Listing, Asked, Sending, Meets, Slots, Overlapped, world, caller
  <2> QED
    BY <2>1, <2>2, QuietLists DEF world, caller, Sending
<1> QED
  BY <1>1, <1>2, <1>3, <1>4, <1>5, <1>6, <1>7, <1>8, <1>9, <1>10, <1>11
     DEF Next, Step, UpdateStep

LEMMA InitListing == Init => Listing
<1> SUFFICES ASSUME Init
             PROVE  Listing
  OBVIOUS
<1>1. ListTypes
  BY DEF Init, ListTypes
<1>2. \A t \in Threads : Asked(t)
  BY DEF Init, Asked, Sending
<1>3. ASSUME NEW s \in Systems, NEW e \in Entities
      PROVE  Due(e, s)
  <2>1. Listed(s) = <<>>
    BY ProcessedNone DEF Init, Listed
  <2>2. Positions(<<>>, e) = {}
    BY DEF Positions
  <2>3. Times(e, s) = 0
    BY <2>1, <2>2, TimesIs, FS_EmptySet DEF Count
  <2>4. \A t \in Threads : ~Adds(t, e, s)
    BY DEF Init, Adds, Sending
  <2> QED
    BY <2>3, <2>4 DEF Due, Wanted, Meets, Init
<1> QED
  BY <1>1, <1>2, <1>3 DEF Listing

\* The system that is updated last.
Last == SystemOrder[Len(SystemOrder)]

\* In a program of one thread, commands are queued for the last system only while it
\* is being updated, and the second processing follows at once.
LastSafe ==
    /\ threads \subseteq Threads
    /\ \A t \in Threads \ threads : at[t] = "idle"
    /\ \A s \in Systems : state[s] = "updating" => InSystem /\ System = s
    /\ at[Main] = "command" => state[observer[Main]] = "updating"
    /\ threads = {Main} =>
         /\ overlapped = {}
         /\ Last \notin overtaken
         /\ ecs_commands[Last] # <<>> =>
              (InSystem /\ System = Last) \/ update.phase = "process_again"

\* What a call does to the queues, and to the histories.
LEMMA OnlyDelivery ==
  ASSUME NEW t \in Threads, Call(t) \/ Step(t)
  PROVE  /\ threads' = threads
         /\ ecs_commands' = ecs_commands \/ QueueCommand(t)
         /\ overtaken' = overtaken \/ Direct(t)
         /\ overlapped' = overlapped \/ (at[t] = "lock" /\ Overlapping(t) # {})
<1> USE DEF history
<1>1. CASE Call(t)
  BY <1>1 DEF Call, Begin, system
<1>2. CASE Queue(t)
  BY <1>2 DEF Queue, system
<1>3. CASE CreateEntity(t) \/ DestroyEntity(t)
  BY <1>3 DEF CreateEntity, DestroyEntity, system
<1>4. CASE AddComponent(t) \/ RemoveComponent(t)
  BY <1>4 DEF AddComponent, RemoveComponent, system
<1>8. CASE AddFind(t) \/ RemoveFind(t)
  BY <1>8 DEF AddFind, RemoveFind, GoOn, system
<1>5. CASE \E s \in Systems : AddQualify(t, s) \/ RemoveSend(t, s)
  BY <1>5 DEF AddQualify, RemoveSend, system
<1>6. CASE ReadState(t) \/ QueueCommand(t) \/ Direct(t)
  BY <1>6 DEF ReadState, QueueCommand, Direct, system
<1>7. CASE Finish(t)
  BY <1>7 DEF Finish, system
<1> QED
  BY <1>1, <1>2, <1>3, <1>4, <1>5, <1>6, <1>7, <1>8 DEF Step

LEMMA InitLast == Init => LastSafe
<1> SUFFICES ASSUME Init
             PROVE  LastSafe
  OBVIOUS
<1>1. Last \in Systems /\ Main \in Threads
  BY SystemsTyped, EcsWorldAssumption DEF Last
<1> QED
  BY <1>1 DEF Init, LastSafe, InSystem

LEMMA LastKept ==
  ASSUME Waiting, Listing, LastSafe, [Next]_vars
  PROVE  LastSafe'
<1>0. /\ Last \in Systems /\ Main \in Threads
      /\ Len(SystemOrder) \in DOMAIN SystemOrder
      /\ \A i \in DOMAIN SystemOrder : SystemOrder[i] = Last => i = Len(SystemOrder)
      /\ ecs_commands \in [Systems -> Seq(Commands)]
      /\ state \in [Systems -> {"idle", "updating"}]
      /\ update.system \in DOMAIN SystemOrder /\ System \in Systems
  <2>1. Len(SystemOrder) \in DOMAIN SystemOrder
    BY SystemsTyped
  <2>2. Last \in Systems
    BY <2>1, SystemsTyped DEF Last
  <2>3. \A i \in DOMAIN SystemOrder : SystemOrder[i] = Last => i = Len(SystemOrder)
    BY <2>1, EcsWorldAssumption DEF Last
  <2>4. update.system \in DOMAIN SystemOrder /\ state \in [Systems -> {"idle", "updating"}]
    BY DEF Waiting, Updating
  <2>5. System \in Systems
    BY <2>4, SystemsTyped DEF System
  <2> QED
    BY <2>1, <2>2, <2>3, <2>4, <2>5, EcsWorldAssumption DEF Listing, ListTypes
<1>1. ASSUME NEW t \in Threads, Call(t) \/ Step(t)
      PROVE  LastSafe'
  <2>1. /\ update' = update /\ state' = state /\ observer' \in [Threads -> Systems]
        /\ \A u \in Threads \ {t} : at'[u] = at[u] /\ observer'[u] = observer[u]
        /\ at'[t] = "command" => state[observer'[t]] = "updating"
        /\ at[t] = "idle" => t \in threads
    BY <1>1, OnlyItself, Itself
  <2>2. /\ threads' = threads
        /\ ecs_commands' = ecs_commands \/ QueueCommand(t)
        /\ overtaken' = overtaken \/ Direct(t)
        /\ overlapped' = overlapped \/ (at[t] = "lock" /\ Overlapping(t) # {})
    BY <1>1, OnlyDelivery
  <2>3. t \in threads
    BY <2>1 DEF LastSafe
  <2>4. ASSUME threads = {Main}, ecs_commands'[Last] # ecs_commands[Last]
        PROVE  InSystem /\ System = Last
    <3>1. /\ at[Main] = "command"
          /\ ecs_commands' = [ecs_commands EXCEPT ![observer[Main]] = Append(@, Command(Main))]
      BY <2>2, <2>3, <2>4 DEF QueueCommand
    <3>2. observer[Main] = Last
      BY <1>0, <2>4, <3>1
    <3> QED
      BY <1>0, <3>1, <3>2 DEF LastSafe
  <2>5. ASSUME threads = {Main}
        PROVE  Last \notin overtaken'
    <3>1. SUFFICES ASSUME Direct(Main), observer[Main] = Last, ecs_commands[Last] # <<>>
                   PROVE  FALSE
      BY <2>2, <2>3, <2>5 DEF Direct, LastSafe
    <3>2. at[Main] = "direct" /\ ~HandlesLocked(Last)
      BY <3>1 DEF Direct
    <3>3. update.phase \in {"none", "update_func"}
      BY <3>2 DEF Waiting, Updating
    <3>4. InSystem /\ System = Last
      BY <2>5, <3>1, <3>3 DEF LastSafe
    <3> QED
      BY <3>2, <3>3, <3>4 DEF HandlesLocked, InSystem, System
  <2>9. ASSUME threads = {Main}
        PROVE  overlapped' = {}
    <3>1. \A u \in Threads : u # t => at[u] = "idle"
      BY <2>3, <2>9 DEF LastSafe
    <3>2. at[t] = "lock" => Overlapping(t) = {}
      BY <3>1 DEF Overlapping
    <3> QED
      BY <2>2, <2>9, <3>2 DEF LastSafe
  <2>6. \A u \in Threads \ threads : at'[u] = "idle"
    BY <2>1, <2>3 DEF LastSafe
  <2>7. at'[Main] = "command" => state[observer'[Main]] = "updating"
    BY <1>0, <2>1 DEF LastSafe
  <2>8. (InSystem' <=> InSystem) /\ System' = System
    BY <2>1 DEF InSystem, System
  <2> QED
    BY <2>1, <2>2, <2>4, <2>5, <2>6, <2>7, <2>8, <2>9 DEF LastSafe
<1>2. CASE UpdateSystems
  BY <1>0, <1>2 DEF Waiting, Updating, LastSafe, UpdateSystems, Phase, InSystem, System,
                    system, caller, history
<1>3. CASE Process
  <2>1. /\ ecs_commands' = [ecs_commands EXCEPT ![System] = <<>>]
        /\ UNCHANGED <<threads, state, at, observer, overtaken, overlapped>>
        /\ update.phase \in {"process", "process_again"}
    BY <1>3 DEF Process, caller, history
  <2>2. ~InSystem /\ at[Main] = "idle"
    BY <2>1 DEF InSystem, Waiting, Updating
  <2>3. ecs_commands'[Last] # <<>> =>
          ecs_commands[Last] # <<>> /\ update.system # Len(SystemOrder)
    BY <1>0, <2>1 DEF Last, System
  <2>4. /\ ~InSystem'
        /\ update.system # Len(SystemOrder) => update'.phase = update.phase
    BY <1>0, <1>3, <2>1, SystemsTyped DEF Process, Onward, InSystem
  <2> QED
    BY <2>1, <2>2, <2>3, <2>4 DEF LastSafe
<1>4. CASE SetUpdating
  <2>1. /\ state' = [state EXCEPT ![System] = "updating"]
        /\ UNCHANGED <<threads, at, observer, overtaken, overlapped, ecs_commands>>
        /\ update.phase = "start" /\ update' = [update EXCEPT !.phase = "lock"]
    BY <1>4 DEF SetUpdating, Phase, caller, history
  <2>2. ~InSystem /\ at[Main] = "idle" /\ InSystem' /\ System' = System
    BY <2>1 DEF InSystem, Waiting, Updating, System
  <2> QED
    BY <1>0, <2>1, <2>2 DEF LastSafe
<1>5. CASE LockHandles
  <2>1. /\ UNCHANGED <<threads, state, at, observer, overtaken, overlapped, ecs_commands>>
        /\ update.phase = "lock"
    BY <1>5 DEF LockHandles, system, caller, history
  <2>2. PICK p \in {"unlocked", "update_func"} : update' = [update EXCEPT !.phase = p]
    BY <1>5 DEF LockHandles, Phase
  <2>3. InSystem /\ InSystem' /\ System' = System
    BY <2>1, <2>2 DEF InSystem, Waiting, Updating, System
  <2> QED
    BY <2>1, <2>3 DEF LastSafe
<1>6. CASE UpdateFuncReturns
  <2>1. /\ UNCHANGED <<threads, state, at, observer, overtaken, overlapped, ecs_commands>>
        /\ update.phase = "update_func" /\ InSystem /\ InSystem' /\ System' = System
    BY <1>6 DEF UpdateFuncReturns, Phase, InSystem, Waiting, Updating, System, system, caller,
           history
  <2> QED
    BY <2>1 DEF LastSafe
<1>7. CASE SetIdle
  <2>1. /\ state' = [state EXCEPT ![System] = "idle"]
        /\ UNCHANGED <<threads, at, observer, overtaken, overlapped, ecs_commands>>
        /\ update.phase = "unlocked"
    BY <1>7 DEF SetIdle, caller, history
  <2>2. InSystem /\ at[Main] = "idle"
    BY <2>1 DEF InSystem, Waiting, Updating
  <2>3. System = Last => update'.phase = "process_again"
    BY <1>0, <1>7, SystemsTyped DEF SetIdle, Onward, System
  <2>4. \A s \in Systems : state'[s] # "updating"
    BY <1>0, <2>1 DEF LastSafe
  <2> QED
    BY <2>1, <2>2, <2>3, <2>4 DEF LastSafe
<1>8. CASE UNCHANGED vars
  BY <1>8 DEF LastSafe, vars, system, caller, history, InSystem, System
<1> QED
  BY <1>1, <1>2, <1>3, <1>4, <1>5, <1>6, <1>7, <1>8 DEF Next, UpdateStep

\* A system has each entity that qualifies once and no other, counting what is in its
\* queue, however calls, events and updates interleave, unless an event was applied at
\* once that came after one in the queue, or two calls overlapped that changed the
\* entity in what the system requires; in a program of one thread calls do not overlap,
\* and the system that is updated last has no event applied before an earlier one.
THEOREM ExactCorrect == Spec => []ListsExact
<1>1. Init => Waiting /\ Listing /\ LastSafe
  BY InitWaiting, InitListing, InitLast
<1>2. Waiting /\ Listing /\ LastSafe /\ [Next]_vars => (Waiting /\ Listing /\ LastSafe)'
  BY WaitingKept, ListingKept, LastKept
<1>3. ASSUME Waiting, Listing, LastSafe
      PROVE  ListsExact
  <2>1. entities_lock.reading \in [Threads -> 0 .. 1]
    BY <1>3 DEF Waiting, IInv, Typed, LockType, Holds
  <2>2. TypeOK
    BY <1>3, <2>1 DEF TypeOK, Waiting, IInv, Typed, WorldType, CallType, LockType, Components,
                      Updating, Listing, ListTypes, LastSafe, Commands
  <2>3. ASSUME NEW s \in Systems \ overtaken, NEW e \in Entities, Settled(e),
               ~Overlapped(e, Required[s])
        PROVE  Exact(e, s)
    <3>1. Due(e, s)
      BY <1>3, <2>3 DEF Listing
    <3>2. \A t \in Threads : ~Adds(t, e, s) /\ ~Takes(t, e, s)
      BY <2>3 DEF Settled, Adds, Takes, Sending
    <3>3. Wanted(e, s) <=> Qualifies(e, s)
      BY <1>3, <2>3, QualifiesIs DEF Waiting, Wanted, Qualifies
    <3> QED
      BY <3>1, <3>2, <3>3 DEF Due, Exact
  <2>4. threads = {Main} => overlapped = {} /\ SystemOrder[Len(SystemOrder)] \notin overtaken
    BY <1>3 DEF LastSafe, Last
  <2> QED
    BY <2>2, <2>3, <2>4 DEF ListsExact
<1> QED
  BY <1>1, <1>2, <1>3, PTL DEF Spec

=============================================================================
