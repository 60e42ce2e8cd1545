------------------------------ MODULE EventProofs ------------------------------
(***************************************************************************)
(* What a send calls, and the ways in which a send or a deregistration     *)
(* fails, for any threads, observers and capacities.                       *)
(***************************************************************************)
EXTENDS Event, FiniteSetTheorems, TLAPS

Kinds == {"registered", "removed", "destroyed", "moved", "grown"}
PCs == {"idle", "remove", "count", "get", "read", "look_up", "call", "sent"}

Arrays ==
    [data : [Indices -> Observers \cup {NoObserver}], count : 0 .. CountBound,
     capacity : Nat, block : Nat]

Typed ==
    /\ array \in Arrays
    /\ at \in [Threads -> PCs]
    /\ index \in [Threads -> Nat]
    /\ target \in [Threads -> Observers \cup {NoObserver}]
    /\ pointer \in [Threads -> Nat \X Nat]
    /\ observers_capacity \in Nat \ {0}
    /\ since \in [Threads -> SUBSET Kinds]

\* A registered observer is alive, unless it was destroyed while registered.
Registered == \A i \in 0 .. array.count - 1 : array.data[i] \in alive \cup orphans

\* What a thread has found, read or been given holds, unless others did what takes it away.
Found(t) ==
    at[t] = "remove" /\ "removed" \notin since[t] =>
      index[t] < array.count /\ array.data[index[t]] = target[t]

Counted(t) ==
    at[t] = "get" /\ "removed" \notin since[t] => index[t] < array.count

Got(t) ==
    at[t] = "read" =>
      /\ pointer[t][1] <= array.block
      /\ "moved" \notin since[t] => pointer[t][1] = array.block
      /\ pointer[t][2] = index[t]
      /\ pointer[t][1] = array.block =>
           /\ pointer[t][2] \in Indices
           /\ "removed" \notin since[t] => pointer[t][2] < array.count
           /\ \/ Pointed(t) \in alive \cup orphans
              \/ "removed" \in since[t] /\ "destroyed" \in since[t]

HandleRead(t) ==
    at[t] = "look_up" =>
      /\ "removed" \notin since[t] => index[t] < array.count /\ array.data[index[t]] = target[t]
      /\ \/ target[t] \in alive \cup orphans
         \/ "removed" \in since[t] /\ "destroyed" \in since[t]

LookedUp(t) ==
    at[t] = "call" =>
      /\ "destroyed" \notin since[t] => target[t] \in alive
      /\ "grown" \notin since[t] => pointer[t][1] = observers_capacity

Thread(t) == Found(t) /\ Counted(t) /\ Got(t) /\ HandleRead(t) /\ LookedUp(t)

EInv ==
    /\ Typed
    /\ Registered
    /\ \A t \in Threads : Thread(t)

-----------------------------------------------------------------------------
(* The array.                                                                *)

Less == {ss \in Nat \X Nat : ss[1] < ss[2]}

LEMMA LeastExists ==
    ASSUME NEW S, S \subseteq Nat, S # {}
    PROVE  \E x \in S : \A y \in S : x <= y
<1>1. IsWellFoundedOn(Less, Nat)
  BY NatLessThanWellFounded DEF OpToRel, Less
<1>2. PICK x \in S : \A y \in S : ~(<<y, x>> \in Less)
  BY <1>1, WFMin
<1>3. \A y \in S : ~(y < x)
  BY <1>2 DEF Less
<1>. QED
  BY <1>3

\* array_find returns the place of an item, or -1 when there is none.
LEMMA FindFinds ==
    ASSUME Typed, NEW h
    PROVE  \/ ArrayFind(array, h) = -1 /\ \A i \in 0 .. array.count - 1 : array.data[i] # h
           \/ /\ ArrayFind(array, h) \in Nat /\ ArrayFind(array, h) < array.count
              /\ array.data[ArrayFind(array, h)] = h
<1>. DEFINE found == {i \in Indices : i < array.count /\ array.data[i] = h}
<1>1. CountBound \in Nat /\ array.count \in 0 .. CountBound
  BY EventAssumption DEF Typed, Arrays
<1>2. CASE found = {}
  <2>1. \A i \in 0 .. array.count - 1 : i \in Indices /\ i < array.count
    BY <1>1 DEF Indices
  <2>. QED
    BY <1>2, <2>1 DEF ArrayFind
<1>3. CASE found # {}
  <2>1. found \subseteq Nat
    BY <1>1 DEF Indices
  <2>2. \E i \in found : \A j \in found : i <= j
    BY <1>3, <2>1, LeastExists
  <2>3. ArrayFind(array, h) \in found
    BY <1>3, <2>2 DEF ArrayFind
  <2>. QED
    BY <2>1, <2>3
<1>. QED
  BY <1>2, <1>3

LEMMA AddEffect ==
    ASSUME Typed, NEW h \in Observers, array.count < CountBound, array' = ArrayAdd(array, h)
    PROVE  /\ array' \in Arrays
           /\ array'.count = array.count + 1
           /\ array'.data = [array.data EXCEPT ![array.count] = h]
           /\ array'.block \in {array.block, array.block + 1}
<1>. DEFINE r == WithRoom(array)
<1>1. /\ CountBound \in Nat /\ array.count \in Indices
      /\ array \in Arrays
  BY EventAssumption DEF Typed, Arrays, Indices
<1>2. /\ r \in Arrays
      /\ r.data = array.data /\ r.count = array.count
      /\ r.block \in {array.block, array.block + 1}
  <2>1. CASE array.count = array.capacity
    <3>1. r = [array EXCEPT !.capacity = 2 * array.capacity, !.block = array.block + 1]
      BY <2>1 DEF WithRoom
    <3>2. 2 * array.capacity \in Nat /\ array.block + 1 \in Nat
      BY <1>1 DEF Arrays
    <3>. QED
      BY <1>1, <3>1, <3>2 DEF Arrays
  <2>2. CASE array.count # array.capacity
    BY <1>1, <2>2 DEF WithRoom
  <2>. QED
    BY <2>1, <2>2
<1>. HIDE DEF r
<1>3. array' = [r EXCEPT !.data = [r.data EXCEPT ![r.count] = h], !.count = r.count + 1]
  BY DEF ArrayAdd, r
<1>4. /\ array'.count = array.count + 1
      /\ array'.data = [array.data EXCEPT ![array.count] = h]
      /\ array'.block = r.block
  BY <1>2, <1>3 DEF Arrays
<1>5. /\ [array.data EXCEPT ![array.count] = h] \in [Indices -> Observers \cup {NoObserver}]
      /\ array.count + 1 \in 0 .. CountBound
  BY <1>1 DEF Arrays, Indices
<1>6. array' \in Arrays
  BY <1>2, <1>3, <1>5 DEF Arrays
<1>. QED
  BY <1>2, <1>4, <1>6

LEMMA RemoveEffect ==
    ASSUME Typed, NEW i \in Nat, i < array.count, array' = ArrayRemoveAt(array, i)
    PROVE  /\ array' \in Arrays
           /\ array'.count = array.count - 1
           /\ array'.data = [array.data EXCEPT ![i] = array.data[array.count - 1]]
           /\ array'.block = array.block
<1>. DEFINE d == [array.data EXCEPT ![i] = array.data[array.count - 1]]
<1>1. /\ CountBound \in Nat /\ array \in Arrays
      /\ i \in Indices /\ array.count - 1 \in Indices
  BY EventAssumption DEF Typed, Arrays, Indices
<1>2. /\ d \in [Indices -> Observers \cup {NoObserver}]
      /\ array.count - 1 \in 0 .. CountBound
  BY <1>1 DEF Arrays, Indices
<1>3. array' = [array EXCEPT !.data = d, !.count = array.count - 1]
  BY DEF ArrayRemoveAt
<1>. HIDE DEF d
<1>4. /\ array' \in Arrays
      /\ array'.count = array.count - 1 /\ array'.data = d /\ array'.block = array.block
  BY <1>1, <1>2, <1>3 DEF Arrays
<1>. QED
  BY <1>4 DEF d

-----------------------------------------------------------------------------
(* One step.                                                                 *)

\* What a step says to the calls of the other threads.
LEMMA DidSince ==
    ASSUME Typed, NEW t \in Threads, NEW kinds \in SUBSET Kinds, Did(t, kinds)
    PROVE  /\ since' \in [Threads -> SUBSET Kinds]
           /\ at[t] # "read" => since'[t] = {}
           /\ at[t] = "read" /\ kinds = {} => since'[t] = since[t]
           /\ \A u \in Threads \ {t} : since'[u] = since[u] \cup (kinds \cap Concerns(at[u]))
<1>1. \A u \in Threads : at[u] \in PCs /\ since[u] \in SUBSET Kinds
  BY DEF Typed
<1>. QED
  BY <1>1 DEF Did

\* Nobody misses a removal, a destruction or a move that his next step has to do with.
LEMMA Told ==
    ASSUME Typed, NEW t \in Threads, NEW kinds \in SUBSET Kinds, Did(t, kinds),
           NEW u \in Threads \ {t}
    PROVE  /\ since[u] \subseteq since'[u]
           /\ at[u] \in {"remove", "get", "read", "look_up"} /\ "removed" \in kinds =>
                "removed" \in since'[u]
           /\ at[u] \in {"read", "look_up", "call"} /\ "destroyed" \in kinds =>
                "destroyed" \in since'[u]
           /\ at[u] = "read" /\ "moved" \in kinds => "moved" \in since'[u]
           /\ at[u] = "call" /\ "grown" \in kinds => "grown" \in since'[u]
BY DidSince DEF Concerns

Others(t) ==
    \A u \in Threads \ {t} :
      /\ at'[u] = at[u] /\ index'[u] = index[u]
      /\ target'[u] = target[u] /\ pointer'[u] = pointer[u]

\* A step that changes only the caller.
LEMMA QuietStep ==
    ASSUME EInv, NEW t \in Threads, Did(t, {}), Typed', Others(t), Thread(t)',
           UNCHANGED <<array, alive, observers_capacity, orphans>>
    PROVE  EInv'
<1>1. Registered'
  BY DEF EInv, Registered
<1>2. ASSUME NEW u \in Threads \ {t}
      PROVE  Thread(u)'
  <2>1. since'[u] = since[u]
    <3>1. {} \in SUBSET Kinds /\ Typed
      BY DEF EInv
    <3>2. since'[u] = since[u] \cup ({} \cap Concerns(at[u]))
      BY <3>1, DidSince
    <3>. QED
      BY <3>2
  <2>2. UNCHANGED <<at[u], index[u], target[u], pointer[u]>> /\ Thread(u)
    BY DEF Others, EInv
  <2>. QED
    BY <2>1, <2>2 DEF Thread, Found, Counted, Got, HandleRead, LookedUp, Pointed
<1>. QED
  BY <1>1, <1>2 DEF EInv

\* Making an observer may move the others.
LEMMA CreateKeeps ==
    ASSUME EInv, NEW t \in Threads, NEW h \in Observers, Create(t, h)
    PROVE  EInv'
<1>. DEFINE kinds == IF observers_capacity' # observers_capacity THEN {"grown"} ELSE {}
<1>1. /\ at[t] = "idle" /\ Did(t, kinds) /\ alive \subseteq alive'
      /\ observers_capacity' \in {observers_capacity, 2 * observers_capacity}
      /\ UNCHANGED <<array, at, index, target, pointer, orphans>>
  BY DEF Create, RoomForObserver, caller
<1>2. kinds \in SUBSET Kinds /\ Typed
  BY DEF Kinds, EInv
<1>3. observers_capacity' \in Nat \ {0}
  BY <1>1, <1>2 DEF Typed
<1>4. Typed'
  BY <1>1, <1>2, <1>3, DidSince DEF Typed
<1>5. observers_capacity' # observers_capacity => "grown" \in kinds
  OBVIOUS
<1>. HIDE DEF kinds
<1>6. ASSUME NEW u \in Threads
      PROVE  Thread(u)'
  <2>1. CASE u = t
    BY <1>1, <2>1 DEF Thread, Found, Counted, Got, HandleRead, LookedUp
  <2>2. CASE u # t
    <3>1. /\ since[u] \subseteq since'[u]
          /\ at[u] = "call" /\ "grown" \in kinds => "grown" \in since'[u]
      BY <1>1, <1>2, <2>2, Told
    <3>2. UNCHANGED <<at[u], index[u], target[u], pointer[u]>> /\ Thread(u)
      BY <1>1 DEF EInv
    <3>. QED
      BY <1>1, <1>5, <3>1, <3>2 DEF Thread, Found, Counted, Got, HandleRead, LookedUp, Pointed
  <2>. QED
    BY <2>1, <2>2
<1>7. Registered'
  BY <1>1 DEF EInv, Registered
<1>. QED
  BY <1>4, <1>6, <1>7 DEF EInv

\* An observer that is not registered any more, but is still pointed at, was removed.
LEMMA DestroyKeeps ==
    ASSUME EInv, NEW t \in Threads, NEW h \in Observers, Destroy(t, h)
    PROVE  EInv'
<1>1. /\ at[t] = "idle" /\ Did(t, {"destroyed"}) /\ alive' = alive \ {h}
      /\ orphans' = IF ArrayFind(array, h) = -1 THEN orphans ELSE orphans \cup {h}
      /\ UNCHANGED <<array, observers_capacity, at, index, target, pointer>>
  BY DEF Destroy, caller
<1>0. array.count \in Nat
  BY EventAssumption DEF EInv, Typed, Arrays
<1>2. /\ since' \in [Threads -> SUBSET Kinds]
      /\ \A u \in Threads \ {t} :
           /\ since[u] \subseteq since'[u]
           /\ at[u] \in {"read", "look_up", "call"} => "destroyed" \in since'[u]
  BY <1>1, DidSince, Told DEF EInv, Kinds
<1>3. Typed'
  BY <1>1, <1>2 DEF EInv, Typed
<1>4. \/ \A i \in 0 .. array.count - 1 : array.data[i] # h
      \/ h \in orphans'
  BY <1>1, FindFinds DEF EInv
<1>5. Registered'
  BY <1>1, <1>4 DEF EInv, Registered
<1>6. ASSUME NEW u \in Threads
      PROVE  Thread(u)'
  <2>1. CASE u = t
    BY <1>1, <2>1 DEF Thread, Found, Counted, Got, HandleRead, LookedUp
  <2>2. CASE u # t
    <3>0. /\ UNCHANGED <<at[u], index[u], target[u], pointer[u]>> /\ Thread(u)
          /\ since[u] \subseteq since'[u]
          /\ at[u] \in {"read", "look_up", "call"} => "destroyed" \in since'[u]
          /\ pointer[u][1] \in Nat /\ pointer[u][2] \in Nat /\ index[u] \in Nat
      BY <1>1, <1>2, <2>2 DEF EInv, Typed
    <3>1. (Found(u) /\ Counted(u) /\ LookedUp(u))'
      BY <1>1, <3>0 DEF Thread, Found, Counted, LookedUp
    <3>2. ASSUME at[u] = "read", pointer[u][1] = array.block
          PROVE  \/ Pointed(u) \in alive' \cup orphans'
                 \/ "removed" \in since'[u] /\ "destroyed" \in since'[u]
      <4>1. CASE "removed" \in since[u]
        BY <3>0, <3>2, <4>1
      <4>2. CASE "removed" \notin since[u]
        <5>1. pointer[u][2] \in 0 .. array.count - 1 /\ Pointed(u) \in alive \cup orphans
          BY <1>0, <3>0, <3>2, <4>2 DEF Thread, Got
        <5>2. Pointed(u) = h => h \in orphans'
          BY <1>4, <5>1 DEF Pointed
        <5>. QED
          BY <1>1, <5>1, <5>2
      <4>. QED
        BY <4>1, <4>2
    <3>3. Got(u)'
      BY <1>1, <3>0, <3>2 DEF Thread, Got, Pointed
    <3>4. ASSUME at[u] = "look_up"
          PROVE  \/ target[u] \in alive' \cup orphans'
                 \/ "removed" \in since'[u] /\ "destroyed" \in since'[u]
      <4>1. CASE "removed" \in since[u]
        BY <3>0, <3>4, <4>1
      <4>2. CASE "removed" \notin since[u]
        <5>1. /\ index[u] \in 0 .. array.count - 1 /\ array.data[index[u]] = target[u]
              /\ target[u] \in alive \cup orphans
          BY <1>0, <3>0, <3>4, <4>2 DEF Thread, HandleRead
        <5>2. target[u] = h => h \in orphans'
          BY <1>4, <5>1
        <5>. QED
          BY <1>1, <5>1, <5>2
      <4>. QED
        BY <4>1, <4>2
    <3>5. HandleRead(u)'
      BY <1>1, <3>0, <3>4 DEF Thread, HandleRead
    <3>. QED
      BY <3>1, <3>3, <3>5 DEF Thread
  <2>. QED
    BY <2>1, <2>2
<1>. QED
  BY <1>3, <1>5, <1>6 DEF EInv

\* The array grows by an observer that is alive, and moves or does not.
LEMMA RegisterKeeps ==
    ASSUME EInv, NEW t \in Threads, NEW h \in Observers, Register(t, h)
    PROVE  EInv'
<1>. DEFINE kinds == {"registered"} \cup IF array'.block # array.block THEN {"moved"} ELSE {}
<1>1. /\ at[t] = "idle" /\ h \in alive /\ Did(t, kinds)
      /\ array.count < CountBound /\ array' = ArrayAdd(array, h)
      /\ UNCHANGED <<alive, observers_capacity, at, index, target, pointer, orphans>>
  BY DEF Register, caller
<1>2. kinds \in SUBSET Kinds
  BY DEF Kinds
<1>3. /\ since' \in [Threads -> SUBSET Kinds]
      /\ \A u \in Threads \ {t} :
           /\ since[u] \subseteq since'[u]
           /\ at[u] = "read" /\ "moved" \in kinds => "moved" \in since'[u]
  BY <1>1, <1>2, DidSince, Told DEF EInv
<1>. HIDE DEF kinds
<1>4. /\ array' \in Arrays
      /\ array'.count = array.count + 1
      /\ array'.data = [array.data EXCEPT ![array.count] = h]
      /\ array'.block \in {array.block, array.block + 1}
  BY <1>1, AddEffect DEF EInv
<1>5. Typed'
  BY <1>1, <1>3, <1>4 DEF EInv, Typed
<1>6. array.count \in Nat /\ array.data \in [Indices -> Observers \cup {NoObserver}]
      /\ CountBound \in Nat /\ array.block \in Nat
  BY EventAssumption DEF EInv, Typed, Arrays
<1>7. \A i \in Indices : array'.data[i] = IF i = array.count THEN h ELSE array.data[i]
  BY <1>4, <1>6
<1>8. Registered'
  BY <1>1, <1>4, <1>6, <1>7 DEF EInv, Registered, Indices
<1>9. ASSUME NEW u \in Threads
      PROVE  Thread(u)'
  <2>1. CASE u = t
    BY <1>1, <2>1 DEF Thread, Found, Counted, Got, HandleRead, LookedUp
  <2>2. CASE u # t
    <3>1. /\ index[u] \in Nat /\ pointer[u][1] \in Nat
      BY DEF EInv, Typed
    <3>2. since[u] \subseteq since'[u]
      BY <1>3, <2>2
    <3>3. Found(u)'
      BY <1>1, <1>4, <1>6, <1>7, <3>1, <3>2 DEF EInv, Thread, Found, Indices
    <3>4. Counted(u)' /\ LookedUp(u)'
      <4>1. UNCHANGED <<at[u], index[u], target[u], pointer[u]>>
        BY <1>1
      <4>2. Counted(u) /\ LookedUp(u)
        BY DEF EInv, Thread
      <4>3. Counted(u)'
        BY <1>4, <1>6, <3>1, <3>2, <4>1, <4>2 DEF Counted
      <4>4. LookedUp(u)'
        BY <1>1, <3>2, <4>1, <4>2 DEF LookedUp
      <4>. QED
        BY <4>3, <4>4
    <3>5. ASSUME array'.block = array.block, at[u] = "read"
          PROVE  Got(u)'
      <4>1. Got(u) /\ since[u] \subseteq since'[u]
        BY <3>2, <3>5 DEF EInv, Thread
      <4>2. pointer[u][1] = array.block => Pointed(u)' \in {Pointed(u), h}
        BY <1>1, <1>7, <3>5, <4>1 DEF Got, Pointed
      <4>3. UNCHANGED <<at[u], index[u], pointer[u], alive, orphans>>
        BY <1>1
      <4>4. pointer[u][1] = array.block =>
              \/ Pointed(u)' \in alive' \cup orphans'
              \/ "removed" \in since'[u] /\ "destroyed" \in since'[u]
        BY <1>1, <3>5, <4>1, <4>2 DEF Got
      <4>5. "removed" \notin since'[u] /\ pointer[u][1] = array.block =>
              pointer[u][2] < array'.count
        <5>1. array'.count \in Nat /\ array'.count > array.count /\ pointer[u][2] \in Nat
          BY <1>4, <1>6 DEF EInv, Typed
        <5>. QED
          BY <1>6, <3>5, <4>1, <5>1 DEF Got
      <4>. QED
        BY <3>5, <4>1, <4>3, <4>4, <4>5 DEF Got
    <3>6. ASSUME array'.block = array.block + 1, at[u] = "read"
          PROVE  Got(u)'
      <4>1. pointer[u][1] <= array.block /\ pointer[u][2] = index[u]
        BY <3>6 DEF EInv, Thread, Got
      <4>2. "moved" \in kinds
        <5>1. array'.block # array.block
          BY <1>6, <3>6
        <5>. QED
          BY Zenon, <5>1 DEF kinds
      <4>3. "moved" \in since'[u]
        BY <1>3, <2>2, <3>6, <4>2
      <4>4. UNCHANGED <<pointer[u], index[u]>>
        BY <1>1
      <4>5. pointer'[u][1] < array'.block /\ pointer'[u][2] = index'[u]
        BY <1>6, <3>1, <3>6, <4>1, <4>4
      <4>. QED
        BY <1>6, <3>1, <3>6, <4>3, <4>4, <4>5 DEF Got
    <3>7. Got(u)'
      <4>1. at'[u] = at[u]
        BY <1>1
      <4>2. CASE at[u] = "read"
        BY <1>4, <3>5, <3>6, <4>2
      <4>3. CASE at[u] # "read"
        BY <4>1, <4>3 DEF Got
      <4>. QED
        BY <4>2, <4>3
    <3>8. HandleRead(u)'
      <4>1. UNCHANGED <<at[u], index[u], target[u], alive, orphans>> /\ HandleRead(u)
        BY <1>1 DEF EInv, Thread
      <4>2. /\ index[u] < array.count =>
                 index[u] < array'.count /\ array'.data[index[u]] = array.data[index[u]]
        BY <1>4, <1>6, <1>7, <1>1, <3>1 DEF Indices
      <4>. QED
        BY <3>2, <4>1, <4>2 DEF HandleRead
    <3>. QED
      BY <3>3, <3>4, <3>7, <3>8 DEF Thread
  <2>. QED
    BY <2>1, <2>2
<1>. QED
  BY <1>5, <1>8, <1>9 DEF EInv

\* A call that goes on did not fail.
LEMMA FailsStops ==
    ASSUME NEW t, NEW kind, kind # "none", Fails(t, kind)
    PROVE  ~Running'
<1>1. fault'.kind = kind /\ NoFault.kind = "none"
  BY DEF Fails, NoFault
<1>. QED
  BY <1>1 DEF Running, NoFault

\* The last observer takes the place of the one that is removed.
LEMMA RemoveFoundKeeps ==
    ASSUME EInv, NEW t \in Threads, RemoveFound(t), Running', Running
    PROVE  EInv'
<1>. DEFINE i == index[t]
<1>1. /\ at[t] = "remove" /\ i < array.count
      /\ array' = ArrayRemoveAt(array, i) /\ Returns(t) /\ Did(t, {"removed"})
      /\ UNCHANGED <<alive, observers_capacity, orphans>>
  <2>1. ~Fails(t, "wrong_observer_removed")
    BY FailsStops
  <2>2. index[t] \in Nat /\ array.count \in Nat
    BY EventAssumption DEF EInv, Typed, Arrays
  <2>. QED
    BY <2>1, <2>2 DEF RemoveFound
<1>2. /\ since' \in [Threads -> SUBSET Kinds]
      /\ \A u \in Threads \ {t} :
           /\ since[u] \subseteq since'[u]
           /\ at[u] \in {"remove", "get", "read", "look_up"} => "removed" \in since'[u]
  BY <1>1, DidSince, Told DEF EInv, Kinds
<1>3. i \in Nat
  BY DEF EInv, Typed
<1>. HIDE DEF i
<1>4. /\ array' \in Arrays
      /\ array'.count = array.count - 1
      /\ array'.data = [array.data EXCEPT ![i] = array.data[array.count - 1]]
      /\ array'.block = array.block
  BY <1>1, <1>3, RemoveEffect DEF EInv
<1>5. /\ array.count \in Nat /\ array.data \in [Indices -> Observers \cup {NoObserver}]
      /\ CountBound \in Nat /\ array.block \in Nat /\ array.count <= CountBound
  BY EventAssumption DEF EInv, Typed, Arrays
<1>6. /\ \A j \in Indices :
           array'.data[j] = IF j = i THEN array.data[array.count - 1] ELSE array.data[j]
      /\ array.data[array.count - 1] \in alive \cup orphans
  BY <1>1, <1>3, <1>4, <1>5 DEF EInv, Registered
<1>7. /\ at' \in [Threads -> PCs] /\ at'[t] = "idle"
      /\ index' \in [Threads -> Nat]
      /\ target' \in [Threads -> Observers \cup {NoObserver}]
      /\ pointer' \in [Threads -> Nat \X Nat]
      /\ Others(t)
  BY <1>1 DEF Returns, Others, EInv, Typed, PCs
<1>8. Typed'
  BY <1>1, <1>2, <1>4, <1>7 DEF EInv, Typed
<1>9. Registered'
  BY <1>1, <1>4, <1>5, <1>6 DEF EInv, Registered, Indices
<1>10. ASSUME NEW u \in Threads
       PROVE  Thread(u)'
  <2>1. CASE u = t
    BY <1>7, <2>1 DEF Thread, Found, Counted, Got, HandleRead, LookedUp
  <2>2. CASE u # t
    <3>1. /\ UNCHANGED <<at[u], index[u], target[u], pointer[u]>>
          /\ Got(u) /\ HandleRead(u) /\ LookedUp(u)
      BY <1>7, <2>2 DEF Others, EInv, Thread
    <3>2. /\ since[u] \subseteq since'[u]
          /\ at[u] \in {"remove", "get", "read", "look_up"} => "removed" \in since'[u]
      BY <1>2, <2>2
    <3>3. (Found(u) /\ Counted(u) /\ HandleRead(u) /\ LookedUp(u))'
      BY <1>1, <3>1, <3>2 DEF Found, Counted, HandleRead, LookedUp
    <3>4. pointer[u][2] \in Indices => Pointed(u)' \in {Pointed(u)} \cup alive \cup orphans
      BY <1>6, <3>1 DEF Pointed
    <3>5. Got(u)'
      BY <1>1, <1>4, <3>1, <3>2, <3>4 DEF Got
    <3>. QED
      BY <3>3, <3>5 DEF Thread
  <2>. QED
    BY <2>1, <2>2
<1>. QED
  BY <1>8, <1>9, <1>10 DEF EInv

LEMMA DeregisterKeeps ==
    ASSUME EInv, NEW t \in Threads, NEW h \in Observers, Deregister(t, h)
    PROVE  EInv'
<1>1. /\ ArrayFind(array, h) # -1 /\ Did(t, {})
      /\ at' = [at EXCEPT ![t] = "remove"]
      /\ index' = [index EXCEPT ![t] = ArrayFind(array, h)]
      /\ target' = [target EXCEPT ![t] = h]
      /\ UNCHANGED <<array, alive, observers_capacity, pointer, orphans>>
  BY DEF Deregister
<1>2. /\ ArrayFind(array, h) \in Nat /\ ArrayFind(array, h) < array.count
      /\ array.data[ArrayFind(array, h)] = h
  BY <1>1, FindFinds DEF EInv
<1>3. Typed' /\ Others(t)
  BY <1>1, <1>2, DidSince DEF EInv, Typed, PCs, Others
<1>4. at'[t] = "remove" /\ index'[t] = ArrayFind(array, h) /\ target'[t] = h
  BY <1>1 DEF EInv, Typed
<1>5. Thread(t)'
  BY <1>1, <1>2, <1>4 DEF Thread, Found, Counted, Got, HandleRead, LookedUp
<1>. QED
  BY <1>1, <1>3, <1>5, QuietStep

LEMMA SendKeeps ==
    ASSUME EInv, NEW t \in Threads, Send(t) \/ Sent(t)
    PROVE  EInv'
<1>1. /\ Did(t, {}) /\ UNCHANGED <<array, alive, observers_capacity, orphans>>
      /\ at'[t] \in {"idle", "count"} /\ at' \in [Threads -> PCs]
      /\ index' \in [Threads -> Nat]
      /\ target' \in [Threads -> Observers \cup {NoObserver}]
      /\ pointer' \in [Threads -> Nat \X Nat]
      /\ Others(t)
  <2>1. CASE Send(t)
    BY <2>1 DEF Send, Others, EInv, Typed, PCs
  <2>2. CASE Sent(t)
    BY <2>2 DEF Sent, Returns, Others, EInv, Typed, PCs
  <2>. QED
    BY <2>1, <2>2
<1>2. Typed'
  BY <1>1, DidSince DEF EInv, Typed
<1>3. Thread(t)'
  BY <1>1 DEF Thread, Found, Counted, Got, HandleRead, LookedUp
<1>. QED
  BY <1>1, <1>2, <1>3, QuietStep

LEMMA CountKeeps ==
    ASSUME EInv, NEW t \in Threads, Count(t)
    PROVE  EInv'
<1>1. /\ Did(t, {}) /\ UNCHANGED <<array, alive, observers_capacity, orphans, index, target, pointer>>
      /\ at' = [at EXCEPT ![t] = IF MoreObservers(t) THEN "get" ELSE "sent"]
  BY DEF Count
<1>2. Typed' /\ Others(t)
  BY <1>1, DidSince DEF EInv, Typed, PCs, Others
<1>3. at'[t] = IF index[t] < array.count THEN "get" ELSE "sent"
  BY <1>1 DEF EInv, Typed, MoreObservers
<1>4. Thread(t)'
  BY <1>1, <1>3 DEF Thread, Found, Counted, Got, HandleRead, LookedUp
<1>. QED
  BY <1>1, <1>2, <1>4, QuietStep

LEMMA GetHandleKeeps ==
    ASSUME EInv, NEW t \in Threads, GetHandle(t), Running', Running
    PROVE  EInv'
<1>1. /\ Did(t, {}) /\ UNCHANGED <<array, alive, observers_capacity, orphans, index, target>>
      /\ index[t] < array.count
      /\ pointer' = [pointer EXCEPT ![t] = <<array.block, index[t]>>]
      /\ at' = [at EXCEPT ![t] = "read"]
  <2>1. ~Fails(t, "index_out_of_bounds")
    BY FailsStops
  <2>2. index[t] \in Nat /\ array.count \in Nat
    BY EventAssumption DEF EInv, Typed, Arrays
  <2>. QED
    BY <2>1, <2>2 DEF GetHandle
<1>2. /\ array.block \in Nat /\ index[t] \in Nat
      /\ array.count \in Nat /\ array.count <= CountBound /\ CountBound \in Nat
  BY EventAssumption DEF EInv, Typed, Arrays
<1>3. Typed' /\ Others(t)
  BY <1>1, <1>2, DidSince DEF EInv, Typed, PCs, Others
<1>4. at'[t] = "read" /\ pointer'[t] = <<array.block, index[t]>>
  BY <1>1 DEF EInv, Typed
<1>5. index[t] \in Indices /\ array.data[index[t]] \in alive \cup orphans
  BY <1>1, <1>2 DEF EInv, Registered, Indices
<1>6. Thread(t)'
  BY <1>1, <1>2, <1>4, <1>5 DEF Thread, Found, Counted, Got, HandleRead, LookedUp, Pointed
<1>. QED
  BY <1>1, <1>3, <1>6, QuietStep

LEMMA ReadHandleKeeps ==
    ASSUME EInv, NEW t \in Threads, ReadHandle(t), Running', Running
    PROVE  EInv'
<1>1. /\ pointer[t][1] = array.block /\ at[t] = "read"
      /\ Did(t, {}) /\ UNCHANGED <<array, alive, observers_capacity, orphans, index>>
      /\ target' = [target EXCEPT ![t] = Pointed(t)]
      /\ pointer' = [pointer EXCEPT ![t] = <<0, 0>>]
      /\ at' = [at EXCEPT ![t] = "look_up"]
  <2>1. ~Fails(t, "dangling_pointer")
    BY FailsStops
  <2>. QED
    BY <2>1 DEF ReadHandle
<1>2. Pointed(t) \in Observers \cup {NoObserver}
  BY <1>1 DEF EInv, Thread, Got, Typed, Arrays, Pointed
<1>3. Typed' /\ Others(t)
  BY <1>1, <1>2, DidSince DEF EInv, Typed, PCs, Others
<1>4. at'[t] = "look_up" /\ target'[t] = Pointed(t) /\ since'[t] = since[t]
  BY <1>1, DidSince DEF EInv, Typed
<1>5. HandleRead(t)'
  BY <1>1, <1>4 DEF EInv, Thread, Got, HandleRead, Pointed
<1>6. Thread(t)'
  BY <1>4, <1>5 DEF Thread, Found, Counted, Got, LookedUp
<1>. QED
  BY <1>1, <1>3, <1>6, QuietStep

LEMMA LookUpKeeps ==
    ASSUME EInv, NEW t \in Threads, LookUp(t), Running', Running
    PROVE  EInv'
<1>1. /\ target[t] \in alive
      /\ Did(t, {}) /\ UNCHANGED <<array, alive, observers_capacity, orphans, index, target>>
      /\ pointer' = [pointer EXCEPT ![t] = <<observers_capacity, 0>>]
      /\ at' = [at EXCEPT ![t] = "call"]
  <2>1. ~Fails(t, "no_observer")
    BY FailsStops
  <2>. QED
    BY <2>1 DEF LookUp
<1>2. Typed' /\ Others(t)
  BY <1>1, DidSince DEF EInv, Typed, PCs, Others
<1>3. at'[t] = "call" /\ pointer'[t] = <<observers_capacity, 0>>
  BY <1>1 DEF EInv, Typed
<1>4. Thread(t)'
  BY <1>1, <1>3 DEF Thread, Found, Counted, Got, HandleRead, LookedUp
<1>. QED
  BY <1>1, <1>2, <1>4, QuietStep

LEMMA CallKeeps ==
    ASSUME EInv, NEW t \in Threads, Call(t), Running', Running
    PROVE  EInv'
<1>1. /\ Did(t, {}) /\ UNCHANGED <<array, alive, observers_capacity, orphans>>
      /\ index' = [index EXCEPT ![t] = @ + 1]
      /\ target' = [target EXCEPT ![t] = NoObserver]
      /\ pointer' = [pointer EXCEPT ![t] = <<0, 0>>]
      /\ at' = [at EXCEPT ![t] = "count"]
  <2>1. ~Fails(t, "dangling_observer") /\ ~Fails(t, "destroyed_observer_called")
    BY FailsStops
  <2>. QED
    BY <2>1 DEF Call
<1>2. Typed' /\ Others(t)
  BY <1>1, DidSince DEF EInv, Typed, PCs, Others
<1>3. at'[t] = "count"
  BY <1>1 DEF EInv, Typed
<1>4. Thread(t)'
  BY <1>3 DEF Thread, Found, Counted, Got, HandleRead, LookedUp
<1>. QED
  BY <1>1, <1>2, <1>4, QuietStep

LEMMA NewArrayTyped == NewArray \in Arrays /\ NewArray.count = 0
BY EventAssumption DEF NewArray, Arrays

LEMMA RenewKeeps ==
    ASSUME EInv, Renew
    PROVE  EInv'
<1>1. /\ array' = NewArray /\ \A t \in Threads : at[t] = "idle"
      /\ UNCHANGED <<alive, observers_capacity, at, index, target, pointer, since, orphans>>
  BY DEF Renew, caller
<1>. QED
  BY <1>1, NewArrayTyped
     DEF EInv, Typed, Registered, Thread, Found, Counted, Got, HandleRead, LookedUp

-----------------------------------------------------------------------------
(* Failures.                                                                 *)

LEMMA RunningKnown == Running => FaultsKnown
BY DEF Running, NoFault, FaultsKnown

LEMMA RunningKnownNext == Running' => FaultsKnown'
BY DEF Running, NoFault, FaultsKnown

LEMMA FailsKeeps ==
    ASSUME EInv, NEW t \in Threads, NEW kind, Fails(t, kind)
    PROVE  /\ EInv'
           /\ fault'.kind = kind /\ fault'.thread = t
           /\ UNCHANGED <<orphans, since, target>>
<1>1. /\ UNCHANGED <<array, alive, observers_capacity, at, index, target, pointer, since, orphans>>
      /\ fault' = [kind |-> kind, thread |-> t]
  BY DEF Fails, caller
<1>2. \A u \in Threads : Thread(u)'
  BY <1>1 DEF EInv, Thread, Found, Counted, Got, HandleRead, LookedUp, Pointed
<1>. QED
  BY <1>1, <1>2 DEF EInv, Typed, Registered

\* Each failure has its cause.
LEMMA FailuresKnown ==
    ASSUME EInv, NEW t \in Threads, ~Running', Running,
           RemoveFound(t) \/ GetHandle(t) \/ ReadHandle(t) \/ LookUp(t) \/ Call(t)
    PROVE  EInv' /\ FaultsKnown'
<1>. /\ Thread(t) /\ index[t] \in Nat /\ array.count \in Nat
  BY EventAssumption DEF EInv, Thread, Typed, Arrays
<1>0. UNCHANGED fault => FALSE
  BY DEF Running
<1>1. CASE RemoveFound(t)
  <2>1. /\ Fails(t, "wrong_observer_removed") /\ at[t] = "remove"
        /\ index[t] >= array.count \/ array.data[index[t]] # target[t]
    BY <1>0, <1>1 DEF RemoveFound
  <2>2. "removed" \in since[t]
    BY <2>1 DEF Thread, Found
  <2>3. EInv' /\ fault'.kind = "wrong_observer_removed" /\ fault'.thread = t /\ UNCHANGED since
    BY <2>1, FailsKeeps
  <2>. QED
    BY <2>2, <2>3 DEF FaultsKnown
<1>2. CASE GetHandle(t)
  <2>1. Fails(t, "index_out_of_bounds") /\ at[t] = "get" /\ index[t] >= array.count
    BY <1>0, <1>2 DEF GetHandle
  <2>2. "removed" \in since[t]
    BY <2>1 DEF Thread, Counted
  <2>3. EInv' /\ fault'.kind = "index_out_of_bounds" /\ fault'.thread = t /\ UNCHANGED since
    BY <2>1, FailsKeeps
  <2>. QED
    BY <2>2, <2>3 DEF FaultsKnown
<1>3. CASE ReadHandle(t)
  <2>1. Fails(t, "dangling_pointer") /\ at[t] = "read" /\ pointer[t][1] # array.block
    BY <1>0, <1>3 DEF ReadHandle
  <2>2. "moved" \in since[t]
    BY <2>1 DEF Thread, Got
  <2>3. EInv' /\ fault'.kind = "dangling_pointer" /\ fault'.thread = t /\ UNCHANGED since
    BY <2>1, FailsKeeps
  <2>. QED
    BY <2>2, <2>3 DEF FaultsKnown
<1>4. CASE LookUp(t)
  <2>1. Fails(t, "no_observer") /\ at[t] = "look_up" /\ target[t] \notin alive
    BY <1>0, <1>4 DEF LookUp
  <2>2. target[t] \in orphans \/ {"removed", "destroyed"} \subseteq since[t]
    BY <2>1 DEF Thread, HandleRead
  <2>3. /\ EInv' /\ fault'.kind = "no_observer" /\ fault'.thread = t
        /\ UNCHANGED <<orphans, since, target>>
    BY <2>1, FailsKeeps
  <2>. QED
    BY <2>2, <2>3 DEF FaultsKnown
<1>5. CASE Call(t)
  <2>1. CASE pointer[t][1] # observers_capacity
    <3>1. Fails(t, "dangling_observer") /\ at[t] = "call"
      BY <1>5, <2>1 DEF Call
    <3>2. "grown" \in since[t]
      BY <2>1, <3>1 DEF Thread, LookedUp
    <3>3. EInv' /\ fault'.kind = "dangling_observer" /\ fault'.thread = t /\ UNCHANGED since
      BY <3>1, FailsKeeps
    <3>. QED
      BY <3>2, <3>3 DEF FaultsKnown
  <2>2. CASE pointer[t][1] = observers_capacity
    <3>1. Fails(t, "destroyed_observer_called") /\ at[t] = "call" /\ target[t] \notin alive
      BY <1>0, <1>5, <2>2 DEF Call
    <3>2. "destroyed" \in since[t]
      BY <3>1 DEF Thread, LookedUp
    <3>3. /\ EInv' /\ fault'.kind = "destroyed_observer_called" /\ fault'.thread = t
          /\ UNCHANGED since
      BY <3>1, FailsKeeps
    <3>. QED
      BY <3>2, <3>3 DEF FaultsKnown
  <2>. QED
    BY <2>1, <2>2
<1>. QED
  BY <1>1, <1>2, <1>3, <1>4, <1>5

-----------------------------------------------------------------------------

LEMMA EInvInit == Init => EInv /\ FaultsKnown
<1>. SUFFICES ASSUME Init
              PROVE  EInv /\ FaultsKnown
  OBVIOUS
<1>1. Running
  BY DEF Init, Running
<1>2. EInv
  BY NewArrayTyped, EventAssumption
     DEF Init, EInv, Typed, PCs, Registered, Thread, Found, Counted, Got, HandleRead, LookedUp
<1>. QED
  BY <1>1, <1>2, RunningKnown

LEMMA EInvNext == EInv /\ FaultsKnown /\ [Next]_vars => EInv' /\ FaultsKnown'
<1>. SUFFICES ASSUME EInv, FaultsKnown, [Next]_vars
              PROVE  EInv' /\ FaultsKnown'
  OBVIOUS
<1>1. ASSUME NEW t \in Threads, NEW h \in Observers,
             Create(t, h) \/ Destroy(t, h) \/ Register(t, h) \/ Deregister(t, h)
      PROVE  EInv' /\ FaultsKnown'
  <2>1. EInv'
    BY <1>1, CreateKeeps, DestroyKeeps, RegisterKeeps, DeregisterKeeps
  <2>2. Running'
    BY <1>1 DEF Create, Destroy, Register, Deregister, Running
  <2>. QED
    BY <2>1, <2>2, RunningKnownNext
<1>2. ASSUME NEW t \in Threads, Send(t) \/ Count(t) \/ Sent(t)
      PROVE  EInv' /\ FaultsKnown'
  <2>1. EInv'
    BY <1>2, SendKeeps, CountKeeps
  <2>2. Running'
    BY <1>2 DEF Send, Count, Sent, Running
  <2>. QED
    BY <2>1, <2>2, RunningKnownNext
<1>3. ASSUME NEW t \in Threads, RemoveFound(t) \/ GetHandle(t) \/ ReadHandle(t)
                                  \/ LookUp(t) \/ Call(t)
      PROVE  EInv' /\ FaultsKnown'
  <2>1. Running
    BY <1>3 DEF RemoveFound, GetHandle, ReadHandle, LookUp, Call
  <2>2. CASE Running'
    <3>1. EInv'
      BY <1>3, <2>1, <2>2, RemoveFoundKeeps, GetHandleKeeps, ReadHandleKeeps, LookUpKeeps,
         CallKeeps
    <3>. QED
      BY <2>2, <3>1, RunningKnownNext
  <2>3. CASE ~Running'
    BY <1>3, <2>1, <2>3, FailuresKnown
  <2>. QED
    BY <2>2, <2>3
<1>4. CASE Renew
  <2>1. Running'
    BY <1>4 DEF Renew, Running
  <2>. QED
    BY <1>4, <2>1, RenewKeeps, RunningKnownNext
<1>5. CASE UNCHANGED vars
  <2>1. UNCHANGED <<array, alive, observers_capacity, at, index, target, pointer, fault, since,
                    orphans>>
    BY <1>5 DEF vars, caller
  <2>2. \A u \in Threads : Thread(u)'
    BY <2>1 DEF EInv, Thread, Found, Counted, Got, HandleRead, LookedUp, Pointed
  <2>3. EInv'
    BY <2>1, <2>2 DEF EInv, Typed, Registered
  <2>. QED
    BY <2>1, <2>3 DEF FaultsKnown, Pointed
<1>. QED
  BY <1>1, <1>2, <1>3, <1>4, <1>5 DEF Next

\* For any number of threads and observers and any capacities, a send or a deregistration fails
\* only in the ways of FaultsKnown, each of which takes a removal, a destruction, or a growth of
\* the array or of the cache of observers, by others between two of its steps, or an observer
\* that was destroyed while registered (event.c:75-92, cache.c:154-169).
THEOREM FaultsCorrect == Spec => []FaultsKnown
<1>. QED
  BY EInvInit, EInvNext, PTL DEF Spec

-----------------------------------------------------------------------------
(* What a send calls.                                                        *)

InSend == {"count", "get", "read", "look_up", "call", "sent"}

SendTypes ==
    /\ alive \cup destroyed \subseteq Observers /\ orphans \subseteq destroyed
    /\ 0 < array.capacity /\ array.count <= array.capacity
    /\ before \in [Threads -> Seq(Observers \cup {NoObserver})]
    /\ called \in [Threads -> Seq(Observers)]

\* A send is at the observer whose index is the number of those it has called.
Place(t) ==
    /\ at[t] = "idle" => index[t] = 0
    /\ at[t] \in {"idle", "remove"} => called[t] = <<>>
    /\ at[t] \in InSend => Len(called[t]) = index[t] /\ index[t] <= CountBound
    /\ at[t] \in {"remove", "get", "read", "look_up", "call"} => index[t] < CountBound
    /\ at[t] = "call" => target[t] \in Observers

\* Without removals the observers stay where they were when the send began.
InOrder(t) ==
    at[t] \in InSend /\ "removed" \notin during[t] =>
      /\ Len(before[t]) <= array.count
      /\ \A i \in 1 .. Len(before[t]) : before[t][i] = array.data[i - 1]
      /\ \A i \in 1 .. Len(before[t]) : i <= Len(called[t]) => called[t][i] = before[t][i]
      /\ at[t] \in {"look_up", "call"} /\ index[t] < Len(before[t]) =>
           target[t] = before[t][index[t] + 1]
      /\ at[t] = "sent" => Len(before[t]) <= Len(called[t])

\* The places of the array where the send may still find h.  The one that it is about to look
\* at counts even if the array ends before it by now.
ToCome(t, j) ==
    \/ at[t] \in {"count", "get"} /\ index[t] <= j /\ j < array.count
    \/ at[t] = "read" /\ (j = index[t] \/ (index[t] < j /\ j < array.count))
    \/ at[t] \in {"look_up", "call"} /\ index[t] < j /\ j < array.count

Ahead(t, h) == {j \in Indices : array.data[j] = h /\ ToCome(t, j)}

AboutToCall(t, h) == IF at[t] \in {"look_up", "call"} /\ target[t] = h THEN 1 ELSE 0

\* A removal moves an observer from the end of the array to an earlier place: what was called
\* and what is to come is never more than there was.
NoneTwice(t) ==
    at[t] \in InSend /\ "registered" \notin during[t] =>
      \A h \in Observers :
        Occurrences(called[t], h) + AboutToCall(t, h) + Cardinality(Ahead(t, h))
          <= Occurrences(before[t], h)

Sends(t) == Place(t) /\ InOrder(t) /\ NoneTwice(t)

SendInv ==
    /\ SendTypes
    /\ \A t \in Threads : Sends(t)

LEMMA OccurrencesAppend ==
    ASSUME NEW s \in Seq(Observers), NEW x \in Observers, NEW h
    PROVE  /\ Occurrences(s, h) \in Nat
           /\ Occurrences(Append(s, x), h) = Occurrences(s, h) + IF x = h THEN 1 ELSE 0
<1>. DEFINE n == Len(s)
            r == Append(s, x)
            I == {i \in DOMAIN s : s[i] = h}
            J == {i \in DOMAIN r : r[i] = h}
<1>1. /\ n \in Nat /\ DOMAIN s = 1 .. n /\ DOMAIN r = 1 .. n + 1
      /\ \A i \in 1 .. n : r[i] = s[i]
      /\ r[n + 1] = x
  OBVIOUS
<1>. HIDE DEF r, n
<1>2. IsFiniteSet(1 .. n)
  BY <1>1, FS_Interval
<1>3. I \subseteq 1 .. n
  BY <1>1
<1>4. IsFiniteSet(I) /\ Cardinality(I) \in Nat
  BY <1>2, <1>3, FS_Subset, FS_CardinalityType
<1>5. J = IF x = h THEN I \cup {n + 1} ELSE I
  <2>1. 1 .. n + 1 = (1 .. n) \cup {n + 1}
    BY <1>1
  <2>. QED
    BY <1>1, <2>1
<1>6. n + 1 \notin I
  BY <1>1
<1>. HIDE DEF I, J
<1>7. Cardinality(J) = Cardinality(I) + IF x = h THEN 1 ELSE 0
  <2>1. CASE x = h
    <3>1. J = I \cup {n + 1}
      BY <1>5, <2>1
    <3>. QED
      BY <1>4, <1>6, <2>1, <3>1, FS_AddElement
  <2>2. CASE x # h
    BY <1>4, <1>5, <2>2
  <2>. QED
    BY <2>1, <2>2
<1>. QED
  BY <1>4, <1>7 DEF Occurrences, I, J, r

LEMMA OccurrencesNat ==
    ASSUME NEW S, NEW s \in Seq(S), NEW h
    PROVE  Occurrences(s, h) \in Nat
<1>1. IsFiniteSet(1 .. Len(s)) /\ {i \in DOMAIN s : s[i] = h} \subseteq 1 .. Len(s)
  BY FS_Interval
<1>. QED
  BY <1>1, FS_Subset, FS_CardinalityType DEF Occurrences

\* What is registered is, in places counted from zero, what array_ts holds.
LEMMA OccurrencesItems ==
    ASSUME Typed, NEW h
    PROVE  /\ ArrayItems(array) \in Seq(Observers \cup {NoObserver})
           /\ Len(ArrayItems(array)) = array.count
           /\ Occurrences(ArrayItems(array), h) =
                Cardinality({j \in Indices : array.data[j] = h /\ 0 <= j /\ j < array.count})
<1>. DEFINE s == ArrayItems(array)
            I == {i \in DOMAIN s : s[i] = h}
            J == {j \in Indices : array.data[j] = h /\ 0 <= j /\ j < array.count}
            f == [i \in I |-> i - 1]
<1>1. /\ array.count \in Nat /\ array.count <= CountBound /\ CountBound \in Nat
      /\ \A j \in Indices : array.data[j] \in Observers \cup {NoObserver}
  BY EventAssumption DEF Typed, Arrays
<1>2. DOMAIN s = 1 .. array.count /\ \A i \in 1 .. array.count : s[i] = array.data[i - 1]
  BY DEF ArrayItems
<1>3. \A i \in 1 .. array.count : i - 1 \in Indices
  BY <1>1 DEF Indices
<1>4. s \in Seq(Observers \cup {NoObserver}) /\ Len(s) = array.count
  <2>1. s \in [1 .. array.count -> Observers \cup {NoObserver}]
    BY <1>1, <1>2, <1>3 DEF ArrayItems
  <2>. QED
    BY <1>1, <2>1
<1>. HIDE DEF s
<1>5. f \in Bijection(I, J)
  <2>1. \A i \in I : i - 1 \in J
    BY <1>1, <1>2, <1>3
  <2>2. \A j \in J : j + 1 \in I /\ f[j + 1] = j
    BY <1>1, <1>2 DEF Indices
  <2>3. \A i, k \in I : f[i] = f[k] => i = k
    BY <1>2
  <2>. QED
    BY <2>1, <2>2, <2>3 DEF Bijection, Injection, Surjection, IsInjective
<1>6. IsFiniteSet(I)
  <2>1. IsFiniteSet(1 .. array.count) /\ I \subseteq 1 .. array.count
    BY <1>1, <1>2, FS_Interval
  <2>. QED
    BY <2>1, FS_Subset
<1>7. Cardinality(J) = Cardinality(I)
  <2>1. ExistsBijection(I, J)
    BY <1>5 DEF ExistsBijection
  <2>. QED
    BY <1>6, <2>1, FS_Bijection
<1>. QED
  BY <1>4, <1>7 DEF Occurrences, s

LEMMA AheadFinite ==
    ASSUME NEW t, NEW h
    PROVE  /\ IsFiniteSet(Ahead(t, h)) /\ Cardinality(Ahead(t, h)) \in Nat
           /\ IsFiniteSet(Ahead(t, h)') /\ Cardinality(Ahead(t, h)') \in Nat
<1>1. IsFiniteSet(Indices)
  BY EventAssumption, FS_Interval DEF Indices
<1>2. Ahead(t, h) \subseteq Indices /\ Ahead(t, h)' \subseteq Indices
  BY DEF Ahead
<1>. QED
  BY <1>1, <1>2, FS_Subset, FS_CardinalityType

-----------------------------------------------------------------------------
(* What the steps of others do to a send.                                    *)

\* Where a thread is and what it has found and called.
Still(u) ==
    /\ at'[u] = at[u] /\ index'[u] = index[u] /\ target'[u] = target[u]
    /\ pointer'[u] = pointer[u] /\ before'[u] = before[u] /\ called'[u] = called[u]

\* A step of another thread tells a send what it did.
LEMMA DidDuring ==
    ASSUME NEW t \in Threads, NEW kinds, Did(t, kinds), NEW u \in Threads
    PROVE  /\ at[u] \in InSend /\ u # t =>
                during'[u] = during[u] \cup (kinds \cap {"registered", "removed"})
           /\ at[u] \in InSend \ {"sent"} /\ u = t => during'[u] = during[u]
           /\ at[u] = "idle" => during'[u] = {}
BY DEF Did, InSend

LEMMA StillSends ==
    ASSUME NEW u \in Threads, Sends(u), Still(u), array' = array,
           at[u] \in InSend => during[u] \subseteq during'[u]
    PROVE  Sends(u)'
<1>1. Place(u)'
  BY DEF Sends, Place, Still
<1>2. InOrder(u)'
  BY DEF Sends, InOrder, Still
<1>3. \A h : Ahead(u, h)' = Ahead(u, h) /\ AboutToCall(u, h)' = AboutToCall(u, h)
  BY DEF Ahead, ToCome, AboutToCall, Still
<1>4. NoneTwice(u)'
  BY <1>3 DEF Sends, NoneTwice, Still
<1>. QED
  BY <1>1, <1>2, <1>4 DEF Sends

\* A thread that is in no send.
LEMMA IdleSends ==
    ASSUME NEW u \in Threads, at'[u] = "idle", index'[u] = 0, called'[u] = <<>>
    PROVE  Sends(u)'
BY DEF Sends, Place, InOrder, NoneTwice, InSend

\* An observer is added behind the others.
LEMMA AddedSends ==
    ASSUME Typed, NEW u \in Threads, Sends(u), Still(u), NEW h \in Observers,
           array.count < CountBound, array' = ArrayAdd(array, h),
           before[u] \in Seq(Observers \cup {NoObserver}),
           at[u] \in InSend => during'[u] = during[u] \cup {"registered"}
    PROVE  Sends(u)'
<1>1. /\ array'.count = array.count + 1
      /\ array'.data = [array.data EXCEPT ![array.count] = h]
  BY AddEffect
<1>2. array.count \in Nat /\ array.data \in [Indices -> Observers \cup {NoObserver}]
      /\ CountBound \in Nat
  BY EventAssumption DEF Typed, Arrays
<1>3. \A i \in 0 .. array.count - 1 : array'.data[i] = array.data[i]
  BY <1>1, <1>2 DEF Indices
<1>4. Place(u)'
  BY DEF Sends, Place, Still
<1>5. InOrder(u)'
  <2>. SUFFICES ASSUME at[u] \in InSend, "removed" \notin during[u]
                PROVE  InOrder(u)'
    BY DEF InOrder, Still
  <2>1. /\ InOrder(u) /\ Len(before[u]) \in Nat /\ Len(before[u]) <= array.count
        /\ \A i \in 1 .. Len(before[u]) : before[u][i] = array.data[i - 1]
    BY DEF Sends, InOrder
  <2>2. \A i \in 1 .. Len(before[u]) : before[u][i] = array'.data[i - 1]
    BY <1>2, <1>3, <2>1
  <2>. QED
    BY <1>1, <1>2, <2>1, <2>2 DEF InOrder, Still
<1>6. NoneTwice(u)'
  BY DEF NoneTwice, Still
<1>. QED
  BY <1>4, <1>5, <1>6 DEF Sends

\* The last observer takes the place of the one that is removed: it is no more ahead at the end,
\* if it is ahead now.
LEMMA RemovedAhead ==
    ASSUME Typed, NEW u \in Threads, Still(u), NEW i \in Nat, i < array.count,
           array' = ArrayRemoveAt(array, i), NEW h
    PROVE  Cardinality(Ahead(u, h)') <= Cardinality(Ahead(u, h))
<1>0. PICK last \in Int : last = array.count - 1
  BY EventAssumption DEF Typed, Arrays
<1>1. /\ array'.count = last
      /\ array'.data = [array.data EXCEPT ![i] = array.data[last]]
  BY <1>0, RemoveEffect
<1>2. array.count \in Nat /\ array.data \in [Indices -> Observers \cup {NoObserver}]
      /\ CountBound \in Nat /\ array.count <= CountBound /\ index[u] \in Nat
  BY EventAssumption DEF Typed, Arrays
<1>3. i \in Indices /\ last \in Indices /\ i <= last /\ i \in Int
  BY <1>0, <1>2 DEF Indices
<1>4. \A j \in Indices : array'.data[j] = IF j = i THEN array.data[last] ELSE array.data[j]
  BY <1>1, <1>2
<1>5. \A j \in Indices : ToCome(u, j)' => ToCome(u, j)
  BY <1>0, <1>1, <1>2 DEF ToCome, Still, Indices
<1>6. \A j \in Ahead(u, h)' : j # i => j \in Ahead(u, h)
  BY <1>4, <1>5 DEF Ahead
<1>7. CASE i = last \/ i \notin Ahead(u, h)'
  <2>1. Ahead(u, h)' \subseteq Ahead(u, h)
    BY <1>4, <1>5, <1>6, <1>7 DEF Ahead
  <2>. QED
    BY <2>1, AheadFinite, FS_Subset
<1>8. CASE i # last /\ i \in Ahead(u, h)'
  <2>1. array.data[last] = h /\ ToCome(u, i)
    BY <1>4, <1>5, <1>8 DEF Ahead
  <2>2. ToCome(u, last)
    BY <1>0, <1>2, <1>3, <1>8, <2>1 DEF ToCome
  <2>3. last \in Ahead(u, h)
    BY <1>3, <2>1, <2>2 DEF Ahead
  <2>4. last \notin Ahead(u, h)'
    <3>1. ~ToCome(u, last)'
      <4>1. CASE at[u] = "read" /\ last = index[u]
        BY <1>2, <1>3, <1>8, <2>1, <4>1 DEF ToCome
      <4>2. CASE ~(at[u] = "read" /\ last = index[u])
        BY <1>1, <1>2, <4>2 DEF ToCome, Still
      <4>. QED
        BY <4>1, <4>2
    <3>. QED
      BY <3>1 DEF Ahead
  <2>. DEFINE B == Ahead(u, h) \ {last}
  <2>5. IsFiniteSet(B) /\ Cardinality(B) = Cardinality(Ahead(u, h)) - 1
    BY <2>3, AheadFinite, FS_RemoveElement
  <2>6. Ahead(u, h)' \subseteq B \cup {i}
    BY <1>6, <2>4
  <2>7. IsFiniteSet(B \cup {i}) /\ Cardinality(B \cup {i}) <= Cardinality(Ahead(u, h))
    <3>1. /\ IsFiniteSet(B \cup {i})
          /\ Cardinality(B \cup {i}) = IF i \in B THEN Cardinality(B) ELSE Cardinality(B) + 1
      BY <2>5, FS_AddElement, Zenon
    <3>2. Cardinality(Ahead(u, h)) \in Nat
      BY AheadFinite
    <3>. QED
      BY <2>5, <3>1, <3>2
  <2>8. Cardinality(Ahead(u, h)') <= Cardinality(B \cup {i})
    BY <2>6, <2>7, FS_Subset
  <2>9. /\ Cardinality(B \cup {i}) \in Nat
        /\ Cardinality(Ahead(u, h)) \in Nat /\ Cardinality(Ahead(u, h)') \in Nat
    BY <2>7, AheadFinite, FS_CardinalityType
  <2>. QED
    BY <2>7, <2>8, <2>9
<1>. QED
  BY <1>7, <1>8

LEMMA RemovedSends ==
    ASSUME Typed, NEW u \in Threads, Sends(u), Still(u), NEW i \in Nat, i < array.count,
           array' = ArrayRemoveAt(array, i),
           called[u] \in Seq(Observers), before[u] \in Seq(Observers \cup {NoObserver}),
           at[u] \in InSend => during'[u] = during[u] \cup {"removed"}
    PROVE  Sends(u)'
<1>1. Place(u)'
  BY DEF Sends, Place, Still
<1>2. InOrder(u)'
  BY DEF InOrder, Still
<1>3. NoneTwice(u)'
  <2>. SUFFICES ASSUME at[u] \in InSend, "registered" \notin during[u], NEW h \in Observers
                PROVE  Occurrences(called[u], h) + AboutToCall(u, h)' + Cardinality(Ahead(u, h)')
                         <= Occurrences(before[u], h)
    BY DEF NoneTwice, Still
  <2>1. Occurrences(called[u], h) + AboutToCall(u, h) + Cardinality(Ahead(u, h))
          <= Occurrences(before[u], h)
    BY DEF Sends, NoneTwice
  <2>2. Cardinality(Ahead(u, h)') <= Cardinality(Ahead(u, h))
    BY RemovedAhead
  <2>3. AboutToCall(u, h)' = AboutToCall(u, h) /\ AboutToCall(u, h) \in Nat
    BY DEF AboutToCall, Still
  <2>4. Occurrences(called[u], h) \in Nat /\ Occurrences(before[u], h) \in Nat
    BY OccurrencesNat
  <2>. QED
    BY <2>1, <2>2, <2>3, <2>4, AheadFinite
<1>. QED
  BY <1>1, <1>2, <1>3 DEF Sends

-----------------------------------------------------------------------------
(* The steps of a send.                                                      *)

LEMMA OccurrencesNone == \A h : Occurrences(<<>>, h) = 0
<1>. SUFFICES ASSUME NEW h PROVE Occurrences(<<>>, h) = 0
  OBVIOUS
<1>1. {i \in DOMAIN <<>> : <<>>[i] = h} = {}
  OBVIOUS
<1>. QED
  BY <1>1, FS_EmptySet DEF Occurrences

LEMMA SendBegins ==
    ASSUME Typed, SendTypes, NEW t \in Threads, Sends(t), Send(t)
    PROVE  Sends(t)'
<1>1. /\ at[t] = "idle" /\ Did(t, {})
      /\ at' = [at EXCEPT ![t] = "count"]
      /\ before' = [before EXCEPT ![t] = ArrayItems(array)]
      /\ UNCHANGED <<array, index, target, pointer, called>>
  BY DEF Send
<1>2. /\ at'[t] = "count" /\ before'[t] = ArrayItems(array)
      /\ index'[t] = 0 /\ called'[t] = <<>> /\ during'[t] = {}
  BY <1>1, DidDuring DEF Typed, SendTypes, Sends, Place
<1>3. array.count \in Nat /\ CountBound \in Nat
  BY EventAssumption DEF Typed, Arrays
<1>4. Place(t)'
  BY <1>2, <1>3 DEF Place
<1>5. InOrder(t)'
  <2>1. Len(before'[t]) = array.count
    BY <1>2, OccurrencesItems
  <2>2. \A i \in 1 .. array.count : before'[t][i] = array.data[i - 1]
    BY <1>2 DEF ArrayItems
  <2>. QED
    BY <1>1, <1>2, <1>3, <2>1, <2>2 DEF InOrder
<1>6. ASSUME NEW h \in Observers
      PROVE  Occurrences(called'[t], h) + AboutToCall(t, h)' + Cardinality(Ahead(t, h)')
               <= Occurrences(before'[t], h)
  <2>1. Ahead(t, h)' = {j \in Indices : array.data[j] = h /\ 0 <= j /\ j < array.count}
    BY <1>1, <1>2 DEF Ahead, ToCome
  <2>2. Cardinality(Ahead(t, h)') = Occurrences(before'[t], h)
    BY <1>2, <2>1, OccurrencesItems
  <2>3. AboutToCall(t, h)' = 0 /\ Occurrences(called'[t], h) = 0
    BY <1>2, OccurrencesNone DEF AboutToCall
  <2>. QED
    BY <2>2, <2>3, AheadFinite
<1>. QED
  BY <1>4, <1>5, <1>6 DEF Sends, NoneTwice

\* A send that has called as many as there are is over; one that has not reads the next handle.
LEMMA SendCounts ==
    ASSUME Typed, SendTypes, NEW t \in Threads, Sends(t), Count(t)
    PROVE  Sends(t)'
<1>1. /\ at[t] = "count" /\ Did(t, {})
      /\ at'[t] = IF index[t] < array.count THEN "get" ELSE "sent"
      /\ UNCHANGED <<array, index, target, pointer, before, called>>
  BY DEF Count, MoreObservers, Typed
<1>2. /\ array.count \in Nat /\ array.count <= CountBound /\ CountBound \in Nat
      /\ index[t] \in Nat
  BY EventAssumption DEF Typed, Arrays
<1>3. during'[t] = during[t]
  BY <1>1, DidDuring DEF InSend
<1>4. Place(t)'
  BY <1>1, <1>2 DEF Sends, Place, InSend
<1>5. InOrder(t)'
  <2>1. at'[t] \in InSend /\ at[t] \in InSend /\ at'[t] \notin {"look_up", "call"}
    BY <1>1 DEF InSend
  <2>2. Len(called[t]) = index[t]
    BY <2>1 DEF Sends, Place
  <2>3. "removed" \notin during[t] /\ at'[t] = "sent" => Len(before[t]) <= Len(called[t])
    <3>1. Len(before[t]) \in Nat
      BY DEF SendTypes
    <3>. QED
      BY <1>1, <1>2, <2>1, <2>2, <3>1 DEF Sends, InOrder
  <2>. QED
    BY <1>1, <1>3, <2>1, <2>3 DEF Sends, InOrder
<1>6. ASSUME NEW h \in Observers
      PROVE  /\ Cardinality(Ahead(t, h)') <= Cardinality(Ahead(t, h))
             /\ AboutToCall(t, h)' = AboutToCall(t, h)
  <2>1. Ahead(t, h)' \subseteq Ahead(t, h)
    BY <1>1 DEF Ahead, ToCome
  <2>. QED
    BY <1>1, <2>1, AheadFinite, FS_Subset DEF AboutToCall
<1>7. NoneTwice(t)'
  <2>1. \A h \in Observers : /\ Occurrences(called[t], h) \in Nat
                             /\ Occurrences(before[t], h) \in Nat
                             /\ AboutToCall(t, h) \in Nat
    BY OccurrencesNat DEF SendTypes, AboutToCall
  <2>. QED
    BY <1>1, <1>3, <1>6, <2>1, AheadFinite DEF Sends, NoneTwice, InSend
<1>. QED
  BY <1>4, <1>5, <1>7 DEF Sends

LEMMA SendGets ==
    ASSUME Typed, SendTypes, NEW t \in Threads, Sends(t), GetHandle(t), Running', Running
    PROVE  Sends(t)'
<1>1. /\ at[t] = "get" /\ Did(t, {}) /\ index[t] < array.count
      /\ at'[t] = "read"
      /\ UNCHANGED <<array, index, target, before, called>>
  <2>1. ~Fails(t, "index_out_of_bounds")
    BY FailsStops
  <2>2. index[t] \in Nat /\ array.count \in Nat
    BY EventAssumption DEF Typed, Arrays
  <2>. QED
    BY <2>1, <2>2 DEF GetHandle, Typed
<1>2. array.count \in Nat /\ array.count <= CountBound /\ CountBound \in Nat /\ index[t] \in Nat
  BY EventAssumption DEF Typed, Arrays
<1>3. during'[t] = during[t]
  BY <1>1, DidDuring DEF InSend
<1>4. Place(t)'
  BY <1>1, <1>2 DEF Sends, Place, InSend
<1>5. InOrder(t)'
  BY <1>1, <1>3 DEF Sends, InOrder, InSend
<1>6. ASSUME NEW h \in Observers
      PROVE  Ahead(t, h)' = Ahead(t, h) /\ AboutToCall(t, h)' = AboutToCall(t, h)
  BY <1>1, <1>2 DEF Ahead, ToCome, AboutToCall, Indices
<1>7. NoneTwice(t)'
  BY <1>1, <1>3, <1>6 DEF Sends, NoneTwice, InSend
<1>. QED
  BY <1>4, <1>5, <1>7 DEF Sends

\* The observer that is found at the send's place is ahead no more, but about to be called.
LEMMA SendReads ==
    ASSUME EInv, SendTypes, NEW t \in Threads, Sends(t), ReadHandle(t), Running', Running
    PROVE  Sends(t)'
<1>1. /\ at[t] = "read" /\ Did(t, {})
      /\ at'[t] = "look_up" /\ target'[t] = Pointed(t) /\ pointer[t][2] = index[t]
      /\ UNCHANGED <<array, index, before, called>>
  <2>1. ~Fails(t, "dangling_pointer")
    BY FailsStops
  <2>. QED
    BY <2>1 DEF ReadHandle, EInv, Typed, Thread, Got
<1>2. /\ Pointed(t) = array.data[index[t]]
      /\ index[t] \in Indices /\ index[t] \in Nat
  BY <1>1, EventAssumption DEF Sends, Place, Pointed, EInv, Typed, Indices
<1>3. during'[t] = during[t]
  BY <1>1, DidDuring DEF InSend
<1>4. Place(t)'
  BY <1>1, <1>2 DEF Sends, Place, InSend
<1>5. InOrder(t)'
  <2>1. "removed" \notin during[t] /\ index[t] < Len(before[t]) =>
          target'[t] = before[t][index[t] + 1]
    <3>1. Len(before[t]) \in Nat
      BY DEF SendTypes
    <3>2. index[t] < Len(before[t]) =>
            index[t] + 1 \in 1 .. Len(before[t]) /\ index[t] + 1 - 1 = index[t]
      BY <1>2, <3>1
    <3>. QED
      BY <1>1, <1>2, <3>2 DEF Sends, InOrder, InSend
  <2>. QED
    BY <1>1, <1>3, <2>1 DEF Sends, InOrder, InSend
<1>6. ASSUME NEW h \in Observers
      PROVE  /\ AboutToCall(t, h) = 0
             /\ Cardinality(Ahead(t, h)') + AboutToCall(t, h)' = Cardinality(Ahead(t, h))
  <2>1. Ahead(t, h)' = Ahead(t, h) \ {index[t]}
    BY <1>1, <1>2 DEF Ahead, ToCome, Indices
  <2>2. index[t] \in Ahead(t, h) <=> Pointed(t) = h
    BY <1>1, <1>2 DEF Ahead, ToCome
  <2>3. Cardinality(Ahead(t, h)') =
          IF Pointed(t) = h THEN Cardinality(Ahead(t, h)) - 1 ELSE Cardinality(Ahead(t, h))
    BY <2>1, <2>2, AheadFinite, FS_RemoveElement
  <2>4. AboutToCall(t, h) = 0 /\ AboutToCall(t, h)' = IF Pointed(t) = h THEN 1 ELSE 0
    BY <1>1 DEF AboutToCall
  <2>. QED
    BY <2>3, <2>4, AheadFinite
<1>7. NoneTwice(t)'
  <2>1. \A h \in Observers : /\ Occurrences(called[t], h) \in Nat
                             /\ AboutToCall(t, h)' \in Nat
    BY OccurrencesNat DEF SendTypes, AboutToCall
  <2>. QED
    BY <1>1, <1>3, <1>6, <2>1, AheadFinite DEF Sends, NoneTwice, InSend
<1>. QED
  BY <1>4, <1>5, <1>7 DEF Sends

\* The observer that was found is still about to be called.
LEMMA SendLooksUp ==
    ASSUME SendTypes, Typed, NEW t \in Threads, Sends(t), LookUp(t), Running', Running
    PROVE  Sends(t)'
<1>1. /\ at[t] = "look_up" /\ Did(t, {}) /\ target[t] \in Observers
      /\ at'[t] = "call"
      /\ UNCHANGED <<array, index, target, before, called>>
  <2>1. ~Fails(t, "no_observer")
    BY FailsStops
  <2>. QED
    BY <2>1 DEF LookUp, Typed, SendTypes
<1>2. during'[t] = during[t]
  BY <1>1, DidDuring DEF InSend
<1>3. Place(t)'
  BY <1>1 DEF Sends, Place, InSend
<1>4. InOrder(t)'
  BY <1>1, <1>2 DEF Sends, InOrder, InSend
<1>5. ASSUME NEW h \in Observers
      PROVE  Ahead(t, h)' = Ahead(t, h) /\ AboutToCall(t, h)' = AboutToCall(t, h)
  BY <1>1 DEF Ahead, ToCome, AboutToCall
<1>6. NoneTwice(t)'
  BY <1>1, <1>2, <1>5 DEF Sends, NoneTwice, InSend
<1>. QED
  BY <1>3, <1>4, <1>6 DEF Sends

LEMMA SendCalls ==
    ASSUME Typed, SendTypes, NEW t \in Threads, Sends(t), Call(t), Running', Running
    PROVE  Sends(t)' /\ called'[t] \in Seq(Observers)
<1>1. /\ at[t] = "call" /\ Did(t, {})
      /\ at'[t] = "count" /\ index'[t] = index[t] + 1
      /\ called'[t] = Append(called[t], target[t])
      /\ UNCHANGED <<array, before>>
  <2>1. ~Fails(t, "dangling_observer") /\ ~Fails(t, "destroyed_observer_called")
    BY FailsStops
  <2>. QED
    BY <2>1 DEF Call, Typed, SendTypes
<1>2. /\ target[t] \in Observers /\ called[t] \in Seq(Observers) /\ index[t] \in Nat
      /\ Len(called[t]) = index[t] /\ index[t] < CountBound /\ CountBound \in Nat
      /\ array.count \in Nat /\ Len(before[t]) \in Nat
  BY <1>1, EventAssumption DEF Sends, Place, Typed, SendTypes, Arrays, InSend
<1>3. during'[t] = during[t]
  BY <1>1, DidDuring DEF InSend
<1>4. /\ called'[t] \in Seq(Observers) /\ Len(called'[t]) = index[t] + 1
      /\ \A i \in 1 .. index[t] : called'[t][i] = called[t][i]
      /\ called'[t][index[t] + 1] = target[t]
  BY <1>1, <1>2
<1>5. Place(t)'
  BY <1>1, <1>2, <1>4 DEF Place
<1>6. InOrder(t)'
  <2>. SUFFICES ASSUME "removed" \notin during[t]
                PROVE  InOrder(t)'
    BY <1>3 DEF InOrder
  <2>1. /\ Len(before[t]) <= array.count
        /\ \A i \in 1 .. Len(before[t]) : before[t][i] = array.data[i - 1]
        /\ \A i \in 1 .. Len(before[t]) : i <= index[t] => called[t][i] = before[t][i]
        /\ index[t] < Len(before[t]) => target[t] = before[t][index[t] + 1]
    BY <1>1, <1>2 DEF Sends, InOrder, InSend
  <2>2. ASSUME NEW i \in 1 .. Len(before[t]), i <= index[t] + 1
        PROVE  called'[t][i] = before[t][i]
    <3>1. CASE i <= index[t]
      BY <1>2, <1>4, <2>1, <3>1
    <3>2. CASE i = index[t] + 1
      BY <1>2, <1>4, <2>1, <3>2
    <3>. QED
      BY <1>2, <2>2, <3>1, <3>2
  <2>. QED
    BY <1>1, <1>4, <2>1, <2>2 DEF InOrder
<1>7. ASSUME NEW h \in Observers
      PROVE  /\ AboutToCall(t, h)' = 0
             /\ Occurrences(called'[t], h) = Occurrences(called[t], h) + AboutToCall(t, h)
             /\ Ahead(t, h)' = Ahead(t, h)
  <2>1. AboutToCall(t, h)' = 0 /\ AboutToCall(t, h) = IF target[t] = h THEN 1 ELSE 0
    BY <1>1 DEF AboutToCall
  <2>2. Occurrences(called'[t], h) = Occurrences(called[t], h) + AboutToCall(t, h)
    BY <1>1, <1>2, <2>1, OccurrencesAppend
  <2>3. Ahead(t, h)' = Ahead(t, h)
    BY <1>1, <1>2 DEF Ahead, ToCome, Indices
  <2>. QED
    BY <2>1, <2>2, <2>3
<1>8. NoneTwice(t)'
  <2>1. \A h \in Observers : /\ Occurrences(called[t], h) \in Nat
                             /\ AboutToCall(t, h) \in Nat
    BY OccurrencesNat DEF SendTypes, AboutToCall
  <2>. QED
    BY <1>1, <1>3, <1>7, <2>1, AheadFinite DEF Sends, NoneTwice, InSend
<1>. QED
  BY <1>4, <1>5, <1>6, <1>8 DEF Sends

-----------------------------------------------------------------------------
(* Every step.                                                               *)

\* The steps that leave the observers of the event alone.
LEMMA AloneSends ==
    ASSUME SendInv, NEW t \in Threads, NEW kinds, Did(t, kinds), array' = array,
           \A u \in Threads \ {t} : Still(u), Sends(t)'
    PROVE  \A u \in Threads : Sends(u)'
<1>. SUFFICES ASSUME NEW u \in Threads \ {t} PROVE Sends(u)'
  OBVIOUS
<1>1. at[u] \in InSend => during[u] \subseteq during'[u]
  BY DidDuring
<1>. QED
  BY <1>1, StillSends DEF SendInv

LEMMA DeregisterSends ==
    ASSUME EInv, SendInv, NEW t \in Threads, NEW h \in Observers, Deregister(t, h)
    PROVE  SendInv'
<1>1. /\ at[t] = "idle" /\ ArrayFind(array, h) # -1 /\ Did(t, {})
      /\ at' = [at EXCEPT ![t] = "remove"]
      /\ index' = [index EXCEPT ![t] = ArrayFind(array, h)]
      /\ target' = [target EXCEPT ![t] = h]
      /\ UNCHANGED <<array, alive, destroyed, pointer, before, called, orphans>>
  BY DEF Deregister
<1>2. \A u \in Threads \ {t} : Still(u)
  BY <1>1 DEF Still, EInv, Typed
<1>3. /\ at'[t] = "remove" /\ called'[t] = <<>> /\ index'[t] < CountBound
  <2>1. ArrayFind(array, h) < array.count /\ ArrayFind(array, h) \in Nat
    BY <1>1, FindFinds DEF EInv
  <2>2. array.count \in Nat /\ array.count <= CountBound /\ CountBound \in Nat
    BY EventAssumption DEF EInv, Typed, Arrays
  <2>. QED
    BY <1>1, <2>1, <2>2 DEF EInv, Typed, SendInv, Sends, Place
<1>4. Sends(t)'
  BY <1>3 DEF Sends, Place, InOrder, NoneTwice, InSend
<1>5. SendTypes'
  BY <1>1 DEF SendInv, SendTypes
<1>. QED
  BY <1>1, <1>2, <1>4, <1>5, AloneSends DEF SendInv

\* Observers are made and destroyed whether or not they are registered.
LEMMA CreateDestroySends ==
    ASSUME EInv, SendInv, NEW t \in Threads, NEW h \in Observers, Create(t, h) \/ Destroy(t, h)
    PROVE  SendInv'
<1>1. /\ at[t] = "idle" /\ \E kinds : Did(t, kinds)
      /\ UNCHANGED <<array, at, index, target, pointer, before, called>>
      /\ alive' \subseteq alive \cup {h} /\ destroyed' \in {destroyed, destroyed \cup {h}}
      /\ orphans' \subseteq orphans \cup {h}
      /\ orphans' # orphans => destroyed' = destroyed \cup {h}
  BY DEF Create, Destroy, caller
<1>2. \A u \in Threads : Still(u)
  BY <1>1 DEF Still
<1>3. Sends(t)'
  BY <1>1, IdleSends DEF SendInv, Sends, Place
<1>4. SendTypes'
  BY <1>1 DEF SendInv, SendTypes
<1>. QED
  BY <1>1, <1>2, <1>3, <1>4, AloneSends DEF SendInv

LEMMA RegisterSends ==
    ASSUME EInv, SendInv, NEW t \in Threads, NEW h \in Observers, Register(t, h)
    PROVE  SendInv'
<1>. DEFINE kinds == {"registered"} \cup IF array'.block # array.block THEN {"moved"} ELSE {}
<1>1. /\ at[t] = "idle" /\ Did(t, kinds)
      /\ array.count < CountBound /\ array' = ArrayAdd(array, h)
      /\ UNCHANGED <<alive, destroyed, at, index, target, pointer, before, called, orphans>>
  BY DEF Register, caller
<1>2. kinds \cap {"registered", "removed"} = {"registered"}
  OBVIOUS
<1>. HIDE DEF kinds
<1>3. \A u \in Threads : Still(u)
  BY <1>1 DEF Still
<1>4. Sends(t)'
  BY <1>1, IdleSends DEF SendInv, Sends, Place
<1>5. ASSUME NEW u \in Threads \ {t}
      PROVE  Sends(u)'
  <2>1. at[u] \in InSend => during'[u] = during[u] \cup {"registered"}
    BY <1>1, <1>2, DidDuring
  <2>. QED
    BY <1>1, <1>3, <2>1, AddedSends DEF EInv, SendInv, SendTypes
<1>6. 0 < array'.capacity /\ array'.count <= array'.capacity
  <2>1. array.count \in Nat /\ array.capacity \in Nat /\ array \in Arrays
    BY EventAssumption DEF EInv, Typed, Arrays
  <2>2. CASE array.count = array.capacity
    <3>1. WithRoom(array) =
            [array EXCEPT !.capacity = 2 * array.capacity, !.block = array.block + 1]
      BY <2>2 DEF WithRoom
    <3>2. array'.capacity = 2 * array.capacity /\ array'.count = array.count + 1
      BY <1>1, <2>1, <3>1 DEF ArrayAdd, Arrays
    <3>. QED
      BY <2>1, <2>2, <3>2 DEF SendInv, SendTypes
  <2>3. CASE array.count # array.capacity
    <3>1. WithRoom(array) = array
      BY <2>3 DEF WithRoom
    <3>2. array'.capacity = array.capacity /\ array'.count = array.count + 1
      BY <1>1, <2>1, <3>1 DEF ArrayAdd, Arrays
    <3>. QED
      BY <2>1, <2>3, <3>2 DEF SendInv, SendTypes
  <2>. QED
    BY <2>2, <2>3
<1>7. SendTypes'
  BY <1>1, <1>6 DEF SendInv, SendTypes
<1>. QED
  BY <1>4, <1>5, <1>7 DEF SendInv

\* The end of a deregistration.
LEMMA RemoveFoundSends ==
    ASSUME EInv, SendInv, NEW t \in Threads, RemoveFound(t), Running', Running
    PROVE  SendInv'
<1>1. /\ index[t] < array.count /\ array' = ArrayRemoveAt(array, index[t])
      /\ Returns(t) /\ Did(t, {"removed"})
      /\ UNCHANGED <<alive, destroyed, orphans>>
  <2>1. ~Fails(t, "wrong_observer_removed")
    BY FailsStops
  <2>2. index[t] \in Nat /\ array.count \in Nat
    BY EventAssumption DEF EInv, Typed, Arrays
  <2>. QED
    BY <2>1, <2>2 DEF RemoveFound
<1>2. /\ \A u \in Threads \ {t} : Still(u)
      /\ at'[t] = "idle" /\ index'[t] = 0 /\ called'[t] = <<>>
      /\ before' \in [Threads -> Seq(Observers \cup {NoObserver})]
      /\ called' \in [Threads -> Seq(Observers)]
  BY <1>1 DEF Returns, Still, EInv, Typed, SendInv, SendTypes
<1>3. ASSUME NEW u \in Threads \ {t}
      PROVE  Sends(u)'
  <2>1. at[u] \in InSend => during'[u] = during[u] \cup {"removed"}
    BY <1>1, DidDuring
  <2>2. index[t] \in Nat
    BY DEF EInv, Typed
  <2>. QED
    BY <1>1, <1>2, <2>1, <2>2, RemovedSends DEF EInv, SendInv, SendTypes
<1>4. Sends(t)'
  BY <1>2, IdleSends
<1>5. 0 < array'.capacity /\ array'.count <= array'.capacity
  <2>1. array.count \in Nat /\ array.capacity \in Nat /\ array \in Arrays
    BY EventAssumption DEF EInv, Typed, Arrays
  <2>2. array'.capacity = array.capacity /\ array'.count = array.count - 1
    BY <1>1, <2>1 DEF ArrayRemoveAt, Arrays
  <2>. QED
    BY <2>1, <2>2 DEF SendInv, SendTypes
<1>. QED
  BY <1>1, <1>2, <1>3, <1>4, <1>5 DEF SendInv, SendTypes

LEMMA SendSteps ==
    ASSUME EInv, SendInv, NEW t \in Threads, Running', Running,
           Send(t) \/ Count(t) \/ GetHandle(t) \/ ReadHandle(t) \/ LookUp(t) \/ Call(t)
             \/ Sent(t)
    PROVE  SendInv'
<1>1. /\ Did(t, {})
      /\ UNCHANGED <<array, alive, destroyed, orphans>>
  <2>1. \A kind : kind # "none" => ~Fails(t, kind)
    BY FailsStops
  <2>2. ~Fails(t, "index_out_of_bounds") /\ ~Fails(t, "dangling_pointer")
        /\ ~Fails(t, "no_observer") /\ ~Fails(t, "destroyed_observer_called")
        /\ ~Fails(t, "dangling_observer")
    BY <2>1
  <2>. QED
    BY <2>2 DEF Send, Count, GetHandle, ReadHandle, LookUp, Call, Sent
<1>2. \A u \in Threads \ {t} : Still(u)
  <2>2. ~Fails(t, "index_out_of_bounds") /\ ~Fails(t, "dangling_pointer")
        /\ ~Fails(t, "no_observer") /\ ~Fails(t, "destroyed_observer_called")
        /\ ~Fails(t, "dangling_observer")
    BY FailsStops
  <2>. QED
    BY <2>2 DEF Send, Count, GetHandle, ReadHandle, LookUp, Call, Sent, Returns, Still, EInv,
                Typed, SendInv, SendTypes
<1>3. /\ Sends(t)'
      /\ before'[t] \in Seq(Observers \cup {NoObserver}) /\ called'[t] \in Seq(Observers)
  <2>0. /\ before[t] \in Seq(Observers \cup {NoObserver}) /\ called[t] \in Seq(Observers)
        /\ Sends(t) /\ Typed /\ SendTypes
    BY DEF SendInv, SendTypes, EInv
  <2>1. CASE Send(t)
    BY <2>0, <2>1, SendBegins, OccurrencesItems DEF Send, SendTypes
  <2>2. CASE Count(t)
    BY <2>0, <2>2, SendCounts DEF Count
  <2>3. CASE GetHandle(t)
    <3>1. UNCHANGED <<before, called>>
      BY <2>3 DEF GetHandle, Fails, caller
    <3>. QED
      BY <2>0, <2>3, <3>1, SendGets
  <2>4. CASE ReadHandle(t)
    <3>1. UNCHANGED <<before, called>>
      BY <2>4 DEF ReadHandle, Fails, caller
    <3>. QED
      BY <2>0, <2>4, <3>1, SendReads
  <2>5. CASE LookUp(t)
    <3>1. UNCHANGED <<before, called>>
      BY <2>5 DEF LookUp, Fails, caller
    <3>. QED
      BY <2>0, <2>5, <3>1, SendLooksUp
  <2>6. CASE Call(t)
    <3>1. UNCHANGED before
      BY <2>6 DEF Call, Fails, caller
    <3>. QED
      BY <2>0, <2>6, <3>1, SendCalls
  <2>7. CASE Sent(t)
    <3>1. /\ at'[t] = "idle" /\ index'[t] = 0 /\ called'[t] = <<>> /\ before'[t] = <<>>
      BY <2>7 DEF Sent, Returns, EInv, Typed, SendInv, SendTypes
    <3>. QED
      BY <3>1, IdleSends
  <2>. QED
    BY <2>1, <2>2, <2>3, <2>4, <2>5, <2>6, <2>7
<1>4. /\ before' \in [Threads -> Seq(Observers \cup {NoObserver})]
      /\ called' \in [Threads -> Seq(Observers)]
  <2>1. /\ before' \in [Threads -> Seq(Observers \cup {NoObserver}) \cup {before'[t]}]
        /\ called' \in [Threads -> Seq(Observers) \cup {called'[t]}]
    BY DEF Send, Count, GetHandle, ReadHandle, LookUp, Call, Sent, Returns, SendInv, SendTypes,
           Fails, caller
  <2>. QED
    BY <1>3, <2>1
<1>5. \A u \in Threads : Sends(u)'
  BY <1>1, <1>2, <1>3, AloneSends
<1>. QED
  BY <1>1, <1>4, <1>5 DEF SendInv, SendTypes

LEMMA NothingSends ==
    ASSUME SendInv, UNCHANGED <<array, alive, destroyed, orphans, caller, during>>
    PROVE  SendInv'
<1>1. \A u \in Threads : Still(u) /\ during'[u] = during[u]
  BY DEF Still, caller
<1>2. \A u \in Threads : Sends(u)'
  BY <1>1, StillSends DEF SendInv
<1>. QED
  BY <1>2 DEF SendInv, SendTypes, caller

LEMMA RenewSends ==
    ASSUME EInv, SendInv, Renew
    PROVE  SendInv'
<1>1. /\ array' = NewArray /\ \A t \in Threads : at[t] = "idle"
      /\ UNCHANGED <<alive, destroyed, at, index, before, called, orphans>>
  BY DEF Renew, caller
<1>2. 0 < array'.capacity /\ array'.count <= array'.capacity
  BY <1>1, EventAssumption DEF NewArray
<1>3. \A u \in Threads : Sends(u)'
  BY <1>1, IdleSends DEF SendInv, Sends, Place
<1>. QED
  BY <1>1, <1>2, <1>3 DEF SendInv, SendTypes

LEMMA SendInvNext == EInv /\ SendInv /\ [Next]_vars => SendInv'
<1>. SUFFICES ASSUME EInv, SendInv, [Next]_vars PROVE SendInv'
  OBVIOUS
<1>1. ASSUME NEW t \in Threads, NEW h \in Observers,
             Create(t, h) \/ Destroy(t, h) \/ Register(t, h) \/ Deregister(t, h)
      PROVE  SendInv'
  BY <1>1, CreateDestroySends, RegisterSends, DeregisterSends
<1>2. ASSUME NEW t \in Threads,
             \/ RemoveFound(t) \/ Send(t) \/ Count(t) \/ GetHandle(t) \/ ReadHandle(t)
             \/ LookUp(t) \/ Call(t) \/ Sent(t)
      PROVE  SendInv'
  <2>1. Running
    BY <1>2 DEF RemoveFound, Send, Count, GetHandle, ReadHandle, LookUp, Call, Sent
  <2>2. CASE Running'
    BY <1>2, <2>1, <2>2, RemoveFoundSends, SendSteps
  <2>3. CASE ~Running'
    <3>1. fault' # fault
      BY <2>1, <2>3 DEF Running
    <3>2. UNCHANGED <<array, alive, destroyed, orphans, caller, during>>
      BY <1>2, <3>1 DEF RemoveFound, Send, Count, GetHandle, ReadHandle, LookUp, Call, Sent, Fails
    <3>. QED
      BY <3>2, NothingSends
  <2>. QED
    BY <2>2, <2>3
<1>3. CASE Renew
  BY <1>3, RenewSends
<1>4. CASE UNCHANGED vars
  BY <1>4, NothingSends DEF vars
<1>. QED
  BY <1>1, <1>2, <1>3, <1>4 DEF Next

LEMMA SendInvReaches == EInv /\ SendInv => SendsReachAll
<1>. SUFFICES ASSUME EInv, SendInv PROVE SendsReachAll
  OBVIOUS
<1>1. TypeOK
  <2>1. \A t \in Threads : index[t] \in 0 .. CountBound
    BY EventAssumption DEF EInv, Typed, PCs, SendInv, Sends, Place, InSend
  <2>. QED
    BY <2>1 DEF EInv, Typed, PCs, Arrays, SendInv, SendTypes, TypeOK
<1>2. ASSUME NEW t \in Threads, at[t] = "sent", "removed" \notin during[t]
      PROVE  /\ Len(called[t]) >= Len(before[t])
             /\ SubSeq(called[t], 1, Len(before[t])) = before[t]
  <2>. DEFINE n == Len(before[t])
  <2>1. /\ n \in Nat /\ n <= Len(called[t]) /\ called[t] \in Seq(Observers)
        /\ before[t] \in Seq(Observers \cup {NoObserver})
        /\ \A i \in 1 .. n : called[t][i] = before[t][i]
    BY <1>2 DEF SendInv, SendTypes, Sends, InOrder, InSend
  <2>2. SubSeq(called[t], 1, n) = [i \in 1 .. n |-> called[t][i]]
    BY <2>1
  <2>3. before[t] = [i \in 1 .. n |-> before[t][i]]
    BY <2>1
  <2>. QED
    BY <2>1, <2>2, <2>3
<1>3. ASSUME NEW t \in Threads, at[t] = "sent", "registered" \notin during[t],
             NEW h \in Observers
      PROVE  Occurrences(called[t], h) <= Occurrences(before[t], h)
  <2>1. Occurrences(called[t], h) + AboutToCall(t, h) + Cardinality(Ahead(t, h))
          <= Occurrences(before[t], h)
    BY <1>3 DEF SendInv, Sends, NoneTwice, InSend
  <2>2. /\ AboutToCall(t, h) \in Nat
        /\ Occurrences(called[t], h) \in Nat /\ Occurrences(before[t], h) \in Nat
    BY OccurrencesNat DEF AboutToCall, SendInv, SendTypes
  <2>. QED
    BY <2>1, <2>2, AheadFinite
<1>. QED
  BY <1>1, <1>2, <1>3 DEF SendsReachAll

\* Whatever other threads do meanwhile, event_send calls every observer that was registered when
\* it began, in order, unless one is deregistered; and no observer more often than it was
\* registered then, unless one is registered (event.c:84-92, array.c:119-131).
THEOREM SendsCorrect == Spec => []SendsReachAll
<1>1. Init => SendInv
  <2>. SUFFICES ASSUME Init PROVE SendInv
    OBVIOUS
  <2>1. SendTypes
    BY EventAssumption DEF Init, SendTypes, NewArray
  <2>2. \A t \in Threads : Sends(t)
    BY DEF Init, Sends, Place, InOrder, NoneTwice, InSend
  <2>. QED
    BY <2>1, <2>2 DEF SendInv
<1>. QED
  BY <1>1, EInvInit, EInvNext, SendInvNext, SendInvReaches, PTL DEF Spec

=============================================================================
