-------------------------------- MODULE Event --------------------------------
(***************************************************************************)
(* core/event.c: observers are registered with an event, and sending it    *)
(* calls them.  The list of the event is an array (core/array.c) whose     *)
(* functions take a lock each (core/array_threadsafe.c), so every one of   *)
(* them is a step; what event.c does with several of them is not atomic.   *)
(* The cache of all observers (core/cache_threadsafe.c) is the set of the   *)
(* handles that are in use and its capacity: when it grows, the observers   *)
(* move, and a pointer to one dangles.                                      *)
(***************************************************************************)
EXTENDS Integers, Sequences, FiniteSets

CONSTANTS
    Threads,
    Senders,        \* bound: the threads that send the event; sending changes nothing
    Observers,      \* observer handles, none of which is given out twice
    NoObserver,     \* what memory nobody wrote holds
    Capacity,       \* the capacity of the array of a new event
    ObserverCapacity,   \* the initial capacity of the cache of observers
    CountBound      \* bound: the observers that can be registered

ASSUME EventAssumption ==
    /\ Senders \subseteq Threads
    /\ Capacity \in Nat \ {0} /\ ObserverCapacity \in Nat \ {0} /\ CountBound \in Nat
    /\ NoObserver \notin Observers

VARIABLES
    array,          \* Event.observers: its block of memory, capacity and count
    alive,          \* _obs_man.observers: the handles in use
    observers_capacity, \* and its capacity, which tells one block of its memory from another
    destroyed,      \* the handles of destroyed observers
    at,             \* where each thread is
    index,          \* the index it counts or has found
    target,         \* the handle it deregisters, or has read to look up and call
    pointer,        \* what array_ts_get or cache_ts_get gave it: a block and an index into it
    fault,          \* how the program failed, and in which thread
    before,         \* history: the observers registered when each thread's send began,
    called,         \* those it called,
    during,         \* what other threads did since its call began,
    since,          \* and, of what its next step relies on, since it last called a function
                    \* of the array or the cache;
    orphans         \* the observers that were destroyed while they were registered

caller == <<at, index, target, pointer, before, called>>
vars == <<array, alive, observers_capacity, destroyed, caller, fault, during, since, orphans>>

Indices == 0 .. (CountBound - 1)
NoFault == [kind |-> "none", thread |-> CHOOSE t \in Threads : TRUE]

-----------------------------------------------------------------------------
(* core/array.c, for items without a free_func.                              *)

\* array_init.
NewArray ==
    [data |-> [i \in Indices |-> NoObserver], count |-> 0, capacity |-> Capacity, block |-> 0]

\* _array_next_element: a full array doubles, and moves to a new block.
WithRoom(a) ==
    IF a.count = a.capacity THEN [a EXCEPT !.capacity = 2 * @, !.block = @ + 1] ELSE a

\* Mutant: the first item makes room for the new one.
ArrayAddFirst(a, item) ==
    LET r == WithRoom(a) IN
    [r EXCEPT !.data = [r.data EXCEPT ![r.count] = r.data[0], ![0] = item], !.count = @ + 1]

ArrayAdd(a, item) ==
    LET r == WithRoom(a) IN [r EXCEPT !.data[r.count] = item, !.count = @ + 1]

\* array_remove_at: the last item takes the place.
ArrayRemoveAt(a, i) ==
    [a EXCEPT !.data[i] = a.data[a.count - 1], !.count = @ - 1]

ArrayItems(a) == [i \in 1 .. a.count |-> a.data[i - 1]]

\* array_find, with -1 for none.
ArrayFind(a, item) ==
    LET found == {i \in Indices : i < a.count /\ a.data[i] = item}
    IN  IF found = {} THEN -1 ELSE CHOOSE i \in found : \A j \in found : i <= j

-----------------------------------------------------------------------------

\* eventing_init and event_init.
Init ==
    /\ array = NewArray
    /\ alive = {} /\ destroyed = {} /\ orphans = {}
    /\ observers_capacity = ObserverCapacity
    /\ at = [t \in Threads |-> "idle"]
    /\ index = [t \in Threads |-> 0]
    /\ target = [t \in Threads |-> NoObserver]
    /\ pointer = [t \in Threads |-> <<0, 0>>]
    /\ fault = NoFault
    /\ before = [t \in Threads |-> <<>>]
    /\ called = [t \in Threads |-> <<>>]
    /\ during = [t \in Threads |-> {}]
    /\ since = [t \in Threads |-> {}]

Running == fault = NoFault

\* What of the doings of others bears on the next step of a call.
Concerns(place) ==
    CASE place \in {"remove", "get"} -> {"removed"}
      [] place = "read" -> {"removed", "destroyed", "moved"}
      [] place = "look_up" -> {"removed", "destroyed"}
      [] place = "call" -> {"destroyed", "grown"}
      [] OTHER -> {}

\* The step of t did these kinds of things to what the calls of the others see.
Did(t, kinds) ==
    /\ since' = [u \in Threads |->
                   IF u = t /\ at[u] # "read" THEN {}
                   ELSE since[u] \cup (kinds \cap Concerns(at[u]))]
    /\ during' = [u \in Threads |->
                    IF at[u] \in {"idle", "remove"} \/ (u = t /\ at[u] = "sent") THEN {}
                    ELSE IF u = t THEN during[u]
                    ELSE during[u] \cup (kinds \cap {"registered", "removed"})]

\* The program fails in t.
Fails(t, kind) ==
    /\ fault' = [kind |-> kind, thread |-> t]
    /\ UNCHANGED <<array, alive, observers_capacity, destroyed, caller, during, since, orphans>>

\* t comes to the end of its call.
Returns(t) ==
    /\ at' = [at EXCEPT ![t] = "idle"]
    /\ index' = [index EXCEPT ![t] = 0]
    /\ target' = [target EXCEPT ![t] = NoObserver]
    /\ pointer' = [pointer EXCEPT ![t] = <<0, 0>>]
    /\ before' = [before EXCEPT ![t] = <<>>]
    /\ called' = [called EXCEPT ![t] = <<>>]

\* _check_resize of the cache: a full one doubles, and its items move.
RoomForObserver ==
    IF Cardinality(alive) = observers_capacity THEN 2 * observers_capacity ELSE observers_capacity

\* observer_create.
Create(t, h) ==
    /\ Running /\ at[t] = "idle"
    /\ h \notin alive \cup destroyed
    /\ alive' = alive \cup {h}
    /\ observers_capacity' = RoomForObserver
    /\ Did(t, IF observers_capacity' # observers_capacity THEN {"grown"} ELSE {})
    /\ UNCHANGED <<array, destroyed, caller, fault, orphans>>

\* observer_destroy.
Destroy(t, h) ==
    /\ Running /\ at[t] = "idle"
    /\ h \in alive
    /\ alive' = alive \ {h}
    /\ destroyed' = destroyed \cup {h}
    /\ orphans' = IF ArrayFind(array, h) = -1 THEN orphans ELSE orphans \cup {h}
    /\ Did(t, {"destroyed"})
    /\ UNCHANGED <<array, observers_capacity, caller, fault>>

\* event_register_observer.
Register(t, h) ==
    /\ Running /\ at[t] = "idle"
    /\ h \in alive
    /\ array.count < CountBound
    /\ array' = ArrayAdd(array, h)
    /\ Did(t, {"registered"} \cup IF array'.block # array.block THEN {"moved"} ELSE {})
    /\ UNCHANGED <<alive, observers_capacity, destroyed, caller, fault, orphans>>

\* event_deregister_observer: array_ts_find,
Deregister(t, h) ==
    /\ Running /\ at[t] = "idle"
    /\ ArrayFind(array, h) # -1
    /\ at' = [at EXCEPT ![t] = "remove"]
    /\ index' = [index EXCEPT ![t] = ArrayFind(array, h)]
    /\ target' = [target EXCEPT ![t] = h]
    /\ Did(t, {})
    /\ UNCHANGED <<array, alive, observers_capacity, destroyed, pointer, before, called, fault, orphans>>

\* then array_ts_remove_at of the place that was found.  It fails when another observer is
\* there by now, or the last one was taken away.
RemoveFound(t) ==
    /\ Running /\ at[t] = "remove"
    /\ IF index[t] >= array.count \/ array.data[index[t]] # target[t]
         THEN Fails(t, "wrong_observer_removed")
         ELSE /\ array' = ArrayRemoveAt(array, index[t])
              /\ Returns(t)
              /\ Did(t, {"removed"})
              /\ UNCHANGED <<alive, observers_capacity, destroyed, fault, orphans>>

\* event_send.
Send(t) ==
    /\ Running /\ at[t] = "idle"
    /\ t \in Senders
    /\ at' = [at EXCEPT ![t] = "count"]
    /\ before' = [before EXCEPT ![t] = ArrayItems(array)]
    /\ Did(t, {})
    /\ UNCHANGED <<array, alive, observers_capacity, destroyed, index, target, pointer, called,
                   fault, orphans>>

\* Mutant: one more.
MoreObserversOrEqual(t) == index[t] <= array.count

\* The loop's condition.
MoreObservers(t) == index[t] < array.count

\* array_ts_count.
Count(t) ==
    /\ Running /\ at[t] = "count"
    /\ at' = [at EXCEPT ![t] = IF MoreObservers(t) THEN "get" ELSE "sent"]
    /\ Did(t, {})
    /\ UNCHANGED <<array, alive, observers_capacity, destroyed, index, target, pointer, before, called, fault,
                   orphans>>

\* array_ts_get, which asserts that the index is one.
GetHandle(t) ==
    /\ Running /\ at[t] = "get"
    /\ IF index[t] >= array.count THEN Fails(t, "index_out_of_bounds")
       ELSE /\ pointer' = [pointer EXCEPT ![t] = <<array.block, index[t]>>]
            /\ at' = [at EXCEPT ![t] = "read"]
            /\ Did(t, {})
            /\ UNCHANGED <<array, alive, observers_capacity, destroyed, index, target, before, called, fault,
                           orphans>>

\* What the pointer points at, by now.
Pointed(t) == array.data[pointer[t][2]]

\* Reading the handle that the pointer points at,
ReadHandle(t) ==
    /\ Running /\ at[t] = "read"
    /\ IF pointer[t][1] # array.block THEN Fails(t, "dangling_pointer")
       ELSE /\ target' = [target EXCEPT ![t] = Pointed(t)]
            /\ pointer' = [pointer EXCEPT ![t] = <<0, 0>>]
            /\ at' = [at EXCEPT ![t] = "look_up"]
            /\ Did(t, {})
            /\ UNCHANGED <<array, alive, observers_capacity, destroyed, index, before, called,
                           fault, orphans>>

\* and cache_ts_get of it, which gives a pointer to the observer and leaves the lock.
LookUp(t) ==
    /\ Running /\ at[t] = "look_up"
    /\ IF target[t] \notin alive THEN Fails(t, "no_observer")
       ELSE /\ pointer' = [pointer EXCEPT ![t] = <<observers_capacity, 0>>]
            /\ at' = [at EXCEPT ![t] = "call"]
            /\ Did(t, {})
            /\ UNCHANGED <<array, alive, observers_capacity, destroyed, index, target, before,
                           called, fault, orphans>>

\* The callback and its data are read through that pointer, and it is called.  What it calls
\* itself, others can call before the next step.
Call(t) ==
    /\ Running /\ at[t] = "call"
    /\ IF pointer[t][1] # observers_capacity THEN Fails(t, "dangling_observer")
       ELSE IF target[t] \notin alive THEN Fails(t, "destroyed_observer_called")
       ELSE /\ called' = [called EXCEPT ![t] = Append(@, target[t])]
            /\ index' = [index EXCEPT ![t] = @ + 1]
            /\ target' = [target EXCEPT ![t] = NoObserver]
            /\ pointer' = [pointer EXCEPT ![t] = <<0, 0>>]
            /\ at' = [at EXCEPT ![t] = "count"]
            /\ Did(t, {})
            /\ UNCHANGED <<array, alive, observers_capacity, destroyed, before, fault, orphans>>

Sent(t) ==
    /\ Running /\ at[t] = "sent"
    /\ Returns(t)
    /\ Did(t, {})
    /\ UNCHANGED <<array, alive, observers_capacity, destroyed, fault, orphans>>

\* event_uninit and event_init, of an event that nobody uses.
Renew ==
    /\ Running /\ \A t \in Threads : at[t] = "idle"
    /\ array' = NewArray
    /\ UNCHANGED <<alive, observers_capacity, destroyed, caller, fault, during, since, orphans>>

Next ==
    \/ \E t \in Threads :
         \/ \E h \in Observers : Create(t, h) \/ Destroy(t, h) \/ Register(t, h) \/ Deregister(t, h)
         \/ RemoveFound(t)
         \/ Send(t) \/ Count(t) \/ GetHandle(t) \/ ReadHandle(t) \/ LookUp(t) \/ Call(t) \/ Sent(t)
    \/ Renew

Spec == Init /\ [][Next]_vars

-----------------------------------------------------------------------------
(* Properties.                                                               *)

TypeOK ==
    /\ array \in [data : [Indices -> Observers \cup {NoObserver}], count : 0 .. CountBound,
                  capacity : Nat, block : Nat]
    /\ array.count <= array.capacity
    /\ alive \cup destroyed \subseteq Observers /\ orphans \subseteq destroyed
    /\ observers_capacity \in Nat \ {0}
    /\ at \in [Threads -> {"idle", "remove", "count", "get", "read", "look_up", "call", "sent"}]
    /\ index \in [Threads -> 0 .. CountBound]
    /\ target \in [Threads -> Observers \cup {NoObserver}]
    /\ pointer \in [Threads -> Nat \X Nat]

Occurrences(seq, h) == Cardinality({i \in DOMAIN seq : seq[i] = h})

\* A send calls every observer that was registered when it began, once for each time, in the
\* order they were registered in and before any that came later, unless one was deregistered
\* meanwhile; then the observer that takes its place may be passed over, but unless one was
\* registered too none is called twice (event.c:84-92, array.c:119-131).
SendsReachAll ==
    /\ TypeOK
    /\ \A t \in Threads : at[t] = "sent" =>
         /\ "removed" \notin during[t] =>
              /\ Len(called[t]) >= Len(before[t])
              /\ SubSeq(called[t], 1, Len(before[t])) = before[t]
         /\ "registered" \notin during[t] =>
              \A h \in Observers : Occurrences(called[t], h) <= Occurrences(before[t], h)

\* Each way to fail has one cause, and is over if clients rule that out: an index is out of
\* bounds, or the wrong observer removed, only if one was deregistered since the last step; a
\* pointer to a handle dangles only if the array grew since it was got, and one to an observer
\* only if the cache of all observers did, which takes no more than an observer_create anywhere
\* in the program; and an observer is called that is no more only if it was destroyed while
\* registered, or deregistered or destroyed since the last step (event.c:75-92, cache.c:154-169).
FaultsKnown ==
    LET t == fault.thread IN
    CASE fault.kind = "none" -> TRUE
      [] fault.kind = "index_out_of_bounds" -> "removed" \in since[t]
      [] fault.kind = "wrong_observer_removed" -> "removed" \in since[t]
      [] fault.kind = "dangling_pointer" -> "moved" \in since[t]
      [] fault.kind = "no_observer" ->
           target[t] \in orphans \/ {"removed", "destroyed"} \subseteq since[t]
      [] fault.kind = "dangling_observer" -> "grown" \in since[t]
      [] fault.kind = "destroyed_observer_called" -> "destroyed" \in since[t]

=============================================================================
