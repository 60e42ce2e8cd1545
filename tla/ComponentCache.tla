--------------------------- MODULE ComponentCache ---------------------------
(***************************************************************************)
(* core/component_cache.c: the components of one type in a thread-safe     *)
(* cache, and in a second cache one readers-writer lock for each of them.  *)
(* A component is got and ungot under its own lock; the lock of the first  *)
(* cache, the type lock, guards both caches.                               *)
(*                                                                         *)
(* The locks are abstract ones, which RWLock implements (AbstractRWLock):  *)
(* a call waits until it is let in, a writer is queued while it waits, and *)
(* readers give way to queued writers.  What a thread does while it has    *)
(* the type lock for writing is one step.                                  *)
(***************************************************************************)
EXTENDS CacheOps, FiniteSets

CONSTANTS
    Threads,
    Component,          \* what a component is, which nothing here looks at
    InitialCapacity,    \* the capacity component_cache_init is given
    CapacityBound       \* bound: no call that would bring more components than that

ASSUME ComponentCacheAssumption ==
    /\ IsFiniteSet(Threads)
    /\ CapacityBound \in 1 .. MAX_CAPACITY
    /\ InitialCapacity \in 1 .. CapacityBound
    /\ NoItem # Component

VARIABLES
    components,       \* ComponentCache.components.cache
    type_lock,        \* ComponentCache.components.lock
    component_locks,  \* ComponentCache.component_locks
    pc,               \* the call each thread is in, and how far
    handle,           \* the handle it was called with
    write,            \* the kind of lock it was called with
    held,             \* whether the thread holds a component: handle, write
    lookups           \* the handles entities refer to (struct ComponentLookup)

caches == <<components, component_locks>>
vars == <<caches, type_lock, pc, handle, write, held, lookups>>

-----------------------------------------------------------------------------
(* Locks.                                                                    *)

FreshLock == [reading |-> {}, writing |-> {}, queued |-> {}]

CanLock(l, w) ==
    /\ l.writing = {}
    /\ IF w THEN l.reading = {} ELSE l.queued = {}

Locked(l, t, w) ==
    IF w THEN [l EXCEPT !.writing = {t}, !.queued = @ \ {t}]
         ELSE [l EXCEPT !.reading = @ \cup {t}]

Unlocked(l, t, w) ==
    IF w THEN [l EXCEPT !.writing = {}] ELSE [l EXCEPT !.reading = @ \ {t}]

\* A writer that is not let in joins the queue.
MustQueue(l, t, w) == w /\ ~CanLock(l, w) /\ t \notin l.queued

Queued(l, t) == [l EXCEPT !.queued = @ \cup {t}]

\* The lock of a component, and the cache with that lock changed.
ComponentLock(h) == Get(component_locks, h)
WithLock(h, l) == [component_locks EXCEPT !.items[h.idx] = l]

-----------------------------------------------------------------------------

Init ==
    /\ components = NewCache(InitialCapacity)
    /\ component_locks = NewCache(InitialCapacity)
    /\ type_lock = FreshLock
    /\ pc = [t \in Threads |-> "idle"]
    /\ handle = [t \in Threads |-> NullHandle]
    /\ write = [t \in Threads |-> FALSE]
    /\ held = [t \in Threads |-> FALSE]
    /\ lookups = {}

Goto(t, label) == pc' = [pc EXCEPT ![t] = label]

Call(t, label, h, w) ==
    /\ pc[t] = "idle"
    /\ Goto(t, label)
    /\ handle' = [handle EXCEPT ![t] = h]
    /\ write' = [write EXCEPT ![t] = w]

\* A call returns.  Its arguments are forgotten, but for the component that the
\* thread holds from then on.
Return(t) ==
    /\ Goto(t, "idle")
    /\ handle' = IF held'[t] THEN handle ELSE [handle EXCEPT ![t] = NullHandle]
    /\ write' = IF held'[t] THEN write ELSE [write EXCEPT ![t] = FALSE]

\* A thread waits for the type lock for writing, in emplace and remove, and in
\* component_cache_lock if it asks for that.
WantsTypeWrite(t) == pc[t] \in {"emplace", "remove"} \/ (pc[t] = "lock" /\ write[t])

TypeQueue(t) ==
    /\ WantsTypeWrite(t)
    /\ MustQueue(type_lock, t, TRUE)
    /\ type_lock' = Queued(type_lock, t)
    /\ UNCHANGED <<caches, pc, handle, write, held, lookups>>

(***************************************************************************)
(* component_cache_emplace_component.                                      *)
(***************************************************************************)

\* The bound of the model: the components there will be when every emplace that
\* has begun is done.
WithinBounds ==
    components.current_used + Cardinality({t \in Threads : pc[t] = "emplace"})
      < CapacityBound

\* The caller may hold a component meanwhile.
EmplaceCall(t) ==
    /\ pc[t] = "idle"
    /\ WithinBounds
    /\ Goto(t, "emplace")
    /\ UNCHANGED <<caches, type_lock, handle, write, held, lookups>>

\* The new handle goes to an entity (entity_add_component).
Emplace(t) ==
    /\ pc[t] = "emplace"
    /\ CanLock(type_lock, TRUE)
    /\ components' = Add(components, Component)
    /\ component_locks' = Add(component_locks, FreshLock)
    /\ type_lock' = Unlocked(Locked(type_lock, t, TRUE), t, TRUE)
    /\ lookups' = lookups \cup {AddedHandle(components)}
    /\ UNCHANGED held
    /\ Return(t)

(***************************************************************************)
(* component_cache_remove_component, of a component whose lookup the       *)
(* caller took out of its entity first.                                    *)
(***************************************************************************)

RemoveCall(t, h) ==
    /\ ~held[t]
    /\ h \in lookups
    /\ lookups' = lookups \ {h}
    /\ Call(t, "remove", h, TRUE)
    /\ UNCHANGED <<caches, type_lock, held>>

RemoveLockType(t) ==
    /\ pc[t] = "remove"
    /\ CanLock(type_lock, TRUE)
    /\ type_lock' = Locked(type_lock, t, TRUE)
    /\ Goto(t, "remove_component")
    /\ UNCHANGED <<caches, handle, write, held, lookups>>

\* Mutant: the lock outlives its component.
LocksKept(h) == component_locks

\* cache_remove on the locks runs rwlock_uninit on this one.
LocksWithout(h) == Remove(component_locks, h)

\* The kill flag that is set here is read by nobody: no thread can reach the
\* lock any more.
RemoveComponent(t) ==
    /\ pc[t] = "remove_component"
    /\ CanLock(ComponentLock(handle[t]), TRUE)
    /\ components' = Remove(components, handle[t])
    /\ component_locks' = LocksWithout(handle[t])
    /\ type_lock' = Unlocked(type_lock, t, TRUE)
    /\ UNCHANGED <<held, lookups>>
    /\ Return(t)

(***************************************************************************)
(* component_cache_get_component and component_cache_unget_component.      *)
(***************************************************************************)

\* A thread holds one component at a time.  Its handle may be stale.
GetCall(t, h, w) ==
    /\ ~held[t]
    /\ Call(t, "get", h, w)
    /\ UNCHANGED <<caches, type_lock, held, lookups>>

\* Mutant: the type lock is left before the component is locked.
TypeLockLeft(l, t) == l

\* The type lock while the call waits for the component: still read-locked.
TypeLockInGet(l, t) == Locked(l, t, FALSE)

GetLookup(t) ==
    /\ pc[t] = "get"
    /\ CanLock(type_lock, FALSE)
    /\ UNCHANGED <<caches, held, lookups>>
    /\ IF CheckHandle(components, handle[t])
         THEN /\ type_lock' = TypeLockInGet(type_lock, t)
              /\ Goto(t, "get_component")
              /\ UNCHANGED <<handle, write>>
         ELSE Return(t) /\ UNCHANGED type_lock

\* The wait for the component, of one that gets it and of one that removes it.
ComponentQueue(t) ==
    /\ pc[t] \in {"get_component", "remove_component"}
    /\ MustQueue(ComponentLock(handle[t]), t, write[t])
    /\ component_locks' = WithLock(handle[t], Queued(ComponentLock(handle[t]), t))
    /\ UNCHANGED <<components, type_lock, pc, handle, write, held, lookups>>

\* Mutant: whoever has looked the component up may use it.
GetUnguarded(t) == TRUE

\* rwlock_lock(component_lock, write) lets the thread in.
GetGuard(t) == CanLock(ComponentLock(handle[t]), write[t])

GetComponent(t) ==
    /\ pc[t] = "get_component"
    /\ GetGuard(t)
    /\ component_locks' =
         WithLock(handle[t], Locked(ComponentLock(handle[t]), t, write[t]))
    /\ type_lock' = Unlocked(type_lock, t, FALSE)
    /\ held' = [held EXCEPT ![t] = TRUE]
    /\ UNCHANGED <<components, lookups>>
    /\ Return(t)

UngetCall(t) ==
    /\ held[t]
    /\ pc[t] = "idle"
    /\ Goto(t, "unget")
    /\ UNCHANGED <<caches, type_lock, handle, write, held, lookups>>

\* Mutant: the component stays locked.
ComponentKept(h, t, w) == component_locks

ComponentReleased(h, t, w) == WithLock(h, Unlocked(ComponentLock(h), t, w))

\* Mutant: the type lock is taken the way the component was.
UngetGuardAsHeld(t) == CanLock(type_lock, write[t])

\* cache_ts_lock(&component_cache->components, READ) lets the thread in.
UngetGuard(t) == CanLock(type_lock, FALSE)

\* Nothing is unlocked if the component is gone.
Unget(t) ==
    /\ pc[t] = "unget"
    /\ UngetGuard(t)
    /\ component_locks' =
         IF CheckHandle(components, handle[t])
           THEN ComponentReleased(handle[t], t, write[t])
           ELSE component_locks
    /\ held' = [held EXCEPT ![t] = FALSE]
    /\ UNCHANGED <<components, type_lock, lookups>>
    /\ Return(t)

(***************************************************************************)
(* component_cache_lock and component_cache_unlock, around which a thread  *)
(* makes no other call.                                                    *)
(***************************************************************************)

LockCall(t, w) ==
    /\ ~held[t]
    /\ Call(t, "lock", NullHandle, w)
    /\ UNCHANGED <<caches, type_lock, held, lookups>>

Lock(t) ==
    /\ pc[t] = "lock"
    /\ CanLock(type_lock, write[t])
    /\ type_lock' = Locked(type_lock, t, write[t])
    /\ Goto(t, "locked")
    /\ UNCHANGED <<caches, handle, write, held, lookups>>

Unlock(t) ==
    /\ pc[t] = "locked"
    /\ type_lock' = Unlocked(type_lock, t, write[t])
    /\ UNCHANGED <<caches, held, lookups>>
    /\ Return(t)

\* What a call that has begun does as soon as it can; a thread also ungets what
\* it holds and leaves the type lock.
Step(t) ==
    \/ TypeQueue(t) \/ ComponentQueue(t)
    \/ Emplace(t)
    \/ RemoveLockType(t) \/ RemoveComponent(t)
    \/ GetLookup(t) \/ GetComponent(t)
    \/ UngetCall(t) \/ Unget(t)
    \/ Lock(t) \/ Unlock(t)

\* The handles clients have got hold of, in use or not.
ClientHandles == {h \in Handles : h.idx < components.max_used}

Next ==
    \E t \in Threads :
      \/ EmplaceCall(t)
      \/ \E h \in ClientHandles : RemoveCall(t, h)
      \/ \E h \in ClientHandles, w \in BOOLEAN : GetCall(t, h, w)
      \/ \E w \in BOOLEAN : LockCall(t, w)
      \/ Step(t)

Spec == Init /\ [][Next]_vars

\* Threads are scheduled, unget what they hold and leave the type lock, and a lock
\* that stays free for a thread lets it in.  Nobody has to call, and a thread may
\* be overtaken for ever, as RWLock allows.
Fairness == \A t \in Threads : WF_vars(Step(t))

FairSpec == Spec /\ Fairness

-----------------------------------------------------------------------------

LockType == [reading : SUBSET Threads, writing : SUBSET Threads, queued : SUBSET Threads]

CacheType(items) ==
    [handles : [Slots -> [valid : BOOLEAN, key : Keys \cup {MAX_GENERATIONS}, link : Slots]],
     items : [Slots -> items \cup {NoItem}],
     current_used : 0 .. IDX_MASK,
     max_used : 0 .. IDX_MASK,
     capacity : 1 .. 2 * CapacityBound,
     free_head : Slots]

TypeOK ==
    /\ components \in CacheType({Component})
    /\ component_locks \in CacheType(LockType)
    /\ type_lock \in LockType
    /\ pc \in [Threads -> {"idle", "emplace", "remove", "remove_component", "get",
                           "get_component", "unget", "lock", "locked"}]
    /\ handle \in [Threads -> Handles \cup {NullHandle}]
    /\ write \in [Threads -> BOOLEAN]
    /\ held \in [Threads -> BOOLEAN]
    /\ lookups \subseteq Handles

\* The assertion of component_cache_emplace_component: "component handle and lock
\* handle do not match" never happens, whatever was removed before, because both
\* caches answer to the same handles.
LocksMatch ==
    /\ TypeOK
    /\ AddedHandle(components) = AddedHandle(component_locks)
    /\ \A h \in Handles : CheckHandle(components, h) <=> CheckHandle(component_locks, h)

\* A thread that got a component for writing shares it with nobody; and what a
\* thread holds, or was found to exist and is now waited for, is neither removed
\* nor is its lock destroyed under the thread.
ExclusiveUse ==
    /\ \A t, u \in Threads :
         held[t] /\ held[u] /\ handle[t] = handle[u] /\ write[t] => t = u
    /\ \A t \in Threads :
         held[t] \/ pc[t] = "get_component" =>
           CheckHandle(components, handle[t]) /\ CheckHandle(component_locks, handle[t])

\* A component that is held is given back, though others wait for it and keep the
\* type lock for reading meanwhile: ungetting needs it for reading only.  Only one
\* who wants the type lock for writing, or removes a component, can prevent that.
HoldersReturn ==
    \A t \in Threads :
      held[t] ~> \/ ~held[t]
                 \/ \E u \in Threads : WantsTypeWrite(u) \/ pc[u] = "remove_component"

\* A removal returns, unless somebody holds a component, for the remover keeps the
\* type lock for writing, without which nobody can unget, or others overtake it.
RemoveReturns ==
    \A t \in Threads :
      pc[t] \in {"remove", "remove_component"}
        ~> \/ pc[t] = "idle"
           \/ \E u \in Threads : held[u]
           \/ \E u \in Threads \ {t} : WantsTypeWrite(u)

=============================================================================
