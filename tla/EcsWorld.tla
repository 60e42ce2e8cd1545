------------------------------ MODULE EcsWorld ------------------------------
(***************************************************************************)
(* core/ecs_world.c, entity.c and system.c: entities, their components,    *)
(* and systems, each of which keeps the list of the entities that have the *)
(* components it requires.  Systems learn of changes by events: at once,   *)
(* or, while they are being updated, by a queue of commands.               *)
(*                                                                         *)
(* Any thread creates and destroys entities and adds and removes           *)
(* components; Main also updates the systems, whose update functions do    *)
(* all that too.  The entities lock is an abstract lock (AbstractRWLock)   *)
(* that counts how often a reader has it.  The other locks are held for    *)
(* one step, except entity_handles of a system, which its update keeps.    *)
(***************************************************************************)
EXTENDS ArrayOps, FiniteSets, Functions

CONSTANTS
    Threads,
    Main,           \* the thread that calls ecs_world_update_systems
    Entities,       \* entity handles
    Types,          \* component types, all registered
    SystemOrder,    \* the systems, as the iterator of the cache_map meets them
    Required,       \* System.required_components, of each
    CommandsBound   \* bound: no call begins while as many commands are queued, for a
                    \* program of one thread, of two, and so on

Systems == {SystemOrder[i] : i \in DOMAIN SystemOrder}

ASSUME EcsWorldAssumption ==
    /\ IsFiniteSet(Threads) /\ Main \in Threads
    /\ IsFiniteSet(Entities) /\ Entities # {}
    /\ IsFiniteSet(Types) /\ Types # {}
    /\ SystemOrder \in Seq(Systems) /\ SystemOrder # <<>>
    /\ \A i, j \in DOMAIN SystemOrder : SystemOrder[i] = SystemOrder[j] => i = j
    /\ Required \in [Systems -> SUBSET Types]
    /\ CommandsBound \in [1 .. Cardinality(Threads) -> Nat]

VARIABLES
    threads,        \* the threads this program has
    live,           \* ECSWorld.entities.cache
    created,        \* the handles that were given out
    lookups,        \* Entity.components: the component each ComponentLookup is of
    components,     \* the component caches: <<entity, type, number>> of each component
    entities_lock,  \* ECSWorld.entities.lock
    state,          \* System.state
    entity_handles, \* System.entity_handles
    ecs_commands,   \* System.ecs_commands
    call,           \* the call each thread is in
    at,             \* how far it is
    entity,         \* the entity and
    type,           \* the component type it was called with
    found,          \* the component that is to be removed
    rest,           \* the systems it has yet to send its event to
    observer,       \* the one of them whose callback it is in
    update,         \* where Main is in ecs_world_update_systems
    overtaken,      \* history: the systems changed at once before their commands
    overlapped      \* history: the entities changed by two calls at a time, with types

world == <<live, created, lookups, components>>
system == <<state, entity_handles, ecs_commands>>
caller == <<call, at, entity, type, found, rest, observer>>
history == <<overtaken, overlapped>>
vars == <<threads, world, entities_lock, system, caller, update, history>>

FreshLock == [reading |-> [t \in Threads |-> 0], writing |-> {}, queued |-> {}]

\* What a thread that is in no call, or whose call is about less, has there.
AnyEntity == CHOOSE e \in Entities : TRUE
AnyType == CHOOSE c \in Types : TRUE
AnyComponent == <<AnyEntity, AnyType, 0>>
AnySystem == CHOOSE s \in Systems : TRUE

Init ==
    /\ threads \in {S \in SUBSET Threads : Main \in S}
    /\ live = {}
    /\ created = {}
    /\ lookups = [e \in Entities |-> <<>>]
    /\ components = {}
    /\ entities_lock = FreshLock
    /\ state = [s \in Systems |-> "idle"]
    /\ entity_handles = [s \in Systems |-> <<>>]
    /\ ecs_commands = [s \in Systems |-> <<>>]
    /\ call = [t \in Threads |-> "none"]
    /\ at = [t \in Threads |-> "idle"]
    /\ entity = [t \in Threads |-> AnyEntity]
    /\ type = [t \in Threads |-> AnyType]
    /\ found = [t \in Threads |-> AnyComponent]
    /\ rest = [t \in Threads |-> {}]
    /\ observer = [t \in Threads |-> AnySystem]
    /\ update = [phase |-> "none", system |-> 1, entity |-> 1]
    /\ overtaken = {}
    /\ overlapped = {}

-----------------------------------------------------------------------------
(* The entities lock.                                                        *)

Readers(l) == {t \in Threads : l.reading[t] > 0}

CanRead(l) == l.writing = {} /\ l.queued = {}

\* Mutant: readers do not keep writers out.
CanWriteDespiteReaders(l) == l.writing = {}

CanWrite(l) == l.writing = {} /\ Readers(l) = {}

ReadLocked(l, t) == [l EXCEPT !.reading[t] = @ + 1]

ReadUnlocked(l, t) == [l EXCEPT !.reading[t] = @ - 1]
WriteLocked(l, t) == [l EXCEPT !.writing = {t}, !.queued = @ \ {t}]
WriteUnlocked(l) == [l EXCEPT !.writing = {}]

-----------------------------------------------------------------------------
(* Calls.                                                                    *)

\* The bounds of the model.  Once a system was overtaken its list may be any, and
\* calls do not begin any more.  Once two calls for an entity overlapped, calls only
\* begin that remove its components and destroy it, when no call but removals goes on.
WithinBounds ==
    /\ overtaken = {}
    /\ SumFunction([s \in Systems |-> Len(ecs_commands[s])])
         < CommandsBound[Cardinality(threads)]

NoOverlap == overlapped = {}

OnlyOverlap(e) ==
    \A x \in overlapped : x.entity = e /\ \A t \in Threads : call[t] \in {"none", "remove"}

\* Main makes calls between updates and in the update functions.
MayCall(t) ==
    /\ t \in threads
    /\ at[t] = "idle"
    /\ t = Main => update.phase \in {"none", "update_func"}
    /\ WithinBounds

Begin(t, name, e, c) ==
    /\ MayCall(t)
    /\ call' = [call EXCEPT ![t] = name]
    /\ at' = [at EXCEPT ![t] = "lock"]
    /\ entity' = [entity EXCEPT ![t] = e]
    /\ type' = [type EXCEPT ![t] = c]
    /\ UNCHANGED <<threads, world, entities_lock, system, found, rest, observer, update,
                   history>>

Goto(t, label) == at' = [at EXCEPT ![t] = label]

\* A call returns with nobody left to send to.
Return(t) ==
    /\ Goto(t, "idle")
    /\ call' = [call EXCEPT ![t] = "none"]
    /\ entity' = [entity EXCEPT ![t] = AnyEntity]
    /\ type' = [type EXCEPT ![t] = AnyType]
    /\ UNCHANGED <<found, rest, observer>>

\* A pointer that is NULL is read through, which ends the program; what the function
\* changed before is left out.
Undefined(t) == Goto(t, "undefined")

Running == \A t \in Threads : at[t] # "undefined"

\* The event goes to the observers the code registered for it, in an order that
\* is left open: the one they were registered in.
Send(t, observers) ==
    /\ rest' = [rest EXCEPT ![t] = observers]
    /\ Goto(t, "send")

Observers(c) == {s \in Systems : c \in Required[s]}

WantsWrite(t) == at[t] = "lock" /\ call[t] \in {"create", "destroy"}

\* A writer that is not let in joins the queue.
Queue(t) ==
    /\ WantsWrite(t)
    /\ ~CanWrite(entities_lock)
    /\ t \notin entities_lock.queued
    /\ entities_lock' = [entities_lock EXCEPT !.queued = @ \cup {t}]
    /\ UNCHANGED <<threads, world, system, caller, update, history>>

(***************************************************************************)
(* ecs_world_create_entity, which sends no event.                          *)
(***************************************************************************)

\* Never given out before, and it does not matter which.
NewHandle == CHOOSE e \in Entities \ created : TRUE

CreateEntity(t) ==
    /\ call[t] = "create" /\ at[t] = "lock"
    /\ CanWrite(entities_lock)
    /\ live' = live \cup {NewHandle}
    /\ created' = created \cup {NewHandle}
    /\ entities_lock' = WriteUnlocked(WriteLocked(entities_lock, t))
    /\ Return(t)
    /\ UNCHANGED <<threads, lookups, components, system, update, history>>

(***************************************************************************)
(* ecs_world_destroy_entity, which has the entities lock while it sends.   *)
(***************************************************************************)

\* Mutant: the components of a destroyed entity stay.
ComponentsKept(e) == components

\* component_cache_remove_component for each of the entity's lookups.
ComponentsWithout(e) == components \ Range(lookups[e])

\* A component that is gone already has no lock to take.
DestroyEntity(t) ==
    /\ call[t] = "destroy" /\ at[t] = "lock"
    /\ CanWrite(entities_lock)
    /\ entities_lock' = WriteLocked(entities_lock, t)
    /\ IF Range(lookups[entity[t]]) \subseteq components
         THEN /\ live' = live \ {entity[t]}
              /\ lookups' = [lookups EXCEPT ![entity[t]] = <<>>]
              /\ components' = ComponentsWithout(entity[t])
              /\ Send(t, IF entity[t] \in live THEN Systems ELSE {})
         ELSE Undefined(t) /\ UNCHANGED <<live, lookups, components, rest>>
    /\ UNCHANGED <<threads, created, system, call, entity, type, found, observer, update,
                   history>>

(***************************************************************************)
(* ecs_world_entity_add_component, which has the entities lock for reading *)
(* from when it looks for the component until its event is sent.           *)
(***************************************************************************)

TypesOf(e) == [i \in DOMAIN lookups[e] |-> lookups[e][i][2]]

\* array_find by the type: where the entity's first lookup of it is.
Find(e, c) == ArrayFind(TypesOf(e), c)

\* Others that are past their look for what they add or remove, of the same entity,
\* unless both remove.
Overlapping(t) ==
    {u \in Threads : /\ call[u] \in {"add", "remove"} /\ at[u] \notin {"idle", "lock"}
                     /\ entity[u] = entity[t]
                     /\ "add" \in {call[t], call[u]}}

\* The call holds the entities lock and goes on from what it found.
GoOn(t) ==
    /\ Goto(t, "change")
    /\ entities_lock' = ReadLocked(entities_lock, t)
    /\ overlapped' = overlapped \cup
         {[entity |-> entity[t], types |-> {type[t], type[u]}] : u \in Overlapping(t)}

\* entity_has_component looks for the type.
Lacks(t) == entity[t] \in live /\ Find(entity[t], type[t]) = 0

AddFind(t) ==
    /\ call[t] = "add" /\ at[t] = "lock"
    /\ CanRead(entities_lock)
    /\ IF Lacks(t) THEN GoOn(t) /\ UNCHANGED <<call, entity, type, found, rest, observer>>
                   ELSE Return(t) /\ UNCHANGED <<entities_lock, overlapped>>
    /\ UNCHANGED <<threads, world, system, update, overtaken>>

\* A handle that is not that of another component, nor of one somebody remembers.
InUse ==
    components \cup {found[t] : t \in Threads} \cup UNION {Range(lookups[e]) : e \in Entities}

NewComponent(e, c) ==
    <<e, c, CHOOSE n \in 0 .. Cardinality(InUse) : <<e, c, n>> \notin InUse>>

AddComponent(t) ==
    /\ call[t] = "add" /\ at[t] = "change"
    /\ LET new == NewComponent(entity[t], type[t])
       IN  /\ components' = components \cup {new}
           /\ lookups' = [lookups EXCEPT ![entity[t]] = Append(@, new)]
    /\ Send(t, Observers(type[t]))
    /\ UNCHANGED <<threads, live, created, entities_lock, system, call, entity, type, found,
                   observer, update, history>>

\* The callback of a system goes on to read its state.
Callback(t, s) ==
    /\ observer' = [observer EXCEPT ![t] = s]
    /\ Goto(t, "state")

\* ecs_world_entity_has_components, which counts lookups.
HasComponents(e, required) ==
    /\ e \in live
    /\ Cardinality({i \in DOMAIN lookups[e] : TypesOf(e)[i] \in required})
         = Cardinality(required)

\* _system_add_entity asks the world, under the entities lock, which the thread
\* has for reading already.
AddQualify(t, s) ==
    /\ call[t] = "add" /\ at[t] = "send"
    /\ s \in rest[t]
    /\ CanRead(entities_lock)
    /\ IF HasComponents(entity[t], Required[s])
         THEN Callback(t, s) /\ UNCHANGED rest
         ELSE rest' = [rest EXCEPT ![t] = @ \ {s}] /\ UNCHANGED <<at, observer>>
    /\ UNCHANGED <<threads, world, entities_lock, system, call, entity, type, found, update,
                   history>>

(***************************************************************************)
(* ecs_world_entity_remove_component, which sends after it left the lock.  *)
(***************************************************************************)

\* Mutant: a system that requires another type too is not told.
ObserversOfThisOnly(c) == {s \in Systems : Required[s] = {c}}

RemoveObservers(c) == Observers(c)

\* entity_get_component looks for the type, and has the handle of the component.
Has(t) == entity[t] \in live /\ Find(entity[t], type[t]) # 0

RemoveFind(t) ==
    /\ call[t] = "remove" /\ at[t] = "lock"
    /\ CanRead(entities_lock)
    /\ IF Has(t)
         THEN /\ found' = [found EXCEPT ![t] = lookups[entity[t]][Find(entity[t], type[t])]]
              /\ GoOn(t)
              /\ UNCHANGED <<call, entity, type, rest, observer>>
         ELSE Return(t) /\ UNCHANGED <<entities_lock, overlapped>>
    /\ UNCHANGED <<threads, world, system, update, overtaken>>

\* entity_remove_component looks for the type again.
LookupsWithout(e, c) ==
    IF Find(e, c) = 0 THEN lookups[e] ELSE ArrayRemoveAt(lookups[e], Find(e, c))

\* A component that another call removed since has no lock to take.
RemoveComponent(t) ==
    /\ call[t] = "remove" /\ at[t] = "change"
    /\ IF found[t] \in components
         THEN /\ lookups' = [lookups EXCEPT ![entity[t]] = LookupsWithout(entity[t], type[t])]
              /\ components' = components \ {found[t]}
              /\ found' = [found EXCEPT ![t] = AnyComponent]
              /\ entities_lock' = ReadUnlocked(entities_lock, t)
              /\ Send(t, RemoveObservers(type[t]))
         ELSE Undefined(t) /\ UNCHANGED <<lookups, components, found, entities_lock, rest>>
    /\ UNCHANGED <<threads, live, created, system, call, entity, type, observer, update,
                   history>>

(***************************************************************************)
(* _system_event_callback: _system_add_entity, once the entity was found   *)
(* to qualify, and _system_remove_entity.                                  *)
(***************************************************************************)

\* Mutant: a system that is being updated is changed at once.
AlwaysDirect(s) == "direct"

\* The state is read without a lock.
Delivery(s) == IF state[s] = "updating" THEN "command" ELSE "direct"

ReadState(t) ==
    /\ at[t] = "state"
    /\ Goto(t, Delivery(observer[t]))
    /\ UNCHANGED <<threads, world, entities_lock, system, call, entity, type, found, rest,
                   observer, update, history>>

\* _system_remove_entity asks the world nothing.
RemoveSend(t, s) ==
    /\ call[t] \in {"remove", "destroy"} /\ at[t] = "send"
    /\ s \in rest[t]
    /\ observer' = [observer EXCEPT ![t] = s]
    /\ Goto(t, Delivery(s))
    /\ UNCHANGED <<threads, world, entities_lock, system, call, entity, type, found, rest,
                   update, history>>

Delivered(t) ==
    /\ rest' = [rest EXCEPT ![t] = @ \ {observer[t]}]
    /\ observer' = [observer EXCEPT ![t] = AnySystem]
    /\ Goto(t, "send")

Command(t) == [op |-> IF call[t] = "add" THEN "add" ELSE "remove", entity |-> entity[t]]

\* One command, as system_process_ecs_commands does it and as it is done at once.
Applied(handles, command) ==
    IF command.op = "add" THEN Append(handles, command.entity)
    ELSE ArrayFindAndRemove(handles, command.entity)

QueueCommand(t) ==
    /\ at[t] = "command"
    /\ ecs_commands' = [ecs_commands EXCEPT ![observer[t]] = Append(@, Command(t))]
    /\ Delivered(t)
    /\ UNCHANGED <<threads, world, entities_lock, state, entity_handles, call,
                   entity, type, found, update, history>>

\* system_update has the lock of the list.
HandlesLocked(s) ==
    update.phase = "update_func" /\ SystemOrder[update.system] = s

Direct(t) ==
    /\ at[t] = "direct"
    /\ ~HandlesLocked(observer[t])
    /\ entity_handles' =
         [entity_handles EXCEPT ![observer[t]] = Applied(@, Command(t))]
    /\ overtaken' = IF ecs_commands[observer[t]] = <<>> THEN overtaken
                    ELSE overtaken \cup {observer[t]}
    /\ Delivered(t)
    /\ UNCHANGED <<threads, world, entities_lock, state, ecs_commands, call,
                   entity, type, found, update, overlapped>>

\* Every observer has had the event: the call leaves the lock it still has.
Finish(t) ==
    /\ at[t] = "send"
    /\ rest[t] = {}
    /\ entities_lock' = CASE call[t] = "add" -> ReadUnlocked(entities_lock, t)
                          [] call[t] = "destroy" -> WriteUnlocked(entities_lock)
                          [] OTHER -> entities_lock
    /\ Return(t)
    /\ UNCHANGED <<threads, world, system, update, history>>

(***************************************************************************)
(* ecs_world_update_systems: process every system's commands, update every *)
(* system, process again.                                                  *)
(***************************************************************************)

System == SystemOrder[update.system]

Phase(p) == update' = [update EXCEPT !.phase = p]

\* The same for the next system, or else what comes after it.
Onward(same, after) ==
    update' = IF update.system < Len(SystemOrder)
                THEN [phase |-> same, system |-> update.system + 1, entity |-> 1]
                ELSE [phase |-> after, system |-> 1, entity |-> 1]

UpdateSystems ==
    /\ update.phase = "none"
    /\ at[Main] = "idle"
    /\ Phase("process")
    /\ UNCHANGED <<threads, world, entities_lock, system, caller, history>>

Processed(handles, commands) ==
    LET Done[n \in 0 .. Len(commands)] ==
          IF n = 0 THEN handles ELSE Applied(Done[n - 1], commands[n])
    IN  Done[Len(commands)]

\* system_process_ecs_commands, which has both locks of the system.
Process ==
    /\ update.phase \in {"process", "process_again"}
    /\ entity_handles' =
         [entity_handles EXCEPT ![System] = Processed(@, ecs_commands[System])]
    /\ ecs_commands' = [ecs_commands EXCEPT ![System] = <<>>]
    /\ Onward(update.phase, IF update.phase = "process" THEN "start" ELSE "none")
    /\ UNCHANGED <<threads, world, entities_lock, state, caller, history>>

\* system_update: the state, then the lock.
SetUpdating ==
    /\ update.phase = "start"
    /\ state' = [state EXCEPT ![System] = "updating"]
    /\ Phase("lock")
    /\ UNCHANGED <<threads, world, entities_lock, entity_handles, ecs_commands, caller,
                   history>>

\* The lock is taken and, if there is no entity, left again.
LockHandles ==
    /\ update.phase = "lock"
    /\ Phase(IF entity_handles[System] = <<>> THEN "unlocked" ELSE "update_func")
    /\ UNCHANGED <<threads, world, entities_lock, system, caller, history>>

\* The next entity; after the last, the lock is left.
UpdateFuncReturns ==
    /\ update.phase = "update_func"
    /\ at[Main] = "idle"
    /\ IF update.entity < Len(entity_handles[System])
         THEN update' = [update EXCEPT !.entity = @ + 1]
         ELSE Phase("unlocked")
    /\ UNCHANGED <<threads, world, entities_lock, system, caller, history>>

SetIdle ==
    /\ update.phase = "unlocked"
    /\ state' = [state EXCEPT ![System] = "idle"]
    /\ Onward("start", "process_again")
    /\ UNCHANGED <<threads, world, entities_lock, entity_handles, ecs_commands, caller,
                   history>>

UpdateStep ==
    Process \/ SetUpdating \/ LockHandles \/ SetIdle

(***************************************************************************)

Step(t) ==
    \/ Queue(t)
    \/ CreateEntity(t) \/ DestroyEntity(t)
    \/ AddFind(t) \/ AddComponent(t) \/ RemoveFind(t) \/ RemoveComponent(t)
    \/ \E s \in Systems : AddQualify(t, s) \/ RemoveSend(t, s)
    \/ ReadState(t) \/ QueueCommand(t) \/ Direct(t)
    \/ Finish(t)

\* Entities are as many as there are handles.
Creating == {t \in Threads : call[t] = "create"}

Call(t) ==
    \/ /\ Cardinality(created) + Cardinality(Creating) < Cardinality(Entities)
       /\ NoOverlap
       /\ Begin(t, "create", AnyEntity, AnyType)
    \/ \E e \in created : OnlyOverlap(e) /\ Begin(t, "destroy", e, AnyType)
    \/ \E e \in created, c \in Types : NoOverlap /\ Begin(t, "add", e, c)
    \/ \E e \in created, c \in Types : OnlyOverlap(e) /\ Begin(t, "remove", e, c)

Next ==
    /\ Running
    /\ \/ \E t \in Threads : Call(t) \/ Step(t)
       \/ UpdateSystems \/ UpdateStep \/ UpdateFuncReturns

Spec == Init /\ [][Next]_vars

\* Threads are scheduled, and update functions return in the end.
Fairness ==
    /\ \A t \in Threads : WF_vars(Running /\ Step(t))
    /\ WF_vars(Running /\ UpdateStep)
    /\ SF_vars(Running /\ UpdateFuncReturns)

FairSpec == Spec /\ Fairness

-----------------------------------------------------------------------------

TypeOK ==
    /\ threads \subseteq Threads
    /\ live \subseteq created /\ created \subseteq Entities
    /\ \A e \in Entities : lookups[e] \in Seq(Entities \X Types \X Nat)
    /\ components \subseteq Entities \X Types \X Nat
    /\ entities_lock \in [reading : [Threads -> 0 .. 1], writing : SUBSET Threads,
                          queued : SUBSET Threads]
    /\ state \in [Systems -> {"idle", "updating"}]
    /\ \A s \in Systems :
         /\ entity_handles[s] \in Seq(Entities)
         /\ ecs_commands[s] \in Seq([op : {"add", "remove"}, entity : Entities])
    /\ call \in [Threads -> {"none", "create", "destroy", "add", "remove"}]
    /\ at \in [Threads -> {"idle", "lock", "change", "send", "state", "command", "direct",
                            "undefined"}]
    /\ entity \in [Threads -> Entities]
    /\ type \in [Threads -> Types]
    /\ found \in [Threads -> Entities \X Types \X Nat]
    /\ rest \in [Threads -> SUBSET Systems]
    /\ observer \in [Threads -> Systems]
    /\ update.phase \in {"none", "process", "start", "lock", "update_func", "unlocked",
                         "process_again"}
    /\ update.system \in DOMAIN SystemOrder
    /\ update.entity \in Nat \ {0}
    /\ overtaken \subseteq Systems
    /\ overlapped \subseteq [entity : Entities, types : SUBSET Types]

\* Two calls overlapped that changed e, both with one of the types: one of them looked
\* for its component when the other had looked and not told every system, and at least
\* one was an add.  The code has no lock against that.
Overlapped(e, types) == \E x \in overlapped : x.entity = e /\ x.types \subseteq types

\* A component exists as long as an entity that exists has a lookup of it, which has one
\* of a type at most, unless two calls for that type overlapped.
ComponentsOwned ==
    \A e \in Entities, c \in Types :
      \/ Overlapped(e, {c})
      \/ LET owned == {x \in Range(lookups[e]) : x[2] = c}
         IN  /\ {x \in components : x[1] = e /\ x[2] = c} = owned
             /\ owned # {} => e \in live
             /\ Cardinality(owned) <= 1

\* The call of t is past its look at the entity, and has the entities lock for reading.
Reading(t) ==
    \/ call[t] = "add" /\ at[t] \notin {"idle", "lock"}
    \/ call[t] = "remove" /\ at[t] \in {"change", "undefined"}

\* An entity that a call found lives until that call has changed its components and, if
\* it adds one, has told every system that asks for the entity: whatever calls overlap,
\* no system is told of a component of an entity that is destroyed, or is being.
EntitiesStay ==
    \A t \in Threads :
      /\ Reading(t) => entity[t] \in live
      /\ call[t] = "destroy" /\ at[t] \notin {"idle", "lock", "undefined"} =>
           /\ entity[t] \notin live
           /\ \A u \in Threads : ~Reading(u)

\* How often an entity is in the list of a system once its queue is processed.
Times(e, s) ==
    LET handles == Processed(entity_handles[s], ecs_commands[s])
    IN  Cardinality({i \in DOMAIN handles : handles[i] = e})

\* No call that changes e is under way.
Settled(e) == \A t \in Threads : at[t] # "idle" => entity[t] # e

\* A system that requires nothing is an observer of no type, and is told of nobody.
Qualifies(e, s) == Required[s] # {} /\ HasComponents(e, Required[s])

Exact(e, s) == Times(e, s) = IF Qualifies(e, s) THEN 1 ELSE 0

\* A system has each entity that qualifies once and no other, counting what is in its
\* queue, however events, updates and other threads interleave, but in two cases: an
\* event that came later was applied at once and so overtook one in the queue, or two
\* calls overlapped that changed this entity, both with types this system requires.  In
\* a program of one thread calls do not overlap, and the system that is updated last is
\* never overtaken, so that a destroyed entity can stay only in the list of a system
\* that is updated before another one.
ListsExact ==
    /\ TypeOK
    /\ \A s \in Systems \ overtaken, e \in Entities :
         Settled(e) /\ ~Overlapped(e, Required[s]) => Exact(e, s)
    /\ threads = {Main} =>
         overlapped = {} /\ SystemOrder[Len(SystemOrder)] \notin overtaken

\* In a program of one thread an update ends: what update functions change in the
\* system that is being updated, or in another, never needs a lock the update has.
UpdatesEnd ==
    (threads = {Main} /\ update.phase # "none") ~> (update.phase = "none")

\* Where a thread has to wait for another one.
Waits(t) ==
    \/ WantsWrite(t) /\ ~CanWrite(entities_lock)
    \/ ~CanRead(entities_lock)
       /\ \/ at[t] = "lock" /\ call[t] \in {"add", "remove"}
          \/ at[t] = "send" /\ call[t] = "add" /\ rest[t] # {}
    \/ at[t] = "direct" /\ HandlesLocked(observer[t])

\* A thread that has the entities lock asks for it again, behind a writer.
ReadsAgain == \E t \in Threads : at[t] = "send" /\ Waits(t)

\* A thread that has the entities lock waits for the list of a system whose update
\* function waits for the entities lock.
Crossed ==
    /\ Waits(Main) /\ at[Main] # "direct"
    /\ \E t \in Threads \ {Main} :
         call[t] \in {"add", "destroy"} /\ at[t] = "direct" /\ Waits(t)

\* There is no third way for all threads that are in a call or an update to wait.
DeadlocksKnown ==
    (/\ \E t \in Threads : Waits(t)
     /\ \A t \in Threads : Waits(t) \/ at[t] = "idle"
     /\ Waits(Main) \/ update.phase = "none")
    => ReadsAgain \/ Crossed

=============================================================================
