# A TLA+ model of scieppend

scieppend is a C library for games: containers, a thread pool, an
entity-component-system (ECS) world, events, and a terminal front end. This
directory holds a model of its core in TLA+, the TLC configurations that check
it on small instances, and TLAPS proofs about its readers-writer lock, its caches, its
components, its task pool, its ECS world, its events, its hash table, its link array, its
parser and its terminal.
Everything is read off the C source: a file named here without its directory is
in `src/core` or, a header, in `include/scieppend/core` of the repository.

Contents: [the system](#1-the-system), [the modules](#2-the-modules),
[the runs](#3-the-runs), [fairness](#4-fairness), [the proofs](#5-the-proofs),
[disagreements with the documentation](#6-where-code-and-documentation-disagree),
[what is left out](#7-what-is-not-modelled), [the plan](#8-the-plan).

## 1. The system

### How the parts use each other

```
            ecs_world ---- entity, system
             |     |  \________________
      component_cache  \               \
             |          event          tasking ---- futex
             |         /   |                \
     cache_threadsafe      |                list, array_threadsafe
        |        |         |
      cache   rw_lock   cache_map ---- hash, stack_array

      link_array, list, array: containers of their own
      term, screen, draw, input, parser, log: the front end
```

Every shared structure is a plain container with an `RWLock` beside it
(`cache_threadsafe`, `array_threadsafe`, the entity lists of `ecs_world`). Only
`tasking` uses a mutex and condition variables directly, and a futex on the
status of a task. There is no persistence and no network, so nothing crashes and
restarts and no message is lost. What is hard is concurrency (locks taken one
inside the other, wakeups, flags read outside a mutex) and long sequences of
calls on the linked structures inside arrays.

### Inventory

For each part: its state, its operations, what makes it hard, and what makes it
correct.

| Part | State | Operations | Hard | Correct when |
|---|---|---|---|---|
| `rw_lock.c` | mutex, two condition variables, four counters, a kill flag | read and write lock and unlock, set_kill, uninit | kill is read without the mutex, uninit polls the counters without it, one signal for many waiting writers | writers exclude everybody, counters are exact, no wakeup is lost, readers give way to writers, uninit waits for those it found |
| `cache.c` | slots with a generation key, a free list threaded through them, counts | add, emplace, get, remove, uninit, an iterator | keys roll over, slots are reused, growth moves items, the index width | a map from handles to items: a stale handle is refused, no slot leaks, destructors run once, iteration skips nothing |
| `cache_threadsafe.c` | a `Cache` and an `RWLock` | the same under the lock, lock and unlock | callers do not see that a killed lock refused them | each call is atomic |
| `component_cache.c` | a thread-safe cache of components, a cache of their locks, observers | emplace, remove, get, unget, lock, unlock, register for events | one lock held while waiting for another, lock destroyed with its component | the two caches answer to the same handles, a held component stays, who may block whom is known |
| `tasking.c`, `futex.c` | list of pending tasks, an atomic count, workers, the status of each task | add, await, free a task, sync, free the pool | count and status change outside the mutex, callbacks run late | each task runs once and calls back, waiting ends |
| `link_array.c` | a block of nodes, used list and free list by index | push, pop, at, clear at both ends | link surgery at the ends, growth in the middle of a push | a sequence: no node leaks or is on two lists |
| `ecs_world.c`, `entity.c` | entities, their component lookups, component caches, systems | create and destroy entities, add, remove, get components | several locks in various orders, callbacks under locks | lookups, components and memberships agree; no deadlock |
| `system.c` | members, queued membership commands, required components | register, unregister, update | membership changes during an update | members are exactly the entities that qualify, once the queue is drained |
| `event.c`, `ecs_events.c` | observers in a thread-safe cache | register, deregister, send | observers come and go during a send | every observer registered throughout gets the event, once |
| `cache_map.c`, `hash.c` | buckets of (hash, handle) over a cache | add, get, remove, resize | a hash value that means unused, full buckets | a map from keys |
| `list.c` | doubly linked nodes | add, insert, remove, splice, pop, sort, find | splicing, merge sort | a sequence; sorting is a stable permutation |
| `array.c`, `array_threadsafe.c` | a block with a count, an `RWLock` | add, insert, remove, sort, copy | growth and shrinking, copies between two locked arrays | a sequence; no deadlock |
| `parser.c` | formats with their metadata, the values of the last line, the last code, a list of user data | register a format, parse a line or a file, read values by name, user data | formats registered again while values point to their metadata, lines that fail half way, one code for many lines | the getters show the last line or nothing; the answer is about the whole file |
| `term.c`, `screen.c`, `draw.c`, `input.c` | symbols with a redraw flag, a write buffer, the extents, key state | draw, erase, set attributes, refresh, clear, resize on SIGWINCH, poll | a signal handler between any two steps, a cursor that is moved only when it must, a buffer that can be full | the terminal shows what was drawn; pointers into the symbols stay good |
| `string.c`, `log.c`, `rng.c`, `noise.c`, `poisson_disk.c`, `geom.c`, `math_utils.c`, `iterator.c`, `comparator.c`, `stack_array.h`, flags, variant | little or none | pure functions, formatting, random numbers | nothing that interleaves | |

`PROJECT.json` has the same list under "components" with what is modelled of
each, and under "hazards" the places where this code can go wrong in ways that a
test hardly reaches, each with its line and the properties that cover it.

## 2. The modules

| Module | Code | State |
|---|---|---|
| `RWLock` | `rw_lock.c` | one variable per field; a program counter per thread; one for the single call of `rwlock_uninit` |
| `AbstractRWLock` | what the lock promises | who reads, who writes, who is queued, closed or not |
| `RWLockProofs` | theorems about `RWLock` | |
| `CacheOps` | `struct Cache` and its functions, as values and operators | none |
| `Cache` | `cache.c` under any calls | one cache, one iteration, history |
| `CacheProofs` | theorems about `Cache` | |
| `AbstractSlotMap` | what the cache promises | a map from handles to items |
| `CacheMap` | `cache_map.c` under any calls | the table of entries, the cache beneath as a map, history |
| `AbstractMap` | what the map promises | a map from hashed keys to items |
| `ComponentCache` | `component_cache.c`, with `cache_threadsafe.c` and `rw_lock.c` beneath | two caches (`CacheOps`), abstract locks, a program counter per thread |
| `ComponentCacheProofs` | theorems about `ComponentCache` | |
| `Tasking` | `tasking.c`, `concurrent/futex.c`, `list.c` as used by it | fields of `Tasker` and `Task`, a program counter per worker and client |
| `TaskingProofs` | theorems about `Tasking` and `List` | |
| `LinkArray` | `link_array.c` | `struct LinkArray`, each field of a node a function of its index |
| `AbstractDeque` | what the array promises | a sequence |
| `ContainerProofs` | theorems about `CacheMap` and `LinkArray` | |
| `EcsWorld` | `ecs_world.c`, `entity.c`, `system.c`, and `event.c` as used by them | entities and lookups, systems with their lists and queues, an abstract entities lock, a program counter per thread and one for the update |
| `ArrayOps` | `array.c` as `EcsWorld` uses it | none: operators on sequences |
| `EcsWorldProofs` | theorems about `EcsWorld` | |
| `Event` | `event.c`, with `array_threadsafe.c` and `array.c` beneath | the array of one event with its block of memory, the observers that exist, a program counter per thread |
| `EventProofs` | theorems about `Event` | |
| `List` | `list.c` | the nodes, each field a function of the node, and the lists; the sequences they should be |
| `Parser` | `parser.c` | formats, metadata, parsed values, `last_code`, the open file |
| `Terminal` | `term.c`, `draw.c`, `screen.c` | the virtual symbols, the write buffer, the terminal beyond it, one program counter |
| `TextProofs` | theorems about `Parser` and `Terminal` | |
| `MC*` | | symmetry and values of constants for TLC |

Definitions called "Mutant" in a comment are the wrong versions of the
definition that follows them. Nothing refers to them; they exist so that
swapping one in shows that the properties notice. `Parser`, `LinkArray` and `List` prefix the usual
names (`ParserSpec`, `LinkArrayNext`, `ListInit`), so that a module of proofs can extend another component beside them.

### RWLock

The statements of a function from `mtx_lock` to the `mtx_unlock` or `cnd_wait`
that ends it are one step where they touch only what the mutex guards. What the
code reads without the mutex is a step of its own: `ReadCheckKill` and
`WriteCheckKill` (the kill flag before the mutex is taken), and each operand of
the loop condition of `rwlock_uninit` (`UninitPoll`). What a thread does after it
was counted out is split too: it signals (`ReadSignal`, `WriteSignal`) and unlocks
(`MutexUnlock`) in steps of their own, since uninit may destroy the lock as soon as
the counters are zero. `cnd_wait` is a wait
state, a woken state that has to get the mutex back, and a test of the loop
condition; `SpuriousWakeup` is the licence C11 gives. `cnd_signal` wakes one
sleeper, any one. Once uninit destroys the mutex, a thread that comes to it goes
to "undefined": the code has that behaviour for a thread that read kill just
before it was set, and for one that was counted out and has yet to signal or to
unlock (see the hazards).

One simplification: kill is read and, in the same step, the sleeper's exit is
taken, though the code reads kill after `cnd_wait` returns with the mutex held;
no other thread can tell.

`AbstractRWLock` is the lock as clients see it: a queued writer keeps new readers
out, a writer is alone, a queued writer leaves the queue only as a holder unless
the lock is being closed. `ComponentCache` uses locks of this kind rather than
`RWLock` itself, which would multiply its states.

### CacheOps and Cache

A handle is a record of key and index, as the C macros pack them into an int; the
width of the index (`IDX_MASK`) and of the key (`MAX_GENERATIONS`) are constants,
16 and 15 bits in the code. An entry of `Cache.handles` keeps the invalid bit, the
key and the link. The items are values, so the move that growth makes is invisible,
as it is for clients that keep handles rather than pointers. `Cache` adds an
arbitrary client: it adds, emplaces, removes with any handle (in use, stale,
invented, null), iterates while it does so, and finally frees the cache. History
variables: which keys each slot was handed out with, how often the destructor ran
on it, and which slots an iteration still owes.

The index `IDX_MASK` means "none" on the free list and in a handle, but nothing stops growth from
opening a slot of that index: `cache_new` asserts `C_MAX_CAPACITY`, which is below it, and
`_cache_resize` does not. Once that slot was opened and freed, it ends the free list in front of all that
it leads to. `SlotsAccounted` says where the free list can be relied on: as long as no more than `IDX_MASK` slots
were opened.

### CacheMap

A key is its hash; two keys with one hash are one key, as they are for the code. `bucket_items` is
the whole table, laid out as in the code: bucket by bucket. `Resized` moves every entry in the order
of the loop of `_resize`, those that nobody uses among them, because what can go wrong there depends
on that order. The cache beneath is what `AbstractSlotMap` says of it; which handle it gives makes no
difference. `cache_map_add`, `cache_map_emplace_hashed` and `cache_map_emplace` differ in how the item
comes about and in how often the load factor is tested (`Add`, `EmplaceHashed`, `Emplace`);
`Remove`, `Clear` and `Uninit` are the other operations, and `Answer` is
`cache_map_get_hashed`. Each operation takes the step of `AbstractMap` that clients expect of it along
(`content`, which nothing else reads), for `AnswersMap` to compare with the answers. Where the code writes through a NULL entry the model stops (`"crashed"`).
`key_of` is history: the key an item was stored under.

### ComponentCache

Each function is split where it can wait: for the type lock, then for the lock of
the component. What happens between getting the type lock for writing and leaving
it is one step, except in a removal, which waits for the component's lock in
between. `component_cache_get_component` waits for the component with the type
lock still held for reading, and `component_cache_remove_component` with it held
for writing; that is the code's order, and what the liveness properties are about.
Restrictions on the client, read off its callers: a thread holds one component at a
time, makes no other call while it has the type lock, and removes a handle once,
as `ecs_world.c:149-151` takes the lookup out of the entity first. Events are not
part of it.

### Tasking

A worker's loop is ten steps: kill, the mutex and the count, kill again, start, run,
callback, uncount, futex wake, signal. The client calls `tasker_add_task`,
`tasker_sync`, `task_await`, `task_free` and `tasker_free`. `tasker_sync` is split
between its test of the count and its sleep, because workers change the count
without the mutex; a worker's own test and sleep are one step, as the count can only
fall under it, which never hides work. A function that asks to be called again
(returns EXECUTING) is a stutter. Tasks are used once; a client frees a task only
when nobody else is in a call about it, and frees the pool when nobody else is in a
call, so that nothing found is the client's own fault. Undefined behaviour (a pop
from an empty list, a use of freed memory) sets `fault` and stops the model.
`missed` is history: the clients in `tasker_sync` that a signal went past, because they had not yet
gone to sleep or another one was woken, until they test the count again; and the workers between
their test of kill and the mutex when `tasker_free` broadcasts.

### LinkArray

The pushes, pops and `linkarray_clear` follow the code's link surgery line by line,
because that is what is at stake: `_make_free_node` and `_make_used_node` as
operators on the record of the whole array, in the order of the assignments.
`linkarray_pop_at` tells `_make_free_node` the element's place in the order where
that expects the index of a node. With `PopAtAnywhere` FALSE the client calls it
only where the two are the same, and the rest of the array is checked under that
condition; with TRUE it is called anywhere, which is the subject of a run of its own.
`Along` is the loop of `_internal_at`, from either end. `Walk`, with which the properties read the lists as the
iterator does, goes no further than there are nodes, so that a list with a cycle would show and not hang.

### EcsWorld

A thread is in one call at a time. A call waits for the entities lock, looks at the entity, makes its
change of the world, sends its event to one system after the other, and leaves. An event reaches a
system by `_system_event_callback`, which is up to three steps: the question whether the
entity qualifies (under the entities lock, again), the read of `System.state` without a lock,
and what follows from it: a command for the queue, or a change of the list at once if the list
is not locked. `ecs_world_update_systems` has a program counter of its own (`update`): `Main`,
the thread that calls it, makes calls of its own while the phase is `"update_func"`, because
that is when update functions run.

| Code | Actions |
|---|---|
| `ecs_world_create_entity` | `Queue`, `CreateEntity` |
| `ecs_world_destroy_entity` | `Queue`, `DestroyEntity`, then `RemoveSend`, `QueueCommand` or `Direct` for each system, `Finish` |
| `ecs_world_entity_add_component` | `AddFind`, `AddComponent`, then `AddQualify`, `ReadState`, `QueueCommand` or `Direct`, `Finish` |
| `ecs_world_entity_remove_component` | `RemoveFind`, `RemoveComponent`, then as in destroying |
| `ecs_world_update_systems` | `UpdateSystems`, `Process` |
| `system_update` | `SetUpdating`, `LockHandles`, `UpdateFuncReturns`, `SetIdle` |

Adding and removing have the entities lock for reading only, so that two such calls may be about one entity at
a time. Each is two steps, the look at the entity (`AddFind`, `RemoveFind`) and the change. `lookups` is an array
of components, in which a type can be twice after two calls that both found it missing; `found` is the handle
that a removal got from its look. When a component that is gone is removed again, by such a second removal, or by the
destruction of an entity whose lookups no longer agree with its components, the code locks the NULL that it gets for
its lock: the thread goes to `"undefined"` and the program ends (`Running`).

What is merged, and why nobody can tell: adding the lookup and emplacing the component, as a component that
nobody has found yet is nobody's business; a removal's change of lookups and of the component cache, as others
look at one of the two only; destroying an entity and all its components, because it has the
entities lock for writing; a lock taken and left again around one access (the list and the queue of
a system, the observers of an event). A removal reads the state in the same step as it enters the
callback, as it does nothing before. The observers of an event get it in any order. The locks of
component types and components are left to `ComponentCache`, and nobody holds a component here.
The array of lookups has a lock of its own (`array_threadsafe.c`), so that each of these is about it as a whole.
Systems and types are registered before the model starts. `threads` is chosen at the start, so that one run
covers the program of one thread, for which more is true, and the program of several.

`overtaken` and `overlapped` are history: the systems whose list was changed at once while their queue was not empty;
and the entities that two calls changed at a time, with the types these were about. Calls overlap when one looks at
the entity after the other did and before that has told every system; two removals do not count, as they do no harm
but the one that ends the program.

### Event

Each function of `array_threadsafe.c` is one step, as it has the lock of the array throughout;
`event_send` is five steps an observer (the count, the pointer to the handle, the handle, the pointer to the
observer, and the callback read through it) and `event_deregister_observer` two. A pointer that `array_ts_get`
returned is a block and an index: growth gives the array another block. The pointer that `cache_ts_get` returned
is to the observer in the cache of all observers, whose block is known by its capacity: an `observer_create` that
finds it full doubles it (`RoomForObserver`), and the pointer dangles. Callbacks are arbitrary: what they call may be
called by another thread just before or after the step `Call`, which is the same to the sender.
The caller registers observers that exist. Where the code would use what is not there, the model stops with
`fault`. `before`, `called`, `during` and `since` are history: who was registered when a send
began and who was called; what others did since the call began; and what they did since the thread last called a
function of the array or of the cache, as far as its next step relies on it (`Concerns`). The
observers are a set of handles of which none is used twice (`Cache` shows what handles are).

### List

Nodes are numbers, and each assignment through a pointer is an update of a field; `_sort` has two lists of its
own, named by how many calls may still be nested in it (`Frames`), and calls itself: `Sorted` is a recursive function
of that number, for which `NodeBound` is enough, as either half of a list is shorter than the list. The
calls are followed by a reference: the same operation on sequences (`contents`), with sorting
defined by ranks. Calls are made with nodes of the list they name, as the code's debug assertion
`_debug_check_membership` wants, and with ranges that are there. `Splice` goes to an
index that exists or to an empty list; what the code does at the index behind the last node is among the hazards.

### Parser

Names, values, types and lines are values: what a line is (a comment, empty, without a key and a value, or
key and values) is what `parser_parse` tells apart, and cutting a name off at 31 characters is a function on
names (`Truncated`) that is applied where the code does, and only there: a format is looked for by the name
as the client wrote it and stored by the shortened one. `Register` follows
`parser_register_field` in what happens to a format that is there already, also when the format string
is malformed; metadata are identities, so that a value that points to metadata that were freed would show. The
metadata that the code leaks stay in `metadata`, but for one with a name and no type that a malformed
string leaves, to which nothing ever points. A file is read line by line, with other calls kept out, as
one thread has the parser. `shown` and `answer` are history.

### Terminal

A command is one member of `buffer`, and a full buffer takes no more of them; `Obeyed` is the terminal
itself, as far as commands go, and `Shown` what it does with several. Drawing on a cell is split between choosing it, getting the pointer and
using it, and a refresh is two steps a cell, because the signal handler may run between them; the handler is one step,
as nothing interrupts it. `term_draw_text`, `term_draw_area` and `term_clear_area` are loops over cells, and so are repeated
calls here. A cell that was never drawn on is not written: attributes set on one would be written with
`'\0'`, and the model's client does not. `resized` and `stale` are history: whether the handler ran in the
present call, and whether the terminal may show what the program does not know of.

## 3. The runs

`tlc -config X.cfg M` in this directory; times are those of a small machine.

| Configuration | Instance | States | What it shows |
|---|---|---|---|
| `MCRWLock` | 3 threads, one uninit | 59 k | `Exclusion`, `CountersExact`, `NoLostWakeup`, `UninitDrains`; `ImplementsAbstract`; `WriterProgress`, `ReaderProgress` |
| `MCCache` | 7 usable indices, capacity 1 to 4, 2 generations, 5 handles, 2 items | 131 k | `SlotsAccounted`, `StaleHandlesRefused`, `DestroyedOnce`, `IterationComplete`; `ImplementsSlotMap` |
| `MCCacheMap` | 2 buckets of 2 entries, 6 hashes, -1 among them, 2 items | 61 k | `NothingLost`, `CrashesKnown`, `AnswersMap` |
| `MCComponentCache` | 3 threads, capacity 1 to 2, 2 generations | 349 k | `LocksMatch`, `ExclusiveUse`; `HoldersReturn`, `RemoveReturns` |
| `MCTasking` | 2 workers, 2 clients, 2 tasks | 270 k | `TasksConserved`, `SleepersCalled`; `TasksFinish`, `AwaitReturns`, `FreeReturns` |
| `MCLinkArray` | capacity 1 to 4, 2 (the default) to 4, 3 to 6; 2 items | 175 k | `NodesPartitioned`; `ImplementsDeque` |
| `MCEcsWorld` | 1 or 2 threads, 2 entities, 2 types, 2 systems, one of which requires what both require | 2.4 M | `ComponentsOwned`, `EntitiesStay`, `ListsExact`, `DeadlocksKnown`; `UpdatesEnd` |
| `MCEvent` | 2 threads, one of which sends, 3 observers, an array of 2 and a cache of 2 that double | 14 M | `SendsReachAll`, `FaultsKnown` |
| `MCList` | 2 lists, 4 nodes, 3 items of which 2 are equal | 13 k | `NodesOnOneList`, `HoldsItsItems` |
| `MCParser` | 3 names, one of them cut off, 5 format strings, 6 kinds of lines | 653 k | `GettersShowLine`, `FileAnswers` |
| `MCTerminal` | windows of 2 x 1 and 1 x 2, a buffer of 5 commands, one attribute | 10 M | `ShowsWhatWasDrawn`, `OnlyTheHandlerHurts` |

The type invariant of a module is the first conjunct of one of the properties (of `RWLock` it is checked by itself, and
proved). One more configuration, `MCLinkArrayPopAt`, checks a property that the code does not have: section 6.

### Bounds, and why they are enough

* **RWLock**: none but the number of threads. Three are the fewest with which a
  holder, a waiting writer and a waiting reader exist together, two waiters compete
  for one signal, and a woken thread finds that a fresh one got in first. The state
  space is finite without further bounds, and the theorems of section 5 take the
  safety properties to any number of threads.
* **Cache**: `CapacityBound` (no call that would grow the cache past 4), `AllocBound`
  (5 handles are given out in a behaviour). The cache doubles twice; one slot is
  handed out up to five times, so its key rolls over twice; the free list has up to
  four slots. More slots repeat the same cases: each operation touches one slot, the
  head of the free list and the counts.
* **CacheMap**: `BucketBound` (nothing is added once there are 8 buckets) and seven handles. The table
  doubles twice or more; 0 has a bucket of its own, 11 leaves the others at 8 buckets, 7 and 23
  leave 15 and -1 at 16, so that a bucket of two is found full before and after it doubles. With
  16 buckets of 16 the code needs 17 such keys, and no more than that.
* **ComponentCache**: `CapacityBound` (no call that would bring more components than 2), so that the caches grow once and a slot is
  reused, and three threads: one that holds, one that waits for what it holds, one
  that wants the type lock. That is the smallest cycle of waiting the code could close.
* **Tasking**: two of everything, for two workers racing for one task, two clients
  racing for the pool and for one task, and a task that arrives while another is run.
* **LinkArray**: `CapacityBound` 6. Three nodes in the used list are the fewest with
  both an inner node and two ends; growth happens from one, two and three nodes.
* **EcsWorld**: `CommandsBound` (no call begins while three commands are queued, or one in a program of two
  threads; the calls that are under way add to them), and no call begins once a system was overtaken, whose list is
  arbitrary from then on. Once two calls overlapped, calls begin only that remove the components of that entity
  and destroy it, and when no other than removals is under way (`OnlyOverlap`): what the others do to an entity with
  doubled lookups is no new case. Handles are given out once: `Entities` bounds the entities ever created.
  Two systems are needed for one to be updated before the other, and requirements that overlap
  for one event to reach both; two threads for each lock order; two commands for the order in a
  queue, which two calls that began when it was empty bring, or one thread.
* **Event**: `CountBound` 3, one more than `Capacity`, so that the array grows once while an event is
  being sent; `ObserverCapacity` 2, so that the third observer moves the others; `Senders` is one thread, as sending
  changes nothing that another could see. Three observers
  are the fewest for one to be called already, one to be removed, and one to take its place.
* **List**: `NodeBound` 4: both halves of a sort are sorted themselves, and a range can have two nodes with one on
  either side. Another list and its nodes add no new case: every call is about one or two lists.
* **Parser**: `MetadataBound` 4 (two formats of two values; what leaks counts), `UserdataBound` 1. A format can
  have several values, a line too few, as many, or a value of no known type.
* **Terminal**: the sizes differ in both directions, so that a cell of one is none of the other; the buffer
  holds a `term_clear` and a refresh of all the cells and no more, so that it overflows.

Symmetry is used for items in `MCCache`, `MCCacheMap` and `MCLinkArray`, and for observers and
the threads that do not send in `MCEvent`, which check safety only.
Deadlock checking is on in `MCList` and `MCParser` and off in the other runs: locks, caches, maps, arrays,
pools and programs that failed end their lives, and `ComponentCache` and `EcsWorld` can deadlock, which `HoldersReturn`, `RemoveReturns`
and `DeadlocksKnown` are worded around (they name exactly who can prevent the progress).

### What the less obvious properties say

* `NoLostWakeup`: while the lock is not killed, a sleeping writer sleeps behind a
  holder, behind a writer already awake, or behind one who has left and is about to
  signal; a sleeping reader behind a writer. With
  one `cnd_signal` to many writers, this is what keeps the queue moving.
* `UninitDrains`: uninit destroys the mutex only after every thread that held the
  lock, or slept in it, when kill was set has been counted out. That is not to say that they have
  left: the counters are polled without the mutex, so one thread, its owner, may have yet to signal
  and to unlock what is destroyed. The property says that it is no more than one, and that it neither
  holds the lock nor sleeps in it. Threads that had just passed the test of kill are expressly not
  covered; the code does not cover them. It is proved too.
* `WriterProgress`, `ReaderProgress`: some waiting writer gets in; readers get in if
  writers stop coming. A particular writer may be overtaken for ever, and readers may
  be starved by writers: the code prefers writers.
* `StaleHandlesRefused`: a handle is answered again only after its slot was reused a
  multiple of `MAX_GENERATIONS` times. It is proved too, and so are `DestroyedOnce`, `IterationComplete`
  and `ImplementsSlotMap`.
* `NothingLost`: an item under any key but -1 is in exactly one entry, in the bucket of its key, and
  no item is left in the cache without an entry. Under the key -1 items are lost and doubled, because
  unused entries have that key; the property says that this never touches the others. It is proved too.
* `CrashesKnown`: a NULL entry is written through only after a bucket was full, the table doubled and
  the bucket is full of other keys again; never while the table grows, though `_resize` does not test
  for it. There it depends on the last bucket being moved last: unused entries, with the key -1, all go
  through the last bucket. It is proved too.
* `AnswersMap`: `cache_map_get_hashed` answers what `AbstractMap` would after the same calls, for
  every key but -1; growing and the key -1 change nothing in that. It is proved too.
* `SlotsAccounted`: the next `cache_add` gets a slot while there is one, and what `free_head` leads to is all that
  can be reused; the index that means "none" excepted (section 2). It is proved too.
* `LocksMatch`: the assertion in `component_cache_emplace_component` that the handles of
  component and lock are equal never fires. It is proved too.
* `HoldersReturn`: who holds a component can give it back even while others wait for it
  with the type lock held for reading; a writer queued for the type lock is the one thing
  that closes the cycle (a reader that ungets gives way to it).
* `RemoveReturns`: a removal ends unless the component is held, in which case the remover
  waits with the type lock held for writing, which the holder needs to let go.
* `ExclusiveUse`: also, what a thread holds or waits for is not destroyed under it. It is proved too.
* `TasksConserved`: each task is in one place, and the count is about those places; so when it is zero, all callbacks
  have run, not merely the tasks. A worker takes a task off an empty list (it does: section 6) only
  while another one executes a task. It is proved too.
* `SleepersCalled`: pending tasks never outnumber the threads on their way to them while
  a worker sleeps: the single signal per task is enough. A client that sleeps in `tasker_sync` with nothing left to
  wait for was missed, in one of two ways that the code has: it had read the count and was not yet asleep when the
  last signal came, as that is given without the mutex, or the one signal woke another client. It is proved too.
* `FreeReturns`: `tasker_free` returns, but for the three ways to hang that section 6 names.
* `NodesPartitioned`: also, both directions of the used list are the same sequence, as `linkarray_at`
  starts from the nearer end. It is proved too, and so is `ImplementsDeque`.
* `ComponentsOwned`: no component outlives its entity or its lookup, no lookup is without a
  component, and no type has two, but for a type that two overlapping calls were about. It is proved too.
* `EntitiesStay`: adding and removing look at the entity, change it and, in adding, tell every system in several
  steps, with the entities lock for reading, that others have too. All that time the entity is not destroyed; and when a
  destroy begins to tell systems, nobody tells them of a component of that entity any more. It is proved too.
* `ListsExact`: counting its queue as done, a system has every entity that qualifies
  once and no other, once no call about the entity is under way. There are two exceptions, both real (section 6):
  a system that was overtaken, and two calls that overlapped on this entity with types that this system
  requires. An overlap does no harm to other entities, nor to systems that do not require both types. It holds even
  though the callback reads the state of the system without a lock, and a removal sends its event after it left the
  entities lock. With one thread nothing overlaps, and
  nothing overtakes in the system that is updated last, since
  no update function runs between its update and the processing of its queue. A system that requires no
  component observes no type, so no entity ever qualifies for it (`Qualifies`). It is proved too.
* `DeadlocksKnown`: when every thread waits, then one of two things has happened, both of which
  do happen: a thread that has the entities lock for reading asks for it again behind a queued
  writer (`ReadsAgain`), or a thread that has the entities lock waits for the list of a system
  whose update function waits for the entities lock (`Crossed`). It is proved too.
* `UpdatesEnd`: with one thread an update always ends, whatever its update functions change.
* `SendsReachAll`: a send reaches everybody who was registered when it began, once and in order, if nobody is deregistered
  meanwhile; removal moves the last observer to the place of the removed one, which a send may have passed, so then it
  may not be reached, but is never called twice unless someone registers. It is proved too.
* `FaultsKnown`: each way in which a send or a deregistration can fail takes a particular call of others between two
  of its steps, or an observer that is destroyed while it is registered. For a pointer to an observer that dangles
  it is an `observer_create` anywhere in the program, about any event. A client that rules these out is safe. It
  is proved too.
* `HoldsItsItems`: every list is the sequence that the calls should have made. `list_sort` is stable with
  a comparator that says "not greater", and reverses the equal ones with one that says "less". It is proved too.
* `GettersShowLine`: never a value of a line before, nor half a line; and never through freed metadata, which is due to
  their being leaked when a format is registered again. It is proved too.
* `FileAnswers`: one code, overwritten for every line, still says whether there was an error, as the loop ends with the first. An
  empty file is answered with what the one before it was. It is proved too.
* `ShowsWhatWasDrawn`: what is on the terminal once it has read the buffer is what the program drew, except for
  cells that are marked, though the cursor is moved only where needed and a symbol marked only when it changes. It
  stops being so with a resize, which blanks the symbols and not the terminal, or a full buffer, until `term_clear`. It is proved too.
* `OnlyTheHandlerHurts`: for any sizes, a pointer into the symbols that is used after its block is gone, or beyond
  its end, takes SIGWINCH within the call. It is proved too.

## 4. Fairness

Clients owe nothing: no fairness is assumed of beginning a call, of `rwlock_uninit`, or of
a spurious wakeup.

* `RWLock`, `Tasking`: strong fairness of the steps inside a call that has begun (and of
  unlocking a lock that is held, and of the functions of the tasks returning). It says that
  a mutex that is free again and again is not denied to a thread for ever. C11 does not
  promise that of `mtx_lock`; every implementation the library runs on behaves that way in
  practice, and without it no mutex-based code has any progress property. Weak fairness
  holds for scheduling as such.
* `EcsWorld`: weak fairness of the steps of a call and of an update, and strong fairness of an
  update function returning: it may make any number of calls, but not for ever.
* `ComponentCache`: weak fairness only. Its locks let others overtake (`RWLock` does), so a
  thread gets in only if the lock stays free for it.

`Cache`, `CacheMap`, `LinkArray`, `Event`, `List`, `Parser` and `Terminal` check safety only: they are sequential, or
promise nothing of when.

## 5. The proofs

`tlapm M.tla` for each of the modules below.

### RWLockProofs

All of it rests on one assumption, `ThreadsAssumption`: there are finitely many threads, and
`NoThread` is not one of them.

| Theorem | Statement |
|---|---|
| `Invariance` | `Spec => []IInv` |
| `TypeCorrect` | `Spec => []TypeOK` |
| `ExclusionCorrect` | `Spec => []Exclusion` |
| `CountersCorrect` | `Spec => []CountersExact` |
| `Refinement` | `Spec => ImplementsAbstract` |
| `NoLostWakeupCorrect` | `Spec => []NoLostWakeup` |
| `DrainsCorrect` | `Spec => []UninitDrains` |

**The inductive invariant.** `Exclusion` is not inductive: a writer enters because
`readers = 0`, which says nothing about readers unless the counter is exact, and counters
are adjusted by threads that must own the mutex to be alone in doing so. `IInv` adds

* `MutexOwner`: a thread at a place between taking and leaving the mutex owns it;
* `CountersCounted`: the four counters are the cardinalities of the four groups of threads
  (`CountersExact` without its restriction to a lock that is not destroyed: after
  destruction threads only become undefined, and those are in the counters for ever).

**The argument.** The places of a thread fall into four counted groups and the rest. A step
moves one thread from one group to another, or wakes others within their group; `GroupStep`
says what that does to each group and `CountStep` what adding or removing one thread does to
a cardinality. `ThreadStep` puts them together once, and each action is an instance:
`ReadLockStep`, `WriteLockStep`, `UnlockInv`, `SignalInv`, `OtherThreadStep`, `UninitInv`.

**Refinement.** Under the mapping (groups of threads to sets of the abstract lock, `kill` to
`closed`) each step is an abstract step or a stutter. Where the code says "no readers" by a
counter, the abstract lock says it by an empty set; `CountersCounted` is the bridge. It also
needs `UninitKilled`: uninit is under way only if kill is set.

**No lost wakeup.** `NoLostWakeup` as stated follows from `Awaited`, the same statement about
the groups; the proof goes through the two unlocks: the last reader signals if the counter
of waiting writers is positive, a leaving writer signals a writer or else wakes every reader,
and a woken writer that finds the lock taken goes back to sleep behind whoever took it.

**Uninit.** `rwlock_uninit` reads four counters one after the other and without the mutex, so that they could all be
zero without the lock ever having been empty. `Draining` says why that is enough for the threads it found: each
stays in its group, or is counted out for good, as a killed lock lets no waiter in; so none of them is in a group
whose counter this pass has read as zero. Whoever is left when the mutex is destroyed has been counted out, has yet
to unlock, and so owns the mutex (`MutexOwner`): there is at most one (`DestroyedDrains`).

### CacheProofs

It rests on `CacheAssumption` (there are an index and a generation) and `CacheBounds`: the initial capacity
is at least one, and the model's bound on the capacity fits the width of the index.

| Theorem | Statement |
|---|---|
| `StaleCorrect` | `Spec => []StaleHandlesRefused` |
| `DestroyedCorrect` | `Spec => []DestroyedOnce` |
| `IterationCorrect` | `Spec => []IterationComplete` |
| `SlotsCorrect` | `Spec => []SlotsAccounted` |
| `Refinement` | `Spec => ImplementsSlotMap` |

**The inductive invariant.** Two of them need that a slot handed out is not in use. `FreeLinks` says it without following
the free list: its head, and each link of a slot on it, is an opened slot without an item, and no two links,
nor a link and the head, are the same. Taking the head off keeps that, as what it linked to was nobody else's.
`Generations` says of each key ever handed out how far it is from the key its slot has now (`Rolled`): as
many steps as the slot was handed out since, modulo `MAX_GENERATIONS`. `Owed` says that an iteration has only slots before
it to visit.

**The argument.** There is a lemma for each operation on the value of a cache (`ResizeKeeps`, `AddKeeps`,
`RemoveKeeps`), and one for each call. `ModSucc` and `KeyStep` are the arithmetic of keys that roll over. For the refinement, a new
handle names a slot that is not in use, so it is none of the map's; the others have the entry they had.

**The free list.** `SlotsAccounted` does follow it. `Chain` says that there is a sequence of all the free slots, each
of them once, that begins with the head and in which each slot links to the next one. A removal puts its slot
in front of that sequence, an add from the list takes the first off (`RemoveChains`, `AddChains`), and everything
else leaves links and head alone. So no induction along the list is needed: the sequence is carried along. That a
slot is left for the next add is a comparison of cardinalities (`SlotFound`).

### ComponentCacheProofs

It rests on `ComponentCacheAssumption` (threads are finitely many, the bound on the components fits the width of the
index, the initial capacity is within it) and `CacheAssumption`.

| Theorem | Statement |
|---|---|
| `MatchCorrect` | `Spec => []LocksMatch` |
| `UseCorrect` | `Spec => []ExclusiveUse` |

**One handle for two caches.** `Twins` says that the caches differ in their items only. Every step adds to both or
removes from both (`TwinsAdd`, `TwinsRemove`), what holds of one without its items holds of the other (`TwinsSound`), and what a handle names depends on the rest (`TwinsAnswer`). That is the assertion, if there is a
handle to answer with: a full cache gives none. `Chain`, as in `CacheProofs`, says that a new slot is opened only when no
slot that was opened is free, so that there are never more slots than there were components at a time, and `Bounded` counts the threads that
are about to add one.

**Who has which lock.** `TypeLock` and `LockOf` read off each thread's place whether it reads or writes under the type lock and
under the lock of each component. With `Callers`, which says that the handles in threads' hands are those of components,
exclusive use is the locks'. The step that matters is the removal: it has the component's lock for writing, so nobody holds the component; it
has the type lock for writing, so nobody waits for it in `component_cache_get_component`; and its handle is neither in an
entity nor another removal's, so nobody will come for it.

### TaskingProofs, of the pool

It rests on `TaskingAssumption`: workers, clients and tasks are finitely many, and no worker is a client.

| Theorem | Statement |
|---|---|
| `ConservedCorrect` | `Spec => []TasksConserved` |
| `SleepersCorrect` | `Spec => []SleepersCalled` |

**Tasks.** The invariant `TInv` follows every task on its way: while it is in
the list it is not started and there once (`Pending`); in a worker's hands it has the status that belongs to
where the worker is, and nobody else has it (`Holding`); in neither, its callback has run (`Done`). `Counting`
compares the count with the cardinalities of those places. A task goes from place to place in one step each, and
the lemmas about lists and counts say what such a step does to them.

**Sleepers.** `Called` adds two parts. `WorkersCalled`: while a worker sleeps there are as many workers that will look at the
list, with clients that will wake one more, as there are tasks in it. An add brings a task and a client that signals; a
worker takes a task with it when it leaves those; and one that goes to sleep does so because the count is zero, and
by `Counting` the list is empty then. `ClientsCalled` has to start earlier than the property: a client is owed its signal from
the moment it has read a count that was not zero, so that whoever takes the count to zero afterwards has the signal
before it.

### TaskingProofs, of the lists

It rests on `ListAssumption`: the bound on nodes is a natural number, there is an item, keys are integers, and the clients'
lists are none of those of a sort. So it holds for lists of any length, and any number of them.

| Theorem | Statement |
|---|---|
| `ListsCorrect` | `ListSpec => []NodesOnOneList` |
| `ItemsCorrect` | `ListSpec => []HoldsItsItems` |

**The inductive invariant.** `ListInv` says that there is a sequence of nodes for each list (`Kept`). No two share a node, and
together they have all that are allocated (`Good`, `Rows`); the links of a list spell its sequence out in both directions, its
head, tail and count are those of the sequence (`Linked`, `Ends`), and `contents` has the items of its nodes (`Holds`).
A call cuts a piece out of a sequence, puts one into a sequence, or both. In between the piece is in no list: `Good` has a
place for it. `Detach` and `Attach` say that the assignments of `RemoveRange`, `AddRange` and the others are that cutting and
putting, for all the lists at once, and `WalkIs` that walking from the head meets the sequence.

**Sorting.** The loops and the calls of `_sort` are recursive functions; that they have their equations (`SplitIs`, `MergeIs`,
`SortedIs`) is shown by a least counterexample. The nodes of the two halves stay in their old order while the list is
split (`Halving`), and while it is merged (`Merging`) everything on the list comes before everything left in the halves.
The order they come in (`InTurn`) is that of the keys, equal ones by the places they had. `CallSorts` goes from one depth of calls to the
next: the halves sorted by nested calls, which leave other lists alone, merge into a sorted list. `FramesEnter` and
`FramesLeave` add the lists of the sort, which are empty before and after. The reference orders by counting: the rank of
a place is how many come before it. Ranks are a bijection (`PlaceOfRank`), and there is one sequence in that order (`InOrderIs`).

### EcsWorldProofs

It rests on `EcsWorldAssumption`: threads, entities and types are finitely many, there are an
entity and a type, and systems, none of which is listed twice.

| Theorem | Statement |
|---|---|
| `Invariance` | `Spec => []IInv` |
| `ComponentsCorrect` | `Spec => []ComponentsOwned` |
| `EntitiesStayCorrect` | `Spec => []EntitiesStay` |
| `DeadlocksCorrect` | `Spec => []DeadlocksKnown` |
| `ExactCorrect` | `Spec => []ListsExact` |

**The inductive invariant.** For `EntitiesStay`, `Holds` says that the threads that have the entities lock for
reading between steps are those whose call is past its look at an entity and not yet at its end (a removal: at its
event), and `Excludes` that a destroy that has begun has it for writing. For `ComponentsOwned` a new entity must
have no lookups: `Unused` says so of every handle not given out, and `Enough` (a comparison of cardinalities, kept
up by the bound on calls to create) that a call to create finds such a handle. `Said` says that what a call found,
and what its event says, is so: an add finds its type missing until it adds it, and there while it tells of it; a
removal finds what it is to remove, and then none. Nothing in the code keeps it so; `Apart` says that a call of
another thread that could have changed it is in `overlapped`, and `Said` speaks of the other cases. `Owns` is the
property by places in the array of lookups, and `Homes` and `Found` say whose components are in them.

**The argument.** A destroy needs the lock without readers, so by `Holds` no call is past its look at an entity when
one begins (`NobodyReads`). A new entity is none that a call is about (`Given`). When a call changes the lookups of
a type, another call about the same entity and type is in `overlapped` or both are removals (`Apart`), of which the
second is undefined by `Said` and `Found`. `AppendSlots` and `WithoutSlots` say what a change does to the lookups of
each type. Steps that only carry an event on are instances of `SendingStep`, steps of the update of `OtherStep`,
ends of calls of `ReturnStep`; each of the four calls has lemmas of its own.

**Deadlocks.** `Waiting` adds who can be in the way: whoever has the entities lock for writing is destroying and sends its
event, whoever is queued for it waits (`Writers`); the system that is updated says so, and `Main` makes no call during an
update but from an update function, where it never waits for the list of the very system it is in (`Updating`). So if somebody
waits for the entities lock, somebody has it (`SomebodyHasIt`); that one waits too, either for the same lock (`ReadsAgain`) or
for a list, which is locked by an update function, and then it is `Main` that waits (`Crossed`).

**What a system has.** `Exact` counts an entity in the list as it will be once the queue is processed, and speaks of
entities that no call is about. `Listing` says what holds in the middle of a call (`Due`), of systems that were not
overtaken and entities without an overlap that concerns them: an entity is in that list once or not at all; if it is
there and does not qualify, a removal or destruction of it has yet to reach the system (`Takes`), and if it
qualifies and is not there, an add has (`Adds`); and while an add is due, it is not there. `Asked` keeps what a
callback has found out true until the system is told: that takes `EntitiesStay`, and that no call with another
required type changed the entity meanwhile. `QualifiesIs` is why counting lookups, as the code does, is to ask for a
lookup of each type: without an overlap none is there twice. `LastSafe` is the reason for the last conjunct: in a
program of one thread the queue of the system that is updated last is empty but from its own update to the second
processing that follows at once.

**Queues.** What processing a queue makes of a list (`Processed`) is a recursive function over the commands. `StepsExist` and
`StepsUnique` establish that a function with these equations exists and that there is one only, each by a
least counterexample, and `ProcessedOneMore` is what the rest uses: one more command is applied to what the others leave.
Occurrences in a list are counted by `Count`, and `CountAppend` and `CountRemove` say what `array_add` and `array_remove` do to it.

### EventProofs

It rests on `EventAssumption`.

| Theorem | Statement |
|---|---|
| `FaultsCorrect` | `Spec => []FaultsKnown` |
| `SendsCorrect` | `Spec => []SendsReachAll` |

**Faults.** The invariant `EInv` says of each thread what it knows by what it has done: the place it found holds
what it looked for, unless something was removed since; its index is below the count, likewise; its pointer is into
the present block, unless that moved, and points at a handle that is alive or was destroyed while registered, unless
it was both removed and destroyed since (`Got`), and so is the handle once it was read (`HandleRead`); its observer
is alive, unless one was destroyed, and its pointer to it good, unless the cache grew (`LookedUp`). What others do
is in `since` of each thread that it bears on (`Told`). `Registered` says the same of the array itself. Steps that
change only the caller are instances of `QuietStep`. That `array_find` finds (`FindFinds`) needs a least index,
which is taken from the well-foundedness of the natural numbers.

**Sends.** `SendInv` adds, of a thread that sends: it has called as many observers as its index says (`Place`); without
removals, those that were registered when it began are still in the front of the array, and it has called them as far as it has come
(`InOrder`); without registrations, the calls of an observer that it has made, is about to make, and may still come to make are
no more than its registrations were (`NoneTwice`). A removal moves the last observer to an earlier place; `RemovedAhead` says that
this never puts an observer ahead of a send more often than it was.

### TextProofs, of the parser

It rests on `ParserAssumption`: format strings and lines are of the types that `Parser` gives them.

| Theorem | Statement |
|---|---|
| `Answered` | `Spec => []FileAnswers` |
| `GettersCorrect` | `Spec => []GettersShowLine` |

**Answers.** `FileAnswers` speaks of the answer to the last file only;
the invariant adds what `last_code` stands for between the lines: while a file is open, whether its last line
had an error, and as long as none was read, or between files, the answer to the file before.

**Getters.** `FieldsOk` says that each value that is kept has the token of the line it is from and points to metadata
that are allocated and of its type; `FormatsOk` that the formats point to allocated metadata. No call frees metadata while something
points to them: registering a format allocates numbers that were free (`FreshIds`), and lets the old metadata be. A line that fails half
way leaves no values (`ParseShows`), whichever of them failed.

### TextProofs, of the terminal

It rests on `TerminalAssumption`: windows have at least one column and one row, the buffer has a length, and what is drawn is a
symbol.

| Theorem | Statement |
|---|---|
| `PointersCorrect` | `Spec => []OnlyTheHandlerHurts` |
| `ScreenCorrect` | `Spec => []ShowsWhatWasDrawn` |

**Pointers.** The invariant says that, unless the handler ran in this call, the cell
is one of the window and the pointer its index: for drawing because `g_screen`
is the window's size or 0 x 0 (`extents`), for a refresh because of its loop conditions. `IndexInside`
is the arithmetic: the index of a cell of the window is below the product of width and height.

**The screen.** `Showing` says, as long as nothing made the terminal's state unknown, that what it will show once it has
obeyed the buffer is, in each cell that is not marked, the symbol of the program (`Pending`). A refresh writes a cell without
moving the cursor if it wrote the cell before it last; `CursorKnown` is why that is enough: the cursor will be where writing
the last cell leaves it, which is the next cell unless the row ends. `Visited` and `VisitedAll` say that a refresh leaves no
mark behind it, unless the handler set one meanwhile. `Shown`, which obeys any number of commands, is a recursive function,
and treated as `Processed` is: `ShownOneMore` by a least counterexample.

### ContainerProofs, of the hash table

It rests on `CacheMapAssumption`: hashes are integers, there are a bucket and an entry in it, and the number of buckets is a
power of two.

| Theorem | Statement |
|---|---|
| `MapLosesNothing` | `Spec => []NothingLost` |
| `MapCrashesKnown` | `Spec => []CrashesKnown` |
| `MapAnswers` | `Spec => []AnswersMap` |

**The inductive invariant.** `MInv` adds `TableOk`, that each entry in use is in the bucket of its key and shares its handle
with none, nor its key, the key -1 excepted; `Held`, that the entries in use are those of the items in the cache; and
`Promised`, that these are what the calls should have made (`content`). Each lets items under the key -1 be missing.

**Growth.** `_resize` moves every entry without asking whether there is a place for it. There is: the keys of a new bucket
are those of half an old one (`DoublingSplits`), so before an entry is moved fewer than `BucketCapacity` others of its bucket were
(`NotFilled`, a comparison of cardinalities). Unused entries all have the key -1, so they go through the last bucket, where
they overwrite one another and at most an item under -1: in the loop invariant (`Loop`), `FirstInUse` says that among the
entries with that key only the first is in use. It needs the last bucket
to be moved last (`LastBucket`). The table is a recursive function of the number of moves: `MovesExist`
shows that there is one with its equations, and `MovesLoop` carries `Loop` along it, each by a least counterexample. `Grown` says
what is left of a table that grew any number of times.

**Crashes.** When the map writes through NULL, a new key met a full bucket (`Filled`), the table doubled and the bucket is full again.
So the keys in it share a bucket in a table of twice the size, and there are as many as a bucket
has entries: they are the rivals that `CrashesKnown` asks for (`CrashIsKnown`).

### ContainerProofs, of the link array

It rests on `LinkArrayAssumption`, that the capacities asked for are within the bound, and the theorems have the condition
`~PopAtAnywhere`, without which they are false (section 6).

| Theorem | Statement |
|---|---|
| `NodesCorrect` | `LinkArraySpec => []NodesPartitioned` |
| `DequeCorrect` | `LinkArraySpec => ImplementsDeque` |

**The inductive invariant.** `Sane` says that there are two sequences of nodes, which share the nodes of the block
(`Shared`): each node is in one of them, once. The used list links the first one forwards and backwards (`Threads`,
`ThreadsBack`), the free list the second one forwards; and nothing is before its head. As with the free list of `Cache`, the sequences
are carried along: a push takes the first free node and puts it before or after the used ones, a pop takes out any and puts
it before the free ones (`Before`, `After`, `WithoutAt`). `FirstFields`, `LastFields` and `FreedFields` say what
the assignments through pointers come to, and the six lemmas from `ThreadsBefore` to `BackWithout` that the links are then
those of the longer or shorter sequence. An array that grows is full, so its used nodes are
those before the new ones (`UsedFirst`), and linking the new ones twice is linking them once (`LinkKeeps`).

**What is read.** The iterator meets the sequence (`WalkIs`), and `_internal_at` finds from either end the node that is there
in it (`NodeAtIs`). These are recursive functions, and the proofs are by a least counterexample, as is that of `linkarray_clear`,
which pops until nothing is left (`ClearsExist`, `ClearedIsEmpty`).

**Refinement.** `View` is what the refinement mapping makes of an array. `Seen` says of each step what it does to that: a push adds at an
end (`FrontAdded`, `BackAdded`), a pop removes the element at one place (`PlacePopped`), whichever node that is in.

### Only model-checked

Liveness under fairness is outside what the prover does: `WriterProgress`, `ReaderProgress`, `TasksFinish`, `AwaitReturns`,
`FreeReturns`, `HoldersReturn`, `RemoveReturns`, `UpdatesEnd`. Every other property of the runs that pass is the statement of
a theorem.

What RECURSIVE operators compute is out of reach as well, so there are none. What a recursive function computes can be
proved, though not by the library's induction theorems, which take an operator as a parameter: `Least` gives the least
number that is not in a set, and a proof by contradiction does the rest.

## 6. Where code and documentation disagree

One has a run of its own, `MCLinkArrayPopAt`, that ends in a counterexample: `linkarray_pop_at` puts the index of another
node, still in use, on the free list, where the comment at `link_array.c:91` says of the node that left the used
list "Add to freelist".

The others are steps that the models take, and properties that hold say how far they go:

| Code | The claim | What it does | Said by |
|---|---|---|---|
| `tasking.c:151` | `list.c:391`: `assert(list->count > 0);`, and `tasking.c:153`: "No pending tasks, wait for work signal" | the count a worker tests includes tasks being executed: it pops from an empty list | `TasksConserved` |
| `tasking.c:131` | `tasking.h:38`: "Block until tasker has finished executing all its pending tasks." | the count falls and the signal is given between test and wait: it blocks on with nothing left | `SleepersCalled` |
| `tasking.c:168`, `:207`, `:221` | `tasking.h:29`: "This also stops and joins the tasker's worker threads." | a worker that finds kill set with a task in hand awaits that task, which nobody will run; so does `tasker_free` with those left in the list; and a worker that read kill before it was set can sleep after the broadcast | `FreeReturns` |
| `system.c:76` | `src/test/core/ecs_systems.c:126`: `test_assert_equal_int("system has entity", 0, ...)` after the entity is destroyed | an update function queued the entity for a system whose own update is over when a later one destroys it: the removal is done at once and finds nothing, the queued add comes after it | `ListsExact` |
| `tasking.c:126` | `tasking.h:50`: "Await a task finish and destroy it." | the task is freed between its last status and its callback, which the worker runs on freed memory | `TasksConserved` |
| `rw_lock.c:34` | | the mutex is destroyed while its owner, already counted out, has still to signal and to unlock it | `UninitDrains` |
| `ecs_world.c:120` | | two calls both find a type missing in an entity and add it: it has two lookups of it, which are counted as two types, so that it qualifies no more | `ComponentsOwned`, `ListsExact` |
| `ecs_world.c:127` | | two calls add the two types that a system requires to one entity; both then find that it qualifies, and list it twice | `ListsExact` |
| `ecs_world.c:157` | | a type is added again between its removal and the removal's event, which then takes the entity out of systems that it qualifies for | `ListsExact` |
| `component_cache.c:74` | | two calls remove one component: the second reads through the NULL it gets for the lock | `Undefined` |
| `event.c:90` | | the observer is read through a pointer that was got under the lock of the cache and is used without it, when an `observer_create` may have moved the observers | `FaultsKnown` |
| `event.c:80` | `event.h`, to remove an observer | another one is removed, if a third call removed one in between | `FaultsKnown` |
| `parser.c:562` | `parser.h:85`: "Return true if no parse errors encountered during parsing." | an empty file is answered with the result of the file before | `FileAnswers` |
| `parser.c:392`, `:438` | | registering a new format returns `PARSER_NO_FORMAT_FOUND`, and a malformed format string takes away the format there was | `Register` |
| `list.c:337` | debug assertions that a range ends before the last node, and goes to a list that is not empty | the code provides for both cases that they forbid (lines 93, 115), and not for the index behind the last node, which loses nodes | `Splice` |
| `draw.c:50` | | the handler stays installed after `draw_uninit` and follows a NULL pointer | `OnlyTheHandlerHurts` |

Also seen: `cache_map_load_factor` returns whether the load factor is above the threshold (`cache_map.c:169`).

## 7. What is not modelled

* Memory: allocation always succeeds, as the code assumes. Of the pointers into a cache that dangle
  when it grows, the one that `event_send` has is modelled; those of other clients are a hazard, listed with the hazards.
* What items, components and tasks contain; names; logging; printing.
* Weak memory. Atomics in C11's default order and everything behind a mutex are sequentially
  consistent; the plain reads of `rwlock_uninit` and of kill are modelled as separate reads of
  the current value in any order.
* The iterator of `cache_map.c`, which is an index into the table: items added during an iteration can
  move it.
* The order of bytes on the terminal, its modes, and what parsers do with characters.
* `array_ts_copy`, which locks two arrays in the order of its arguments, and what else of `array.c` nothing modelled calls.
* The parts marked not_modelled in `PROJECT.json`: the numerical and text code, logging and polling of
  keys, which are input and output or pure computation on floating point and random numbers.

## 8. The plan

In the order of what matters to the system. Each module is written as the present ones are:
constants with named assumptions, one action per operation, recursion as functions.

1. **EcsWorld** beyond its present limits: components that are held while their entity is destroyed, and systems
   freed while others run.
2. **Arrays**: shrinking, sorting, and `array_ts_copy` in both directions.

Theorems to add: those of the calls added by these steps; of the present safety properties none is left.
