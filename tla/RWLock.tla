------------------------------- MODULE RWLock -------------------------------
(***************************************************************************)
(* core/rw_lock.c: a readers-writer lock that prefers writers, made of a   *)
(* mutex, two condition variables, four counters and a kill flag.          *)
(*                                                                         *)
(* The statements of a function between taking the mutex and leaving it    *)
(* (mtx_unlock or cnd_wait) are one step where nobody can come in between. *)
(* What the code reads without the mutex is a step of its own: the kill    *)
(* flag, and the counters rwlock_uninit polls.  As rwlock_uninit destroys  *)
(* the lock when it has read zeros, what a thread does after it was        *)
(* counted out, the signal and the unlocking, are steps of their own too.  *)
(***************************************************************************)
EXTENDS Integers, FiniteSets

CONSTANTS
    Threads,    \* the threads that lock and unlock
    NoThread    \* the owner of a free mutex

ASSUME ThreadsAssumption ==
    /\ IsFiniteSet(Threads)
    /\ NoThread \notin Threads

VARIABLES
    mutex,             \* RWLock.lock: its owner
    readers,           \* the four counters of struct RWLock
    writers,
    readers_waiting,
    writers_waiting,
    kill,
    pc,                \* where each thread is
    upc,               \* where the one call of rwlock_uninit is
    unread,            \* the counters its current pass has yet to read
    found              \* history: the threads it found holding or waiting that are still
                       \* in a function of the lock, or have yet to call the unlocking one

counters == <<readers, writers, readers_waiting, writers_waiting>>
uninit == <<upc, unread>>
vars == <<mutex, counters, kill, pc, uninit, found>>

\* Mutant: uninit does not wait for the readers that wait.
CounterNamesWithoutReadersWaiting == {"readers", "writers", "writers_waiting"}

CounterNames == {"readers", "writers", "readers_waiting", "writers_waiting"}

Destroyed == upc = "destroyed"

(***************************************************************************)
(* Where a thread can be.  The suffixes are                                *)
(*   lock   past the kill check, before mtx_lock                           *)
(*   wait   asleep in cnd_wait                                             *)
(*   woken  woken, waiting to take the mutex again                         *)
(*   test   mutex retaken, kill seen false, loop condition not yet tested  *)
(*   got    counted as a holder, before mtx_unlock                         *)
(*   left   no longer counted, before the signal                           *)
(* and refused / released are the exits before mtx_unlock.                 *)
(***************************************************************************)
OutsidePCs == {"idle", "r_lock", "w_lock", "undefined"}
ReaderBlockedPCs == {"r_wait", "r_woken", "r_test"}
WriterBlockedPCs == {"w_wait", "w_woken", "w_test"}
ReaderPCs == {"r_got", "reading"}
WriterPCs == {"w_got", "writing"}
LeavingPCs == {"r_left", "w_left", "refused", "released"}
MutexPCs == {"r_test", "w_test", "r_got", "w_got"} \cup LeavingPCs
PCs == OutsidePCs \cup ReaderBlockedPCs \cup WriterBlockedPCs
         \cup ReaderPCs \cup WriterPCs \cup MutexPCs

At(S) == {t \in Threads : pc[t] \in S}

Goto(t, label) == pc' = [pc EXCEPT ![t] = label]

Init ==
    /\ mutex = NoThread
    /\ readers = 0
    /\ writers = 0
    /\ readers_waiting = 0
    /\ writers_waiting = 0
    /\ kill = FALSE
    /\ pc = [t \in Threads |-> "idle"]
    /\ upc = "before"
    /\ unread = {}
    /\ found = {}

(***************************************************************************)
(* The mutex.                                                              *)
(***************************************************************************)

\* mtx_lock on a live mutex.
Acquire(t) ==
    /\ ~Destroyed
    /\ mutex = NoThread

\* mtx_unlock at the end of a function.
MutexUnlock(t) ==
    /\ ~Destroyed
    /\ mutex = t
    /\ mutex' = NoThread
    /\ \/ pc[t] = "r_got" /\ Goto(t, "reading") /\ UNCHANGED found
       \/ pc[t] = "w_got" /\ Goto(t, "writing") /\ UNCHANGED found
       \/ pc[t] \in {"refused", "released"} /\ Goto(t, "idle") /\ found' = found \ {t}
    /\ UNCHANGED <<counters, kill, uninit>>

\* A thread that reaches the mutex or a condition variable of a destroyed
\* lock is out of what C defines.
Undefined(t) ==
    /\ Destroyed
    /\ pc[t] \notin {"idle", "undefined"}
    /\ Goto(t, "undefined")
    /\ UNCHANGED <<mutex, counters, kill, uninit, found>>

(***************************************************************************)
(* rwlock_read_lock and rwlock_read_unlock.                                *)
(***************************************************************************)

\* Mutant: readers do not give way to writers.
ReadBlockedByHolderOnly == writers = 1

ReadBlocked == writers = 1 \/ writers_waiting > 0

\* Mutants: the wait is left uncounted, or is taken off the wrong counter.
StopReadWaitForgotten == UNCHANGED readers_waiting
StopReadWaitWrongCounter == readers_waiting' = readers - 1

\* --lock->readers_waiting, on the way out of the wait loop.
StopReadWait == readers_waiting' = readers_waiting - 1

\* The kill flag is read before the mutex is taken; a killed lock refuses.
ReadCheckKill(t) ==
    /\ pc[t] = "idle"
    /\ ~kill
    /\ Goto(t, "r_lock")
    /\ UNCHANGED <<mutex, counters, kill, uninit, found>>

ReadEnter(t) ==
    /\ pc[t] = "r_lock"
    /\ Acquire(t)
    /\ \/ /\ ReadBlocked
          /\ readers_waiting' = readers_waiting + 1
          /\ Goto(t, "r_wait")
          /\ UNCHANGED <<mutex, readers>>
       \/ /\ ~ReadBlocked
          /\ readers' = readers + 1
          /\ mutex' = t
          /\ Goto(t, "r_got")
          /\ UNCHANGED readers_waiting
    /\ UNCHANGED <<writers, writers_waiting, kill, uninit, found>>

\* cnd_wait returns with the mutex, then kill is read.
ReadAwake(t) ==
    /\ pc[t] = "r_woken"
    /\ Acquire(t)
    /\ mutex' = t
    /\ \/ /\ kill
          /\ StopReadWait
          /\ Goto(t, "refused")
       \/ /\ ~kill
          /\ Goto(t, "r_test")
          /\ UNCHANGED readers_waiting
    /\ UNCHANGED <<readers, writers, writers_waiting, kill, uninit, found>>

\* The loop condition: wait again, or become a reader.  rwlock_uninit can read the one
\* counter before this step and the other after it, which is as good as in between.
ReadTest(t) ==
    /\ pc[t] = "r_test"
    /\ ~Destroyed
    /\ \/ /\ ReadBlocked
          /\ mutex' = NoThread
          /\ Goto(t, "r_wait")
          /\ UNCHANGED <<readers, readers_waiting>>
       \/ /\ ~ReadBlocked
          /\ StopReadWait
          /\ readers' = readers + 1
          /\ Goto(t, "r_got")
          /\ UNCHANGED mutex
    /\ UNCHANGED <<writers, writers_waiting, kill, uninit, found>>

\* Mutant: the signal is forgotten.
SignalNobody(t, label) == Goto(t, label)

\* cnd_signal(&lock->signal_w): one sleeper, if there is one.  The caller's own
\* next label comes with it.
SignalWriter(t, label) ==
    IF At({"w_wait"}) = {}
      THEN Goto(t, label)
      ELSE \E w \in At({"w_wait"}) :
              pc' = [pc EXCEPT ![t] = label, ![w] = "w_woken"]

\* Mutant: cnd_signal where cnd_broadcast is meant.
AwakenOne(p, asleep, woken) ==
    IF \E u \in Threads : p[u] = asleep
      THEN [p EXCEPT ![CHOOSE u \in Threads : p[u] = asleep] = woken]
      ELSE p

\* cnd_broadcast: every sleeper of one condition variable.
Awaken(p, asleep, woken) ==
    [u \in Threads |-> IF p[u] = asleep THEN woken ELSE p[u]]

ReadUnlock(t) ==
    /\ pc[t] = "reading"
    /\ Acquire(t)
    /\ mutex' = t
    /\ readers' = readers - 1
    /\ Goto(t, "r_left")
    /\ UNCHANGED <<writers, readers_waiting, writers_waiting, kill, uninit, found>>

ReadSignal(t) ==
    /\ pc[t] = "r_left"
    /\ ~Destroyed
    /\ IF writers_waiting > 0 /\ readers = 0
         THEN SignalWriter(t, "released")
         ELSE Goto(t, "released")
    /\ UNCHANGED <<mutex, counters, kill, uninit, found>>

(***************************************************************************)
(* rwlock_write_lock and rwlock_write_unlock.                              *)
(***************************************************************************)

\* Mutant: a writer looks at the other writers only.
WriteBlockedByWritersOnly == writers = 1

WriteBlocked == writers = 1 \/ readers > 0

WriteCheckKill(t) ==
    /\ pc[t] = "idle"
    /\ ~kill
    /\ Goto(t, "w_lock")
    /\ UNCHANGED <<mutex, counters, kill, uninit, found>>

\* Note that a fresh writer looks at the holders only: it may overtake the
\* writers that wait.
WriteEnter(t) ==
    /\ pc[t] = "w_lock"
    /\ Acquire(t)
    /\ \/ /\ WriteBlocked
          /\ writers_waiting' = writers_waiting + 1
          /\ Goto(t, "w_wait")
          /\ UNCHANGED <<mutex, writers>>
       \/ /\ ~WriteBlocked
          /\ writers' = 1
          /\ mutex' = t
          /\ Goto(t, "w_got")
          /\ UNCHANGED writers_waiting
    /\ UNCHANGED <<readers, readers_waiting, kill, uninit, found>>

\* A writer refused here keeps the signal it was woken by.
WriteAwake(t) ==
    /\ pc[t] = "w_woken"
    /\ Acquire(t)
    /\ mutex' = t
    /\ \/ /\ kill
          /\ writers_waiting' = writers_waiting - 1
          /\ Goto(t, "refused")
       \/ /\ ~kill
          /\ Goto(t, "w_test")
          /\ UNCHANGED writers_waiting
    /\ UNCHANGED <<readers, writers, readers_waiting, kill, uninit, found>>

WriteTest(t) ==
    /\ pc[t] = "w_test"
    /\ ~Destroyed
    /\ \/ /\ WriteBlocked
          /\ mutex' = NoThread
          /\ Goto(t, "w_wait")
          /\ UNCHANGED <<writers, writers_waiting>>
       \/ /\ ~WriteBlocked
          /\ writers_waiting' = writers_waiting - 1
          /\ writers' = 1
          /\ Goto(t, "w_got")
          /\ UNCHANGED mutex
    /\ UNCHANGED <<readers, readers_waiting, kill, uninit, found>>

WriteUnlock(t) ==
    /\ pc[t] = "writing"
    /\ Acquire(t)
    /\ mutex' = t
    /\ writers' = 0
    /\ Goto(t, "w_left")
    /\ UNCHANGED <<readers, readers_waiting, writers_waiting, kill, uninit, found>>

WriteSignal(t) ==
    /\ pc[t] = "w_left"
    /\ ~Destroyed
    /\ \/ writers_waiting > 0 /\ SignalWriter(t, "released")
       \/ /\ writers_waiting = 0
          /\ readers_waiting > 0
          /\ pc' = [Awaken(pc, "r_wait", "r_woken") EXCEPT ![t] = "released"]
       \/ /\ writers_waiting = 0
          /\ readers_waiting = 0
          /\ Goto(t, "released")
    /\ UNCHANGED <<mutex, counters, kill, uninit, found>>

\* C11 lets cnd_wait return with nobody having signalled.
SpuriousWakeup(t) ==
    /\ ~Destroyed
    /\ \/ pc[t] = "r_wait" /\ Goto(t, "r_woken")
       \/ pc[t] = "w_wait" /\ Goto(t, "w_woken")
    /\ UNCHANGED <<mutex, counters, kill, uninit, found>>

\* rwlock_set_kill: its callers hold the lock for writing.
SetKill(t) ==
    /\ pc[t] = "writing"
    /\ kill' = TRUE
    /\ UNCHANGED <<mutex, counters, pc, uninit, found>>

(***************************************************************************)
(* rwlock_uninit, called once by a thread that does not hold the lock.  It *)
(* takes no mutex: each counter is read when it is read.  The reads are    *)
(* plain ones that race with the threads, and the debug and release builds *)
(* order those of the loop condition differently, so any order is allowed. *)
(***************************************************************************)

UninitKill ==
    /\ upc = "before"
    /\ kill' = TRUE
    /\ upc' = "broadcast_w"
    /\ found' = At(ReaderPCs \cup WriterPCs
                     \cup {"r_wait", "r_woken", "w_wait", "w_woken"})
    /\ UNCHANGED <<mutex, counters, pc, unread>>

UninitBroadcastW ==
    /\ upc = "broadcast_w"
    /\ upc' = "broadcast_r"
    /\ pc' = IF writers_waiting > 0 THEN Awaken(pc, "w_wait", "w_woken") ELSE pc
    /\ UNCHANGED <<mutex, counters, kill, unread, found>>

UninitBroadcastR ==
    /\ upc = "broadcast_r"
    /\ upc' = "poll"
    /\ unread' = CounterNames
    /\ pc' = IF readers_waiting > 0 THEN Awaken(pc, "r_wait", "r_woken") ELSE pc
    /\ UNCHANGED <<mutex, counters, kill, found>>

Counter(name) ==
    CASE name = "readers" -> readers
      [] name = "writers" -> writers
      [] name = "readers_waiting" -> readers_waiting
      [] name = "writers_waiting" -> writers_waiting

\* One operand of the loop condition; a positive one starts the next pass.
UninitPoll(name) ==
    /\ upc = "poll"
    /\ name \in unread
    /\ \/ /\ Counter(name) > 0
          /\ upc' = "broadcast_w"
          /\ unread' = {}
       \/ /\ Counter(name) <= 0
          /\ unread' = unread \ {name}
          /\ UNCHANGED upc
    /\ UNCHANGED <<mutex, counters, kill, pc, found>>

\* Every counter was read as zero: cnd_destroy twice, then mtx_destroy.
UninitDestroy ==
    /\ upc = "poll"
    /\ unread = {}
    /\ upc' = "destroyed"
    /\ UNCHANGED <<mutex, counters, kill, pc, unread, found>>

Uninit ==
    \/ UninitKill
    \/ UninitBroadcastW
    \/ UninitBroadcastR
    \/ \E name \in CounterNames : UninitPoll(name)
    \/ UninitDestroy

\* The steps inside the lock's own functions, which a call that has begun takes
\* whenever it can.
LockStep(t) ==
    \/ ReadEnter(t) \/ ReadAwake(t) \/ ReadTest(t)
    \/ WriteEnter(t) \/ WriteAwake(t) \/ WriteTest(t)
    \/ ReadSignal(t) \/ WriteSignal(t)
    \/ MutexUnlock(t)

UnlockStep(t) == ReadUnlock(t) \/ WriteUnlock(t)

Next ==
    \/ \E t \in Threads :
          \/ ReadCheckKill(t)
          \/ WriteCheckKill(t)
          \/ LockStep(t)
          \/ UnlockStep(t)
          \/ SetKill(t)
          \/ SpuriousWakeup(t)
          \/ Undefined(t)
    \/ Uninit

Spec == Init /\ [][Next]_vars

\* Threads are scheduled, a client that holds the lock unlocks it, and a mutex
\* that is free again and again is not denied to the same thread for ever (more
\* than the C standard says of mtx_lock, hence strong fairness).  Nobody has to
\* ask for the lock, no wakeup is spurious by right, and rwlock_uninit is owed
\* nothing: its loop spins on plain reads.
Fairness == \A t \in Threads : SF_vars(LockStep(t)) /\ SF_vars(UnlockStep(t))

FairSpec == Spec /\ Fairness

-----------------------------------------------------------------------------

TypeOK ==
    /\ mutex \in Threads \cup {NoThread}
    /\ readers \in Nat
    /\ writers \in {0, 1}
    /\ readers_waiting \in Nat
    /\ writers_waiting \in Nat
    /\ kill \in BOOLEAN
    /\ pc \in [Threads -> PCs]
    /\ upc \in {"before", "broadcast_w", "broadcast_r", "poll", "destroyed"}
    /\ unread \subseteq CounterNames
    /\ found \subseteq Threads

\* A thread that rwlock_write_lock let in shares the lock with nobody, whatever
\* the wakeups, the kill flag and a concurrent rwlock_uninit do, and even while
\* a woken waiter and a fresh caller race for the mutex.
Exclusion ==
    \A t \in At(WriterPCs) : At(ReaderPCs \cup WriterPCs) = {t}

\* The counters rwlock_uninit trusts are exact at every moment it may read them:
\* nobody is counted twice, or left counted by a refused or repeated wait.
CountersExact ==
    ~Destroyed =>
      /\ readers = Cardinality(At(ReaderPCs))
      /\ writers = Cardinality(At(WriterPCs))
      /\ readers_waiting = Cardinality(At(ReaderBlockedPCs))
      /\ writers_waiting = Cardinality(At(WriterBlockedPCs))

\* No wakeup is lost: while the lock is not killed, a writer sleeps only behind
\* a holder, or somebody who has left and is about to signal, or a writer already
\* on its way; and a reader sleeps only behind a writer.  (cnd_signal wakes one
\* thread, and a woken thread can find the lock taken again.)
NoLostWakeup ==
    ~kill =>
      /\ At({"w_wait"}) # {} =>
           At(ReaderPCs \cup WriterPCs \cup {"w_woken", "w_test", "r_left", "w_left"}) # {}
      /\ At({"r_wait"}) # {} => At(WriterPCs \cup WriterBlockedPCs \cup {"w_left"}) # {}

\* rwlock_uninit destroys the lock only after every thread that held it or slept
\* in it when uninit set kill has been counted out, so that nobody is left asleep
\* and nobody holds what is destroyed.  One of them, and no more, may be inside
\* all the same: the owner of the mutex, which has still to signal and to unlock
\* it (rw_lock.c:34-38 looks at the counters only).  A thread that had read kill
\* as false just before is not covered.
UninitDrains ==
    Destroyed =>
      /\ found \subseteq {mutex}
      /\ \A t \in found : pc[t] \in LeavingPCs \cup {"undefined"}

\* A waiting writer is not starved by readers: some writer gets the lock, though
\* with overtaking not always the one that waited longest.
WriterProgress ==
    (writers_waiting > 0) ~> (writers = 1 \/ kill)

\* Once writers stop asking, no reader waits for ever: the last writer to leave,
\* and only that one, wakes the readers.
ReaderProgress ==
    <>[](At(WriterPCs \cup WriterBlockedPCs) = {} /\ ~kill)
      => \A t \in Threads : []<>(pc[t] \notin ReaderBlockedPCs)

\* The lock implements the abstract one.
Abstract == INSTANCE AbstractRWLock WITH
    reading <- At(ReaderPCs),
    writing <- At(WriterPCs),
    queued <- At(WriterBlockedPCs),
    closed <- kill

\* What the clients of rwlock_lock and rwlock_unlock may rely on: in particular,
\* no reader begins while a writer is queued, and no queued writer leaves the
\* queue empty-handed unless the lock is being killed.
ImplementsAbstract == Abstract!Spec

=============================================================================
