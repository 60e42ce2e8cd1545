------------------------------ MODULE Tasking -------------------------------
(***************************************************************************)
(* core/tasking.c (and concurrent/futex.c): a pool of worker threads that  *)
(* take tasks off a list, and the clients that add tasks, await them, free *)
(* them, wait for all of them, and free the pool.                          *)
(*                                                                         *)
(* task_count, kill and the status of a task are atomics; the list is      *)
(* guarded by tasker_lock.  A step is a piece of a function that touches   *)
(* shared state once, or all that it does under the mutex when nobody      *)
(* changes what it reads without the mutex.                                *)
(***************************************************************************)
EXTENDS Integers, Sequences, FiniteSets, Functions

CONSTANTS
    Workers,    \* Tasker.worker_threads
    Clients,    \* the threads that call the functions of tasking.h
    Tasks,      \* what task_new made, each used once
    Nobody      \* the owner of a free mutex, the task of a thread without one

ASSUME TaskingAssumption ==
    /\ IsFiniteSet(Workers) /\ IsFiniteSet(Clients) /\ IsFiniteSet(Tasks)
    /\ Workers \cap Clients = {}
    /\ Nobody \notin Workers \cup Clients \cup Tasks

VARIABLES
    pending_list,   \* Tasker.pending_list
    task_count,     \* Tasker.task_count: pending and being executed
    kill,           \* Tasker.kill
    tasker_lock,    \* the client that owns the mutex between two steps
    status,         \* Task.status
    wpc,            \* where each worker is
    wtask,          \* _Thread.task
    cpc,            \* where each client is
    ctask,          \* the task its call is about
    freeing,        \* whether that call is task_free
    added,          \* history: the tasks that were added
    called,         \* history: the tasks whose callback returned
    freed,          \* the tasks whose memory was freed
    fault,          \* how the program left what C defines, if it did
    missed          \* history: the threads that a wakeup went past, as they were still
                    \* on their way to sleep or another one was woken

tasker == <<pending_list, task_count, kill, tasker_lock>>
worker == <<wpc, wtask>>
client == <<cpc, ctask, freeing>>
vars == <<tasker, status, worker, client, added, called, freed, fault, missed>>

Threads == Workers \cup Clients

Init ==
    /\ pending_list = <<>>
    /\ task_count = 0
    /\ kill = FALSE
    /\ tasker_lock = Nobody
    /\ status = [t \in Tasks |-> "not_started"]
    /\ wpc = [w \in Workers |-> "check"]
    /\ wtask = [w \in Workers |-> Nobody]
    /\ cpc = [c \in Clients |-> "idle"]
    /\ ctask = [c \in Clients |-> Nobody]
    /\ freeing = [c \in Clients |-> FALSE]
    /\ added = {}
    /\ called = {}
    /\ freed = {}
    /\ fault = "none"
    /\ missed = {}

Running == fault = "none"

WGoto(w, label) == wpc' = [wpc EXCEPT ![w] = label]
CGoto(c, label) == cpc' = [cpc EXCEPT ![c] = label]

\* cnd_signal on one of the two condition variables: one sleeper, if any, in the
\* pc function p.
SignalOne(p, q, asleep) ==
    \/ /\ \A x \in DOMAIN p : p[x] # asleep
       /\ q = p
    \/ \E x \in DOMAIN p : p[x] = asleep /\ q = [p EXCEPT ![x] = "woken"]

(***************************************************************************)
(* A worker: _thread_update and what it calls.                             *)
(***************************************************************************)

\* The loop condition.
WorkerCheck(w) ==
    /\ wpc[w] = "check"
    /\ WGoto(w, IF kill THEN "exited" ELSE "lock")
    /\ UNCHANGED <<tasker, status, wtask, client, added, called, freed, fault, missed>>

\* With the mutex: wait while task_count is zero, else _thread_start_task.  The
\* count says nothing of the list, which may be empty.
WaitOrPop(w) ==
    \/ /\ task_count = 0
       /\ WGoto(w, "sleep")
       /\ UNCHANGED <<pending_list, wtask, fault>>
    \/ /\ task_count # 0
       /\ pending_list = <<>>
       /\ fault' = "empty_pop"
       /\ UNCHANGED <<pending_list, worker>>
    \/ /\ task_count # 0
       /\ pending_list # <<>>
       /\ wtask' = [wtask EXCEPT ![w] = Head(pending_list)]
       /\ pending_list' = Tail(pending_list)
       /\ WGoto(w, "popped")
       /\ UNCHANGED fault

WorkerLock(w) ==
    /\ wpc[w] = "lock"
    /\ tasker_lock = Nobody
    /\ WaitOrPop(w)
    /\ UNCHANGED <<task_count, kill, tasker_lock, status, client, added, called, freed, missed>>

\* Back from cnd_wait, with the mutex.
WorkerWake(w) ==
    /\ wpc[w] = "woken"
    /\ tasker_lock = Nobody
    /\ \/ kill /\ WGoto(w, "exited") /\ UNCHANGED <<pending_list, wtask, fault>>
       \/ ~kill /\ WaitOrPop(w)
    /\ UNCHANGED <<task_count, kill, tasker_lock, status, client, added, called, freed, missed>>

\* The mutex was left; kill is read again.  _thread_free_task awaits a task that
\* nobody will start: the worker stays in that loop for good.
WorkerCheckAgain(w) ==
    /\ wpc[w] = "popped"
    /\ WGoto(w, IF kill THEN "stuck" ELSE "start")
    /\ UNCHANGED <<tasker, status, wtask, client, added, called, freed, fault, missed>>

\* _thread_execute_task: the status before the first call of the task's function.
WorkerStart(w) ==
    /\ wpc[w] = "start"
    /\ status' = [status EXCEPT ![wtask[w]] = "executing"]
    /\ WGoto(w, "run")
    /\ UNCHANGED <<tasker, wtask, client, added, called, freed, fault, missed>>

\* Mutant: the callback is forgotten.
AfterTaskCount == "count"

\* What _thread_update does once the task has finished: _thread_end_task begins
\* with the callback.
AfterTask == "callback"

\* The function returns success or failure, which nothing here tells apart.  A
\* return of EXECUTING changes nothing and the function is called again.
WorkerRun(w) ==
    /\ wpc[w] = "run"
    /\ status' = [status EXCEPT ![wtask[w]] = "finished"]
    /\ WGoto(w, AfterTask)
    /\ UNCHANGED <<tasker, wtask, client, added, called, freed, fault, missed>>

\* The status is read once more, then cb_func, and the callback runs on args:
\* the task must still be there.
WorkerCallback(w) ==
    /\ wpc[w] = "callback"
    /\ IF wtask[w] \in freed
         THEN fault' = "use_after_free" /\ UNCHANGED <<wpc, called>>
         ELSE /\ called' = called \cup {wtask[w]}
              /\ WGoto(w, "count")
              /\ UNCHANGED fault
    /\ UNCHANGED <<tasker, status, wtask, client, added, freed, missed>>

\* Mutant: a task stays counted.
UncountNever == UNCHANGED task_count

Uncount == task_count' = task_count - 1

\* --task_count, without the mutex.
WorkerCount(w) ==
    /\ wpc[w] = "count"
    /\ Uncount
    /\ WGoto(w, "wake")
    /\ UNCHANGED <<pending_list, kill, tasker_lock, status, wtask, client, added,
                   called, freed, fault, missed>>

\* Mutant: nobody is woken.
FutexWakeNobody(t) == UNCHANGED cpc

\* futex_wake(&task->status, 1): one of the threads that sleep on the task.
FutexWake(t) ==
    LET sleepers == {c \in Clients : cpc[c] = "futex_sleep" /\ ctask[c] = t}
    IN  \/ sleepers = {} /\ UNCHANGED cpc
        \/ \E c \in sleepers : CGoto(c, "await")

WorkerFutexWake(w) ==
    /\ wpc[w] = "wake"
    /\ FutexWake(wtask[w])
    /\ wtask' = [wtask EXCEPT ![w] = Nobody]
    /\ WGoto(w, "signal")
    /\ UNCHANGED <<tasker, status, ctask, freeing, added, called, freed, fault, missed>>

\* cnd_signal(task_complete_signal), without the mutex.
WorkerSignal(w) ==
    /\ wpc[w] = "signal"
    /\ SignalOne(cpc, cpc', "sync_sleep")
    /\ missed' = missed \cup {c \in Clients : cpc[c] = "sync_wait" \/ cpc'[c] = "sync_sleep"}
    /\ WGoto(w, "check")
    /\ UNCHANGED <<tasker, status, wtask, ctask, freeing, added, called, freed, fault>>

(***************************************************************************)
(* tasker_add_task.                                                        *)
(***************************************************************************)

\* The client adds a task that it has not added before.  A task that has been
\* started is refused, which changes nothing.
AddTask(c, t) ==
    /\ cpc[c] = "idle"
    /\ ~kill
    /\ t \notin added
    /\ status[t] = "not_started"
    /\ tasker_lock = Nobody
    /\ pending_list' = Append(pending_list, t)
    /\ task_count' = task_count + 1
    /\ added' = added \cup {t}
    /\ CGoto(c, "add_signal")
    /\ UNCHANGED <<kill, tasker_lock, status, worker, ctask, freeing, called, freed, fault, missed>>

\* Mutant: no signal.
NoSignal == UNCHANGED wpc

\* cnd_signal(work_signal), after the mutex was left.
WorkSignal == SignalOne(wpc, wpc', "sleep")

AddSignal(c) ==
    /\ cpc[c] = "add_signal"
    /\ WorkSignal
    /\ CGoto(c, "idle")
    /\ UNCHANGED <<tasker, status, wtask, ctask, freeing, added, called, freed, fault, missed>>

(***************************************************************************)
(* tasker_sync.                                                            *)
(***************************************************************************)

Sync(c) ==
    /\ cpc[c] = "idle"
    /\ ~kill
    /\ CGoto(c, "sync_lock")
    /\ UNCHANGED <<tasker, status, worker, ctask, freeing, added, called, freed, fault, missed>>

SyncLock(c) ==
    /\ cpc[c] \in {"sync_lock", "woken"}
    /\ tasker_lock = Nobody
    /\ tasker_lock' = c
    /\ CGoto(c, "sync_test")
    /\ UNCHANGED <<pending_list, task_count, kill, status, worker, ctask, freeing,
                   added, called, freed, fault, missed>>

\* The loop condition, which a worker may change at any time.
SyncTest(c) ==
    /\ cpc[c] = "sync_test"
    /\ \/ /\ task_count > 0
          /\ CGoto(c, "sync_wait")
          /\ UNCHANGED tasker_lock
       \/ /\ task_count = 0
          /\ tasker_lock' = Nobody
          /\ CGoto(c, "idle")
    /\ missed' = missed \ {c}
    /\ UNCHANGED <<pending_list, task_count, kill, status, worker, ctask, freeing,
                   added, called, freed, fault>>

\* cnd_wait(task_complete_signal).
SyncWait(c) ==
    /\ cpc[c] = "sync_wait"
    /\ tasker_lock' = Nobody
    /\ CGoto(c, "sync_sleep")
    /\ UNCHANGED <<pending_list, task_count, kill, status, worker, ctask, freeing,
                   added, called, freed, fault, missed>>

(***************************************************************************)
(* task_await and task_free.                                               *)
(***************************************************************************)

\* A client awaits a task that was added, and frees one that nobody else is
\* using any more.
Await(c, t) ==
    /\ cpc[c] = "idle"
    /\ t \in added \ freed
    /\ ~\E d \in Clients : ctask[d] = t /\ freeing[d]
    /\ ctask' = [ctask EXCEPT ![c] = t]
    /\ freeing' \in {freeing, [freeing EXCEPT ![c] = \A d \in Clients : ctask[d] # t]}
    /\ CGoto(c, "await")
    /\ UNCHANGED <<tasker, status, worker, added, called, freed, fault, missed>>

\* The status is loaded.
AwaitLoad(c) ==
    /\ cpc[c] = "await"
    /\ IF status[ctask[c]] = "finished"
         THEN /\ CGoto(c, "idle")
              /\ ctask' = [ctask EXCEPT ![c] = Nobody]
              /\ freeing' = [freeing EXCEPT ![c] = FALSE]
              /\ freed' = IF freeing[c] THEN freed \cup {ctask[c]} ELSE freed
         ELSE CGoto(c, "futex") /\ UNCHANGED <<ctask, freeing, freed>>
    /\ UNCHANGED <<tasker, status, worker, added, called, fault, missed>>

\* futex_wait(&task->status, EXECUTING) sleeps if the status is still that.
AwaitFutex(c) ==
    /\ cpc[c] = "futex"
    /\ CGoto(c, IF status[ctask[c]] = "executing" THEN "futex_sleep" ELSE "await")
    /\ UNCHANGED <<tasker, status, worker, ctask, freeing, added, called, freed, fault, missed>>

(***************************************************************************)
(* tasker_free, called when no other client is in a call.                  *)
(***************************************************************************)

FreeKill(c) ==
    /\ \A d \in Clients : cpc[d] = "idle"
    /\ ~kill
    /\ kill' = TRUE
    /\ CGoto(c, "free_lock")
    /\ UNCHANGED <<pending_list, task_count, tasker_lock, status, worker, ctask,
                   freeing, added, called, freed, fault, missed>>

\* Mutant: cnd_signal.
BroadcastToOne == SignalOne(wpc, wpc', "sleep")

\* cnd_broadcast(work_signal).
Broadcast == wpc' = [w \in Workers |-> IF wpc[w] = "sleep" THEN "woken" ELSE wpc[w]]

\* With the mutex.  A worker that has read kill and has not yet the mutex does not
\* hear it.
FreeBroadcast(c) ==
    /\ cpc[c] = "free_lock"
    /\ tasker_lock = Nobody
    /\ Broadcast
    /\ missed' = missed \cup {w \in Workers : wpc[w] = "lock"}
    /\ CGoto(c, "free_join")
    /\ UNCHANGED <<tasker, status, wtask, ctask, freeing, added, called, freed, fault>>

\* Every thrd_join returned.  The tasks still in the list are freed, each of
\* them after an await that never ends: only an empty list lets the call return.
FreeJoin(c) ==
    /\ cpc[c] = "free_join"
    /\ \A w \in Workers : wpc[w] = "exited"
    /\ CGoto(c, IF pending_list = <<>> THEN "freed" ELSE "stuck")
    /\ UNCHANGED <<tasker, status, worker, ctask, freeing, added, called, freed, fault, missed>>

(***************************************************************************)

\* cnd_wait and FUTEX_WAIT may return with nobody having woken the thread.
SpuriousWakeup ==
    \/ /\ \E w \in Workers : wpc[w] = "sleep" /\ WGoto(w, "woken")
       /\ UNCHANGED <<tasker, status, wtask, client, added, called, freed, fault, missed>>
    \/ /\ \E c \in Clients :
            \/ cpc[c] = "sync_sleep" /\ CGoto(c, "woken")
            \/ cpc[c] = "futex_sleep" /\ CGoto(c, "await")
       /\ UNCHANGED <<tasker, status, worker, ctask, freeing, added, called, freed, fault, missed>>

WorkerStep(w) ==
    /\ Running
    /\ \/ WorkerCheck(w) \/ WorkerLock(w) \/ WorkerWake(w)
       \/ WorkerCheckAgain(w) \/ WorkerStart(w) \/ WorkerRun(w)
       \/ WorkerCallback(w) \/ WorkerCount(w) \/ WorkerFutexWake(w)
       \/ WorkerSignal(w)

\* The steps of a call that has begun.
ClientStep(c) ==
    /\ Running
    /\ \/ AddSignal(c)
       \/ SyncLock(c) \/ SyncTest(c) \/ SyncWait(c)
       \/ AwaitLoad(c) \/ AwaitFutex(c)
       \/ FreeBroadcast(c) \/ FreeJoin(c)

\* A call begins.
ClientCall(c) ==
    /\ Running
    /\ \/ \E t \in Tasks : AddTask(c, t) \/ Await(c, t)
       \/ Sync(c)
       \/ FreeKill(c)

Next ==
    \/ \E w \in Workers : WorkerStep(w)
    \/ \E c \in Clients : ClientStep(c) \/ ClientCall(c)
    \/ Running /\ SpuriousWakeup

Spec == Init /\ [][Next]_vars

\* Threads are scheduled, the functions of the tasks return, and a mutex that is
\* free again and again is not denied to a thread for ever.  Nobody has to call,
\* and no wakeup is spurious by right.
Fairness ==
    /\ \A w \in Workers : SF_vars(WorkerStep(w))
    /\ \A c \in Clients : SF_vars(ClientStep(c))

FairSpec == Spec /\ Fairness

-----------------------------------------------------------------------------

\* Where a worker has a task that is still counted.
BusyPCs == {"popped", "start", "run", "callback", "count", "stuck"}

Busy == {w \in Workers : wpc[w] \in BusyPCs}

TypeOK ==
    /\ pending_list \in Seq(Tasks)
    /\ task_count \in 0 .. Cardinality(Tasks)
    /\ kill \in BOOLEAN
    /\ tasker_lock \in Clients \cup {Nobody}
    /\ status \in [Tasks -> {"not_started", "executing", "finished"}]
    /\ wpc \in [Workers -> BusyPCs \cup {"check", "lock", "sleep", "woken", "wake",
                                         "signal", "exited"}]
    /\ wtask \in [Workers -> Tasks \cup {Nobody}]
    /\ cpc \in [Clients -> {"idle", "add_signal", "sync_lock", "sync_test",
                            "sync_wait", "sync_sleep", "woken", "await", "futex",
                            "futex_sleep", "free_lock", "free_join", "freed",
                            "stuck"}]
    /\ ctask \in [Clients -> Tasks \cup {Nobody}]
    /\ freeing \in [Clients -> BOOLEAN]
    /\ added \subseteq Tasks /\ called \subseteq added /\ freed \subseteq added
    /\ fault \in {"none", "empty_pop", "use_after_free"}
    /\ missed \subseteq Threads

\* A task that was added is in one place only, the list or one worker, until it
\* has finished and its callback has run; and task_count is the number of tasks
\* in those places, so that the moment tasker_sync looks for, a count of zero,
\* covers every callback.  A task is not freed under its function, though it may
\* be before its callback.  A worker takes a task from an empty list only while
\* another executes one, which is what the count then counts.
TasksConserved ==
    /\ TypeOK
    /\ task_count = Len(pending_list) + Cardinality(Busy)
    /\ Cardinality(Range(pending_list) \cup {wtask[w] : w \in Busy}) = task_count
    /\ \A t \in added \ (Range(pending_list) \cup {wtask[w] : w \in Busy}) :
         t \in called /\ status[t] = "finished"
    /\ \A w \in Busy : wtask[w] \in freed => wpc[w] \in {"callback", "count"}
    /\ fault = "empty_pop" => Busy # {}

\* Nobody sleeps through what it waits for.  While tasks are pending and the pool
\* is not being freed, as many threads are on their way to take one, or to signal
\* one more worker, as there are tasks, unless no worker sleeps.  When all tasks
\* are done, a client asleep in tasker_sync is about to be signalled or is one
\* that a signal went past: the count changes without the mutex, so a client that
\* has just read it may miss the last signal, and of two clients one is woken.
SleepersCalled ==
    LET onTheirWay == {w \in Workers : wpc[w] \in {"check", "lock", "woken"}}
        signalling == {c \in Clients : cpc[c] = "add_signal"}
    IN  Running =>
          /\ (~kill /\ \E w \in Workers : wpc[w] = "sleep") =>
               Cardinality(onTheirWay) + Cardinality(signalling) >= Len(pending_list)
          /\ \A c \in Clients \ missed :
               cpc[c] = "sync_sleep" /\ task_count = 0 =>
                 \E w \in Workers : wpc[w] \in {"wake", "signal"}

\* Every task that was added is executed, though tasks run for any time and any
\* two workers may be woken for one task, unless the pool is freed first.
TasksFinish ==
    \A t \in Tasks : t \in added ~> (status[t] = "finished" \/ kill \/ ~Running)

\* A thread that alone awaits a task does not sleep for ever: no wakeup is lost
\* between its load of the status, the futex call and the worker's wake.
AwaitReturns ==
    \A c \in Clients :
      cpc[c] = "futex_sleep" /\ status[ctask[c]] = "executing"
        ~> \/ cpc[c] # "futex_sleep"
           \/ \E d \in Clients \ {c} : ctask[d] = ctask[c]
           \/ ~Running

\* tasker_free, which tasking.h says "also stops and joins the tasker's worker
\* threads", returns, but for three ways of the code to hang: a worker that had
\* just taken a task awaits it (line 170), the tasks left in the list are awaited
\* (line 221), or a worker read kill before it was set and sleeps after the
\* broadcast.
FreeReturns ==
    \A c \in Clients :
      cpc[c] = "free_lock"
        ~> \/ cpc[c] \in {"freed", "stuck"}
           \/ \E w \in Workers : wpc[w] = "stuck" \/ (w \in missed /\ wpc[w] = "sleep")
           \/ ~Running

=============================================================================
