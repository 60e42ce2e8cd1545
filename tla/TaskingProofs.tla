----------------------------- MODULE TaskingProofs -----------------------------
(***************************************************************************)
(* tasking.c, and list.c, whose struct List the pool keeps its tasks in.   *)
(*                                                                         *)
(* First: every task of the pool is in one place and is counted there, and *)
(* no thread sleeps through what it waits for, for any numbers of workers, *)
(* clients and tasks.  The invariant follows a task on its way: in the     *)
(* list it is not started, in a worker's hands it has the status that      *)
(* belongs to the place where the worker is (Holding), and when it is in   *)
(* neither its callback has run (Done).  What it says of the count is what *)
(* the second theorem needs: a worker goes to sleep only when the list is  *)
(* empty.                                                                  *)
(*                                                                         *)
(* Then: the nodes of linked lists are on one list each, and the lists     *)
(* hold what the calls promise, for any number of lists, nodes and items.  *)
(* The invariant (ListInv) says that there are sequences of nodes, one per *)
(* list, that the links, ends and counts spell out (Good).  Each step of a *)
(* call cuts a piece from one of them or puts one in (Detach, Attach).     *)
(***************************************************************************)
EXTENDS Tasking, List, SequenceTheorems, FiniteSetTheorems, WellFoundedInduction, TLAPS

WPCs == BusyPCs \cup {"check", "lock", "sleep", "woken", "wake", "signal", "exited"}
CPCs == {"idle", "add_signal", "sync_lock", "sync_test", "sync_wait", "sync_sleep", "woken",
         "await", "futex", "futex_sleep", "free_lock", "free_join", "freed", "stuck"}

PoolTypes ==
    /\ pending_list \in Seq(Tasks)
    /\ task_count \in Nat
    /\ kill \in BOOLEAN
    /\ status \in [Tasks -> {"not_started", "executing", "finished"}]
    /\ wpc \in [Workers -> WPCs]
    /\ wtask \in [Workers -> Tasks \cup {Nobody}]
    /\ added \subseteq Tasks /\ called \subseteq added /\ freed \subseteq added
    /\ fault \in {"none", "empty_pop", "use_after_free"}

CallTypes ==
    /\ tasker_lock \in Clients \cup {Nobody}
    /\ cpc \in [Clients -> CPCs]
    /\ ctask \in [Clients -> Tasks \cup {Nobody}]
    /\ freeing \in [Clients -> BOOLEAN]
    /\ missed \subseteq Threads

\* A client in task_await awaits a task that was added.
Awaiting ==
    \A c \in Clients : cpc[c] \in {"await", "futex", "futex_sleep"} => ctask[c] \in added

InUse == Range(pending_list) \cup {wtask[w] : w \in Busy}

Counting ==
    /\ task_count = Len(pending_list) + Cardinality(Busy)
    /\ Cardinality(InUse) = task_count

Pending ==
    /\ IsInjective(pending_list)
    /\ \A t \in Range(pending_list) : t \in added /\ status[t] = "not_started"

Holding(w) ==
    wpc[w] \in BusyPCs =>
      /\ wtask[w] \in added /\ wtask[w] \notin Range(pending_list)
      /\ \A v \in Busy : wtask[v] = wtask[w] => v = w
      /\ wpc[w] \in {"popped", "stuck", "start"} => status[wtask[w]] = "not_started"
      /\ wpc[w] = "run" => status[wtask[w]] = "executing"
      /\ wpc[w] \in {"callback", "count"} => status[wtask[w]] = "finished"
      /\ wpc[w] = "count" => wtask[w] \in called

Done ==
    /\ \A t \in added \ InUse : t \in called /\ status[t] = "finished"
    /\ \A t \in freed : status[t] = "finished"
    /\ fault = "empty_pop" => Busy # {}

Conserved ==
    /\ PoolTypes
    /\ Counting
    /\ Pending
    /\ \A w \in Workers : Holding(w)
    /\ Done

TInv == Conserved /\ CallTypes /\ Awaiting

-----------------------------------------------------------------------------
(* Lists and counts.                                                         *)

LEMMA AppendList ==
    ASSUME NEW s \in Seq(Tasks), NEW t \in Tasks, IsInjective(s), t \notin Range(s)
    PROVE  /\ Append(s, t) \in Seq(Tasks) /\ Len(Append(s, t)) = Len(s) + 1
           /\ Range(Append(s, t)) = Range(s) \cup {t}
           /\ IsInjective(Append(s, t))
<1>. DEFINE r == Append(s, t)
<1>1. /\ r \in Seq(Tasks) /\ Len(r) = Len(s) + 1
      /\ DOMAIN r = 1 .. Len(s) + 1 /\ DOMAIN s = 1 .. Len(s) /\ Len(s) \in Nat
      /\ \A i \in 1 .. Len(s) + 1 : r[i] = IF i = Len(s) + 1 THEN t ELSE s[i]
  OBVIOUS
<1>. HIDE DEF r
<1>2. Range(r) = Range(s) \cup {t}
  <2>1. \A x \in Range(r) : x \in Range(s) \cup {t}
    BY <1>1 DEF Range
  <2>2. \A x \in Range(s) : x \in Range(r)
    BY <1>1 DEF Range
  <2>3. t \in Range(r)
    BY <1>1 DEF Range
  <2>. QED
    BY <2>1, <2>2, <2>3
<1>3. IsInjective(r)
  BY <1>1 DEF IsInjective, Range
<1>. QED
  BY <1>1, <1>2, <1>3 DEF r

LEMMA TailList ==
    ASSUME NEW s \in Seq(Tasks), IsInjective(s), s # <<>>
    PROVE  /\ Tail(s) \in Seq(Tasks) /\ Len(Tail(s)) = Len(s) - 1
           /\ Head(s) \in Tasks /\ Head(s) \in Range(s)
           /\ Range(Tail(s)) = Range(s) \ {Head(s)}
           /\ IsInjective(Tail(s))
<1>. DEFINE r == Tail(s)
            h == Head(s)
<1>1. /\ r \in Seq(Tasks) /\ Len(r) = Len(s) - 1 /\ Len(s) \in Nat \ {0} /\ h = s[1]
      /\ DOMAIN r = 1 .. Len(s) - 1 /\ DOMAIN s = 1 .. Len(s)
      /\ \A i \in 1 .. Len(s) - 1 : r[i] = s[i + 1]
  OBVIOUS
<1>. HIDE DEF r, h
<1>2. h \in Tasks /\ h \in Range(s)
  BY <1>1 DEF Range
<1>3. Range(r) = Range(s) \ {h}
  <2>1. \A x \in Range(r) : x \in Range(s) /\ x # h
    BY <1>1 DEF Range, IsInjective
  <2>2. ASSUME NEW x \in Range(s), x # h
        PROVE  x \in Range(r)
    <3>1. PICK i \in 1 .. Len(s) : s[i] = x
      BY <1>1 DEF Range
    <3>2. i - 1 \in 1 .. Len(s) - 1 /\ r[i - 1] = x
      BY <1>1, <2>2, <3>1
    <3>. QED
      BY <1>1, <3>2 DEF Range
  <2>. QED
    BY <2>1, <2>2
<1>4. IsInjective(r)
  BY <1>1 DEF IsInjective
<1>. QED
  BY <1>1, <1>2, <1>3, <1>4 DEF r, h

LEMMA SetsFinite ==
    ASSUME PoolTypes, \A w \in Workers : Holding(w)
    PROVE  /\ IsFiniteSet(Busy) /\ Cardinality(Busy) \in Nat
           /\ InUse \subseteq Tasks /\ IsFiniteSet(InUse) /\ Cardinality(InUse) \in Nat
           /\ Cardinality(InUse) <= Cardinality(Tasks) /\ Cardinality(Tasks) \in Nat
<1>1. IsFiniteSet(Workers) /\ IsFiniteSet(Tasks)
  BY TaskingAssumption
<1>2. IsFiniteSet(Busy)
  BY <1>1, FS_Subset DEF Busy
<1>3. Range(pending_list) \subseteq Tasks
  BY DEF PoolTypes, Range
<1>4. \A w \in Busy : wtask[w] \in Tasks
  BY DEF Holding, PoolTypes, Busy
<1>5. InUse \subseteq Tasks
  BY <1>3, <1>4 DEF InUse
<1>6. IsFiniteSet(InUse) /\ Cardinality(InUse) <= Cardinality(Tasks)
  BY <1>1, <1>5, FS_Subset
<1>. QED
  BY <1>1, <1>2, <1>5, <1>6, FS_CardinalityType

-----------------------------------------------------------------------------
(* Steps that move no task.                                                  *)

LEMMA QuietStep ==
    ASSUME Conserved, wpc' \in [Workers -> WPCs], kill' \in BOOLEAN,
           UNCHANGED <<pending_list, task_count, status, wtask, added, called, freed, fault>>,
           \A w \in Workers : wpc'[w] = wpc[w] \/ {wpc[w], wpc'[w]} \cap BusyPCs = {}
    PROVE  Conserved'
<1>1. Busy' = Busy
  BY DEF Busy
<1>2. InUse' = InUse
  BY <1>1 DEF InUse
<1>3. \A w \in Workers : Holding(w)'
  BY <1>1 DEF Conserved, Holding
<1>. QED
  BY <1>1, <1>2, <1>3 DEF Conserved, PoolTypes, Counting, Pending, Done

InAwait == {"await", "futex", "futex_sleep"}

\* Nobody begins or ends to await a task.
LEMMA CallsStep ==
    ASSUME TInv, UNCHANGED <<ctask, freeing>>, added \subseteq added',
           cpc' \in [Clients -> CPCs], tasker_lock' \in Clients \cup {Nobody},
           missed' \subseteq Threads,
           \A c \in Clients : cpc'[c] \in InAwait => cpc[c] \in InAwait
    PROVE  CallTypes' /\ Awaiting'
BY DEF TInv, CallTypes, Awaiting, InAwait

\* Where a worker goes without a task, and leaves the rest alone.
LEMMA WorkerMoves ==
    ASSUME TInv, NEW w \in Workers, NEW label \in WPCs \ BusyPCs, WGoto(w, label),
           wpc[w] \notin BusyPCs, UNCHANGED <<tasker, status, wtask, client, added, called,
                                              freed, fault, missed>>
    PROVE  TInv'
<1>1. /\ wpc' = [wpc EXCEPT ![w] = label]
      /\ UNCHANGED <<pending_list, task_count, kill, tasker_lock, status, wtask, cpc, ctask,
                     freeing, added, called, freed, fault, missed>>
  BY DEF WGoto, tasker, client
<1>2. wpc' \in [Workers -> WPCs] /\ kill \in BOOLEAN
  BY <1>1 DEF TInv, Conserved, PoolTypes
<1>3. \A v \in Workers : wpc'[v] = wpc[v] \/ {wpc[v], wpc'[v]} \cap BusyPCs = {}
  BY <1>1 DEF TInv, Conserved, PoolTypes
<1>4. Conserved'
  BY <1>1, <1>2, <1>3, QuietStep DEF TInv
<1>5. CallTypes' /\ Awaiting'
  BY <1>1, CallsStep DEF TInv, CallTypes
<1>. QED
  BY <1>4, <1>5 DEF TInv

\* A worker has the mutex: it goes to sleep, finds nothing in the list while others are busy, or
\* takes the first task.
LEMMA WaitOrPopKeeps ==
    ASSUME TInv, NEW w \in Workers, wpc[w] \in {"lock", "woken"}, WaitOrPop(w),
           UNCHANGED <<task_count, kill, tasker_lock, status, client, added, called, freed,
                       missed>>
    PROVE  TInv'
<1>0. UNCHANGED <<cpc, ctask, freeing>>
  BY DEF client
<1>1. CallTypes' /\ Awaiting'
  BY <1>0, CallsStep DEF TInv, CallTypes
<1>2. wpc[w] \notin BusyPCs
  BY DEF BusyPCs
<1>3. CASE WGoto(w, "sleep") /\ UNCHANGED <<pending_list, wtask, fault>>
  <2>1. "sleep" \in WPCs \ BusyPCs
    BY DEF WPCs, BusyPCs
  <2>. QED
    BY <1>2, <1>3, <2>1, WorkerMoves DEF tasker
<1>4. CASE /\ task_count # 0 /\ pending_list = <<>> /\ fault' = "empty_pop"
           /\ UNCHANGED <<pending_list, worker>>
  <2>1. UNCHANGED <<wpc, wtask>>
    BY <1>4 DEF worker
  <2>2. Busy' = Busy /\ InUse' = InUse
    BY <1>4, <2>1 DEF Busy, InUse
  <2>3. Busy # {}
    <3>1. task_count = Len(pending_list) + Cardinality(Busy) /\ Len(pending_list) = 0
      BY <1>4 DEF TInv, Conserved, Counting
    <3>2. Cardinality(Busy) # 0
      BY <1>4, <3>1
    <3>. QED
      BY <3>2, FS_EmptySet
  <2>4. \A v \in Workers : Holding(v)'
    BY <1>4, <2>1, <2>2 DEF TInv, Conserved, Holding
  <2>5. Conserved'
    BY <1>4, <2>1, <2>2, <2>3, <2>4
       DEF TInv, Conserved, PoolTypes, Counting, Pending, Done
  <2>. QED
    BY <1>1, <2>5 DEF TInv
<1>5. CASE /\ pending_list # <<>>
           /\ wtask' = [wtask EXCEPT ![w] = Head(pending_list)]
           /\ pending_list' = Tail(pending_list)
           /\ WGoto(w, "popped")
           /\ UNCHANGED fault
  <2>. DEFINE h == Head(pending_list)
  <2>1. /\ pending_list' \in Seq(Tasks) /\ Len(pending_list') = Len(pending_list) - 1
        /\ h \in Tasks /\ h \in Range(pending_list)
        /\ Range(pending_list') = Range(pending_list) \ {h}
        /\ IsInjective(pending_list')
    BY <1>5, TailList DEF TInv, Conserved, PoolTypes, Pending
  <2>2. wtask' = [wtask EXCEPT ![w] = h] /\ wpc' = [wpc EXCEPT ![w] = "popped"]
    BY <1>5 DEF WGoto
  <2>. HIDE DEF h
  <2>3. PoolTypes'
    BY <1>5, <2>1, <2>2 DEF TInv, Conserved, PoolTypes, WPCs, BusyPCs
  <2>4. w \notin Busy /\ Busy' = Busy \cup {w}
    BY <1>2, <2>2 DEF Busy, BusyPCs, TInv, Conserved, PoolTypes
  <2>5. \A v \in Busy : wtask'[v] = wtask[v]
    BY <2>2, <2>4
  <2>6. wtask'[w] = h /\ wpc'[w] = "popped"
    BY <2>2 DEF TInv, Conserved, PoolTypes
  <2>7. InUse' = InUse
    BY <2>1, <2>4, <2>5, <2>6 DEF InUse
  <2>8. Counting'
    <3>1. Cardinality(Busy') = Cardinality(Busy) + 1
      BY <2>4, SetsFinite, FS_AddElement DEF TInv, Conserved
    <3>2. Len(pending_list) \in Nat /\ Cardinality(Busy) \in Nat
      BY SetsFinite DEF TInv, Conserved, PoolTypes
    <3>. QED
      BY <2>1, <2>7, <3>1, <3>2 DEF TInv, Conserved, Counting
  <2>9. Pending'
    BY <2>1 DEF TInv, Conserved, Pending
  <2>10. h \in added /\ status[h] = "not_started"
    BY <2>1 DEF TInv, Conserved, Pending
  <2>11. \A v \in Busy : wtask[v] # h
    BY <2>1 DEF TInv, Conserved, Holding, Busy
  <2>12. \A v \in Workers : Holding(v)'
    <3>1. Holding(w)'
      BY <2>1, <2>4, <2>5, <2>6, <2>10, <2>11 DEF Holding
    <3>2. ASSUME NEW v \in Workers \ {w}
          PROVE  Holding(v)'
      <4>1. Holding(v) /\ wpc'[v] = wpc[v] /\ wtask'[v] = wtask[v]
        BY <2>2 DEF TInv, Conserved
      <4>2. wpc[v] \in BusyPCs => v \in Busy
        BY DEF Busy
      <4>. QED
        BY <2>1, <2>4, <2>5, <2>6, <2>11, <4>1, <4>2 DEF Holding
    <3>. QED
      BY <3>1, <3>2
  <2>13. Done'
    BY <1>5, <2>4, <2>7 DEF TInv, Conserved, Done
  <2>. QED
    BY <1>1, <2>3, <2>8, <2>9, <2>12, <2>13 DEF TInv, Conserved
<1>. QED
  BY <1>3, <1>4, <1>5 DEF WaitOrPop

-----------------------------------------------------------------------------
(* A worker with a task.                                                     *)

\* The worker goes on to another place with its task, whose status may change.
LEMMA BusyStep ==
    ASSUME TInv, NEW w \in Workers, wpc[w] \in BusyPCs, NEW label \in BusyPCs, WGoto(w, label),
           NEW st \in {"not_started", "executing", "finished"},
           status' = [status EXCEPT ![wtask[w]] = st],
           called' \in {called, called \cup {wtask[w]}},
           label \in {"popped", "stuck", "start"} => st = "not_started",
           label = "run" => st = "executing",
           label \in {"callback", "count"} => st = "finished",
           label = "count" => wtask[w] \in called',
           status[wtask[w]] = "finished" => st = "finished",
           UNCHANGED <<tasker, wtask, client, added, freed, fault, missed>>
    PROVE  TInv'
<1>1. /\ wpc' = [wpc EXCEPT ![w] = label]
      /\ UNCHANGED <<pending_list, task_count, kill, tasker_lock, cpc, ctask, freeing>>
  BY DEF WGoto, tasker, client
<1>2. w \in Busy /\ wtask[w] \in added /\ wtask[w] \in Tasks
  BY DEF TInv, Conserved, PoolTypes, Holding, Busy
<1>3. PoolTypes'
  BY <1>1, <1>2 DEF TInv, Conserved, PoolTypes, WPCs
<1>4. Busy' = Busy
  BY <1>1, <1>2 DEF Busy, TInv, Conserved, PoolTypes
<1>5. InUse' = InUse
  BY <1>1, <1>4 DEF InUse
<1>6. Counting'
  BY <1>1, <1>4, <1>5 DEF TInv, Conserved, Counting
<1>7. \A t \in Tasks : status'[t] = IF t = wtask[w] THEN st ELSE status[t]
  BY <1>2 DEF TInv, Conserved, PoolTypes
<1>8. wtask[w] \notin Range(pending_list) /\ \A v \in Busy : wtask[v] = wtask[w] => v = w
  BY DEF TInv, Conserved, Holding
<1>9. Pending'
  BY <1>1, <1>7, <1>8 DEF TInv, Conserved, Pending, PoolTypes
<1>10. ASSUME NEW v \in Workers
       PROVE  Holding(v)'
  <2>1. CASE v = w
    <3>1. wpc'[w] = label /\ status'[wtask[w]] = st
      BY <1>1, <1>2, <1>7 DEF TInv, Conserved, PoolTypes
    <3>. QED
      BY <1>1, <1>2, <1>4, <1>8, <2>1, <3>1 DEF Holding
  <2>2. CASE v # w
    <3>1. Holding(v) /\ wpc'[v] = wpc[v] /\ (wpc[v] \in BusyPCs => v \in Busy)
      BY <1>1, <2>2 DEF TInv, Conserved, Busy
    <3>2. wpc[v] \in BusyPCs => status'[wtask[v]] = status[wtask[v]]
      BY <1>7, <1>8, <2>2, <3>1 DEF Holding, TInv, Conserved, PoolTypes
    <3>. QED
      BY <1>1, <1>4, <3>1, <3>2 DEF Holding
  <2>. QED
    BY <2>1, <2>2
<1>11. \A t \in Tasks : status[t] = "finished" => status'[t] = "finished"
  BY <1>7
<1>12. Done'
  BY <1>1, <1>4, <1>5, <1>11 DEF TInv, Conserved, Done, PoolTypes
<1>13. CallTypes' /\ Awaiting'
  BY <1>1, CallsStep DEF TInv, CallTypes
<1>. QED
  BY <1>3, <1>6, <1>9, <1>10, <1>12, <1>13 DEF TInv, Conserved

\* A status that is written as it was.
LEMMA SameStatus ==
    ASSUME TInv, NEW t \in Tasks
    PROVE  /\ status[t] \in {"not_started", "executing", "finished"}
           /\ status = [status EXCEPT ![t] = status[t]]
BY DEF TInv, Conserved, PoolTypes

LEMMA WithTask ==
    ASSUME TInv, NEW w \in Workers, wpc[w] \in BusyPCs
    PROVE  wtask[w] \in Tasks /\ Holding(w)
BY DEF TInv, Conserved, PoolTypes, Holding

LEMMA CheckAgainKeeps ==
    ASSUME TInv, NEW w \in Workers, WorkerCheckAgain(w)
    PROVE  TInv'
<1>. DEFINE label == IF kill THEN "stuck" ELSE "start"
<1>1. /\ wpc[w] = "popped" /\ wpc[w] \in BusyPCs
      /\ label \in BusyPCs /\ label \in {"stuck", "start"}
      /\ WGoto(w, label)
      /\ UNCHANGED <<tasker, status, wtask, client, added, called, freed, fault, missed>>
  BY DEF WorkerCheckAgain, BusyPCs
<1>. HIDE DEF label
<1>2. status' = [status EXCEPT ![wtask[w]] = "not_started"] /\ called' = called
  BY <1>1, WithTask, SameStatus DEF Holding
<1>3. status[wtask[w]] = "not_started"
  BY <1>1, WithTask DEF Holding
<1>. QED
  BY <1>1, <1>2, <1>3, BusyStep

LEMMA StartKeeps ==
    ASSUME TInv, NEW w \in Workers, WorkerStart(w)
    PROVE  TInv'
<1>1. /\ wpc[w] = "start" /\ wpc[w] \in BusyPCs /\ "run" \in BusyPCs
      /\ WGoto(w, "run") /\ status' = [status EXCEPT ![wtask[w]] = "executing"]
      /\ called' = called
      /\ UNCHANGED <<tasker, wtask, client, added, freed, fault, missed>>
  BY DEF WorkerStart, BusyPCs
<1>2. status[wtask[w]] = "not_started"
  BY <1>1, WithTask DEF Holding
<1>. QED
  BY <1>1, <1>2, BusyStep

LEMMA RunKeeps ==
    ASSUME TInv, NEW w \in Workers, WorkerRun(w)
    PROVE  TInv'
<1>1. /\ wpc[w] \in BusyPCs /\ "callback" \in BusyPCs
      /\ WGoto(w, "callback") /\ status' = [status EXCEPT ![wtask[w]] = "finished"]
      /\ called' = called
      /\ UNCHANGED <<tasker, wtask, client, added, freed, fault, missed>>
  BY DEF WorkerRun, BusyPCs, AfterTask
<1>. QED
  BY <1>1, BusyStep

LEMMA CallbackKeeps ==
    ASSUME TInv, NEW w \in Workers, WorkerCallback(w)
    PROVE  TInv'
<1>1. /\ wpc[w] = "callback" /\ wpc[w] \in BusyPCs /\ "count" \in BusyPCs
      /\ UNCHANGED <<tasker, status, wtask, client, added, freed, missed>>
  BY DEF WorkerCallback, BusyPCs
<1>2. status[wtask[w]] = "finished" /\ wtask[w] \in Tasks
  BY <1>1, WithTask DEF Holding
<1>3. CASE fault' = "use_after_free" /\ UNCHANGED <<wpc, called>>
  <2>1. /\ UNCHANGED <<pending_list, task_count, kill, tasker_lock, status, wpc, wtask, cpc,
                       ctask, freeing, added, called, freed, missed>>
        /\ fault' = "use_after_free"
    BY <1>1, <1>3 DEF tasker, client
  <2>2. Busy' = Busy /\ InUse' = InUse
    BY <2>1 DEF Busy, InUse
  <2>3. \A v \in Workers : Holding(v)'
    BY <2>1, <2>2 DEF TInv, Conserved, Holding
  <2>. QED
    BY <2>1, <2>2, <2>3
       DEF TInv, Conserved, PoolTypes, Counting, Pending, Done, CallTypes, Awaiting
<1>4. CASE /\ called' = called \cup {wtask[w]} /\ WGoto(w, "count") /\ UNCHANGED fault
  <2>1. status' = [status EXCEPT ![wtask[w]] = "finished"]
    BY <1>1, <1>2, SameStatus
  <2>2. wtask[w] \in called' /\ called' \in {called, called \cup {wtask[w]}}
    BY <1>4
  <2>. QED
    BY <1>1, <1>4, <2>1, <2>2, BusyStep
<1>. QED
  BY <1>3, <1>4 DEF WorkerCallback

-----------------------------------------------------------------------------
(* The other steps of a worker.                                              *)

LEMMA CheckKeeps ==
    ASSUME TInv, NEW w \in Workers, WorkerCheck(w)
    PROVE  TInv'
<1>. DEFINE label == IF kill THEN "exited" ELSE "lock"
<1>1. /\ wpc[w] \notin BusyPCs /\ label \in WPCs \ BusyPCs /\ WGoto(w, label)
      /\ UNCHANGED <<tasker, status, wtask, client, added, called, freed, fault, missed>>
  BY DEF WorkerCheck, BusyPCs, WPCs
<1>. HIDE DEF label
<1>. QED
  BY <1>1, WorkerMoves

LEMMA LockKeeps ==
    ASSUME TInv, NEW w \in Workers, WorkerLock(w) \/ WorkerWake(w)
    PROVE  TInv'
<1>1. /\ wpc[w] \in {"lock", "woken"}
      /\ UNCHANGED <<task_count, kill, tasker_lock, status, client, added, called, freed,
                     missed>>
  BY DEF WorkerLock, WorkerWake
<1>2. CASE WaitOrPop(w)
  BY <1>1, <1>2, WaitOrPopKeeps
<1>3. CASE WGoto(w, "exited") /\ UNCHANGED <<pending_list, wtask, fault>>
  <2>1. "exited" \in WPCs \ BusyPCs /\ wpc[w] \notin BusyPCs
    BY <1>1 DEF WPCs, BusyPCs
  <2>2. UNCHANGED <<tasker, status, wtask, client, added, called, freed, fault, missed>>
    BY <1>1, <1>3 DEF tasker
  <2>. QED
    BY <1>3, <2>1, <2>2, WorkerMoves
<1>. QED
  BY <1>2, <1>3 DEF WorkerLock, WorkerWake

\* The task leaves the worker's hands: its callback has run, and it is in nobody else's.
LEMMA CountKeeps ==
    ASSUME TInv, Running, NEW w \in Workers, WorkerCount(w)
    PROVE  TInv'
<1>. DEFINE t == wtask[w]
<1>1. /\ wpc[w] = "count" /\ task_count' = task_count - 1
      /\ wpc' = [wpc EXCEPT ![w] = "wake"]
      /\ UNCHANGED <<pending_list, kill, tasker_lock, status, wtask, cpc, ctask, freeing,
                     added, called, freed, fault, missed>>
  BY DEF WorkerCount, Uncount, WGoto, client
<1>2. /\ t \in Tasks /\ t \in added /\ t \notin Range(pending_list) /\ t \in called
      /\ status[t] = "finished"
      /\ \A v \in Busy : wtask[v] = t => v = w
  BY <1>1, WithTask DEF Holding, BusyPCs
<1>3. w \in Busy /\ Busy' = Busy \ {w}
  BY <1>1 DEF Busy, BusyPCs, TInv, Conserved, PoolTypes
<1>4. t \in InUse /\ InUse' = InUse \ {t}
  BY <1>1, <1>2, <1>3 DEF InUse
<1>5. /\ Cardinality(Busy') = Cardinality(Busy) - 1 /\ Cardinality(Busy) \in Nat
      /\ Cardinality(InUse') = Cardinality(InUse) - 1 /\ Cardinality(InUse) \in Nat
      /\ Cardinality(Busy') \in Nat
  BY <1>3, <1>4, SetsFinite, FS_RemoveElement, FS_CardinalityType DEF TInv, Conserved
<1>6. Counting'
  <2>1. Len(pending_list) \in Nat
    BY DEF TInv, Conserved, PoolTypes
  <2>. QED
    BY <1>1, <1>5, <2>1 DEF TInv, Conserved, Counting
<1>7. PoolTypes'
  <2>1. task_count' \in Nat
    <3>1. task_count' = Len(pending_list) + Cardinality(Busy') /\ Len(pending_list) \in Nat
      BY <1>1, <1>6 DEF Counting, TInv, Conserved, PoolTypes
    <3>. QED
      BY <1>5, <3>1
  <2>. QED
    BY <1>1, <2>1 DEF TInv, Conserved, PoolTypes, WPCs
<1>8. ASSUME NEW v \in Workers
      PROVE  Holding(v)'
  <2>1. CASE v = w
    BY <1>1, <2>1 DEF Holding, BusyPCs, TInv, Conserved, PoolTypes
  <2>2. CASE v # w
    <3>1. Holding(v) /\ wpc'[v] = wpc[v]
      BY <1>1, <2>2 DEF TInv, Conserved
    <3>. QED
      BY <1>1, <1>3, <3>1 DEF Holding
  <2>. QED
    BY <2>1, <2>2
<1>9. Done'
  BY <1>1, <1>2, <1>4 DEF TInv, Conserved, Done, Running
<1>10. CallTypes' /\ Awaiting'
  BY <1>1, CallsStep DEF TInv, CallTypes
<1>. QED
  BY <1>1, <1>6, <1>7, <1>8, <1>9, <1>10 DEF TInv, Conserved, Pending

LEMMA FutexWakeKeeps ==
    ASSUME TInv, NEW w \in Workers, WorkerFutexWake(w)
    PROVE  TInv'
<1>1. /\ wpc[w] = "wake" /\ wpc' = [wpc EXCEPT ![w] = "signal"]
      /\ wtask' = [wtask EXCEPT ![w] = Nobody]
      /\ UNCHANGED <<pending_list, task_count, kill, tasker_lock, status, ctask, freeing,
                     added, called, freed, fault, missed>>
  BY DEF WorkerFutexWake, WGoto, tasker
<1>2. cpc' = cpc \/ \E c \in Clients : cpc[c] = "futex_sleep" /\ cpc' = [cpc EXCEPT ![c] = "await"]
  BY DEF WorkerFutexWake, FutexWake, CGoto
<1>3. Busy' = Busy /\ w \notin Busy
  BY <1>1 DEF Busy, BusyPCs, TInv, Conserved, PoolTypes
<1>4. \A v \in Workers \ {w} : wtask'[v] = wtask[v] /\ wpc'[v] = wpc[v]
  BY <1>1 DEF TInv, Conserved, PoolTypes
<1>5. InUse' = InUse
  <2>1. \A v \in Busy : wtask'[v] = wtask[v]
    BY <1>3, <1>4 DEF Busy
  <2>. QED
    BY <1>1, <1>3, <2>1 DEF InUse
<1>6. PoolTypes'
  BY <1>1 DEF TInv, Conserved, PoolTypes, WPCs
<1>7. ASSUME NEW v \in Workers
      PROVE  Holding(v)'
  <2>1. CASE v = w
    BY <1>1, <2>1 DEF Holding, BusyPCs, TInv, Conserved, PoolTypes
  <2>2. CASE v # w
    <3>1. Holding(v) /\ wpc'[v] = wpc[v] /\ wtask'[v] = wtask[v]
      BY <1>4, <2>2 DEF TInv, Conserved
    <3>2. \A u \in Busy : wtask'[u] = wtask[u]
      BY <1>3, <1>4 DEF Busy
    <3>. QED
      BY <1>1, <1>3, <3>1, <3>2 DEF Holding
  <2>. QED
    BY <2>1, <2>2
<1>8. CallTypes' /\ Awaiting'
  <2>1. /\ cpc' \in [Clients -> CPCs]
        /\ \A c \in Clients : cpc'[c] \in InAwait => cpc[c] \in InAwait
    BY <1>2 DEF TInv, CallTypes, CPCs, InAwait
  <2>. QED
    BY <1>1, <2>1, CallsStep DEF TInv, CallTypes
<1>. QED
  BY <1>1, <1>3, <1>5, <1>6, <1>7, <1>8
     DEF TInv, Conserved, Counting, Pending, Done

\* Steps of the condition variables, the mutex and the flags: no task moves, no await begins.
LEMMA NoTaskMoves ==
    ASSUME TInv, wpc' \in [Workers -> WPCs], kill' \in BOOLEAN,
           UNCHANGED <<pending_list, task_count, status, wtask, ctask, freeing, added, called,
                       freed, fault>>,
           \A w \in Workers : wpc'[w] = wpc[w] \/ {wpc[w], wpc'[w]} \cap BusyPCs = {},
           cpc' \in [Clients -> CPCs], tasker_lock' \in Clients \cup {Nobody},
           missed' \subseteq Threads,
           \A c \in Clients : cpc'[c] \in InAwait => cpc[c] \in InAwait
    PROVE  TInv'
<1>1. Conserved'
  BY QuietStep DEF TInv
<1>2. CallTypes' /\ Awaiting'
  BY CallsStep
<1>. QED
  BY <1>1, <1>2 DEF TInv

LEMMA SignalKeeps ==
    ASSUME TInv, NEW w \in Workers, WorkerSignal(w)
    PROVE  TInv'
<1>1. /\ wpc[w] = "signal" /\ wpc' = [wpc EXCEPT ![w] = "check"]
      /\ UNCHANGED <<pending_list, task_count, kill, tasker_lock, status, wtask, ctask, freeing,
                     added, called, freed, fault>>
  BY DEF WorkerSignal, WGoto, tasker
<1>2. \/ cpc' = cpc
      \/ \E x \in DOMAIN cpc : cpc[x] = "sync_sleep" /\ cpc' = [cpc EXCEPT ![x] = "woken"]
  BY DEF WorkerSignal, SignalOne
<1>3. /\ cpc' \in [Clients -> CPCs]
      /\ \A c \in Clients : cpc'[c] \in InAwait => cpc[c] \in InAwait
  BY <1>2 DEF TInv, CallTypes, CPCs, InAwait
<1>4. missed' \subseteq Threads
  BY DEF WorkerSignal, Threads, TInv, CallTypes
<1>5. /\ wpc' \in [Workers -> WPCs]
      /\ \A v \in Workers : wpc'[v] = wpc[v] \/ {wpc[v], wpc'[v]} \cap BusyPCs = {}
  BY <1>1 DEF TInv, Conserved, PoolTypes, WPCs, BusyPCs
<1>. QED
  BY <1>1, <1>3, <1>4, <1>5, NoTaskMoves DEF TInv, Conserved, PoolTypes, CallTypes

LEMMA WorkerKeeps ==
    ASSUME TInv, NEW w \in Workers, WorkerStep(w)
    PROVE  TInv'
BY CheckKeeps, LockKeeps, CheckAgainKeeps, StartKeeps, RunKeeps, CallbackKeeps, CountKeeps,
   FutexWakeKeeps, SignalKeeps DEF WorkerStep

-----------------------------------------------------------------------------
(* The calls of a client.                                                    *)

LEMMA AddKeeps ==
    ASSUME TInv, NEW c \in Clients, NEW t \in Tasks, AddTask(c, t)
    PROVE  TInv'
<1>1. /\ t \notin added /\ status[t] = "not_started"
      /\ pending_list' = Append(pending_list, t) /\ task_count' = task_count + 1
      /\ added' = added \cup {t} /\ cpc' = [cpc EXCEPT ![c] = "add_signal"]
      /\ UNCHANGED <<kill, tasker_lock, status, wpc, wtask, ctask, freeing, called, freed,
                     fault, missed>>
  BY DEF AddTask, CGoto, worker
<1>2. Busy' = Busy /\ \A w \in Busy : wtask[w] \in added /\ wtask[w] # t
  BY <1>1 DEF Busy, TInv, Conserved, Holding
<1>3. t \notin Range(pending_list)
  BY <1>1 DEF TInv, Conserved, Pending
<1>4. /\ pending_list' \in Seq(Tasks) /\ Len(pending_list') = Len(pending_list) + 1
      /\ Range(pending_list') = Range(pending_list) \cup {t}
      /\ IsInjective(pending_list') /\ Len(pending_list) \in Nat
  BY <1>1, <1>3, AppendList DEF TInv, Conserved, PoolTypes, Pending
<1>5. t \notin InUse /\ InUse' = InUse \cup {t}
  BY <1>1, <1>2, <1>3, <1>4 DEF InUse
<1>6. PoolTypes'
  BY <1>1, <1>4 DEF TInv, Conserved, PoolTypes
<1>7. Counting'
  <2>1. Cardinality(InUse') = Cardinality(InUse) + 1 /\ Cardinality(Busy) \in Nat
    BY <1>5, SetsFinite, FS_AddElement DEF TInv, Conserved
  <2>. QED
    BY <1>1, <1>2, <1>4, <2>1 DEF TInv, Conserved, Counting
<1>8. Pending'
  BY <1>1, <1>4 DEF TInv, Conserved, Pending
<1>9. ASSUME NEW w \in Workers
      PROVE  Holding(w)'
  <2>1. Holding(w) /\ (wpc[w] \in BusyPCs => w \in Busy)
    BY DEF TInv, Conserved, Busy
  <2>. QED
    BY <1>1, <1>2, <1>4, <2>1 DEF Holding
<1>10. Done'
  BY <1>1, <1>2, <1>5 DEF TInv, Conserved, Done
<1>11. CallTypes' /\ Awaiting'
  <2>1. /\ cpc' \in [Clients -> CPCs]
        /\ \A d \in Clients : cpc'[d] \in InAwait => cpc[d] \in InAwait
    BY <1>1 DEF TInv, CallTypes, CPCs, InAwait
  <2>. QED
    BY <1>1, <2>1, CallsStep DEF TInv, CallTypes
<1>. QED
  BY <1>6, <1>7, <1>8, <1>9, <1>10, <1>11 DEF TInv, Conserved

\* A client goes somewhere else than to an await; a signal or broadcast wakes workers.
LEMMA CallMoves ==
    ASSUME TInv, NEW c \in Clients, NEW label \in CPCs \ InAwait, CGoto(c, label),
           UNCHANGED <<pending_list, task_count, status, wtask, ctask, freeing, added, called,
                       freed, fault>>,
           wpc' \in [Workers -> WPCs], kill' \in BOOLEAN,
           \A w \in Workers : wpc'[w] = wpc[w] \/ {wpc[w], wpc'[w]} \cap BusyPCs = {},
           tasker_lock' \in Clients \cup {Nobody}, missed' \subseteq Threads
    PROVE  TInv'
<1>1. /\ cpc' \in [Clients -> CPCs]
      /\ \A d \in Clients : cpc'[d] \in InAwait => cpc[d] \in InAwait
  BY DEF CGoto, TInv, CallTypes
<1>. QED
  BY <1>1, NoTaskMoves

LEMMA AddSignalKeeps ==
    ASSUME TInv, NEW c \in Clients, AddSignal(c)
    PROVE  TInv'
<1>1. /\ "idle" \in CPCs \ InAwait /\ CGoto(c, "idle")
      /\ UNCHANGED <<pending_list, task_count, kill, tasker_lock, status, wtask, ctask, freeing,
                     added, called, freed, fault, missed>>
  BY DEF AddSignal, tasker, CPCs, InAwait
<1>2. wpc' = wpc \/ \E x \in DOMAIN wpc : wpc[x] = "sleep" /\ wpc' = [wpc EXCEPT ![x] = "woken"]
  BY DEF AddSignal, WorkSignal, SignalOne
<1>3. /\ wpc' \in [Workers -> WPCs]
      /\ \A w \in Workers : wpc'[w] = wpc[w] \/ {wpc[w], wpc'[w]} \cap BusyPCs = {}
  BY <1>2 DEF TInv, Conserved, PoolTypes, WPCs, BusyPCs
<1>. QED
  BY <1>1, <1>3, CallMoves DEF TInv, Conserved, PoolTypes, CallTypes

LEMMA SyncKeeps ==
    ASSUME TInv, NEW c \in Clients,
           Sync(c) \/ SyncLock(c) \/ SyncTest(c) \/ SyncWait(c)
    PROVE  TInv'
<1>1. UNCHANGED <<pending_list, task_count, kill, status, wpc, wtask, ctask, freeing, added,
                  called, freed, fault>>
  BY DEF Sync, SyncLock, SyncTest, SyncWait, tasker, worker
<1>2. \E label \in CPCs \ InAwait : CGoto(c, label)
  BY DEF Sync, SyncLock, SyncTest, SyncWait, CPCs, InAwait
<1>3. tasker_lock' \in Clients \cup {Nobody} /\ missed' \subseteq Threads
  BY DEF Sync, SyncLock, SyncTest, SyncWait, tasker, TInv, CallTypes
<1>. QED
  BY <1>1, <1>2, <1>3, CallMoves DEF TInv, Conserved, PoolTypes

LEMMA FreeKeeps ==
    ASSUME TInv, NEW c \in Clients, FreeKill(c) \/ FreeBroadcast(c) \/ FreeJoin(c)
    PROVE  TInv'
<1>1. /\ UNCHANGED <<pending_list, task_count, tasker_lock, status, wtask, ctask, freeing,
                     added, called, freed, fault>>
      /\ kill' \in BOOLEAN
  BY DEF FreeKill, FreeBroadcast, FreeJoin, tasker, worker, TInv, Conserved, PoolTypes
<1>2. \E label \in CPCs \ InAwait : CGoto(c, label)
  BY DEF FreeKill, FreeBroadcast, FreeJoin, CPCs, InAwait
<1>3. missed' \subseteq Threads
  BY DEF FreeKill, FreeBroadcast, FreeJoin, TInv, CallTypes, Threads
<1>4. wpc' = wpc \/ wpc' = [w \in Workers |-> IF wpc[w] = "sleep" THEN "woken" ELSE wpc[w]]
  BY DEF FreeKill, FreeBroadcast, FreeJoin, Broadcast, worker
<1>5. /\ wpc' \in [Workers -> WPCs]
      /\ \A w \in Workers : wpc'[w] = wpc[w] \/ {wpc[w], wpc'[w]} \cap BusyPCs = {}
  BY <1>4 DEF TInv, Conserved, PoolTypes, WPCs, BusyPCs
<1>. QED
  BY <1>1, <1>2, <1>3, <1>5, CallMoves DEF TInv, CallTypes

\* An await begins, goes on, or ends with its task finished and perhaps freed.
LEMMA AwaitKeeps ==
    ASSUME TInv, NEW c \in Clients,
           (\E t \in Tasks : Await(c, t)) \/ AwaitLoad(c) \/ AwaitFutex(c)
    PROVE  TInv'
<1>1. /\ UNCHANGED <<pending_list, task_count, kill, tasker_lock, status, wpc, wtask, added,
                     called, fault, missed>>
  BY DEF Await, AwaitLoad, AwaitFutex, tasker, worker
<1>2. \A d \in Clients : cpc[d] \in {"await", "futex", "futex_sleep"} => ctask[d] \in added
  BY DEF TInv, Awaiting
<1>3. freed' \subseteq added /\ \A t \in freed' : status[t] = "finished"
  <2>1. freed \subseteq added /\ \A t \in freed : status[t] = "finished"
    BY DEF TInv, Conserved, PoolTypes, Done
  <2>. QED
    BY <1>2, <2>1 DEF Await, AwaitLoad, AwaitFutex
<1>4. Busy' = Busy /\ InUse' = InUse
  BY <1>1 DEF Busy, InUse
<1>5. Conserved'
  <2>1. \A w \in Workers : Holding(w)'
    BY <1>1, <1>4 DEF TInv, Conserved, Holding
  <2>. QED
    BY <1>1, <1>3, <1>4, <2>1 DEF TInv, Conserved, PoolTypes, Counting, Pending, Done
<1>6. CallTypes' /\ Awaiting'
  <2>1. CASE \E t \in Tasks : Await(c, t)
    <3>1. PICK t \in Tasks : Await(c, t)
      BY <2>1
    <3>2. /\ t \in added /\ ctask' = [ctask EXCEPT ![c] = t]
          /\ cpc' = [cpc EXCEPT ![c] = "await"]
          /\ freeing' \in {freeing, [freeing EXCEPT ![c] = \A d \in Clients : ctask[d] # t]}
      BY <3>1 DEF Await, CGoto
    <3>3. \A b \in BOOLEAN : [freeing EXCEPT ![c] = b] \in [Clients -> BOOLEAN]
      BY DEF TInv, CallTypes
    <3>4. (\A d \in Clients : ctask[d] # t) \in BOOLEAN
      OBVIOUS
    <3>5. freeing' \in [Clients -> BOOLEAN]
      BY <3>2, <3>3, <3>4 DEF TInv, CallTypes
    <3>. QED
      BY <1>1, <1>2, <3>2, <3>5 DEF TInv, CallTypes, Awaiting, CPCs
  <2>2. CASE AwaitLoad(c)
    BY <1>1, <1>2, <2>2 DEF AwaitLoad, CGoto, TInv, CallTypes, Awaiting, CPCs
  <2>3. CASE AwaitFutex(c)
    BY <1>1, <1>2, <2>3 DEF AwaitFutex, CGoto, TInv, CallTypes, Awaiting, CPCs
  <2>. QED
    BY <2>1, <2>2, <2>3
<1>. QED
  BY <1>5, <1>6 DEF TInv

LEMMA SpuriousKeeps ==
    ASSUME TInv, SpuriousWakeup
    PROVE  TInv'
<1>1. UNCHANGED <<pending_list, task_count, kill, tasker_lock, status, wtask, ctask, freeing,
                  added, called, freed, fault, missed>>
  BY DEF SpuriousWakeup, tasker, worker, client
<1>2. /\ wpc' = wpc \/ \E w \in Workers : wpc[w] = "sleep" /\ wpc' = [wpc EXCEPT ![w] = "woken"]
      /\ \/ cpc' = cpc
         \/ \E c \in Clients : cpc' = [cpc EXCEPT ![c] = "woken"]
         \/ \E c \in Clients : cpc[c] = "futex_sleep" /\ cpc' = [cpc EXCEPT ![c] = "await"]
  BY DEF SpuriousWakeup, WGoto, CGoto, worker, client
<1>3. /\ wpc' \in [Workers -> WPCs]
      /\ \A w \in Workers : wpc'[w] = wpc[w] \/ {wpc[w], wpc'[w]} \cap BusyPCs = {}
  BY <1>2 DEF TInv, Conserved, PoolTypes, WPCs, BusyPCs
<1>4. /\ cpc' \in [Clients -> CPCs]
      /\ \A c \in Clients : cpc'[c] \in InAwait => cpc[c] \in InAwait
  BY <1>2 DEF TInv, CallTypes, CPCs, InAwait
<1>. QED
  BY <1>1, <1>3, <1>4, NoTaskMoves DEF TInv, Conserved, PoolTypes, CallTypes

-----------------------------------------------------------------------------
(* The invariant.                                                            *)

LEMMA InitTInv == Init => TInv
<1>. SUFFICES ASSUME Init PROVE TInv
  OBVIOUS
<1>1. Busy = {} /\ pending_list = <<>> /\ Range(pending_list) = {} /\ InUse = {}
  BY DEF Init, Busy, BusyPCs, Range, InUse
<1>2. Cardinality(Busy) = 0 /\ Cardinality(InUse) = 0 /\ Len(pending_list) = 0
  BY <1>1, FS_EmptySet
<1>3. PoolTypes
  <2>1. pending_list \in Seq(Tasks)
    BY <1>1
  <2>2. wpc \in [Workers -> WPCs] /\ wtask \in [Workers -> Tasks \cup {Nobody}]
    BY DEF Init, WPCs
  <2>. QED
    BY <2>1, <2>2 DEF Init, PoolTypes
<1>4. Counting /\ Pending /\ Done
  BY <1>1, <1>2 DEF Init, Counting, Pending, Done, IsInjective
<1>5. \A w \in Workers : Holding(w)
  BY DEF Init, Holding, BusyPCs
<1>6. CallTypes /\ Awaiting
  BY DEF Init, CallTypes, Awaiting, CPCs
<1>. QED
  BY <1>3, <1>4, <1>5, <1>6 DEF TInv, Conserved

LEMMA NextTInv == TInv /\ [Next]_vars => TInv'
<1>. SUFFICES ASSUME TInv, [Next]_vars PROVE TInv'
  OBVIOUS
<1>1. CASE \E w \in Workers : WorkerStep(w)
  BY <1>1, WorkerKeeps
<1>2. ASSUME NEW c \in Clients, ClientStep(c) \/ ClientCall(c)
      PROVE  TInv'
  BY <1>2, AddKeeps, AddSignalKeeps, SyncKeeps, FreeKeeps, AwaitKeeps DEF ClientStep, ClientCall
<1>3. CASE Running /\ SpuriousWakeup
  BY <1>3, SpuriousKeeps
<1>4. CASE UNCHANGED vars
  <2>1. UNCHANGED <<pending_list, task_count, kill, tasker_lock, status, wpc, wtask, cpc, ctask,
                    freeing, added, called, freed, fault, missed>>
    BY <1>4 DEF vars, tasker, worker, client
  <2>. QED
    BY <2>1, NoTaskMoves DEF TInv, Conserved, PoolTypes, CallTypes
<1>. QED
  BY <1>1, <1>2, <1>3, <1>4 DEF Next

LEMMA TInvConserves == TInv => TasksConserved
<1>. SUFFICES ASSUME TInv PROVE TasksConserved
  OBVIOUS
<1>1. task_count \in 0 .. Cardinality(Tasks)
  BY SetsFinite DEF TInv, Conserved, PoolTypes, Counting
<1>2. TypeOK
  BY <1>1 DEF TInv, Conserved, PoolTypes, CallTypes, TypeOK, WPCs, CPCs
<1>3. \A w \in Busy : wtask[w] \in freed => wpc[w] \in {"callback", "count"}
  <2>. SUFFICES ASSUME NEW w \in Busy, wtask[w] \in freed
                PROVE  wpc[w] \in {"callback", "count"}
    OBVIOUS
  <2>1. w \in Workers /\ wpc[w] \in BusyPCs /\ Holding(w) /\ status[wtask[w]] = "finished"
    BY DEF Busy, TInv, Conserved, Done
  <2>. QED
    BY <2>1 DEF Holding, BusyPCs
<1>. QED
  BY <1>2, <1>3 DEF TasksConserved, TInv, Conserved, Counting, Done, InUse

\* The task pool of core/tasking.c neither loses a task nor has it in two places, and
\* task_count is at every moment the number of tasks whose callback has still to return: that
\* is what tasker_sync relies on when it reads the count without asking the workers.
THEOREM ConservedCorrect == Spec => []TasksConserved
<1>1. Init => TInv
  BY InitTInv
<1>2. TInv /\ [Next]_vars => TInv'
  BY NextTInv
<1>3. TInv => TasksConserved
  BY TInvConserves
<1>. QED
  BY <1>1, <1>2, <1>3, PTL DEF Spec

-----------------------------------------------------------------------------
(* Nobody sleeps through what it waits for.                                  *)

\* The workers that will look at the list, and the clients that will wake one more.
Coming == {w \in Workers : wpc[w] \in {"check", "lock", "woken"}}
Signalling == {c \in Clients : cpc[c] = "add_signal"}

WorkersCalled ==
    ~kill /\ (\E w \in Workers : wpc[w] = "sleep") =>
      Cardinality(Coming) + Cardinality(Signalling) >= Len(pending_list)

\* From its read of a count that was not zero until it is woken, a client that no signal went
\* past has a worker that will signal once the count is zero.
ClientsCalled ==
    \A c \in Clients \ missed :
      cpc[c] \in {"sync_wait", "sync_sleep"} /\ task_count = 0 =>
        \E w \in Workers : wpc[w] \in {"wake", "signal"}

Called == TInv /\ WorkersCalled /\ ClientsCalled

LEMMA CallersFinite ==
    /\ IsFiniteSet(Coming) /\ Cardinality(Coming) \in Nat
    /\ IsFiniteSet(Signalling) /\ Cardinality(Signalling) \in Nat
    /\ IsFiniteSet(Coming') /\ Cardinality(Coming') \in Nat
    /\ IsFiniteSet(Signalling') /\ Cardinality(Signalling') \in Nat
<1>1. IsFiniteSet(Workers) /\ IsFiniteSet(Clients)
  BY TaskingAssumption
<1>2. /\ Coming \subseteq Workers /\ Coming' \subseteq Workers
      /\ Signalling \subseteq Clients /\ Signalling' \subseteq Clients
  BY DEF Coming, Signalling
<1>. QED
  BY <1>1, <1>2, FS_Subset, FS_CardinalityType

\* Nobody is taken away from those who come or signal, and the list does not grow.
LEMMA CallersStay ==
    ASSUME Called, pending_list' = pending_list, kill => kill',
           Coming \subseteq Coming', Signalling \subseteq Signalling',
           (\E w \in Workers : wpc'[w] = "sleep") => \E w \in Workers : wpc[w] = "sleep"
    PROVE  WorkersCalled'
<1>1. Cardinality(Coming) <= Cardinality(Coming')
  BY CallersFinite, FS_Subset
<1>2. Cardinality(Signalling) <= Cardinality(Signalling')
  BY CallersFinite, FS_Subset
<1>3. Len(pending_list) \in Nat
  BY DEF Called, TInv, Conserved, PoolTypes
<1>. QED
  BY <1>1, <1>2, <1>3, CallersFinite DEF Called, WorkersCalled

\* One worker moves, and is not one that goes to sleep or takes a task.
LEMMA WorkerStays ==
    ASSUME Called, NEW w \in Workers, NEW label \in WPCs, WGoto(w, label),
           label # "sleep", wpc[w] \in {"check", "lock", "woken"} => label = "lock",
           pending_list' = pending_list, kill' = kill, Signalling' = Signalling
    PROVE  WorkersCalled'
<1>1. \A v \in Workers : wpc'[v] = IF v = w THEN label ELSE wpc[v]
  BY DEF WGoto, Called, TInv, Conserved, PoolTypes
<1>2. Coming \subseteq Coming'
  BY <1>1 DEF Coming
<1>. QED
  BY <1>1, <1>2, CallersStay

\* Clients that stay where they are, or leave tasker_sync, and the worker that will signal
\* them stays.
LEMMA ClientsStay ==
    ASSUME Called, \/ task_count' # 0
                   \/ /\ task_count' = task_count
                      /\ \A v \in Workers : wpc[v] \in {"wake", "signal"}
                                              => wpc'[v] \in {"wake", "signal"},
           \A c \in Clients : cpc'[c] \in {"sync_wait", "sync_sleep"}
                                => cpc[c] \in {"sync_wait", "sync_sleep"},
           missed \subseteq missed'
    PROVE  ClientsCalled'
BY DEF Called, ClientsCalled

\* With the mutex, a worker that sees a count of zero leaves nothing in the list; one that takes
\* a task is one less to come, for one task less.
LEMMA WaitOrPopCalls ==
    ASSUME Called, NEW w \in Workers, wpc[w] \in {"lock", "woken"}, WaitOrPop(w),
           UNCHANGED <<task_count, kill, tasker_lock, status, client, added, called, freed,
                       missed>>
    PROVE  WorkersCalled' /\ ClientsCalled'
<1>1. cpc' = cpc /\ Signalling' = Signalling
  BY DEF client, Signalling
<1>2. wpc' = wpc \/ WGoto(w, "sleep") \/ WGoto(w, "popped")
  BY DEF WaitOrPop, worker
<1>3. \A v \in Workers : wpc[v] \in {"wake", "signal"} => wpc'[v] \in {"wake", "signal"}
  BY <1>2 DEF WGoto, Called, TInv, Conserved, PoolTypes
<1>4. ClientsCalled'
  BY <1>1, <1>3, ClientsStay
<1>5. Len(pending_list) \in Nat /\ Cardinality(Busy) \in Nat
  BY SetsFinite DEF Called, TInv, Conserved, PoolTypes
<1>6. CASE task_count = 0 /\ UNCHANGED pending_list
  <2>1. Len(pending_list') = 0
    BY <1>5, <1>6 DEF Called, TInv, Conserved, Counting
  <2>. QED
    BY <1>4, <2>1, CallersFinite DEF WorkersCalled
<1>7. CASE UNCHANGED <<pending_list, worker>>
  <2>1. wpc' = wpc /\ Coming' = Coming
    BY <1>7 DEF worker, Coming
  <2>. QED
    BY <1>1, <1>4, <1>7, <2>1, CallersStay
<1>8. CASE pending_list # <<>> /\ pending_list' = Tail(pending_list) /\ WGoto(w, "popped")
  <2>1. \A v \in Workers : wpc'[v] = IF v = w THEN "popped" ELSE wpc[v]
    BY <1>8 DEF WGoto, Called, TInv, Conserved, PoolTypes
  <2>2. w \in Coming /\ Coming' = Coming \ {w}
    BY <2>1 DEF Coming
  <2>3. Cardinality(Coming') = Cardinality(Coming) - 1
    BY <2>2, CallersFinite, FS_RemoveElement
  <2>4. Len(pending_list') = Len(pending_list) - 1
    BY <1>8, TailList DEF Called, TInv, Conserved, PoolTypes, Pending
  <2>5. (\E v \in Workers : wpc'[v] = "sleep") => \E v \in Workers : wpc[v] = "sleep"
    BY <2>1
  <2>. QED
    BY <1>1, <1>4, <1>5, <2>3, <2>4, <2>5, CallersFinite DEF Called, WorkersCalled
<1>. QED
  BY <1>6, <1>7, <1>8 DEF WaitOrPop

LEMMA WorkerCalls ==
    ASSUME Called, NEW w \in Workers, WorkerStep(w)
    PROVE  WorkersCalled' /\ ClientsCalled'
<1>1. CASE WorkerCheck(w)
  <2>1. /\ wpc[w] = "check" /\ WGoto(w, IF kill THEN "exited" ELSE "lock")
        /\ UNCHANGED <<pending_list, task_count, kill, cpc, missed>>
    BY <1>1 DEF WorkerCheck, tasker, client
  <2>2. \A v \in Workers : wpc'[v] = IF v = w THEN (IF kill THEN "exited" ELSE "lock") ELSE wpc[v]
    BY <2>1 DEF WGoto, Called, TInv, Conserved, PoolTypes
  <2>3. ClientsCalled'
    BY <2>1, <2>2, ClientsStay
  <2>4. CASE kill
    BY <2>1, <2>3, <2>4 DEF WorkersCalled
  <2>5. CASE ~kill
    <3>1. Coming' = Coming /\ Signalling' = Signalling
      BY <2>1, <2>2, <2>5 DEF Coming, Signalling
    <3>. QED
      BY <2>1, <2>2, <2>3, <3>1, CallersStay
  <2>. QED
    BY <2>4, <2>5
<1>2. CASE WorkerLock(w)
  BY <1>2, WaitOrPopCalls DEF WorkerLock
<1>3. CASE WorkerWake(w)
  <2>1. CASE kill /\ WGoto(w, "exited")
    <3>1. /\ kill' /\ wpc[w] = "woken"
          /\ UNCHANGED <<task_count, cpc, missed>>
      BY <1>3, <2>1 DEF WorkerWake, client
    <3>2. \A v \in Workers : wpc'[v] = IF v = w THEN "exited" ELSE wpc[v]
      BY <2>1 DEF WGoto, Called, TInv, Conserved, PoolTypes
    <3>. QED
      BY <3>1, <3>2, ClientsStay DEF WorkersCalled
  <2>2. CASE WaitOrPop(w)
    BY <1>3, <2>2, WaitOrPopCalls DEF WorkerWake
  <2>. QED
    BY <1>3, <2>1, <2>2 DEF WorkerWake
<1>4. CASE WorkerCheckAgain(w) \/ WorkerStart(w) \/ WorkerRun(w)
  <2>1. /\ wpc[w] \in {"popped", "start", "run"}
        /\ UNCHANGED <<pending_list, task_count, kill, cpc, missed>>
    BY <1>4 DEF WorkerCheckAgain, WorkerStart, WorkerRun, tasker, client
  <2>2. PICK label \in {"stuck", "start", "run", "callback"} : WGoto(w, label)
    BY <1>4 DEF WorkerCheckAgain, WorkerStart, WorkerRun, AfterTask
  <2>3. label \in WPCs
    BY DEF WPCs, BusyPCs
  <2>4. Signalling' = Signalling
    BY <2>1 DEF Signalling
  <2>5. WorkersCalled'
    BY <2>1, <2>2, <2>3, <2>4, WorkerStays
  <2>6. \A v \in Workers : v # w => wpc'[v] = wpc[v]
    BY <2>2 DEF WGoto, Called, TInv, Conserved, PoolTypes
  <2>. QED
    BY <2>1, <2>5, <2>6, ClientsStay
<1>5. CASE WorkerCallback(w)
  <2>1. /\ wpc[w] = "callback" /\ (wpc' = wpc \/ WGoto(w, "count"))
        /\ UNCHANGED <<pending_list, task_count, kill, cpc, missed>>
    BY <1>5 DEF WorkerCallback, tasker, client
  <2>2. Signalling' = Signalling /\ "count" \in WPCs
    BY <2>1 DEF Signalling, WPCs, BusyPCs
  <2>3. CASE wpc' = wpc
    <3>1. Coming' = Coming
      BY <2>3 DEF Coming
    <3>. QED
      BY <2>1, <2>2, <2>3, <3>1, CallersStay, ClientsStay
  <2>4. CASE WGoto(w, "count")
    <3>1. WorkersCalled'
      BY <2>1, <2>2, <2>4, WorkerStays
    <3>2. \A v \in Workers : v # w => wpc'[v] = wpc[v]
      BY <2>4 DEF WGoto, Called, TInv, Conserved, PoolTypes
    <3>. QED
      BY <2>1, <3>1, <3>2, ClientsStay
  <2>. QED
    BY <2>1, <2>3, <2>4
<1>6. CASE WorkerCount(w)
  <2>1. /\ wpc[w] = "count" /\ WGoto(w, "wake")
        /\ UNCHANGED <<pending_list, kill, cpc, missed>>
    BY <1>6 DEF WorkerCount, client
  <2>2. Signalling' = Signalling /\ "wake" \in WPCs
    BY <2>1 DEF Signalling, WPCs
  <2>3. WorkersCalled'
    BY <2>1, <2>2, WorkerStays
  <2>4. wpc'[w] = "wake"
    BY <2>1 DEF WGoto, Called, TInv, Conserved, PoolTypes
  <2>5. ClientsCalled'
    BY <2>4 DEF ClientsCalled
  <2>. QED
    BY <2>3, <2>5
<1>7. CASE WorkerFutexWake(w)
  <2>1. /\ wpc[w] = "wake" /\ WGoto(w, "signal")
        /\ UNCHANGED <<pending_list, task_count, kill, missed>>
        /\ FutexWake(wtask[w])
    BY <1>7 DEF WorkerFutexWake, tasker
  <2>2. \/ cpc' = cpc
        \/ \E c \in Clients : cpc[c] = "futex_sleep" /\ cpc' = [cpc EXCEPT ![c] = "await"]
    BY <2>1 DEF FutexWake, CGoto
  <2>3. \A c \in Clients : cpc'[c] # cpc[c] => cpc[c] = "futex_sleep" /\ cpc'[c] = "await"
    BY <2>2 DEF Called, TInv, CallTypes
  <2>4. Signalling' = Signalling /\ "signal" \in WPCs
    BY <2>3 DEF Signalling, WPCs
  <2>5. WorkersCalled'
    BY <2>1, <2>4, WorkerStays
  <2>6. \A v \in Workers : wpc'[v] = IF v = w THEN "signal" ELSE wpc[v]
    BY <2>1 DEF WGoto, Called, TInv, Conserved, PoolTypes
  <2>. QED
    BY <2>1, <2>3, <2>5, <2>6, ClientsStay
<1>8. CASE WorkerSignal(w)
  <2>1. /\ wpc[w] = "signal" /\ WGoto(w, "check")
        /\ UNCHANGED <<pending_list, task_count, kill>>
        /\ SignalOne(cpc, cpc', "sync_sleep")
        /\ missed' = missed \cup {c \in Clients : cpc[c] = "sync_wait" \/ cpc'[c] = "sync_sleep"}
    BY <1>8 DEF WorkerSignal, tasker
  <2>2. cpc' = cpc \/ \E c \in Clients : cpc[c] = "sync_sleep" /\ cpc' = [cpc EXCEPT ![c] = "woken"]
    BY <2>1 DEF SignalOne, Called, TInv, CallTypes
  <2>3. \A c \in Clients : cpc'[c] # cpc[c] => cpc[c] = "sync_sleep" /\ cpc'[c] = "woken"
    BY <2>2 DEF Called, TInv, CallTypes
  <2>4. Signalling' = Signalling /\ "check" \in WPCs
    BY <2>3 DEF Signalling, WPCs
  <2>5. WorkersCalled'
    BY <2>1, <2>4, WorkerStays
  <2>6. ClientsCalled'
    BY <2>1, <2>3 DEF ClientsCalled
  <2>. QED
    BY <2>5, <2>6
<1>. QED
  BY <1>1, <1>2, <1>3, <1>4, <1>5, <1>6, <1>7, <1>8 DEF WorkerStep

\* What a client does of its own, but for the steps of tasker_add_task.
LEMMA ClientCalls ==
    ASSUME Called, NEW c \in Clients,
           \/ SyncLock(c) \/ SyncTest(c) \/ SyncWait(c) \/ AwaitLoad(c) \/ AwaitFutex(c)
           \/ FreeBroadcast(c) \/ FreeJoin(c)
           \/ Sync(c) \/ FreeKill(c) \/ \E t \in Tasks : Await(c, t)
    PROVE  WorkersCalled' /\ ClientsCalled'
<1>1. UNCHANGED <<pending_list, task_count>> /\ (kill => kill')
  BY DEF SyncLock, SyncTest, SyncWait, AwaitLoad, AwaitFutex, FreeBroadcast, FreeJoin, Sync,
         FreeKill, Await, tasker
<1>2. PICK label \in CPCs \ {"add_signal"} : CGoto(c, label)
  BY DEF SyncLock, SyncTest, SyncWait, AwaitLoad, AwaitFutex, FreeBroadcast, FreeJoin, Sync,
         FreeKill, Await, CPCs
<1>3. \A d \in Clients : cpc'[d] = IF d = c THEN label ELSE cpc[d]
  BY <1>2 DEF CGoto, Called, TInv, CallTypes
<1>4. cpc[c] # "add_signal"
  BY DEF SyncLock, SyncTest, SyncWait, AwaitLoad, AwaitFutex, FreeBroadcast, FreeJoin, Sync,
         FreeKill, Await
<1>5. Signalling' = Signalling
  BY <1>3, <1>4 DEF Signalling
<1>6. wpc' = wpc \/ wpc' = [w \in Workers |-> IF wpc[w] = "sleep" THEN "woken" ELSE wpc[w]]
  BY DEF SyncLock, SyncTest, SyncWait, AwaitLoad, AwaitFutex, FreeBroadcast, FreeJoin, Sync,
         FreeKill, Await, worker, Broadcast
<1>7. \A w \in Workers : wpc'[w] = wpc[w] \/ (wpc[w] = "sleep" /\ wpc'[w] = "woken")
  BY <1>6
<1>8. Coming \subseteq Coming'
  BY <1>7 DEF Coming
<1>9. WorkersCalled'
  BY <1>1, <1>5, <1>7, <1>8, CallersStay
<1>10. CASE SyncTest(c)
  <2>1. /\ missed' = missed \ {c} /\ task_count' = task_count /\ wpc' = wpc
        /\ \/ task_count > 0
           \/ cpc'[c] = "idle"
    BY <1>3, <1>10 DEF SyncTest, worker, CGoto, Called, TInv, CallTypes
  <2>2. task_count > 0 => task_count # 0
    BY DEF Called, TInv, Conserved, PoolTypes
  <2>3. ClientsCalled'
    BY <1>3, <2>1, <2>2 DEF ClientsCalled, Called
  <2>. QED
    BY <1>9, <2>3
<1>11. CASE ~SyncTest(c)
  <2>1. missed \subseteq missed'
    BY <1>11 DEF SyncLock, SyncWait, AwaitLoad, AwaitFutex, FreeBroadcast, FreeJoin, Sync,
                 FreeKill, Await
  <2>2. label \in {"sync_wait", "sync_sleep"} => cpc[c] \in {"sync_wait", "sync_sleep"}
    BY <1>3, <1>11 DEF SyncLock, SyncWait, AwaitLoad, AwaitFutex, FreeBroadcast, FreeJoin, Sync,
                       FreeKill, Await, CGoto, Called, TInv, CallTypes
  <2>3. ClientsCalled'
    BY <1>1, <1>3, <1>7, <2>1, <2>2, ClientsStay
  <2>. QED
    BY <1>9, <2>3
<1>. QED
  BY <1>10, <1>11

\* tasker_add_task: a task more, and a client more that will wake a worker for it.
LEMMA AddCalls ==
    ASSUME Called, NEW c \in Clients, NEW t \in Tasks, AddTask(c, t)
    PROVE  WorkersCalled' /\ ClientsCalled'
<1>1. /\ cpc[c] = "idle" /\ CGoto(c, "add_signal")
      /\ pending_list' = Append(pending_list, t) /\ task_count' = task_count + 1
      /\ UNCHANGED <<kill, wpc, missed>>
  BY DEF AddTask, worker
<1>2. \A d \in Clients : cpc'[d] = IF d = c THEN "add_signal" ELSE cpc[d]
  BY <1>1 DEF CGoto, Called, TInv, CallTypes
<1>3. Coming' = Coming
  BY <1>1 DEF Coming
<1>4. c \notin Signalling /\ Signalling' = Signalling \cup {c}
  BY <1>1, <1>2 DEF Signalling
<1>5. Cardinality(Signalling') = Cardinality(Signalling) + 1
  BY <1>4, CallersFinite, FS_AddElement
<1>6. Len(pending_list') = Len(pending_list) + 1 /\ Len(pending_list) \in Nat
  BY <1>1 DEF Called, TInv, Conserved, PoolTypes
<1>7. WorkersCalled'
  BY <1>1, <1>3, <1>5, <1>6, CallersFinite DEF Called, WorkersCalled
<1>8. task_count' # 0
  BY <1>1 DEF Called, TInv, Conserved, PoolTypes
<1>9. ClientsCalled'
  BY <1>1, <1>2, <1>8, ClientsStay
<1>. QED
  BY <1>7, <1>9

\* Its signal wakes a worker, or none sleeps.
LEMMA SignalCalls ==
    ASSUME Called, NEW c \in Clients, AddSignal(c)
    PROVE  WorkersCalled' /\ ClientsCalled'
<1>1. /\ cpc[c] = "add_signal" /\ CGoto(c, "idle")
      /\ UNCHANGED <<pending_list, task_count, kill, missed>>
  BY DEF AddSignal, tasker
<1>2. \A d \in Clients : cpc'[d] = IF d = c THEN "idle" ELSE cpc[d]
  BY <1>1 DEF CGoto, Called, TInv, CallTypes
<1>3. c \in Signalling /\ Signalling' = Signalling \ {c}
  BY <1>1, <1>2 DEF Signalling
<1>4. Cardinality(Signalling') = Cardinality(Signalling) - 1
  BY <1>3, CallersFinite, FS_RemoveElement
<1>5. Len(pending_list) \in Nat
  BY DEF Called, TInv, Conserved, PoolTypes
<1>6. CASE (\A w \in Workers : wpc[w] # "sleep") /\ wpc' = wpc
  BY <1>1, <1>2, <1>6, ClientsStay DEF WorkersCalled
<1>7. ASSUME NEW w \in Workers, wpc[w] = "sleep", wpc' = [wpc EXCEPT ![w] = "woken"]
      PROVE  WorkersCalled' /\ ClientsCalled'
  <2>1. \A v \in Workers : wpc'[v] = IF v = w THEN "woken" ELSE wpc[v]
    BY <1>7 DEF Called, TInv, Conserved, PoolTypes
  <2>2. w \notin Coming /\ Coming' = Coming \cup {w}
    BY <1>7, <2>1 DEF Coming
  <2>3. Cardinality(Coming') = Cardinality(Coming) + 1
    BY <2>2, CallersFinite, FS_AddElement
  <2>4. WorkersCalled'
    BY <1>1, <1>4, <1>5, <1>7, <2>3, CallersFinite DEF Called, WorkersCalled
  <2>5. ClientsCalled'
    BY <1>1, <1>2, <1>7, <2>1, ClientsStay
  <2>. QED
    BY <2>4, <2>5
<1>8. DOMAIN wpc = Workers
  BY DEF Called, TInv, Conserved, PoolTypes
<1>. QED
  BY <1>6, <1>7, <1>8 DEF AddSignal, WorkSignal, SignalOne

LEMMA SpuriousCalls ==
    ASSUME Called, SpuriousWakeup
    PROVE  WorkersCalled' /\ ClientsCalled'
<1>1. UNCHANGED <<pending_list, task_count, kill, missed>>
  BY DEF SpuriousWakeup, tasker
<1>2. \A w \in Workers : wpc'[w] = wpc[w] \/ (wpc[w] = "sleep" /\ wpc'[w] = "woken")
  BY DEF SpuriousWakeup, WGoto, worker, Called, TInv, Conserved, PoolTypes
<1>3. \A c \in Clients : cpc'[c] # cpc[c] =>
        cpc[c] \in {"sync_sleep", "futex_sleep"} /\ cpc'[c] \in {"woken", "await"}
  BY DEF SpuriousWakeup, CGoto, client, Called, TInv, CallTypes
<1>4. Coming \subseteq Coming'
  BY <1>2 DEF Coming
<1>5. Signalling' = Signalling
  BY <1>3 DEF Signalling
<1>6. WorkersCalled'
  BY <1>1, <1>2, <1>4, <1>5, CallersStay
<1>. QED
  BY <1>1, <1>2, <1>3, <1>6, ClientsStay

LEMMA NextCalled == Called /\ [Next]_vars => Called'
<1>. SUFFICES ASSUME Called, [Next]_vars PROVE Called'
  OBVIOUS
<1>1. TInv'
  BY NextTInv DEF Called
<1>2. WorkersCalled' /\ ClientsCalled'
  <2>1. CASE \E w \in Workers : WorkerStep(w)
    BY <2>1, WorkerCalls
  <2>2. CASE \E c \in Clients : ClientStep(c) \/ ClientCall(c)
    BY <2>2, ClientCalls, AddCalls, SignalCalls DEF ClientStep, ClientCall
  <2>3. CASE Running /\ SpuriousWakeup
    BY <2>3, SpuriousCalls
  <2>4. CASE UNCHANGED vars
    BY <2>4 DEF vars, tasker, worker, client, Called, WorkersCalled, ClientsCalled, Coming,
                Signalling
  <2>. QED
    BY <2>1, <2>2, <2>3, <2>4 DEF Next
<1>. QED
  BY <1>1, <1>2 DEF Called

\* No thread of the pool sleeps through what it waits for: while tasks are pending, as many
\* threads as there are tasks come to take one or to signal one more worker, unless none sleeps;
\* and a client asleep in tasker_sync after the last task is about to be signalled, or is one
\* that a signal went past.
THEOREM SleepersCorrect == Spec => []SleepersCalled
<1>1. Init => Called
  <2>. SUFFICES ASSUME Init PROVE Called
    OBVIOUS
  <2>1. TInv
    BY InitTInv
  <2>2. WorkersCalled /\ ClientsCalled
    BY DEF Init, WorkersCalled, ClientsCalled
  <2>. QED
    BY <2>1, <2>2 DEF Called
<1>2. Called /\ [Next]_vars => Called'
  BY NextCalled
<1>3. Called => SleepersCalled
  BY DEF Called, WorkersCalled, ClientsCalled, SleepersCalled, Coming, Signalling
<1>. QED
  BY <1>1, <1>2, <1>3, PTL DEF Spec

-----------------------------------------------------------------------------
(* Sequences.                                                                *)

\* A nonempty set of naturals has a least element.
Less == {r \in Nat \X Nat : r[1] < r[2]}

LEMMA Least ==
  ASSUME NEW S \in SUBSET Nat, S # {}
  PROVE  \E n \in S : \A m \in S : n <= m
<1>1. IsWellFoundedOn(Less, Nat)
  BY NatLessThanWellFounded DEF OpToRel, Less
<1>2. PICK n \in S : \A m \in S : ~(<<m, n>> \in Less)
  BY <1>1, WFMin
<1>3. \A m \in S : ~(m < n)
  BY <1>2 DEF Less
<1> QED
  BY <1>3

LEMMA SeqIs ==
  ASSUME NEW S, NEW s \in Seq(S)
  PROVE  /\ Len(s) \in Nat /\ DOMAIN s = 1 .. Len(s) /\ s \in [1 .. Len(s) -> S]
         /\ \A i \in 1 .. Len(s) : s[i] \in S
OBVIOUS

LEMMA IsSeq ==
  ASSUME NEW S, NEW n \in Nat, NEW s \in [1 .. n -> S]
  PROVE  s \in Seq(S) /\ Len(s) = n
OBVIOUS

LEMMA SameSeq ==
  ASSUME NEW S, NEW s \in Seq(S), NEW t \in Seq(S), Len(s) = Len(t),
         \A i \in 1 .. Len(s) : s[i] = t[i]
  PROVE  s = t
<1>1. s = [i \in 1 .. Len(s) |-> s[i]] /\ t = [i \in 1 .. Len(t) |-> t[i]]
  OBVIOUS
<1> QED
  BY <1>1

\* A sequence without the c elements after the first a, these elements, and the sequence
\* with another one put after its first a.
Cut(s, a, c) == [i \in 1 .. Len(s) - c |-> IF i <= a THEN s[i] ELSE s[i + c]]
Part(s, a, c) == [i \in 1 .. c |-> s[a + i]]
Put(s, a, w) ==
    [i \in 1 .. Len(s) + Len(w) |->
       IF i <= a THEN s[i] ELSE IF i <= a + Len(w) THEN w[i - a] ELSE s[i - Len(w)]]
Mapped(f, s) == [i \in 1 .. Len(s) |-> f[s[i]]]
Maps(f, S, T) == f \in [S -> T]

LEMMA CutIs ==
  ASSUME NEW S, NEW s \in Seq(S), NEW a \in Nat, NEW c \in Nat, a + c <= Len(s)
  PROVE  /\ Cut(s, a, c) \in Seq(S) /\ Len(Cut(s, a, c)) = Len(s) - c
         /\ \A i \in 1 .. Len(s) - c : Cut(s, a, c)[i] = IF i <= a THEN s[i] ELSE s[i + c]
<1>1. Len(s) - c \in Nat /\ Len(s) \in Nat
  BY SeqIs
<1>2. Cut(s, a, c) \in [1 .. Len(s) - c -> S]
  <2>1. ASSUME NEW i \in 1 .. Len(s) - c
        PROVE  (IF i <= a THEN s[i] ELSE s[i + c]) \in S
    <3>1. i \in 1 .. Len(s) /\ i + c \in 1 .. Len(s)
      BY <1>1
    <3> QED
      BY <3>1, SeqIs
  <2> QED
    BY <2>1 DEF Cut
<1> QED
  BY <1>1, <1>2, IsSeq DEF Cut

LEMMA PartIs ==
  ASSUME NEW S, NEW s \in Seq(S), NEW a \in Nat, NEW c \in Nat, a + c <= Len(s)
  PROVE  /\ Part(s, a, c) \in Seq(S) /\ Len(Part(s, a, c)) = c
         /\ \A i \in 1 .. c : Part(s, a, c)[i] = s[a + i]
<1>1. Part(s, a, c) \in [1 .. c -> S]
  <2>1. ASSUME NEW i \in 1 .. c
        PROVE  s[a + i] \in S
    <3>1. a + i \in 1 .. Len(s)
      BY SeqIs
    <3> QED
      BY <3>1, SeqIs
  <2> QED
    BY <2>1 DEF Part
<1> QED
  BY <1>1, IsSeq DEF Part

LEMMA PutIs ==
  ASSUME NEW S, NEW s \in Seq(S), NEW w \in Seq(S), NEW a \in 0 .. Len(s)
  PROVE  /\ Put(s, a, w) \in Seq(S) /\ Len(Put(s, a, w)) = Len(s) + Len(w)
         /\ \A i \in 1 .. Len(s) + Len(w) :
              Put(s, a, w)[i] = IF i <= a THEN s[i]
                                ELSE IF i <= a + Len(w) THEN w[i - a] ELSE s[i - Len(w)]
<1>1. Len(s) + Len(w) \in Nat /\ Len(s) \in Nat /\ Len(w) \in Nat
  BY SeqIs
<1>2. Put(s, a, w) \in [1 .. Len(s) + Len(w) -> S]
  <2>1. ASSUME NEW i \in 1 .. Len(s) + Len(w)
        PROVE  (IF i <= a THEN s[i] ELSE IF i <= a + Len(w) THEN w[i - a] ELSE s[i - Len(w)]) \in S
    <3>1. CASE i <= a
      <4>1. i \in 1 .. Len(s)
        BY <1>1, <3>1
      <4> QED
        BY <3>1, <4>1, SeqIs
    <3>2. CASE ~(i <= a) /\ i <= a + Len(w)
      <4>1. i - a \in 1 .. Len(w)
        BY <1>1, <3>2
      <4> QED
        BY <3>2, <4>1, SeqIs
    <3>3. CASE ~(i <= a) /\ ~(i <= a + Len(w))
      <4>1. i - Len(w) \in 1 .. Len(s)
        BY <1>1, <3>3
      <4> QED
        BY <3>3, <4>1, SeqIs
    <3> QED
      BY <3>1, <3>2, <3>3
  <2> QED
    BY <2>1 DEF Put
<1> QED
  BY <1>1, <1>2, IsSeq DEF Put

LEMMA MappedIs ==
  ASSUME NEW S, NEW T, NEW f, Maps(f, S, T), NEW s \in Seq(S)
  PROVE  /\ Mapped(f, s) \in Seq(T) /\ Len(Mapped(f, s)) = Len(s)
         /\ \A i \in 1 .. Len(s) : Mapped(f, s)[i] = f[s[i]]
<1>1. Len(s) \in Nat /\ \A i \in 1 .. Len(s) : s[i] \in S
  BY SeqIs
<1>2. Mapped(f, s) \in [1 .. Len(s) -> T]
  BY <1>1 DEF Mapped, Maps
<1> QED
  BY <1>1, <1>2, IsSeq DEF Mapped

-----------------------------------------------------------------------------
(* What the calls promise, in these terms.                                   *)

LEMMA SubSeqIs ==
  ASSUME NEW S, NEW s \in Seq(S), NEW a \in Nat, NEW c \in Nat, a + c <= Len(s)
  PROVE  SubSeq(s, a + 1, a + c) = Part(s, a, c)
<1>1. Len(s) \in Nat
  BY SeqIs
<1>2. SubSeq(s, a + 1, a + c) = [i \in 1 .. (a + c) - (a + 1) + 1 |-> s[i + (a + 1) - 1]]
  OBVIOUS
<1>3. (a + c) - (a + 1) + 1 = c /\ \A i \in 1 .. c : i + (a + 1) - 1 = a + i
  OBVIOUS
<1> QED
  BY <1>2, <1>3 DEF Part

LEMMA ConcatIs ==
  ASSUME NEW S, NEW s \in Seq(S), NEW t \in Seq(S)
  PROVE  /\ s \o t \in Seq(S) /\ Len(s \o t) = Len(s) + Len(t)
         /\ \A i \in 1 .. Len(s) + Len(t) :
              (s \o t)[i] = IF i <= Len(s) THEN s[i] ELSE t[i - Len(s)]
BY ConcatProperties

LEMMA WithoutIs ==
  ASSUME NEW S, NEW s \in Seq(S), NEW a \in Nat, NEW c \in Nat, a + c <= Len(s)
  PROVE  Without(s, a, c) = Cut(s, a, c)
<1>. DEFINE p == Part(s, 0, a)
            rest == Len(s) - (a + c)
            q == Part(s, a + c, rest)
<1>1. Len(s) \in Nat /\ rest \in Nat /\ (a + c) + rest <= Len(s) /\ 0 + a <= Len(s)
  BY SeqIs
<1>2. /\ p \in Seq(S) /\ Len(p) = a /\ \A i \in 1 .. a : p[i] = s[i]
      /\ q \in Seq(S) /\ Len(q) = rest /\ \A i \in 1 .. rest : q[i] = s[a + c + i]
  <2>. DEFINE z == 0
  <2>1. p \in Seq(S) /\ Len(p) = a /\ \A i \in 1 .. a : p[i] = s[z + i]
    <3>1. z \in Nat /\ z + a <= Len(s) /\ p = Part(s, z, a)
      BY <1>1
    <3>. HIDE DEF z, p
    <3> QED
      BY <3>1, PartIs
  <2>. HIDE DEF p
  <2>2. \A i \in 1 .. a : 0 + i = i
    OBVIOUS
  <2>3. a + c \in Nat
    OBVIOUS
  <2>. DEFINE b == a + c
  <2>4. q \in Seq(S) /\ Len(q) = rest /\ \A i \in 1 .. rest : q[i] = s[b + i]
    <3>. HIDE DEF b
    <3> QED
      BY <1>1, <2>3, PartIs DEF b
  <2> QED
    BY <2>1, <2>2, <2>4
<1>3. SubSeq(s, 0 + 1, 0 + a) = p /\ SubSeq(s, (a + c) + 1, (a + c) + rest) = q
  BY <1>1, SubSeqIs
<1>4. 0 + 1 = 1 /\ 0 + a = a /\ (a + c) + rest = Len(s)
  BY <1>1
<1>5. Without(s, a, c) = p \o q
  <2>. HIDE DEF p, q
  <2> QED
    BY <1>3, <1>4 DEF Without
<1>. HIDE DEF p, q
<1>6. /\ p \o q \in Seq(S) /\ Len(p \o q) = Len(s) - c
      /\ \A i \in 1 .. Len(s) - c : (p \o q)[i] = IF i <= a THEN p[i] ELSE q[i - a]
  <2>1. a + rest = Len(s) - c
    BY <1>1
  <2> QED
    BY <1>2, <2>1, ConcatIs
<1>7. ASSUME NEW i \in 1 .. Len(s) - c
      PROVE  (p \o q)[i] = Cut(s, a, c)[i]
  <2>1. CASE i <= a
    <3>1. p[i] = s[i]
      BY <1>1, <1>2, <2>1
    <3> QED
      BY <1>6, <2>1, <3>1, CutIs
  <2>2. CASE ~(i <= a)
    <3>1. i - a \in 1 .. rest /\ a + c + (i - a) = i + c
      BY <1>1, <2>2
    <3>2. q[i - a] = s[i + c]
      BY <1>2, <3>1
    <3> QED
      BY <1>6, <2>2, <3>2, CutIs
  <2> QED
    BY <2>1, <2>2
<1>8. Cut(s, a, c) \in Seq(S) /\ Len(Cut(s, a, c)) = Len(s) - c
  BY CutIs
<1> QED
  BY <1>5, <1>6, <1>7, <1>8, SameSeq

LEMMA InsertedIs ==
  ASSUME NEW S, NEW s \in Seq(S), NEW w \in Seq(S), NEW a \in 0 .. Len(s)
  PROVE  Inserted(s, a, w) = Put(s, a, w)
<1>. DEFINE p == SubSeq(s, 1, a)
            rest == Len(s) - a
            q == SubSeq(s, a + 1, Len(s))
            z == 0
<1>1. Len(s) \in Nat /\ Len(w) \in Nat /\ a \in Nat /\ rest \in Nat /\ a + rest = Len(s)
  BY SeqIs
<1>2. p \in Seq(S) /\ Len(p) = a /\ \A i \in 1 .. a : p[i] = s[i]
  <2>1. z \in Nat /\ z + a <= Len(s) /\ z + 1 = 1 /\ z + a = a /\ \A i \in 1 .. a : z + i = i
    BY <1>1
  <2>2. SubSeq(s, z + 1, z + a) = Part(s, z, a)
    <3>. HIDE DEF z
    <3> QED
      BY <1>1, <2>1, SubSeqIs
  <2>3. /\ Part(s, z, a) \in Seq(S) /\ Len(Part(s, z, a)) = a
        /\ \A i \in 1 .. a : Part(s, z, a)[i] = s[z + i]
    <3>. HIDE DEF z
    <3> QED
      BY <1>1, <2>1, PartIs
  <2>. HIDE DEF z
  <2> QED
    BY <2>1, <2>2, <2>3
<1>3. q \in Seq(S) /\ Len(q) = rest /\ \A i \in 1 .. rest : q[i] = s[a + i]
  <2>1. SubSeq(s, a + 1, a + rest) = Part(s, a, rest)
    <3>1. a + rest <= Len(s)
      BY <1>1
    <3>. HIDE DEF rest
    <3> QED
      BY <1>1, <3>1, SubSeqIs
  <2>2. /\ Part(s, a, rest) \in Seq(S) /\ Len(Part(s, a, rest)) = rest
        /\ \A i \in 1 .. rest : Part(s, a, rest)[i] = s[a + i]
    <3>1. a + rest <= Len(s)
      BY <1>1
    <3>. HIDE DEF rest
    <3> QED
      BY <1>1, <3>1, PartIs
  <2> QED
    BY <1>1, <2>1, <2>2
<1>4. Inserted(s, a, w) = (p \o w) \o q
  BY DEF Inserted
<1>. HIDE DEF p, q
<1>5. /\ p \o w \in Seq(S) /\ Len(p \o w) = a + Len(w)
      /\ \A i \in 1 .. a + Len(w) : (p \o w)[i] = IF i <= a THEN s[i] ELSE w[i - a]
  <2>1. /\ p \o w \in Seq(S) /\ Len(p \o w) = a + Len(w)
        /\ \A i \in 1 .. a + Len(w) : (p \o w)[i] = IF i <= a THEN p[i] ELSE w[i - a]
    BY <1>2, ConcatIs
  <2>2. \A i \in 1 .. a + Len(w) : i <= a => p[i] = s[i]
    BY <1>1, <1>2
  <2> QED
    BY <2>1, <2>2
<1>. DEFINE b == p \o w
<1>. HIDE DEF b
<1>6. /\ b \o q \in Seq(S) /\ Len(b \o q) = Len(s) + Len(w)
      /\ \A i \in 1 .. Len(s) + Len(w) :
           (b \o q)[i] = IF i <= a + Len(w) THEN b[i] ELSE q[i - (a + Len(w))]
  <2>1. b \in Seq(S) /\ Len(b) = a + Len(w) /\ Len(b) + Len(q) = Len(s) + Len(w)
    BY <1>1, <1>3, <1>5 DEF b
  <2>2. /\ b \o q \in Seq(S) /\ Len(b \o q) = Len(b) + Len(q)
        /\ \A i \in 1 .. Len(b) + Len(q) :
             (b \o q)[i] = IF i <= Len(b) THEN b[i] ELSE q[i - Len(b)]
    BY <1>3, <2>1, ConcatIs
  <2> QED
    BY <2>1, <2>2
<1>7. ASSUME NEW i \in 1 .. Len(s) + Len(w)
      PROVE  (b \o q)[i] = Put(s, a, w)[i]
  <2>1. Put(s, a, w)[i] = IF i <= a THEN s[i]
                          ELSE IF i <= a + Len(w) THEN w[i - a] ELSE s[i - Len(w)]
    BY PutIs
  <2>2. CASE i <= a + Len(w)
    <3>1. i \in 1 .. a + Len(w)
      BY <1>1, <2>2
    <3>2. b[i] = IF i <= a THEN s[i] ELSE w[i - a]
      BY <1>5, <3>1 DEF b
    <3>3. i <= a => i <= a + Len(w)
      BY <1>1
    <3> QED
      BY <1>6, <2>1, <2>2, <3>2, <3>3
  <2>3. CASE ~(i <= a + Len(w))
    <3>1. i - (a + Len(w)) \in 1 .. rest /\ a + (i - (a + Len(w))) = i - Len(w) /\ ~(i <= a)
      BY <1>1, <2>3
    <3>2. q[i - (a + Len(w))] = s[i - Len(w)]
      BY <1>3, <3>1
    <3> QED
      BY <1>6, <2>1, <2>3, <3>1, <3>2
  <2> QED
    BY <2>2, <2>3
<1>8. Put(s, a, w) \in Seq(S) /\ Len(Put(s, a, w)) = Len(s) + Len(w)
  BY PutIs
<1> QED
  BY <1>4, <1>6, <1>7, <1>8, SameSeq DEF b

LEMMA OneIs ==
  ASSUME NEW S, NEW x \in S
  PROVE  <<x>> \in Seq(S) /\ Len(<<x>>) = 1 /\ <<x>>[1] = x
OBVIOUS

Appended(s, x) == Append(s, x)

LEMMA AppendedIs ==
  ASSUME NEW S, NEW s \in Seq(S), NEW x \in S
  PROVE  Appended(s, x) = Put(s, Len(s), <<x>>)
<1>1. Len(s) \in Nat
  BY SeqIs
<1>2. Append(s, x) \in Seq(S) /\ Len(Append(s, x)) = Len(s) + 1
  OBVIOUS
<1>3. \A i \in 1 .. Len(s) + 1 : Append(s, x)[i] = IF i <= Len(s) THEN s[i] ELSE x
  OBVIOUS
<1>4. /\ Put(s, Len(s), <<x>>) \in Seq(S) /\ Len(Put(s, Len(s), <<x>>)) = Len(s) + 1
      /\ \A i \in 1 .. Len(s) + 1 :
           Put(s, Len(s), <<x>>)[i] = IF i <= Len(s) THEN s[i] ELSE x
  <2>. DEFINE w == <<x>>
  <2>1. w \in Seq(S) /\ Len(w) = 1 /\ w[1] = x
    BY OneIs
  <2>. HIDE DEF w
  <2>. DEFINE a == Len(s)
  <2>2. /\ Put(s, a, w) \in Seq(S) /\ Len(Put(s, a, w)) = Len(s) + 1
        /\ \A i \in 1 .. Len(s) + 1 :
             Put(s, a, w)[i] = IF i <= a THEN s[i]
                               ELSE IF i <= a + 1 THEN w[i - a] ELSE s[i - 1]
    <3>1. a \in 0 .. Len(s)
      BY <1>1
    <3>. HIDE DEF a
    <3>2. /\ Put(s, a, w) \in Seq(S) /\ Len(Put(s, a, w)) = Len(s) + Len(w)
          /\ \A i \in 1 .. Len(s) + Len(w) :
               Put(s, a, w)[i] = IF i <= a THEN s[i]
                                 ELSE IF i <= a + Len(w) THEN w[i - a] ELSE s[i - Len(w)]
      BY <2>1, <3>1, PutIs
    <3> QED
      BY <2>1, <3>2
  <2>3. \A i \in 1 .. Len(s) + 1 : ~(i <= Len(s)) => i - Len(s) = 1 /\ i <= Len(s) + 1
    BY <1>1
  <2>4. Put(s, Len(s), w) \in Seq(S) /\ Len(Put(s, Len(s), w)) = Len(s) + 1
    BY <2>2
  <2>5. \A i \in 1 .. Len(s) + 1 :
           Put(s, Len(s), w)[i] = IF i <= Len(s) THEN s[i] ELSE x
    BY <2>1, <2>2, <2>3
  <2> QED
    BY <2>4, <2>5 DEF w
<1> QED
  BY <1>2, <1>3, <1>4, SameSeq DEF Appended

LEMMA PrependedIs ==
  ASSUME NEW S, NEW s \in Seq(S), NEW x \in S
  PROVE  <<x>> \o s = Put(s, 0, <<x>>)
<1>. DEFINE w == <<x>>
            z == 0
<1>1. w \in Seq(S) /\ Len(w) = 1 /\ w[1] = x
  BY OneIs
<1>. HIDE DEF w
<1>2. Len(s) \in Nat /\ z \in 0 .. Len(s)
  BY SeqIs
<1>3. /\ Put(s, z, w) \in Seq(S) /\ Len(Put(s, z, w)) = Len(s) + Len(w)
      /\ \A i \in 1 .. Len(s) + Len(w) :
           Put(s, z, w)[i] = IF i <= z THEN s[i]
                             ELSE IF i <= z + Len(w) THEN w[i - z] ELSE s[i - Len(w)]
  <2>. HIDE DEF z
  <2> QED
    BY <1>1, <1>2, PutIs
<1>4. /\ w \o s \in Seq(S) /\ Len(w \o s) = Len(w) + Len(s)
      /\ \A i \in 1 .. Len(w) + Len(s) :
           (w \o s)[i] = IF i <= Len(w) THEN w[i] ELSE s[i - Len(w)]
  BY <1>1, ConcatIs
<1>5. \A i \in 1 .. Len(s) + Len(w) : ~(i <= z) /\ z + Len(w) = Len(w) /\ i - z = i
  BY <1>1, <1>2
<1>6. \A i \in 1 .. Len(s) + Len(w) : (w \o s)[i] = Put(s, z, w)[i]
  <2>. HIDE DEF z
  <2> QED
    BY <1>1, <1>2, <1>3, <1>4, <1>5
<1>7. Len(w \o s) = Len(Put(s, z, w))
  <2>. HIDE DEF z
  <2> QED
    BY <1>1, <1>2, <1>3, <1>4
<1> QED
  <2>1. w \o s = Put(s, z, w)
    <3>. HIDE DEF z
    <3>1. Len(w \o s) = Len(s) + Len(w)
      BY <1>1, <1>2, <1>4
    <3> QED
      BY <1>3, <1>4, <1>6, <1>7, <3>1, SameSeq
  <2> QED
    BY <2>1 DEF w

-----------------------------------------------------------------------------
(* Mapping f over sequences.                                                 *)

LEMMA MappedCut ==
  ASSUME NEW S, NEW T, NEW f, Maps(f, S, T), NEW s \in Seq(S),
         NEW a \in Nat, NEW c \in Nat, a + c <= Len(s)
  PROVE  Mapped(f, Cut(s, a, c)) = Cut(Mapped(f, s), a, c)
<1>. DEFINE t == Cut(s, a, c)
            m == Mapped(f, s)
            n == Len(s) - c
<1>1. n \in Nat /\ Len(s) \in Nat
  BY SeqIs
<1>2. t \in Seq(S) /\ Len(t) = n /\ \A i \in 1 .. n : t[i] = IF i <= a THEN s[i] ELSE s[i + c]
  BY CutIs
<1>3. m \in Seq(T) /\ Len(m) = Len(s) /\ \A i \in 1 .. Len(s) : m[i] = f[s[i]]
  BY MappedIs
<1>. HIDE DEF t, m
<1>4. /\ Mapped(f, t) \in Seq(T) /\ Len(Mapped(f, t)) = n
      /\ \A i \in 1 .. n : Mapped(f, t)[i] = f[t[i]]
  <2>. HIDE DEF n
  <2>1. /\ Mapped(f, t) \in Seq(T) /\ Len(Mapped(f, t)) = Len(t)
        /\ \A i \in 1 .. Len(t) : Mapped(f, t)[i] = f[t[i]]
    <3>1. t \in Seq(S)
      BY <1>2
    <3> QED
      BY <3>1, MappedIs
  <2> QED
    BY <1>2, <2>1
<1>5. /\ Cut(m, a, c) \in Seq(T) /\ Len(Cut(m, a, c)) = n
      /\ \A i \in 1 .. n : Cut(m, a, c)[i] = IF i <= a THEN m[i] ELSE m[i + c]
  <2>1. /\ Cut(m, a, c) \in Seq(T) /\ Len(Cut(m, a, c)) = Len(m) - c
        /\ \A i \in 1 .. Len(m) - c : Cut(m, a, c)[i] = IF i <= a THEN m[i] ELSE m[i + c]
    BY <1>3, CutIs
  <2> QED
    BY <1>3, <2>1
<1>6. ASSUME NEW i \in 1 .. n
      PROVE  Mapped(f, t)[i] = Cut(m, a, c)[i]
  <2>1. i \in 1 .. Len(s) /\ i + c \in 1 .. Len(s)
    BY <1>1
  <2>2. m[i] = f[s[i]] /\ m[i + c] = f[s[i + c]]
    BY <1>3, <2>1
  <2> QED
    BY <1>2, <1>4, <1>5, <2>2
<1>7. Mapped(f, t) = Cut(m, a, c)
  BY <1>4, <1>5, <1>6, SameSeq
<1> QED
  BY <1>7 DEF t, m

LEMMA MappedPart ==
  ASSUME NEW S, NEW T, NEW f, Maps(f, S, T), NEW s \in Seq(S),
         NEW a \in Nat, NEW c \in Nat, a + c <= Len(s)
  PROVE  Mapped(f, Part(s, a, c)) = Part(Mapped(f, s), a, c)
<1>. DEFINE t == Part(s, a, c)
            m == Mapped(f, s)
<1>1. Len(s) \in Nat
  BY SeqIs
<1>2. t \in Seq(S) /\ Len(t) = c /\ \A i \in 1 .. c : t[i] = s[a + i]
  BY PartIs
<1>3. m \in Seq(T) /\ Len(m) = Len(s) /\ \A i \in 1 .. Len(s) : m[i] = f[s[i]]
  BY MappedIs
<1>. HIDE DEF t, m
<1>4. /\ Mapped(f, t) \in Seq(T) /\ Len(Mapped(f, t)) = c
      /\ \A i \in 1 .. c : Mapped(f, t)[i] = f[t[i]]
  <2>1. /\ Mapped(f, t) \in Seq(T) /\ Len(Mapped(f, t)) = Len(t)
        /\ \A i \in 1 .. Len(t) : Mapped(f, t)[i] = f[t[i]]
    <3>1. t \in Seq(S)
      BY <1>2
    <3> QED
      BY <3>1, MappedIs
  <2> QED
    BY <1>2, <2>1
<1>5. /\ Part(m, a, c) \in Seq(T) /\ Len(Part(m, a, c)) = c
      /\ \A i \in 1 .. c : Part(m, a, c)[i] = m[a + i]
  BY <1>3, PartIs
<1>6. ASSUME NEW i \in 1 .. c
      PROVE  Mapped(f, t)[i] = Part(m, a, c)[i]
  <2>1. a + i \in 1 .. Len(s)
    BY <1>1
  <2>2. m[a + i] = f[s[a + i]]
    BY <1>3, <2>1
  <2> QED
    BY <1>2, <1>4, <1>5, <2>2
<1>7. Mapped(f, t) = Part(m, a, c)
  BY <1>4, <1>5, <1>6, SameSeq
<1> QED
  BY <1>7 DEF t, m

LEMMA MappedPut ==
  ASSUME NEW S, NEW T, NEW f, Maps(f, S, T), NEW s \in Seq(S), NEW w \in Seq(S),
         NEW a \in 0 .. Len(s)
  PROVE  Mapped(f, Put(s, a, w)) = Put(Mapped(f, s), a, Mapped(f, w))
<1>. DEFINE t == Put(s, a, w)
            m == Mapped(f, s)
            v == Mapped(f, w)
            n == Len(s) + Len(w)
<1>1. n \in Nat /\ Len(s) \in Nat /\ Len(w) \in Nat
  BY SeqIs
<1>2. /\ t \in Seq(S) /\ Len(t) = n
      /\ \A i \in 1 .. n :
           t[i] = IF i <= a THEN s[i] ELSE IF i <= a + Len(w) THEN w[i - a] ELSE s[i - Len(w)]
  BY PutIs
<1>3. /\ m \in Seq(T) /\ Len(m) = Len(s) /\ \A i \in 1 .. Len(s) : m[i] = f[s[i]]
      /\ v \in Seq(T) /\ Len(v) = Len(w) /\ \A i \in 1 .. Len(w) : v[i] = f[w[i]]
  BY MappedIs
<1>. HIDE DEF t, m, v
<1>4. /\ Mapped(f, t) \in Seq(T) /\ Len(Mapped(f, t)) = n
      /\ \A i \in 1 .. n : Mapped(f, t)[i] = f[t[i]]
  <2>. HIDE DEF n
  <2>1. /\ Mapped(f, t) \in Seq(T) /\ Len(Mapped(f, t)) = Len(t)
        /\ \A i \in 1 .. Len(t) : Mapped(f, t)[i] = f[t[i]]
    <3>1. t \in Seq(S)
      BY <1>2
    <3> QED
      BY <3>1, MappedIs
  <2> QED
    BY <1>2, <2>1
<1>5. /\ Put(m, a, v) \in Seq(T) /\ Len(Put(m, a, v)) = n
      /\ \A i \in 1 .. n :
           Put(m, a, v)[i] = IF i <= a THEN m[i]
                             ELSE IF i <= a + Len(w) THEN v[i - a] ELSE m[i - Len(w)]
  <2>1. a \in 0 .. Len(m)
    BY <1>3
  <2>2. /\ Put(m, a, v) \in Seq(T) /\ Len(Put(m, a, v)) = Len(m) + Len(v)
        /\ \A i \in 1 .. Len(m) + Len(v) :
             Put(m, a, v)[i] = IF i <= a THEN m[i]
                               ELSE IF i <= a + Len(v) THEN v[i - a] ELSE m[i - Len(v)]
    <3>1. m \in Seq(T) /\ v \in Seq(T)
      BY <1>3
    <3> QED
      BY <2>1, <3>1, PutIs
  <2> QED
    BY <1>3, <2>2
<1>6. ASSUME NEW i \in 1 .. n
      PROVE  Mapped(f, t)[i] = Put(m, a, v)[i]
  <2>1. CASE i <= a
    <3>1. i \in 1 .. Len(s)
      BY <1>1, <2>1
    <3>2. t[i] = s[i] /\ m[i] = f[s[i]]
      BY <1>2, <1>3, <2>1, <3>1
    <3>3. Put(m, a, v)[i] = m[i]
      BY <1>5, <2>1
    <3> QED
      BY <1>4, <3>2, <3>3
  <2>2. CASE ~(i <= a) /\ i <= a + Len(w)
    <3>1. i - a \in 1 .. Len(w)
      BY <1>1, <2>2
    <3>2. t[i] = w[i - a] /\ v[i - a] = f[w[i - a]]
      BY <1>2, <1>3, <2>2, <3>1
    <3>3. Put(m, a, v)[i] = v[i - a]
      BY <1>5, <2>2
    <3> QED
      BY <1>4, <3>2, <3>3
  <2>3. CASE ~(i <= a) /\ ~(i <= a + Len(w))
    <3>1. i - Len(w) \in 1 .. Len(s)
      BY <1>1, <2>3
    <3>2. t[i] = s[i - Len(w)] /\ m[i - Len(w)] = f[s[i - Len(w)]]
      BY <1>2, <1>3, <2>3, <3>1
    <3>3. Put(m, a, v)[i] = m[i - Len(w)]
      BY <1>5, <2>3
    <3> QED
      BY <1>4, <3>2, <3>3
  <2> QED
    BY <2>1, <2>2, <2>3
<1>7. Mapped(f, t) = Put(m, a, v)
  BY <1>4, <1>5, <1>6, SameSeq
<1> QED
  BY <1>7 DEF t, m, v

LEMMA MappedOne ==
  ASSUME NEW S, NEW T, NEW f, Maps(f, S, T), NEW x \in S
  PROVE  Mapped(f, <<x>>) = <<f[x]>>
<1>. DEFINE w == <<x>>
            v == <<f[x]>>
<1>1. w \in Seq(S) /\ Len(w) = 1 /\ w[1] = x
  BY OneIs
<1>2. v \in Seq(T) /\ Len(v) = 1 /\ v[1] = f[x]
  <2>1. f[x] \in T
    BY DEF Maps
  <2>. DEFINE y == f[x]
  <2>. HIDE DEF y
  <2>2. <<y>> \in Seq(T) /\ Len(<<y>>) = 1 /\ <<y>>[1] = y
    BY <2>1, OneIs DEF y
  <2> QED
    BY <2>2 DEF y
<1>. HIDE DEF w, v
<1>3. Mapped(f, w) \in Seq(T) /\ Len(Mapped(f, w)) = 1 /\ Mapped(f, w)[1] = f[x]
  BY <1>1, MappedIs
<1>4. Mapped(f, w) = v
  BY <1>2, <1>3, SameSeq
<1> QED
  BY <1>4 DEF w, v

\* Mapping only looks at the values of f there.
LEMMA MappedSame ==
  ASSUME NEW S, NEW T, NEW s \in Seq(S), NEW f, NEW g, \A i \in 1 .. Len(s) : f[s[i]] = g[s[i]]
  PROVE  Mapped(f, s) = Mapped(g, s)
BY DEF Mapped

-----------------------------------------------------------------------------
(* Sequences of nodes that are linked.                                       *)

Once(s) == \A i, j \in 1 .. Len(s) : s[i] = s[j] => i = j
On(s, n) == \E i \in 1 .. Len(s) : s[i] = n
Apart(s, t) == \A i \in 1 .. Len(s), j \in 1 .. Len(t) : s[i] # t[j]
At(s, i) == IF i \in 1 .. Len(s) THEN s[i] ELSE None
Linked(next, prev, s) ==
    \A i \in 1 .. Len(s) : next[s[i]] = At(s, i + 1) /\ prev[s[i]] = At(s, i - 1)
Chained(next, prev, w) ==
    \A i \in 1 .. Len(w) - 1 : next[w[i]] = w[i + 1] /\ prev[w[i + 1]] = w[i]

LEMMA NodesAre == NodeBound \in Nat /\ None = 0 /\ None \notin Nodes /\ \A n \in Nodes : n \in Nat
BY ListAssumption DEF None, Nodes

LEMMA AtIs ==
  ASSUME NEW s \in Seq(Nodes), NEW i \in Int
  PROVE  At(s, i) \in Nodes \cup {None} /\ (At(s, i) # None <=> i \in 1 .. Len(s))
BY NodesAre, SeqIs DEF At

LEMMA PutAt ==
  ASSUME NEW s \in Seq(Nodes), NEW w \in Seq(Nodes), NEW a \in 0 .. Len(s),
         NEW i \in 0 .. Len(s) + Len(w) + 1
  PROVE  At(Put(s, a, w), i) = IF i <= a THEN At(s, i)
                               ELSE IF i <= a + Len(w) THEN w[i - a] ELSE At(s, i - Len(w))
<1>1. Len(s) \in Nat /\ Len(w) \in Nat
  BY SeqIs
<1>2. /\ Len(Put(s, a, w)) = Len(s) + Len(w)
      /\ \A k \in 1 .. Len(s) + Len(w) :
           Put(s, a, w)[k] = IF k <= a THEN s[k]
                             ELSE IF k <= a + Len(w) THEN w[k - a] ELSE s[k - Len(w)]
  BY PutIs
<1>. DEFINE u == Put(s, a, w)
<1>. HIDE DEF u
<1>3. CASE i \in 1 .. Len(s) + Len(w)
  <2>1. At(u, i) = u[i]
    BY <1>2, <1>3 DEF At, u
  <2>2. i <= a => i \in 1 .. Len(s)
    BY <1>1, <1>3
  <2>3. ~(i <= a + Len(w)) => i - Len(w) \in 1 .. Len(s)
    BY <1>1, <1>3
  <2> QED
    BY <1>2, <1>3, <2>1, <2>2, <2>3 DEF At, u
<1>4. CASE i = 0
  BY <1>1, <1>2, <1>4 DEF At
<1>5. CASE i = Len(s) + Len(w) + 1
  <2>1. ~(i <= a) /\ ~(i <= a + Len(w)) /\ i - Len(w) \notin 1 .. Len(s) /\ i \notin 1 .. Len(u)
    BY <1>1, <1>2, <1>5 DEF u
  <2> QED
    BY <2>1 DEF At, u
<1>6. i = 0 \/ i = Len(s) + Len(w) + 1 \/ i \in 1 .. Len(s) + Len(w)
  BY <1>1
<1> QED
  BY <1>3, <1>4, <1>5, <1>6

LEMMA CutAt ==
  ASSUME NEW s \in Seq(Nodes), NEW a \in Nat, NEW c \in Nat, a + c <= Len(s),
         NEW i \in 0 .. Len(s) - c + 1
  PROVE  At(Cut(s, a, c), i) = IF i <= a THEN At(s, i) ELSE At(s, i + c)
<1>1. Len(s) \in Nat
  BY SeqIs
<1>2. /\ Len(Cut(s, a, c)) = Len(s) - c
      /\ \A k \in 1 .. Len(s) - c : Cut(s, a, c)[k] = IF k <= a THEN s[k] ELSE s[k + c]
  <2>1. /\ Cut(s, a, c) \in Seq(Nodes) /\ Len(Cut(s, a, c)) = Len(s) - c
        /\ \A k \in 1 .. Len(s) - c : Cut(s, a, c)[k] = IF k <= a THEN s[k] ELSE s[k + c]
    BY CutIs
  <2> QED
    BY <2>1
<1>. DEFINE u == Cut(s, a, c)
<1>. HIDE DEF u
<1>3. CASE i \in 1 .. Len(s) - c
  <2>1. At(u, i) = u[i]
    BY <1>2, <1>3 DEF At, u
  <2>2. i \in 1 .. Len(s) /\ i + c \in 1 .. Len(s)
    BY <1>1, <1>3
  <2> QED
    BY <1>2, <1>3, <2>1, <2>2 DEF At, u
<1>4. CASE i = 0
  BY <1>1, <1>2, <1>4 DEF At
<1>5. CASE i = Len(s) - c + 1
  <2>1. ~(i <= a) /\ i + c \notin 1 .. Len(s) /\ i \notin 1 .. Len(u)
    BY <1>1, <1>2, <1>5 DEF u
  <2> QED
    BY <2>1 DEF At, u
<1>6. i = 0 \/ i = Len(s) - c + 1 \/ i \in 1 .. Len(s) - c
  BY <1>1
<1> QED
  BY <1>3, <1>4, <1>5, <1>6

LEMMA PutOn ==
  ASSUME NEW s \in Seq(Nodes), NEW w \in Seq(Nodes), NEW a \in 0 .. Len(s), NEW n
  PROVE  On(Put(s, a, w), n) <=> On(s, n) \/ On(w, n)
<1>1. Len(s) \in Nat /\ Len(w) \in Nat
  BY SeqIs
<1>. DEFINE u == Put(s, a, w)
<1>2. /\ Len(u) = Len(s) + Len(w)
      /\ \A k \in 1 .. Len(s) + Len(w) :
           u[k] = IF k <= a THEN s[k] ELSE IF k <= a + Len(w) THEN w[k - a] ELSE s[k - Len(w)]
  BY PutIs
<1>. HIDE DEF u
<1>3. ASSUME NEW i \in 1 .. Len(u)
      PROVE  On(s, u[i]) \/ On(w, u[i])
  <2>1. CASE i <= a
    <3>1. i \in 1 .. Len(s) /\ u[i] = s[i]
      BY <1>1, <1>2, <2>1
    <3> QED
      BY <3>1 DEF On
  <2>2. CASE ~(i <= a) /\ i <= a + Len(w)
    <3>1. i - a \in 1 .. Len(w) /\ u[i] = w[i - a]
      BY <1>1, <1>2, <2>2
    <3> QED
      BY <3>1 DEF On
  <2>3. CASE ~(i <= a) /\ ~(i <= a + Len(w))
    <3>1. i - Len(w) \in 1 .. Len(s) /\ u[i] = s[i - Len(w)]
      BY <1>1, <1>2, <2>3
    <3> QED
      BY <3>1 DEF On
  <2> QED
    BY <2>1, <2>2, <2>3
<1>4. ASSUME NEW i \in 1 .. Len(s)
      PROVE  On(u, s[i])
  <2>1. CASE i <= a
    <3>1. i \in 1 .. Len(u) /\ u[i] = s[i]
      BY <1>1, <1>2, <2>1
    <3> QED
      BY <3>1 DEF On
  <2>2. CASE ~(i <= a)
    <3>1. i + Len(w) \in 1 .. Len(u) /\ u[i + Len(w)] = s[i]
      <4>1. ~(i + Len(w) <= a + Len(w)) /\ ~(i + Len(w) <= a) /\ (i + Len(w)) - Len(w) = i
        BY <1>1, <2>2
      <4> QED
        BY <1>1, <1>2, <4>1
    <3> QED
      BY <3>1 DEF On
  <2> QED
    BY <2>1, <2>2
<1>5. ASSUME NEW i \in 1 .. Len(w)
      PROVE  On(u, w[i])
  <2>1. i + a \in 1 .. Len(u) /\ u[i + a] = w[i]
    <3>1. i + a <= a + Len(w) /\ ~(i + a <= a) /\ (i + a) - a = i
      BY <1>1
    <3> QED
      BY <1>1, <1>2, <3>1
  <2> QED
    BY <2>1 DEF On
<1>6. On(u, n) <=> On(s, n) \/ On(w, n)
  BY <1>3, <1>4, <1>5 DEF On
<1> QED
  BY <1>6 DEF u

LEMMA CutOn ==
  ASSUME NEW s \in Seq(Nodes), NEW a \in Nat, NEW c \in Nat, a + c <= Len(s), NEW n
  PROVE  On(s, n) <=> On(Cut(s, a, c), n) \/ On(Part(s, a, c), n)
<1>. DEFINE u == Cut(s, a, c)
            v == Part(s, a, c)
<1>1. Len(s) \in Nat
  BY SeqIs
<1>2. /\ Len(u) = Len(s) - c
      /\ \A k \in 1 .. Len(s) - c : u[k] = IF k <= a THEN s[k] ELSE s[k + c]
  BY CutIs
<1>3. Len(v) = c /\ \A k \in 1 .. c : v[k] = s[a + k]
  BY PartIs
<1>. HIDE DEF u, v
<1>4. ASSUME NEW i \in 1 .. Len(s)
      PROVE  On(u, s[i]) \/ On(v, s[i])
  <2>1. CASE i <= a
    <3>1. i \in 1 .. Len(u) /\ u[i] = s[i]
      BY <1>1, <1>2, <2>1
    <3> QED
      BY <3>1 DEF On
  <2>2. CASE ~(i <= a) /\ i <= a + c
    <3>1. i - a \in 1 .. c /\ a + (i - a) = i
      BY <1>1, <2>2
    <3>2. i - a \in 1 .. Len(v) /\ v[i - a] = s[i]
      BY <1>3, <3>1
    <3> QED
      BY <3>2 DEF On
  <2>3. CASE ~(i <= a + c)
    <3>1. i - c \in 1 .. Len(u) /\ ~(i - c <= a) /\ (i - c) + c = i
      BY <1>1, <1>2, <2>3
    <3>2. u[i - c] = s[i]
      BY <1>2, <3>1
    <3> QED
      BY <3>1, <3>2 DEF On
  <2>4. i <= a => i <= a + c
    BY <1>1
  <2> QED
    BY <2>1, <2>2, <2>3, <2>4
<1>5. ASSUME NEW i \in 1 .. Len(u)
      PROVE  On(s, u[i])
  <2>1. i \in 1 .. Len(s) /\ i + c \in 1 .. Len(s) /\ (u[i] = s[i] \/ u[i] = s[i + c])
    BY <1>1, <1>2
  <2> QED
    BY <2>1 DEF On
<1>6. ASSUME NEW i \in 1 .. Len(v)
      PROVE  On(s, v[i])
  <2>1. a + i \in 1 .. Len(s) /\ v[i] = s[a + i]
    BY <1>1, <1>3
  <2> QED
    BY <2>1 DEF On
<1>7. On(s, n) <=> On(u, n) \/ On(v, n)
  BY <1>4, <1>5, <1>6 DEF On
<1> QED
  BY <1>7 DEF u, v

\* Apart says that no node is on both.
LEMMA ApartIs ==
  ASSUME NEW s, NEW t
  PROVE  Apart(s, t) <=> \A n : ~(On(s, n) /\ On(t, n))
BY DEF Apart, On

LEMMA PutOnce ==
  ASSUME NEW s \in Seq(Nodes), NEW w \in Seq(Nodes), NEW a \in 0 .. Len(s),
         Once(s), Once(w), Apart(s, w)
  PROVE  Once(Put(s, a, w))
<1>1. Len(s) \in Nat /\ Len(w) \in Nat
  BY SeqIs
<1>. DEFINE u == Put(s, a, w)
<1>2. /\ Len(u) = Len(s) + Len(w)
      /\ \A k \in 1 .. Len(s) + Len(w) :
           u[k] = IF k <= a THEN s[k] ELSE IF k <= a + Len(w) THEN w[k - a] ELSE s[k - Len(w)]
  BY PutIs
<1>. HIDE DEF u
<1>. DEFINE InW(k) == ~(k <= a) /\ k <= a + Len(w)
            Of(k) == IF k <= a THEN k ELSE k - Len(w)
<1>3. \A k \in 1 .. Len(u) : InW(k) => k - a \in 1 .. Len(w) /\ u[k] = w[k - a]
  BY <1>1, <1>2
<1>4. \A k \in 1 .. Len(u) : ~InW(k) => Of(k) \in 1 .. Len(s) /\ u[k] = s[Of(k)]
  BY <1>1, <1>2
<1>5. \A j, k \in 1 .. Len(u) : ~InW(j) /\ ~InW(k) /\ Of(j) = Of(k) => j = k
  BY <1>1, <1>2
<1>6. \A j, k \in 1 .. Len(u) : j - a = k - a => j = k
  BY <1>1, <1>2
<1>. HIDE DEF InW, Of
<1>7. ASSUME NEW j \in 1 .. Len(u), NEW k \in 1 .. Len(u), u[j] = u[k]
      PROVE  j = k
  <2>1. CASE InW(j) /\ InW(k)
    BY <1>3, <1>6, <1>7, <2>1 DEF Once
  <2>2. CASE ~InW(j) /\ ~InW(k)
    BY <1>4, <1>5, <1>7, <2>2 DEF Once
  <2>3. CASE InW(j) /\ ~InW(k)
    BY <1>3, <1>4, <1>7, <2>3 DEF Apart
  <2>4. CASE ~InW(j) /\ InW(k)
    BY <1>3, <1>4, <1>7, <2>4 DEF Apart
  <2> QED
    BY <2>1, <2>2, <2>3, <2>4
<1> QED
  BY <1>7 DEF Once, u

LEMMA CutOnce ==
  ASSUME NEW s \in Seq(Nodes), NEW a \in Nat, NEW c \in Nat, a + c <= Len(s), Once(s)
  PROVE  Once(Cut(s, a, c)) /\ Once(Part(s, a, c)) /\ Apart(Cut(s, a, c), Part(s, a, c))
<1>. DEFINE u == Cut(s, a, c)
            v == Part(s, a, c)
            Of(k) == IF k <= a THEN k ELSE k + c
<1>1. Len(s) \in Nat
  BY SeqIs
<1>2. /\ Len(u) = Len(s) - c
      /\ \A k \in 1 .. Len(s) - c : u[k] = IF k <= a THEN s[k] ELSE s[k + c]
  BY CutIs
<1>3. Len(v) = c /\ \A k \in 1 .. c : v[k] = s[a + k]
  BY PartIs
<1>. HIDE DEF u, v
<1>4. \A k \in 1 .. Len(u) : Of(k) \in 1 .. Len(s) /\ u[k] = s[Of(k)]
  BY <1>1, <1>2
<1>5. \A k \in 1 .. Len(v) : a + k \in 1 .. Len(s) /\ v[k] = s[a + k]
  BY <1>1, <1>3
<1>6. \A j, k \in 1 .. Len(u) : Of(j) = Of(k) => j = k
  BY <1>1, <1>2
<1>7. \A j, k \in 1 .. Len(v) : a + j = a + k => j = k
  BY <1>1, <1>3
<1>8. \A j \in 1 .. Len(u), k \in 1 .. Len(v) : Of(j) # a + k
  BY <1>1, <1>2, <1>3
<1>. HIDE DEF Of
<1>9. Once(u)
  BY <1>4, <1>6 DEF Once
<1>10. Once(v)
  BY <1>5, <1>7 DEF Once
<1>11. Apart(u, v)
  BY <1>4, <1>5, <1>8 DEF Once, Apart
<1> QED
  BY <1>9, <1>10, <1>11 DEF u, v

-----------------------------------------------------------------------------
(* What attaching and detaching do to the links: w goes behind position a of *)
(* s, or the c nodes behind position a leave s.                              *)

Attached(next, prev, next2, prev2, s, a, w) ==
    /\ \A n \in Nodes : next2[n] = IF n = w[Len(w)] THEN At(s, a + 1)
                                   ELSE IF n = At(s, a) THEN w[1] ELSE next[n]
    /\ \A n \in Nodes : prev2[n] = IF n = w[1] THEN At(s, a)
                                   ELSE IF n = At(s, a + 1) THEN w[Len(w)] ELSE prev[n]

Detached(next, prev, next2, prev2, s, a, c) ==
    /\ \A n \in Nodes : next2[n] = IF n = s[a + c] THEN None
                                   ELSE IF n = At(s, a) THEN At(s, a + c + 1) ELSE next[n]
    /\ \A n \in Nodes : prev2[n] = IF n = s[a + 1] THEN None
                                   ELSE IF n = At(s, a + c + 1) THEN At(s, a) ELSE prev[n]

LEMMA OnceAt ==
  ASSUME NEW s \in Seq(Nodes), Once(s), NEW i \in 1 .. Len(s), NEW k \in Int, s[i] = At(s, k)
  PROVE  i = k
<1>1. s[i] \in Nodes /\ s[i] # None
  BY NodesAre, SeqIs
<1>2. k \in 1 .. Len(s) /\ At(s, k) = s[k]
  BY <1>1, AtIs DEF At
<1> QED
  BY <1>2 DEF Once

LEMMA AttachLinks ==
  ASSUME NEW s \in Seq(Nodes), NEW w \in Seq(Nodes), NEW a \in 0 .. Len(s), Len(w) > 0,
         Once(s), Once(w), Apart(s, w),
         NEW next, NEW prev, NEW next2, NEW prev2,
         Linked(next, prev, s), Chained(next, prev, w),
         Attached(next, prev, next2, prev2, s, a, w)
  PROVE  Linked(next2, prev2, Put(s, a, w))
<1>. DEFINE u == Put(s, a, w)
            m == Len(w)
            n == Len(s)
<1>1. n \in Nat /\ m \in Nat /\ m > 0 /\ a \in Nat /\ a <= n
  BY SeqIs
<1>2. /\ Len(u) = n + m
      /\ \A k \in 1 .. n + m :
           u[k] = IF k <= a THEN s[k] ELSE IF k <= a + m THEN w[k - a] ELSE s[k - m]
  BY PutIs
<1>3. \A k \in 0 .. n + m + 1 :
        At(u, k) = IF k <= a THEN At(s, k) ELSE IF k <= a + m THEN w[k - a] ELSE At(s, k - m)
  BY PutAt
<1>4. /\ \A k \in 1 .. n : s[k] \in Nodes /\ s[k] # None /\ At(s, k) = s[k]
      /\ \A k \in 1 .. m : w[k] \in Nodes /\ w[k] # None
  BY NodesAre, SeqIs DEF At
<1>5. \A k \in 1 .. n, j \in 1 .. m : s[k] # w[j]
  BY DEF Apart
<1>6. \A k \in Int, j \in 1 .. m : At(s, k) # w[j]
  BY <1>4, <1>5 DEF At
<1>7. \A k \in 1 .. n, j \in Int : s[k] = At(s, j) => k = j
  BY OnceAt
<1>8. \A j, k \in 1 .. m : w[j] = w[k] => j = k
  BY DEF Once
<1>9. 1 \in 1 .. m /\ m \in 1 .. m
  BY <1>1
<1>. HIDE DEF u
<1>10. ASSUME NEW i \in 1 .. n + m
       PROVE  next2[u[i]] = At(u, i + 1)
  <2>1. i + 1 \in 0 .. n + m + 1
    BY <1>1
  <2>2. CASE i < a
    <3>1. i \in 1 .. n /\ i <= a /\ i + 1 <= a /\ i # a
      BY <1>1, <2>2
    <3>2. u[i] = s[i] /\ At(u, i + 1) = At(s, i + 1)
      BY <1>2, <1>3, <2>1, <3>1
    <3>3. next2[s[i]] = next[s[i]]
      BY <1>1, <1>4, <1>5, <1>7, <1>9, <3>1 DEF Attached
    <3> QED
      BY <3>1, <3>2, <3>3 DEF Linked
  <2>3. CASE i = a
    <3>1. i \in 1 .. n /\ i <= a /\ ~(i + 1 <= a) /\ i + 1 <= a + m /\ (i + 1) - a = 1
      BY <1>1, <2>3
    <3>2. u[i] = s[i] /\ At(u, i + 1) = w[1]
      BY <1>2, <1>3, <2>1, <3>1
    <3>3. next2[s[i]] = w[1]
      BY <1>1, <1>4, <1>5, <1>9, <2>3, <3>1 DEF Attached
    <3> QED
      BY <3>2, <3>3
  <2>4. CASE a < i /\ i < a + m
    <3>1. /\ ~(i <= a) /\ i <= a + m /\ ~(i + 1 <= a) /\ i + 1 <= a + m
          /\ i - a \in 1 .. m - 1 /\ i - a \in 1 .. m /\ (i - a) + 1 = (i + 1) - a /\ i - a # m
      BY <1>1, <2>4
    <3>2. u[i] = w[i - a] /\ At(u, i + 1) = w[(i - a) + 1]
      BY <1>2, <1>3, <2>1, <3>1
    <3>3. next2[w[i - a]] = next[w[i - a]]
      BY <1>1, <1>4, <1>6, <1>8, <1>9, <3>1 DEF Attached
    <3> QED
      BY <3>1, <3>2, <3>3 DEF Chained
  <2>5. CASE i = a + m
    <3>1. /\ ~(i <= a) /\ i <= a + m /\ ~(i + 1 <= a) /\ ~(i + 1 <= a + m)
          /\ i - a = m /\ (i + 1) - m = a + 1
      BY <1>1, <2>5
    <3>2. u[i] = w[m] /\ At(u, i + 1) = At(s, a + 1)
      BY <1>2, <1>3, <2>1, <3>1
    <3>3. next2[w[m]] = At(s, a + 1)
      BY <1>4, <1>9 DEF Attached
    <3> QED
      BY <3>2, <3>3
  <2>6. CASE i > a + m
    <3>1. /\ ~(i <= a) /\ ~(i <= a + m) /\ ~(i + 1 <= a) /\ ~(i + 1 <= a + m)
          /\ i - m \in 1 .. n /\ i - m # a /\ (i + 1) - m = (i - m) + 1
      BY <1>1, <2>6
    <3>2. u[i] = s[i - m] /\ At(u, i + 1) = At(s, (i - m) + 1)
      BY <1>2, <1>3, <2>1, <3>1
    <3>3. next2[s[i - m]] = next[s[i - m]]
      <4>1. s[i - m] \in Nodes /\ s[i - m] # w[m]
        BY <1>4, <1>5, <1>9, <3>1
      <4>2. s[i - m] # At(s, a)
        BY <1>1, <1>7, <3>1
      <4> QED
        BY <4>1, <4>2 DEF Attached
    <3> QED
      BY <3>1, <3>2, <3>3 DEF Linked
  <2>7. i < a \/ i = a \/ (a < i /\ i < a + m) \/ i = a + m \/ i > a + m
    BY <1>1
  <2> QED
    BY <2>2, <2>3, <2>4, <2>5, <2>6, <2>7
<1>11. ASSUME NEW i \in 1 .. n + m
       PROVE  prev2[u[i]] = At(u, i - 1)
  <2>1. i - 1 \in 0 .. n + m + 1
    BY <1>1
  <2>2. CASE i <= a
    <3>1. i \in 1 .. n /\ i - 1 <= a /\ i # a + 1
      BY <1>1, <2>2
    <3>2. u[i] = s[i] /\ At(u, i - 1) = At(s, i - 1)
      BY <1>2, <1>3, <2>1, <2>2, <3>1
    <3>3. prev2[s[i]] = prev[s[i]]
      BY <1>1, <1>4, <1>5, <1>7, <1>9, <3>1 DEF Attached
    <3> QED
      BY <3>1, <3>2, <3>3 DEF Linked
  <2>3. CASE i = a + 1
    <3>1. ~(i <= a) /\ i <= a + m /\ i - 1 <= a /\ i - a = 1 /\ i - 1 = a
      BY <1>1, <2>3
    <3>2. u[i] = w[1] /\ At(u, i - 1) = At(s, a)
      BY <1>2, <1>3, <2>1, <3>1
    <3>3. prev2[w[1]] = At(s, a)
      BY <1>4, <1>9 DEF Attached
    <3> QED
      BY <3>2, <3>3
  <2>4. CASE a + 1 < i /\ i <= a + m
    <3>1. /\ ~(i <= a) /\ ~(i - 1 <= a) /\ i - 1 <= a + m /\ (i - 1) - a \in 1 .. m - 1
          /\ ((i - 1) - a) + 1 = i - a /\ i - a \in 1 .. m /\ i - a # 1
      BY <1>1, <2>4
    <3>2. u[i] = w[i - a] /\ At(u, i - 1) = w[(i - 1) - a]
      BY <1>2, <1>3, <2>1, <2>4, <3>1
    <3>3. prev2[w[i - a]] = prev[w[i - a]]
      BY <1>1, <1>4, <1>6, <1>8, <1>9, <3>1 DEF Attached
    <3>4. prev[w[((i - 1) - a) + 1]] = w[(i - 1) - a]
      BY <3>1 DEF Chained
    <3> QED
      BY <3>1, <3>2, <3>3, <3>4
  <2>5. CASE i = a + m + 1
    <3>1. /\ ~(i <= a) /\ ~(i <= a + m) /\ ~(i - 1 <= a) /\ i - 1 <= a + m
          /\ i - m = a + 1 /\ (i - 1) - a = m /\ a + 1 \in 1 .. n
      BY <1>1, <2>5
    <3>2. u[i] = s[a + 1] /\ At(u, i - 1) = w[m]
      BY <1>2, <1>3, <2>1, <3>1
    <3>3. prev2[s[a + 1]] = w[m]
      BY <1>1, <1>4, <1>5, <1>9, <3>1 DEF Attached
    <3> QED
      BY <3>2, <3>3
  <2>6. CASE i > a + m + 1
    <3>1. /\ ~(i <= a) /\ ~(i <= a + m) /\ ~(i - 1 <= a) /\ ~(i - 1 <= a + m)
          /\ i - m \in 1 .. n /\ i - m # a + 1 /\ (i - 1) - m = (i - m) - 1
      BY <1>1, <2>6
    <3>2. u[i] = s[i - m] /\ At(u, i - 1) = At(s, (i - m) - 1)
      BY <1>2, <1>3, <2>1, <3>1
    <3>3. prev2[s[i - m]] = prev[s[i - m]]
      <4>1. s[i - m] \in Nodes /\ s[i - m] # w[1]
        BY <1>4, <1>5, <1>9, <3>1
      <4>2. s[i - m] # At(s, a + 1)
        BY <1>1, <1>7, <3>1
      <4> QED
        BY <4>1, <4>2 DEF Attached
    <3> QED
      BY <3>1, <3>2, <3>3 DEF Linked
  <2>7. i <= a \/ i = a + 1 \/ (a + 1 < i /\ i <= a + m) \/ i = a + m + 1 \/ i > a + m + 1
    BY <1>1
  <2> QED
    BY <2>2, <2>3, <2>4, <2>5, <2>6, <2>7
<1>12. Linked(next2, prev2, u)
  BY <1>2, <1>10, <1>11 DEF Linked
<1> QED
  BY <1>12 DEF u

LEMMA DetachLinks ==
  ASSUME NEW s \in Seq(Nodes), NEW a \in Nat, NEW c \in Nat, c > 0, a + c <= Len(s), Once(s),
         NEW next, NEW prev, NEW next2, NEW prev2, Linked(next, prev, s),
         Detached(next, prev, next2, prev2, s, a, c)
  PROVE  Linked(next2, prev2, Cut(s, a, c)) /\ Chained(next2, prev2, Part(s, a, c))
<1>. DEFINE u == Cut(s, a, c)
            v == Part(s, a, c)
            n == Len(s)
<1>1. n \in Nat
  BY SeqIs
<1>2. Len(u) = n - c /\ \A k \in 1 .. n - c : u[k] = IF k <= a THEN s[k] ELSE s[k + c]
  BY CutIs
<1>3. \A k \in 0 .. n - c + 1 : At(u, k) = IF k <= a THEN At(s, k) ELSE At(s, k + c)
  BY CutAt
<1>4. Len(v) = c /\ \A k \in 1 .. c : v[k] = s[a + k]
  BY PartIs
<1>5. \A k \in 1 .. n : s[k] \in Nodes /\ s[k] # None /\ At(s, k) = s[k]
  BY NodesAre, SeqIs DEF At
<1>6. \A k \in 1 .. n, j \in Int : s[k] = At(s, j) => k = j
  BY OnceAt
<1>7. \A j, k \in 1 .. n : s[j] = s[k] => j = k
  BY DEF Once
<1>8. a + 1 \in 1 .. n /\ a + c \in 1 .. n
  BY <1>1
<1>. HIDE DEF u, v
<1>9. ASSUME NEW i \in 1 .. n - c
      PROVE  next2[u[i]] = At(u, i + 1)
  <2>1. i + 1 \in 0 .. n - c + 1
    BY <1>1
  <2>2. CASE i < a
    <3>1. i \in 1 .. n /\ i <= a /\ i + 1 <= a /\ i # a + c /\ i # a
      BY <1>1, <2>2
    <3>2. u[i] = s[i] /\ At(u, i + 1) = At(s, i + 1)
      BY <1>2, <1>3, <2>1, <3>1
    <3>3. next2[s[i]] = next[s[i]]
      BY <1>1, <1>5, <1>6, <1>7, <1>8, <3>1 DEF Detached
    <3> QED
      BY <3>1, <3>2, <3>3 DEF Linked
  <2>3. CASE i = a
    <3>1. i \in 1 .. n /\ i <= a /\ ~(i + 1 <= a) /\ i # a + c /\ (i + 1) + c = a + c + 1
      BY <1>1, <2>3
    <3>2. u[i] = s[i] /\ At(u, i + 1) = At(s, a + c + 1)
      BY <1>2, <1>3, <2>1, <3>1
    <3>3. next2[s[i]] = At(s, a + c + 1)
      BY <1>1, <1>5, <1>7, <1>8, <2>3, <3>1 DEF Detached
    <3> QED
      BY <3>2, <3>3
  <2>4. CASE i > a
    <3>1. i + c \in 1 .. n /\ ~(i <= a) /\ ~(i + 1 <= a) /\ i + c # a + c /\ i + c # a
      BY <1>1, <2>4
    <3>2. u[i] = s[i + c] /\ At(u, i + 1) = At(s, (i + 1) + c) /\ (i + 1) + c = (i + c) + 1
      BY <1>2, <1>3, <2>1, <3>1
    <3>3. next2[s[i + c]] = next[s[i + c]]
      BY <1>1, <1>5, <1>6, <1>7, <1>8, <3>1 DEF Detached
    <3> QED
      BY <3>1, <3>2, <3>3 DEF Linked
  <2> QED
    BY <1>1, <2>2, <2>3, <2>4
<1>10. ASSUME NEW i \in 1 .. n - c
       PROVE  prev2[u[i]] = At(u, i - 1)
  <2>1. i - 1 \in 0 .. n - c + 1
    BY <1>1
  <2>2. CASE i <= a
    <3>1. i \in 1 .. n /\ i - 1 <= a /\ i # a + 1 /\ i # a + c + 1
      BY <1>1, <2>2
    <3>2. u[i] = s[i] /\ At(u, i - 1) = At(s, i - 1)
      BY <1>2, <1>3, <2>1, <2>2, <3>1
    <3>3. prev2[s[i]] = prev[s[i]]
      BY <1>1, <1>5, <1>6, <1>7, <1>8, <3>1 DEF Detached
    <3> QED
      BY <3>1, <3>2, <3>3 DEF Linked
  <2>3. CASE i = a + 1
    <3>1. i + c \in 1 .. n /\ ~(i <= a) /\ i - 1 <= a /\ i + c # a + 1 /\ i + c = a + c + 1
      BY <1>1, <2>3
    <3>2. u[i] = s[i + c] /\ At(u, i - 1) = At(s, a)
      BY <1>2, <1>3, <2>1, <2>3, <3>1
    <3>3. prev2[s[i + c]] = At(s, a)
      BY <1>1, <1>5, <1>7, <1>8, <3>1 DEF Detached
    <3> QED
      BY <3>2, <3>3
  <2>4. CASE i > a + 1
    <3>1. /\ i + c \in 1 .. n /\ ~(i <= a) /\ ~(i - 1 <= a) /\ i + c # a + 1
          /\ i + c # a + c + 1
      BY <1>1, <2>4
    <3>2. u[i] = s[i + c] /\ At(u, i - 1) = At(s, (i - 1) + c) /\ (i - 1) + c = (i + c) - 1
      BY <1>2, <1>3, <2>1, <3>1
    <3>3. prev2[s[i + c]] = prev[s[i + c]]
      BY <1>1, <1>5, <1>6, <1>7, <1>8, <3>1 DEF Detached
    <3> QED
      BY <3>1, <3>2, <3>3 DEF Linked
  <2> QED
    BY <1>1, <2>2, <2>3, <2>4
<1>11. ASSUME NEW i \in 1 .. c - 1
       PROVE  next2[v[i]] = v[i + 1] /\ prev2[v[i + 1]] = v[i]
  <2>1. /\ i \in 1 .. c /\ i + 1 \in 1 .. c /\ a + i \in 1 .. n /\ a + (i + 1) \in 1 .. n
        /\ a + (i + 1) = (a + i) + 1 /\ a + i # a + c /\ a + i # a /\ (a + i) + 1 # a + 1
        /\ (a + i) + 1 # a + c + 1 /\ ((a + i) + 1) - 1 = a + i
    BY <1>1
  <2>2. v[i] = s[a + i] /\ v[i + 1] = s[(a + i) + 1]
    BY <1>4, <2>1
  <2>3. next2[s[a + i]] = next[s[a + i]]
    BY <1>1, <1>5, <1>6, <1>7, <1>8, <2>1 DEF Detached
  <2>4. prev2[s[(a + i) + 1]] = prev[s[(a + i) + 1]]
    BY <1>1, <1>5, <1>6, <1>7, <1>8, <2>1 DEF Detached
  <2>5. next[s[a + i]] = At(s, (a + i) + 1) /\ prev[s[(a + i) + 1]] = At(s, ((a + i) + 1) - 1)
    BY <2>1 DEF Linked
  <2> QED
    BY <1>5, <2>1, <2>2, <2>3, <2>4, <2>5
<1>12. Linked(next2, prev2, u)
  BY <1>2, <1>9, <1>10 DEF Linked
<1>13. Chained(next2, prev2, v)
  BY <1>4, <1>11 DEF Chained
<1> QED
  BY <1>12, <1>13 DEF u, v

\* The links of a sequence of other nodes stay as they are.
LEMMA OthersAttach ==
  ASSUME NEW s \in Seq(Nodes), NEW w \in Seq(Nodes), NEW a \in 0 .. Len(s), Len(w) > 0,
         NEW t \in Seq(Nodes), Apart(s, t), Apart(t, w),
         NEW next, NEW prev, NEW next2, NEW prev2,
         Linked(next, prev, t), Attached(next, prev, next2, prev2, s, a, w)
  PROVE  Linked(next2, prev2, t)
<1>1. Len(w) \in Nat /\ 1 \in 1 .. Len(w) /\ Len(w) \in 1 .. Len(w) /\ a \in Int /\ a + 1 \in Int
  BY SeqIs
<1>2. \A i \in 1 .. Len(t) : t[i] \in Nodes /\ t[i] # None
  BY NodesAre, SeqIs
<1>3. \A i \in 1 .. Len(t) : t[i] # w[1] /\ t[i] # w[Len(w)]
  BY <1>1 DEF Apart
<1>4. \A i \in 1 .. Len(t), k \in Int : At(s, k) # t[i]
  BY <1>2 DEF Apart, At
<1>5. \A i \in 1 .. Len(t) : next2[t[i]] = next[t[i]] /\ prev2[t[i]] = prev[t[i]]
  BY <1>1, <1>2, <1>3, <1>4 DEF Attached
<1> QED
  BY <1>5 DEF Linked

LEMMA OthersDetach ==
  ASSUME NEW s \in Seq(Nodes), NEW a \in Nat, NEW c \in Nat, c > 0, a + c <= Len(s),
         NEW t \in Seq(Nodes), Apart(s, t),
         NEW next, NEW prev, NEW next2, NEW prev2,
         Linked(next, prev, t), Detached(next, prev, next2, prev2, s, a, c)
  PROVE  Linked(next2, prev2, t)
<1>1. Len(s) \in Nat /\ a + 1 \in 1 .. Len(s) /\ a + c \in 1 .. Len(s) /\ a + c + 1 \in Int
  BY SeqIs
<1>2. \A i \in 1 .. Len(t) : t[i] \in Nodes /\ t[i] # None
  BY NodesAre, SeqIs
<1>3. \A i \in 1 .. Len(t) : t[i] # s[a + 1] /\ t[i] # s[a + c]
  BY <1>1 DEF Apart
<1>4. \A i \in 1 .. Len(t), k \in Int : At(s, k) # t[i]
  BY <1>2 DEF Apart, At
<1>5. \A i \in 1 .. Len(t) : next2[t[i]] = next[t[i]] /\ prev2[t[i]] = prev[t[i]]
  BY <1>1, <1>2, <1>3, <1>4 DEF Detached
<1> QED
  BY <1>5 DEF Linked

-----------------------------------------------------------------------------
(* A heap h whose lists D are the sequences S of nodes, and in which the     *)
(* nodes of w are on no list.                                                *)

Typed(h, D) ==
    h \in [live : SUBSET Nodes, next : [Nodes -> Nodes \cup {None}],
           prev : [Nodes -> Nodes \cup {None}], data : [Nodes -> Items],
           list : [D -> [head : Nodes \cup {None}, tail : Nodes \cup {None}, count : Int]]]
Rows(D, S, w) ==
    /\ S \in [D -> Seq(Nodes)] /\ w \in Seq(Nodes) /\ Once(w)
    /\ \A l \in D : Once(S[l]) /\ Apart(S[l], w)
    /\ \A k, l \in D : k # l => Apart(S[k], S[l])
Ends(r, s) == r.head = At(s, 1) /\ r.tail = At(s, Len(s)) /\ r.count = Len(s)
Held(D, S, w, n) == On(w, n) \/ \E l \in D : On(S[l], n)
Good(h, D, S, w) ==
    /\ Typed(h, D)
    /\ Rows(D, S, w)
    /\ \A l \in D : Linked(h.next, h.prev, S[l]) /\ Ends(h.list[l], S[l])
    /\ Chained(h.next, h.prev, w)
    /\ \A n \in Nodes : n \in h.live <=> Held(D, S, w, n)

LEMMA TypedIs ==
  ASSUME NEW h, NEW D, Typed(h, D)
  PROVE  /\ h.live \subseteq Nodes
         /\ \A n \in Nodes : /\ h.next[n] \in Nodes \cup {None} /\ h.prev[n] \in Nodes \cup {None}
                             /\ h.data[n] \in Items
         /\ Maps(h.data, Nodes, Items)
         /\ \A l \in D : /\ h.list[l].head \in Nodes \cup {None}
                         /\ h.list[l].tail \in Nodes \cup {None} /\ h.list[l].count \in Int
BY DEF Typed, Maps

Empty == <<>>

LEMMA EmptyIs ==
  /\ Empty \in Seq(Nodes) /\ Len(Empty) = 0 /\ Once(Empty)
  /\ \A n : ~On(Empty, n)
  /\ \A s : Apart(s, Empty) /\ Apart(Empty, s)
  /\ \A i \in Int : At(Empty, i) = None
  /\ \A next, prev : Chained(next, prev, Empty) /\ Linked(next, prev, Empty)
<1>1. Empty \in Seq(Nodes) /\ Len(Empty) = 0
  BY DEF Empty
<1>. \A i \in 1 .. 0 : FALSE
  OBVIOUS
<1> QED
  BY <1>1 DEF Once, On, Apart, At, Chained, Linked

PutIn(S, l, a, w) == [S EXCEPT ![l] = Put(S[l], a, w)]
CutFrom(S, l, a, c) == [S EXCEPT ![l] = Cut(S[l], a, c)]

LEMMA AttachRows ==
  ASSUME NEW D, NEW S, NEW w, Rows(D, S, w), NEW l \in D, NEW a \in 0 .. Len(S[l])
  PROVE  /\ Rows(D, PutIn(S, l, a, w), Empty)
         /\ \A n : Held(D, PutIn(S, l, a, w), Empty, n) <=> Held(D, S, w, n)
<1>. DEFINE u == Put(S[l], a, w)
            R == [S EXCEPT ![l] = u]
<1>1. S \in [D -> Seq(Nodes)] /\ S[l] \in Seq(Nodes) /\ w \in Seq(Nodes) /\ Once(S[l]) /\ Once(w)
  BY DEF Rows
<1>2. u \in Seq(Nodes)
  BY <1>1, PutIs
<1>3. Once(u)
  BY <1>1, PutOnce DEF Rows
<1>4. \A n : On(u, n) <=> On(S[l], n) \/ On(w, n)
  BY <1>1, PutOn
<1>. HIDE DEF u
<1>5. R \in [D -> Seq(Nodes)] /\ R[l] = u /\ \A k \in D \ {l} : R[k] = S[k]
  BY <1>1, <1>2
<1>. HIDE DEF R
<1>6. ASSUME NEW k \in D, k # l
      PROVE  Apart(u, R[k]) /\ Apart(R[k], u)
  <2>1. Apart(S[l], S[k]) /\ Apart(S[k], w) /\ R[k] = S[k]
    BY <1>5, <1>6 DEF Rows
  <2> QED
    BY <1>4, <2>1, ApartIs
<1>7. \A k \in D : Once(R[k])
  BY <1>3, <1>5 DEF Rows
<1>8. ASSUME NEW j \in D, NEW k \in D, j # k
      PROVE  Apart(R[j], R[k])
  <2>1. CASE j = l
    BY <1>5, <1>6, <1>8, <2>1
  <2>2. CASE k = l
    BY <1>5, <1>6, <1>8, <2>2
  <2>3. CASE j # l /\ k # l
    <3>1. R[j] = S[j] /\ R[k] = S[k]
      BY <1>5, <2>3
    <3> QED
      BY <1>8, <3>1 DEF Rows
  <2> QED
    BY <2>1, <2>2, <2>3
<1>9. Rows(D, R, Empty)
  BY <1>5, <1>7, <1>8, EmptyIs DEF Rows
<1>10. ASSUME NEW n
       PROVE  Held(D, R, Empty, n) <=> Held(D, S, w, n)
  <2>1. \A k \in D : On(R[k], n) => On(S[k], n) \/ On(w, n)
    BY <1>4, <1>5
  <2>2. \A k \in D : On(S[k], n) => On(R[k], n)
    BY <1>4, <1>5
  <2>3. On(w, n) => On(R[l], n)
    BY <1>4, <1>5
  <2> QED
    BY <2>1, <2>2, <2>3, EmptyIs DEF Held
<1> QED
  BY <1>9, <1>10 DEF R, u, PutIn

LEMMA DetachRows ==
  ASSUME NEW D, NEW S, Rows(D, S, Empty), NEW l \in D,
         NEW a \in Nat, NEW c \in Nat, a + c <= Len(S[l])
  PROVE  /\ Rows(D, CutFrom(S, l, a, c), Part(S[l], a, c))
         /\ \A n : Held(D, CutFrom(S, l, a, c), Part(S[l], a, c), n)
                     <=> Held(D, S, Empty, n)
<1>. DEFINE u == Cut(S[l], a, c)
            v == Part(S[l], a, c)
            R == [S EXCEPT ![l] = u]
<1>1. S \in [D -> Seq(Nodes)] /\ S[l] \in Seq(Nodes) /\ Once(S[l])
  BY DEF Rows
<1>2. u \in Seq(Nodes) /\ v \in Seq(Nodes)
  BY <1>1, CutIs, PartIs
<1>3. Once(u) /\ Once(v) /\ Apart(u, v)
  BY <1>1, CutOnce
<1>4. \A n : On(S[l], n) <=> On(u, n) \/ On(v, n)
  BY <1>1, CutOn
<1>. HIDE DEF u, v
<1>5. R \in [D -> Seq(Nodes)] /\ R[l] = u /\ \A k \in D \ {l} : R[k] = S[k]
  BY <1>1, <1>2
<1>. HIDE DEF R
<1>6. ASSUME NEW k \in D, k # l
      PROVE  Apart(u, R[k]) /\ Apart(R[k], u) /\ Apart(R[k], v)
  <2>1. Apart(S[l], S[k]) /\ R[k] = S[k]
    BY <1>5, <1>6 DEF Rows
  <2> QED
    BY <1>4, <2>1, ApartIs
<1>7. \A k \in D : Once(R[k]) /\ Apart(R[k], v)
  BY <1>3, <1>5, <1>6 DEF Rows
<1>8. ASSUME NEW j \in D, NEW k \in D, j # k
      PROVE  Apart(R[j], R[k])
  <2>1. CASE j = l
    BY <1>5, <1>6, <1>8, <2>1
  <2>2. CASE k = l
    BY <1>5, <1>6, <1>8, <2>2
  <2>3. CASE j # l /\ k # l
    <3>1. R[j] = S[j] /\ R[k] = S[k]
      BY <1>5, <2>3
    <3> QED
      BY <1>8, <3>1 DEF Rows
  <2> QED
    BY <2>1, <2>2, <2>3
<1>9. Rows(D, R, v)
  BY <1>2, <1>3, <1>5, <1>7, <1>8 DEF Rows
<1>10. ASSUME NEW n
       PROVE  Held(D, R, v, n) <=> Held(D, S, Empty, n)
  <2>1. \A k \in D : On(S[k], n) => On(R[k], n) \/ On(v, n)
    BY <1>4, <1>5
  <2>2. \A k \in D : On(R[k], n) => On(S[k], n)
    BY <1>4, <1>5
  <2>3. On(v, n) => On(S[l], n)
    BY <1>4
  <2> QED
    BY <2>1, <2>2, <2>3, EmptyIs DEF Held
<1> QED
  BY <1>9, <1>10 DEF R, u, v, CutFrom

LEMMA Attach ==
  ASSUME NEW h, NEW D, NEW S, NEW w, Good(h, D, S, w), Len(w) > 0,
         NEW l \in D, NEW a \in 0 .. Len(S[l]),
         NEW g, Typed(g, D), g.live = h.live,
         Attached(h.next, h.prev, g.next, g.prev, S[l], a, w),
         \A k \in D \ {l} : g.list[k] = h.list[k],
         g.list[l].head = IF At(S[l], a) = None THEN w[1] ELSE h.list[l].head,
         g.list[l].tail = IF At(S[l], a + 1) = None THEN w[Len(w)] ELSE h.list[l].tail,
         g.list[l].count = h.list[l].count + Len(w)
  PROVE  Good(g, D, PutIn(S, l, a, w), Empty)
<1>. DEFINE u == Put(S[l], a, w)
            R == [S EXCEPT ![l] = u]
<1>1. Rows(D, S, w) /\ S[l] \in Seq(Nodes) /\ w \in Seq(Nodes) /\ Once(S[l]) /\ Once(w)
      /\ Apart(S[l], w) /\ S \in [D -> Seq(Nodes)]
  BY DEF Good, Rows
<1>2. Rows(D, R, Empty) /\ \A n : Held(D, R, Empty, n) <=> Held(D, S, w, n)
  BY <1>1, AttachRows DEF PutIn
<1>3. Linked(g.next, g.prev, u)
  BY <1>1, AttachLinks DEF Good
<1>4. Len(S[l]) \in Nat /\ Len(w) \in Nat /\ a \in Nat
  BY <1>1, SeqIs
<1>5. /\ Len(u) = Len(S[l]) + Len(w)
      /\ \A i \in 0 .. Len(S[l]) + Len(w) + 1 :
           At(u, i) = IF i <= a THEN At(S[l], i)
                      ELSE IF i <= a + Len(w) THEN w[i - a] ELSE At(S[l], i - Len(w))
  BY <1>1, PutIs, PutAt
<1>. HIDE DEF u
<1>6. R[l] = u /\ \A k \in D \ {l} : R[k] = S[k]
  BY <1>1
<1>. HIDE DEF R
<1>7. Ends(h.list[l], S[l])
  BY DEF Good
<1>8. At(u, 1) = g.list[l].head
  <2>1. CASE a = 0
    <3>1. /\ At(S[l], a) = None /\ 1 \in 0 .. Len(S[l]) + Len(w) + 1 /\ ~(1 <= a)
          /\ 1 <= a + Len(w) /\ 1 - a = 1
      BY <1>4, <2>1 DEF At
    <3> QED
      BY <1>5, <3>1
  <2>2. CASE a # 0
    <3>1. a \in 1 .. Len(S[l]) /\ 1 \in 0 .. Len(S[l]) + Len(w) + 1 /\ 1 <= a
      BY <1>4, <2>2
    <3>2. At(S[l], a) # None
      BY <1>1, <1>4, <3>1, AtIs
    <3> QED
      BY <1>5, <1>7, <3>1, <3>2 DEF Ends
  <2> QED
    BY <2>1, <2>2
<1>9. At(u, Len(u)) = g.list[l].tail
  <2>1. CASE a = Len(S[l])
    <3>1. /\ At(S[l], a + 1) = None /\ Len(u) \in 0 .. Len(S[l]) + Len(w) + 1
          /\ ~(Len(u) <= a) /\ Len(u) <= a + Len(w) /\ Len(u) - a = Len(w)
      BY <1>4, <1>5, <2>1 DEF At
    <3> QED
      BY <1>5, <3>1
  <2>2. CASE a # Len(S[l])
    <3>1. /\ a + 1 \in 1 .. Len(S[l]) /\ Len(u) \in 0 .. Len(S[l]) + Len(w) + 1
          /\ ~(Len(u) <= a) /\ ~(Len(u) <= a + Len(w)) /\ Len(u) - Len(w) = Len(S[l])
      BY <1>4, <1>5, <2>2
    <3>2. At(S[l], a + 1) # None
      BY <1>1, <1>4, <3>1, AtIs
    <3> QED
      BY <1>5, <1>7, <3>1, <3>2 DEF Ends
  <2> QED
    BY <2>1, <2>2
<1>10. Ends(g.list[l], u)
  BY <1>4, <1>5, <1>7, <1>8, <1>9 DEF Ends
<1>11. ASSUME NEW k \in D, k # l
       PROVE  Linked(g.next, g.prev, S[k]) /\ Ends(g.list[k], S[k])
  <2>1. S[k] \in Seq(Nodes) /\ Apart(S[l], S[k]) /\ Apart(S[k], w)
    BY <1>11 DEF Good, Rows
  <2>2. Linked(h.next, h.prev, S[k]) /\ Ends(h.list[k], S[k]) /\ g.list[k] = h.list[k]
    BY <1>11 DEF Good
  <2>3. Linked(g.next, g.prev, S[k])
    BY <1>1, <2>1, <2>2, OthersAttach
  <2> QED
    BY <2>2, <2>3
<1>12. \A k \in D : Linked(g.next, g.prev, R[k]) /\ Ends(g.list[k], R[k])
  BY <1>3, <1>6, <1>10, <1>11
<1>13. \A n \in Nodes : n \in g.live <=> Held(D, R, Empty, n)
  BY <1>2 DEF Good
<1>14. Good(g, D, R, Empty)
  BY <1>2, <1>12, <1>13, EmptyIs DEF Good
<1> QED
  BY <1>14 DEF R, u, PutIn

LEMMA Detach ==
  ASSUME NEW h, NEW D, NEW S, Good(h, D, S, Empty),
         NEW l \in D, NEW a \in Nat, NEW c \in Nat, c > 0, a + c <= Len(S[l]),
         NEW g, Typed(g, D), g.live = h.live,
         Detached(h.next, h.prev, g.next, g.prev, S[l], a, c),
         \A k \in D \ {l} : g.list[k] = h.list[k],
         g.list[l].head = IF At(S[l], a) = None THEN At(S[l], a + c + 1) ELSE h.list[l].head,
         g.list[l].tail = IF At(S[l], a + c + 1) = None THEN At(S[l], a) ELSE h.list[l].tail,
         g.list[l].count = h.list[l].count - c
  PROVE  Good(g, D, CutFrom(S, l, a, c), Part(S[l], a, c))
<1>. DEFINE u == Cut(S[l], a, c)
            v == Part(S[l], a, c)
            R == [S EXCEPT ![l] = u]
<1>1. Rows(D, S, Empty) /\ S[l] \in Seq(Nodes) /\ Once(S[l]) /\ S \in [D -> Seq(Nodes)]
  BY DEF Good, Rows
<1>2. Rows(D, R, v) /\ \A n : Held(D, R, v, n) <=> Held(D, S, Empty, n)
  BY <1>1, DetachRows DEF CutFrom
<1>3. Linked(g.next, g.prev, u) /\ Chained(g.next, g.prev, v)
  BY <1>1, DetachLinks DEF Good
<1>4. Len(S[l]) \in Nat
  BY <1>1, SeqIs
<1>5. /\ Len(u) = Len(S[l]) - c
      /\ \A i \in 0 .. Len(S[l]) - c + 1 :
           At(u, i) = IF i <= a THEN At(S[l], i) ELSE At(S[l], i + c)
  <2>1. Len(u) = Len(S[l]) - c
    BY <1>1, CutIs
  <2>2. \A i \in 0 .. Len(S[l]) - c + 1 :
          At(u, i) = IF i <= a THEN At(S[l], i) ELSE At(S[l], i + c)
    BY <1>1, CutAt
  <2> QED
    BY <2>1, <2>2
<1>. HIDE DEF u, v
<1>6. R[l] = u /\ \A k \in D \ {l} : R[k] = S[k]
  BY <1>1
<1>. HIDE DEF R
<1>7. Ends(h.list[l], S[l])
  BY DEF Good
<1>8. At(u, 1) = g.list[l].head
  <2>1. CASE a = 0
    <3>1. /\ At(S[l], a) = None /\ 1 \in 0 .. Len(S[l]) - c + 1 /\ ~(1 <= a)
          /\ 1 + c = a + c + 1
      BY <1>4, <2>1 DEF At
    <3> QED
      BY <1>5, <3>1
  <2>2. CASE a # 0
    <3>1. a \in 1 .. Len(S[l]) /\ 1 \in 0 .. Len(S[l]) - c + 1 /\ 1 <= a
      BY <1>4, <2>2
    <3>2. At(S[l], a) # None
      BY <1>1, <1>4, <3>1, AtIs
    <3> QED
      BY <1>5, <1>7, <3>1, <3>2 DEF Ends
  <2> QED
    BY <2>1, <2>2
<1>9. At(u, Len(u)) = g.list[l].tail
  <2>1. CASE a + c = Len(S[l])
    <3>1. /\ At(S[l], a + c + 1) = None /\ Len(u) \in 0 .. Len(S[l]) - c + 1
          /\ Len(u) <= a /\ Len(u) = a
      BY <1>4, <1>5, <2>1 DEF At
    <3> QED
      BY <1>5, <3>1
  <2>2. CASE a + c # Len(S[l])
    <3>1. /\ a + c + 1 \in 1 .. Len(S[l]) /\ Len(u) \in 0 .. Len(S[l]) - c + 1
          /\ ~(Len(u) <= a) /\ Len(u) + c = Len(S[l])
      <4>. DEFINE n == Len(S[l])
      <4>1. n \in Nat /\ a + c < n
        BY <1>4, <2>2
      <4>2. Len(u) = n - c
        BY <1>5
      <4>. HIDE DEF n
      <4>3. /\ a + c + 1 \in 1 .. n /\ n - c \in 0 .. n - c + 1
            /\ ~(n - c <= a) /\ (n - c) + c = n
        BY <4>1
      <4> QED
        BY <4>2, <4>3 DEF n
    <3>2. At(S[l], a + c + 1) # None
      BY <1>1, <1>4, <3>1, AtIs
    <3> QED
      BY <1>5, <1>7, <3>1, <3>2 DEF Ends
  <2> QED
    BY <2>1, <2>2
<1>10. Ends(g.list[l], u)
  BY <1>4, <1>5, <1>7, <1>8, <1>9 DEF Ends
<1>11. ASSUME NEW k \in D, k # l
       PROVE  Linked(g.next, g.prev, S[k]) /\ Ends(g.list[k], S[k])
  <2>1. S[k] \in Seq(Nodes) /\ Apart(S[l], S[k])
    BY <1>11 DEF Good, Rows
  <2>2. Linked(h.next, h.prev, S[k]) /\ Ends(h.list[k], S[k]) /\ g.list[k] = h.list[k]
    BY <1>11 DEF Good
  <2>3. Linked(g.next, g.prev, S[k])
    BY <1>1, <2>1, <2>2, OthersDetach
  <2> QED
    BY <2>2, <2>3
<1>12. \A k \in D : Linked(g.next, g.prev, R[k]) /\ Ends(g.list[k], R[k])
  BY <1>3, <1>6, <1>10, <1>11
<1>13. \A n \in Nodes : n \in g.live <=> Held(D, R, v, n)
  BY <1>2 DEF Good
<1>14. Good(g, D, R, v)
  BY <1>2, <1>3, <1>12, <1>13 DEF Good
<1> QED
  BY <1>14 DEF R, u, v, CutFrom

\* A node is allocated.
LEMMA Allocate ==
  ASSUME NEW h, NEW D, NEW S, Good(h, D, S, Empty), NEW node \in Nodes \ h.live,
         NEW g, Typed(g, D), g.live = h.live \cup {node}, g.list = h.list,
         \A n \in Nodes \ {node} : g.next[n] = h.next[n] /\ g.prev[n] = h.prev[n]
  PROVE  Good(g, D, S, <<node>>)
<1>. DEFINE w == <<node>>
<1>1. w \in Seq(Nodes) /\ Len(w) = 1 /\ w[1] = node
  BY OneIs
<1>. HIDE DEF w
<1>2. \A n : On(w, n) <=> n = node
  BY <1>1 DEF On
<1>3. Once(w) /\ Chained(g.next, g.prev, w)
  <2>1. 1 .. (1 - 1) = {} /\ \A i, j \in 1 .. 1 : i = j
    OBVIOUS
  <2> QED
    BY <1>1, <2>1 DEF Once, Chained
<1>4. \A l \in D : ~On(S[l], node)
  BY DEF Good, Held
<1>5. \A l \in D : Apart(S[l], w)
  BY <1>2, <1>4, ApartIs
<1>6. Rows(D, S, w)
  BY <1>1, <1>3, <1>5 DEF Good, Rows
<1>7. ASSUME NEW l \in D
      PROVE  Linked(g.next, g.prev, S[l]) /\ Ends(g.list[l], S[l])
  <2>1. \A i \in 1 .. Len(S[l]) : S[l][i] \in Nodes \ {node}
    <3>1. S[l] \in Seq(Nodes)
      BY DEF Good, Rows
    <3> QED
      BY <1>4, <3>1, SeqIs DEF On
  <2>2. Linked(g.next, g.prev, S[l])
    BY <2>1 DEF Good, Linked
  <2> QED
    BY <2>2 DEF Good
<1>8. \A n \in Nodes : n \in g.live <=> Held(D, S, w, n)
  BY <1>2, EmptyIs DEF Good, Held
<1>9. Good(g, D, S, w)
  BY <1>3, <1>6, <1>7, <1>8 DEF Good
<1> QED
  BY <1>9 DEF w

\* The nodes of w are freed.
LEMMA Release ==
  ASSUME NEW h, NEW D, NEW S, NEW w, Good(h, D, S, w),
         NEW g, Typed(g, D), g.list = h.list,
         \A n \in Nodes : n \in g.live <=> n \in h.live /\ ~On(w, n),
         \A n \in Nodes : ~On(w, n) => g.next[n] = h.next[n] /\ g.prev[n] = h.prev[n]
  PROVE  Good(g, D, S, Empty)
<1>1. Rows(D, S, w) /\ \A l \in D : S[l] \in Seq(Nodes) /\ \A n : ~(On(S[l], n) /\ On(w, n))
  BY ApartIs DEF Good, Rows
<1>2. Rows(D, S, Empty)
  BY <1>1, EmptyIs DEF Rows
<1>3. ASSUME NEW l \in D
      PROVE  Linked(g.next, g.prev, S[l]) /\ Ends(g.list[l], S[l])
  <2>1. \A i \in 1 .. Len(S[l]) : S[l][i] \in Nodes /\ ~On(w, S[l][i])
    BY <1>1, SeqIs DEF On
  <2>2. Linked(g.next, g.prev, S[l])
    BY <2>1 DEF Good, Linked
  <2> QED
    BY <2>2 DEF Good
<1>4. \A n \in Nodes : n \in g.live <=> Held(D, S, Empty, n)
  BY <1>1, EmptyIs DEF Good, Held
<1> QED
  BY <1>2, <1>3, <1>4, EmptyIs DEF Good

-----------------------------------------------------------------------------
(* Walking along the links.                                                  *)

\* From first on, the links lead through s to the end.
Threaded(s, m, first, links) ==
    /\ first = IF m = 0 THEN None ELSE s[1]
    /\ \A i \in 1 .. m : links[s[i]] = IF i = m THEN None ELSE s[i + 1]

\* The walks of at most k nodes from every node.
Walks(links, w, m) ==
    w = [k \in 0 .. m |->
          [n \in Nodes \cup {None} |->
             IF k = 0 \/ n = None THEN <<>> ELSE <<n>> \o w[k - 1][links[n]]]]

LEMMA WalksExist ==
  ASSUME NEW links, NEW m \in Nat
  PROVE  \E w : Walks(links, w, m)
<1>. DEFINE Bad == {k \in Nat : ~\E w : Walks(links, w, k)}
            OneMore(k, walks) == [n \in Nodes \cup {None} |->
                                   IF k = 0 \/ n = None THEN <<>>
                                   ELSE <<n>> \o walks[links[n]]]
            Is(w, k) == w[k] = OneMore(k, w[k - 1])
<1>1. SUFFICES ASSUME Bad # {}
               PROVE  FALSE
  OBVIOUS
<1>2. Bad \in SUBSET Nat
  OBVIOUS
<1>3. PICK b \in Bad : \A n \in Bad : b <= n
  BY <1>1, <1>2, Least
<1>4. CASE b = 0
  <2>. DEFINE w == [k \in 0 .. 0 |-> [n \in Nodes \cup {None} |-> <<>>]]
  <2>1. Walks(links, w, 0)
    BY DEF Walks
  <2> QED
    BY <1>3, <1>4, <2>1
<1>5. CASE b # 0
  <2>1. b \in Nat /\ b - 1 \in Nat /\ b - 1 \notin Bad
    BY <1>3, <1>5
  <2>2. PICK w : Walks(links, w, b - 1)
    BY <2>1
  <2>3. \A k \in 0 .. b - 1 : Is(w, k)
    BY <2>2 DEF Walks
  <2>. DEFINE v == [k \in 0 .. b |-> IF k = b THEN OneMore(b, w[b - 1]) ELSE w[k]]
  <2>4. ASSUME NEW k \in 0 .. b
        PROVE  Is(v, k)
    <3>1. CASE k = 0
      <4>1. k \in 0 .. b - 1 /\ k # b
        BY <1>5, <2>1, <3>1
      <4>4. v[k] = w[k]
        BY <4>1
      <4>5. Is(w, k)
        BY <2>3, <4>1
      <4>2. OneMore(k, w[k - 1]) = OneMore(k, v[k - 1])
        BY <3>1
      <4>. HIDE DEF v, OneMore
      <4> QED
        BY <4>2, <4>4, <4>5
    <3>2. CASE k # 0 /\ k # b
      <4>1. k \in 0 .. b - 1 /\ k - 1 \in 0 .. b /\ k - 1 # b
        BY <2>1, <3>2
      <4>2. v[k] = w[k] /\ v[k - 1] = w[k - 1] /\ Is(w, k)
        BY <2>3, <3>2, <4>1
      <4>. HIDE DEF v, OneMore
      <4> QED
        BY <3>2, <4>2
    <3>3. CASE k = b
      <4>1. b - 1 \in 0 .. b /\ b - 1 # b
        BY <2>1
      <4>2. v[k] = OneMore(b, w[b - 1]) /\ v[b - 1] = w[b - 1]
        BY <3>3, <4>1
      <4>. HIDE DEF v, OneMore
      <4> QED
        BY <1>5, <3>3, <4>2
    <3> QED
      BY <3>1, <3>2, <3>3
  <2>5. v = [k \in 0 .. b |-> v[k]]
    OBVIOUS
  <2>. HIDE DEF v
  <2>6. Walks(links, v, b)
    BY <2>4, <2>5 DEF Walks
  <2> QED
    BY <1>3, <2>6
<1> QED
  BY <1>4, <1>5

LEMMA Prepend ==
  ASSUME NEW S, NEW x \in S, NEW l \in Nat, NEW g \in [1 .. l -> S]
  PROVE  <<x>> \o g = [t \in 1 .. l + 1 |-> IF t = 1 THEN x ELSE g[t - 1]]
<1>1. g \in Seq(S) /\ Len(g) = l /\ <<x>> \in Seq(S) /\ Len(<<x>>) = 1
  OBVIOUS
<1>2. /\ Len(<<x>> \o g) = l + 1 /\ <<x>> \o g \in Seq(S)
      /\ \A t \in 1 .. l + 1 : (<<x>> \o g)[t] = IF t = 1 THEN x ELSE g[t - 1]
  BY <1>1, ConcatProperties
<1>3. <<x>> \o g = [t \in 1 .. l + 1 |-> (<<x>> \o g)[t]]
  BY <1>2
<1> QED
  BY <1>2, <1>3

\* A list of nodes that are threaded is what a walk along the links meets.
LEMMA WalkIs ==
  ASSUME NEW m \in 0 .. NodeBound, NEW s \in [1 .. m -> Nodes],
         NEW first, NEW links, Threaded(s, m, first, links)
  PROVE  Walk(first, links) = s
<1>. DEFINE top == NodeBound + 1
            w == CHOOSE v : Walks(links, v, top)
            Here(i) == IF i = m + 1 THEN None ELSE s[i]
            Length(k, i) == IF k < m + 1 - i THEN k ELSE m + 1 - i
            Some(k, i) == [t \in 1 .. Length(k, i) |-> s[i - 1 + t]]
            Bad == {k \in 0 .. top : \E i \in 1 .. m + 1 : w[k][Here(i)] # Some(k, i)}
<1>1. top \in Nat /\ m \in Nat /\ m < top
  BY NodesAre
<1>2. Walk(first, links) = w[top][first]
  BY DEF Walk, Walks
<1>3. Walks(links, w, top)
  BY <1>1, WalksExist
<1>4. \A k \in 0 .. top, n \in Nodes \cup {None} :
        w[k][n] = IF k = 0 \/ n = None THEN <<>> ELSE <<n>> \o w[k - 1][links[n]]
  <2>. DEFINE Step(k) == [n \in Nodes \cup {None} |->
                           IF k = 0 \/ n = None THEN <<>> ELSE <<n>> \o w[k - 1][links[n]]]
  <2>1. w = [k \in 0 .. top |-> Step(k)]
    BY <1>3 DEF Walks
  <2>2. \A k \in 0 .. top : w[k] = Step(k)
    <3>. HIDE DEF Step
    <3> QED
      BY <2>1
  <2>. HIDE DEF w, top
  <2> QED
    BY <2>2
<1>5. \A i \in 1 .. m + 1 : Here(i) \in Nodes \cup {None}
  BY <1>1
<1>. HIDE DEF w, top
<1>6. \A k \in 0 .. top, i \in 1 .. m + 1 : w[k][Here(i)] = Some(k, i)
  <2>1. SUFFICES ASSUME Bad # {}
                 PROVE  FALSE
    <3>. HIDE DEF Here, Some
    <3> QED
      OBVIOUS
  <2>2. PICK b \in Bad : \A k \in Bad : b <= k
    <3>1. Bad \in SUBSET Nat
      BY <1>1
    <3>. HIDE DEF Bad
    <3> QED
      BY <2>1, <3>1, Least
  <2>3. PICK i \in 1 .. m + 1 : w[b][Here(i)] # Some(b, i)
    BY <2>2
  <2>4. b \in 0 .. top /\ b \in Nat
    BY <1>1, <2>2
  <2>5. CASE b = 0 \/ i = m + 1
    <3>1. w[b][Here(i)] = <<>>
      BY <1>4, <1>5, <2>3, <2>4, <2>5
    <3>2. Length(b, i) = 0
      BY <1>1, <2>3, <2>4, <2>5
    <3>3. Some(b, i) = <<>>
      BY <3>2
    <3> QED
      BY <2>3, <3>1, <3>3
  <2>6. CASE b # 0 /\ i # m + 1
    <3>1. i \in 1 .. m /\ i + 1 \in 1 .. m + 1 /\ Here(i) = s[i] /\ s[i] \in Nodes /\ s[i] # None
      BY <1>1, <2>3, <2>6, NodesAre
    <3>2. links[s[i]] = Here(i + 1)
      BY <1>1, <3>1 DEF Threaded
    <3>3. b - 1 \in 0 .. top /\ b - 1 \notin Bad
      <4>. HIDE DEF Bad
      <4>1. b - 1 < b /\ b - 1 \in 0 .. top
        BY <1>1, <2>4, <2>6
      <4> QED
        BY <2>2, <2>4, <4>1
    <3>4. w[b - 1][Here(i + 1)] = Some(b - 1, i + 1)
      BY <3>1, <3>3
    <3>5. w[b][Here(i)] = <<s[i]>> \o Some(b - 1, i + 1)
      <4>1. Here(i) # None /\ Here(i) \in Nodes \cup {None}
        BY <3>1
      <4>2. w[b][Here(i)] = <<Here(i)>> \o w[b - 1][links[Here(i)]]
        <5>. HIDE DEF Here
        <5> QED
          BY <1>4, <2>4, <2>6, <4>1
      <4>. HIDE DEF Some
      <4> QED
        BY <3>1, <3>2, <3>4, <4>2
    <3>. DEFINE l == Length(b - 1, i + 1)
                g == Some(b - 1, i + 1)
    <3>6. l \in Nat /\ l + 1 = Length(b, i) /\ \A t \in 1 .. l : i + t \in 1 .. m
      BY <1>1, <2>4, <2>6, <3>1
    <3>7. g \in [1 .. l -> Nodes] /\ \A t \in 1 .. l : g[t] = s[i + t]
      <4>1. \A t \in 1 .. l : (i + 1) - 1 + t = i + t
        BY <3>1, <3>6
      <4> QED
        BY <3>6, <4>1
    <3>. HIDE DEF g
    <3>8. <<s[i]>> \o g = [t \in 1 .. l + 1 |-> IF t = 1 THEN s[i] ELSE g[t - 1]]
      BY <3>1, <3>6, <3>7, Prepend
    <3>9. \A t \in 1 .. l + 1 : (IF t = 1 THEN s[i] ELSE g[t - 1]) = s[i - 1 + t]
      <4>. SUFFICES ASSUME NEW t \in 1 .. l + 1
                    PROVE  (IF t = 1 THEN s[i] ELSE g[t - 1]) = s[i - 1 + t]
        OBVIOUS
      <4>1. CASE t = 1
        BY <3>1, <4>1
      <4>2. CASE t # 1
        <5>1. t - 1 \in 1 .. l /\ i + (t - 1) = i - 1 + t
          BY <3>1, <3>6, <4>2
        <5> QED
          BY <3>7, <4>2, <5>1
      <4> QED
        BY <4>1, <4>2
    <3>10. <<s[i]>> \o g = Some(b, i)
      <4>. HIDE DEF l
      <4> QED
        BY <3>6, <3>8, <3>9
    <3> QED
      BY <2>3, <3>5, <3>10 DEF g
  <2> QED
    BY <2>5, <2>6
<1>7. top \in 0 .. top /\ 1 \in 1 .. m + 1
  BY <1>1
<1>8. w[top][Here(1)] = Some(top, 1)
  BY <1>6, <1>7
<1>9. Length(top, 1) = m /\ \A t \in 1 .. m : 1 - 1 + t = t
  BY <1>1
<1>10. Some(top, 1) = s
  BY <1>9
<1>11. Here(1) = first
  BY <1>1 DEF Threaded
<1> QED
  BY <1>2, <1>8, <1>10, <1>11

LEMMA ReverseIs ==
  ASSUME NEW S, NEW s \in Seq(S)
  PROVE  /\ Reverse(s) \in Seq(S) /\ Len(Reverse(s)) = Len(s)
         /\ \A i \in 1 .. Len(s) : Reverse(s)[i] = s[(Len(s) - i) + 1]
<1>1. Len(s) \in Nat /\ \A i \in 1 .. Len(s) : s[i] \in S
  BY SeqIs
<1>2. \A i \in 1 .. Len(s) : (Len(s) - i) + 1 \in 1 .. Len(s)
  BY <1>1
<1>3. Reverse(s) \in [1 .. Len(s) -> S]
  BY <1>1, <1>2 DEF Reverse
<1> QED
  BY <1>1, <1>3, IsSeq DEF Reverse

\* There are not more nodes on a list than there are nodes.
LEMMA RowBounded ==
  ASSUME NEW s \in Seq(Nodes), Once(s)
  PROVE  Len(s) \in 0 .. NodeBound
<1>1. Len(s) \in Nat /\ NodeBound \in Nat /\ s \in [1 .. Len(s) -> Nodes]
  BY SeqIs, NodesAre
<1>2. SUFFICES ASSUME NodeBound < Len(s)
               PROVE  FALSE
  BY <1>1
<1>3. IsFiniteSet(1 .. Len(s)) /\ Cardinality(1 .. Len(s)) = Len(s)
  BY <1>1, FS_Interval
<1>4. IsFiniteSet(Nodes) /\ Cardinality(Nodes) = NodeBound
  BY <1>1, FS_Interval DEF Nodes
<1>5. PICK i, j \in 1 .. Len(s) : i # j /\ s[i] = s[j]
  <2>. DEFINE m == Len(s)
              P == 1 .. m
  <2>1. IsFiniteSet(P) /\ Cardinality(Nodes) < Cardinality(P) /\ s \in [P -> Nodes]
    BY <1>1, <1>2, <1>3, <1>4
  <2>. HIDE DEF P
  <2>2. \E x, y \in P : x # y /\ s[x] = s[y]
    BY <1>4, <2>1, FS_PigeonHole
  <2> QED
    BY <2>2 DEF P
<1> QED
  BY <1>5 DEF Once

\* What is met along the next links from the head, and along the previous ones from the tail.
LEMMA WalksAre ==
  ASSUME NEW s \in Seq(Nodes), Once(s), NEW next, NEW prev, Linked(next, prev, s),
         NEW r, Ends(r, s)
  PROVE  Walk(r.head, next) = s /\ Walk(r.tail, prev) = Reverse(s)
<1>. DEFINE m == Len(s)
            t == Reverse(s)
<1>1. m \in 0 .. NodeBound /\ m \in Nat
  BY RowBounded, SeqIs
<1>2. s \in [1 .. m -> Nodes]
  BY SeqIs
<1>3. t \in Seq(Nodes) /\ Len(t) = m /\ \A i \in 1 .. m : t[i] = s[(m - i) + 1]
  BY ReverseIs
<1>. HIDE DEF t
<1>4. t \in [1 .. m -> Nodes]
  BY <1>3, SeqIs
<1>5. Threaded(s, m, r.head, next)
  <2>1. \A i \in 1 .. m : At(s, i + 1) = IF i = m THEN None ELSE s[i + 1]
    BY <1>1 DEF At
  <2>2. At(s, 1) = IF m = 0 THEN None ELSE s[1]
    BY <1>1 DEF At
  <2> QED
    BY <2>1, <2>2 DEF Threaded, Linked, Ends
<1>6. Threaded(t, m, r.tail, prev)
  <2>1. At(s, Len(s)) = IF m = 0 THEN None ELSE t[1]
    <3>1. CASE m = 0
      BY <3>1 DEF At
    <3>2. CASE m # 0
      <4>1. 1 \in 1 .. m /\ m \in 1 .. m /\ (m - 1) + 1 = m
        BY <1>1, <3>2
      <4> QED
        BY <1>3, <3>2, <4>1 DEF At
    <3> QED
      BY <3>1, <3>2
  <2>2. ASSUME NEW i \in 1 .. m
        PROVE  prev[t[i]] = IF i = m THEN None ELSE t[i + 1]
    <3>1. (m - i) + 1 \in 1 .. m /\ ((m - i) + 1) - 1 = m - i
      BY <1>1
    <3>2. prev[t[i]] = At(s, m - i)
      BY <1>3, <3>1 DEF Linked
    <3>3. CASE i = m
      <4>1. m - i \notin 1 .. Len(s)
        BY <1>1, <3>3
      <4> QED
        BY <3>2, <3>3, <4>1 DEF At
    <3>4. CASE i # m
      <4>1. m - i \in 1 .. m /\ i + 1 \in 1 .. m /\ (m - (i + 1)) + 1 = m - i
        BY <1>1, <3>4
      <4> QED
        BY <1>3, <3>2, <3>4, <4>1 DEF At
    <3> QED
      BY <3>3, <3>4
  <2> QED
    BY <2>1, <2>2 DEF Threaded, Ends
<1>7. Walk(r.head, next) = s
  <2>. HIDE DEF m
  <2> QED
    BY <1>1, <1>2, <1>5, WalkIs
<1>8. Walk(r.tail, prev) = t
  <2>. HIDE DEF m
  <2> QED
    BY <1>1, <1>4, <1>6, WalkIs
<1> QED
  BY <1>7, <1>8 DEF t

LEMMA GoodNodes ==
  ASSUME NEW h, NEW D, NEW S, NEW w, Good(h, D, S, w)
  PROVE  \A l \in D : /\ S[l] \in Seq(Nodes) /\ Once(S[l]) /\ Len(S[l]) \in 0 .. NodeBound
                      /\ h.list[l].count = Len(S[l])
                      /\ h.list[l].head = At(S[l], 1) /\ h.list[l].tail = At(S[l], Len(S[l]))
                      /\ NodesOf(h, l) = S[l]
                      /\ Walk(h.list[l].tail, h.prev) = Reverse(S[l])
<1>. SUFFICES ASSUME NEW l \in D
              PROVE  /\ S[l] \in Seq(Nodes) /\ Once(S[l]) /\ Len(S[l]) \in 0 .. NodeBound
                     /\ h.list[l].count = Len(S[l])
                     /\ h.list[l].head = At(S[l], 1) /\ h.list[l].tail = At(S[l], Len(S[l]))
                     /\ NodesOf(h, l) = S[l]
                     /\ Walk(h.list[l].tail, h.prev) = Reverse(S[l])
  OBVIOUS
<1>1. S[l] \in Seq(Nodes) /\ Once(S[l]) /\ Linked(h.next, h.prev, S[l]) /\ Ends(h.list[l], S[l])
  BY DEF Good, Rows
<1>2. Walk(h.list[l].head, h.next) = S[l] /\ Walk(h.list[l].tail, h.prev) = Reverse(S[l])
  BY <1>1, WalksAre
<1> QED
  BY <1>1, <1>2, RowBounded DEF Ends, NodesOf

\* Heaps(D) is what Typed says, with counts up to NodeBound.
LEMMA GoodHeap ==
  ASSUME NEW h, NEW D, NEW S, NEW w, Good(h, D, S, w)
  PROVE  h \in Heaps(D)
<1>1. \A l \in D : h.list[l].count \in 0 .. NodeBound
  BY GoodNodes
<1>2. Typed(h, D)
  BY DEF Good
<1>3. \A l \in D : h.list[l] \in [head : Nodes \cup {None}, tail : Nodes \cup {None},
                                  count : 0 .. NodeBound]
  BY <1>1, <1>2 DEF Typed
<1> QED
  BY <1>2, <1>3 DEF Typed, Heaps

-----------------------------------------------------------------------------
(* The calls' heaps.                                                         *)

Links == [Nodes -> Nodes \cup {None}]
Ptrs == Nodes \cup {None}

LEMMA SetIs ==
  ASSUME NEW field \in Links, NEW n \in Ptrs, NEW value \in Ptrs
  PROVE  /\ Set(field, n, value) \in Links
         /\ \A k \in Nodes : Set(field, n, value)[k] = IF k = n THEN value ELSE field[k]
<1>1. CASE n = None
  BY <1>1, NodesAre DEF Set, Links
<1>2. CASE n # None
  BY <1>2 DEF Set, Links, Ptrs
<1> QED
  BY <1>1, <1>2

LEMMA FieldsAre ==
  ASSUME NEW h, NEW D, Typed(h, D)
  PROVE  /\ h.next \in Links /\ h.prev \in Links /\ DOMAIN h.list = D
         /\ h.live \in SUBSET Nodes /\ h.data \in [Nodes -> Items]
         /\ h.list \in [D -> [head : Ptrs, tail : Ptrs, count : Int]]
BY DEF Typed, Links, Ptrs

\* A heap by its fields.
Heap(live, next, prev, data, list) ==
    [live |-> live, next |-> next, prev |-> prev, data |-> data, list |-> list]

LEMMA HeapFields ==
  ASSUME NEW live, NEW next, NEW prev, NEW data, NEW list, NEW h,
         h = Heap(live, next, prev, data, list)
  PROVE  /\ h.live = live /\ h.next = next /\ h.prev = prev /\ h.data = data /\ h.list = list
BY DEF Heap

Row(head, tail, count) == [head |-> head, tail |-> tail, count |-> count]

\* The heap h with other links and with row for the list l.
Rewired(h, l, next, prev, row) ==
    [h EXCEPT !.next = next, !.prev = prev, !.list[l] = row]

LEMMA RewiredIs ==
  ASSUME NEW h, NEW D, Typed(h, D), NEW l \in D, NEW next \in Links, NEW prev \in Links,
         NEW row \in [head : Ptrs, tail : Ptrs, count : Int], NEW g,
         g = Rewired(h, l, next, prev, row)
  PROVE  /\ Typed(g, D)
         /\ g.live = h.live /\ g.next = next /\ g.prev = prev /\ g.data = h.data
         /\ g.list[l] = row /\ \A k \in D \ {l} : g.list[k] = h.list[k]
<1>1. g = Heap(h.live, next, prev, h.data, [h.list EXCEPT ![l] = row])
  BY DEF Rewired, Typed, Heap
<1>2. g.live = h.live /\ g.next = next /\ g.prev = prev /\ g.data = h.data
  BY <1>1, HeapFields
<1>3. g.list = [h.list EXCEPT ![l] = row]
  BY <1>1, HeapFields
<1>4. g.list[l] = row /\ \A k \in D \ {l} : g.list[k] = h.list[k]
  BY <1>3 DEF Typed
<1>5. Typed(g, D)
  BY DEF Rewired, Typed, Links, Ptrs
<1> QED
  BY <1>2, <1>4, <1>5

Relinked(field, n, value, end) == [Set(field, n, value) EXCEPT ![end] = None]

LEMMA RelinkedIs ==
  ASSUME NEW field \in Links, NEW n \in Ptrs, NEW value \in Ptrs, NEW end \in Nodes
  PROVE  /\ Relinked(field, n, value, end) \in Links
         /\ \A k \in Nodes : Relinked(field, n, value, end)[k] =
                             IF k = end THEN None ELSE IF k = n THEN value ELSE field[k]
<1>. DEFINE set == Set(field, n, value)
<1>1. set \in Links /\ \A k \in Nodes : set[k] = IF k = n THEN value ELSE field[k]
  BY SetIs
<1>2. Relinked(field, n, value, end) = [set EXCEPT ![end] = None]
  BY DEF Relinked
<1>. HIDE DEF set
<1> QED
  BY <1>1, <1>2 DEF Links

RowWithout(r, prev, next, count) ==
    Row(IF prev = None THEN next ELSE r.head, IF next = None THEN prev ELSE r.tail,
        r.count - count)

LEMMA RemoveRangeIs ==
  ASSUME NEW h, NEW l, NEW first, NEW last, NEW count
  PROVE  RemoveRange(h, l, first, last, count) =
           Rewired(h, l, Relinked(h.next, h.prev[first], h.next[last], last),
                         Relinked(h.prev, h.next[last], h.prev[first], first),
                         RowWithout(h.list[l], h.prev[first], h.next[last], count))
<1>1. ASSUME NEW next, NEW prev, NEW row,
             next = [Set(h.next, h.prev[first], h.next[last]) EXCEPT ![last] = None],
             prev = [Set(h.prev, h.next[last], h.prev[first]) EXCEPT ![first] = None],
             row = [head |-> IF h.prev[first] = None THEN h.next[last] ELSE h.list[l].head,
                    tail |-> IF h.next[last] = None THEN h.prev[first] ELSE h.list[l].tail,
                    count |-> h.list[l].count - count]
      PROVE  RemoveRange(h, l, first, last, count) = Rewired(h, l, next, prev, row)
  BY <1>1 DEF RemoveRange, Rewired
<1>. DEFINE next == Relinked(h.next, h.prev[first], h.next[last], last)
            prev == Relinked(h.prev, h.next[last], h.prev[first], first)
            row == RowWithout(h.list[l], h.prev[first], h.next[last], count)
<1>2. next = [Set(h.next, h.prev[first], h.next[last]) EXCEPT ![last] = None]
  BY DEF Relinked
<1>3. prev = [Set(h.prev, h.next[last], h.prev[first]) EXCEPT ![first] = None]
  BY DEF Relinked
<1>4. row = [head |-> IF h.prev[first] = None THEN h.next[last] ELSE h.list[l].head,
             tail |-> IF h.next[last] = None THEN h.prev[first] ELSE h.list[l].tail,
             count |-> h.list[l].count - count]
  BY DEF RowWithout, Row
<1>. HIDE DEF next, prev, row
<1>5. RemoveRange(h, l, first, last, count) = Rewired(h, l, next, prev, row)
  BY <1>1, <1>2, <1>3, <1>4
<1> QED
  BY <1>5 DEF next, prev, row

\* The c nodes behind position a of s, of which first is the first and last the last.
Segment(s, a, c, first, last) ==
    /\ a \in Nat /\ c \in Nat /\ c > 0 /\ a + c <= Len(s)
    /\ first = s[a + 1] /\ last = s[a + c]

LEMMA RemoveRangeGood ==
  ASSUME NEW h, NEW D, NEW S, Good(h, D, S, Empty), NEW l \in D,
         NEW a, NEW c, NEW first, NEW last, Segment(S[l], a, c, first, last), NEW g,
         g = RemoveRange(h, l, first, last, c)
  PROVE  /\ Good(g, D, CutFrom(S, l, a, c), Part(S[l], a, c))
         /\ g.data = h.data /\ g.live = h.live
         /\ g.next[last] = None /\ g.prev[first] = None
<1>. DEFINE s == S[l]
            prev == h.prev[first]
            next == h.next[last]
<1>1. s \in Seq(Nodes) /\ Linked(h.next, h.prev, s) /\ Typed(h, D)
  BY DEF Good, Rows
<1>0. /\ a \in Nat /\ c \in Nat /\ c > 0 /\ a + c <= Len(s)
      /\ first = s[a + 1] /\ last = s[a + c]
  BY DEF Segment
<1>2. Len(s) \in Nat /\ a + 1 \in 1 .. Len(s) /\ a + c \in 1 .. Len(s)
  BY <1>0, <1>1, SeqIs
<1>3. first \in Nodes /\ last \in Nodes
  BY <1>0, <1>1, <1>2, SeqIs
<1>4. prev = At(s, a) /\ next = At(s, a + c + 1)
  <2>1. prev = At(s, (a + 1) - 1) /\ next = At(s, (a + c) + 1)
    BY <1>0, <1>1, <1>2 DEF Linked
  <2>2. (a + 1) - 1 = a
    BY <1>0
  <2> QED
    BY <2>1, <2>2
<1>5. prev \in Ptrs /\ next \in Ptrs /\ a \in Int /\ a + c + 1 \in Int
  BY <1>0, <1>1, <1>4, AtIs DEF Ptrs
<1>6. /\ h.next \in Links /\ h.prev \in Links /\ h.live \in SUBSET Nodes
      /\ h.data \in [Nodes -> Items]
      /\ h.list \in [D -> [head : Ptrs, tail : Ptrs, count : Int]]
  BY <1>1, FieldsAre
<1>. DEFINE next2 == Relinked(h.next, prev, next, last)
            prev2 == Relinked(h.prev, next, prev, first)
            row == RowWithout(h.list[l], prev, next, c)
<1>7. g = Rewired(h, l, next2, prev2, row)
  BY RemoveRangeIs
<1>. HIDE DEF s, prev, next
<1>8. /\ next2 \in Links
      /\ \A n \in Nodes : next2[n] = IF n = last THEN None ELSE IF n = prev THEN next ELSE h.next[n]
  <2>1. h.next \in Links /\ prev \in Ptrs /\ next \in Ptrs /\ last \in Nodes
    BY <1>3, <1>5, <1>6
  <2> QED
    BY <2>1, RelinkedIs
<1>9. /\ prev2 \in Links
      /\ \A n \in Nodes :
           prev2[n] = IF n = first THEN None ELSE IF n = next THEN prev ELSE h.prev[n]
  <2>1. h.prev \in Links /\ prev \in Ptrs /\ next \in Ptrs /\ first \in Nodes
    BY <1>3, <1>5, <1>6
  <2> QED
    BY <2>1, RelinkedIs
<1>10. /\ row \in [head : Ptrs, tail : Ptrs, count : Int]
       /\ row.head = IF prev = None THEN next ELSE h.list[l].head
       /\ row.tail = IF next = None THEN prev ELSE h.list[l].tail
       /\ row.count = h.list[l].count - c
  BY <1>0, <1>5, <1>6 DEF RowWithout, Row
<1>. HIDE DEF row, next2, prev2
<1>11. /\ Typed(g, D)
       /\ g.live = h.live /\ g.next = next2 /\ g.prev = prev2 /\ g.data = h.data
       /\ g.list[l] = row /\ \A k \in D \ {l} : g.list[k] = h.list[k]
  BY <1>1, <1>7, <1>8, <1>9, <1>10, RewiredIs
<1>14. Detached(h.next, h.prev, g.next, g.prev, s, a, c)
  BY <1>0, <1>4, <1>8, <1>9, <1>11 DEF Detached, s
<1>15. Good(g, D, CutFrom(S, l, a, c), Part(S[l], a, c))
  <2>1. g.list[l].head = IF At(S[l], a) = None THEN At(S[l], a + c + 1) ELSE h.list[l].head
    BY <1>4, <1>10, <1>11 DEF s
  <2>2. g.list[l].tail = IF At(S[l], a + c + 1) = None THEN At(S[l], a) ELSE h.list[l].tail
    BY <1>4, <1>10, <1>11 DEF s
  <2>3. g.list[l].count = h.list[l].count - c
    BY <1>10, <1>11
  <2>4. \A k \in D \ {l} : g.list[k] = h.list[k]
    BY <1>11
  <2>5. Detached(h.next, h.prev, g.next, g.prev, S[l], a, c)
    BY <1>14 DEF s
  <2>6. a \in Nat /\ c \in Nat /\ c > 0 /\ a + c <= Len(S[l])
    BY <1>0 DEF s
  <2> QED
    BY <1>11, <2>1, <2>2, <2>3, <2>4, <2>5, <2>6, Detach
<1>16. g.next[last] = None /\ g.prev[first] = None
  BY <1>3, <1>8, <1>9, <1>11
<1> QED
  BY <1>11, <1>15, <1>16 DEF s

LEMMA RemoveNodeIs ==
  ASSUME NEW h, NEW l, NEW node
  PROVE  RemoveNode(h, l, node) = RemoveRange(h, l, node, node, 1)
BY DEF RemoveNode, RemoveRange

LEMMA PartOne ==
  ASSUME NEW s \in Seq(Nodes), NEW a \in Nat, a + 1 <= Len(s)
  PROVE  Part(s, a, 1) = <<s[a + 1]>>
<1>. DEFINE c == 1
            x == s[a + 1]
            w == <<x>>
<1>1. c \in Nat /\ a + c <= Len(s)
  OBVIOUS
<1>2. x \in Nodes
  BY SeqIs
<1>3. /\ Part(s, a, c) \in Seq(Nodes) /\ Len(Part(s, a, c)) = c
      /\ \A i \in 1 .. c : Part(s, a, c)[i] = s[a + i]
  <2>. HIDE DEF c
  <2> QED
    BY <1>1, PartIs
<1>4. w \in Seq(Nodes) /\ Len(w) = c /\ \A i \in 1 .. c : w[i] = s[a + i]
  <2>1. \A i \in 1 .. c : i = 1
    OBVIOUS
  <2>. HIDE DEF x
  <2>2. w \in Seq(Nodes) /\ Len(w) = 1 /\ w[1] = x
    BY <1>2, OneIs
  <2>. HIDE DEF w
  <2> QED
    BY <2>1, <2>2 DEF x
<1>. HIDE DEF w
<1>5. Part(s, a, c) = w
  <2>. HIDE DEF c
  <2> QED
    BY <1>3, <1>4, SameSeq
<1> QED
  BY <1>5 DEF w

\* A new field in one place.
Written(field, n, value) == [field EXCEPT ![n] = value]

LEMMA WrittenIs ==
  ASSUME NEW field \in Links, NEW n \in Nodes, NEW value \in Ptrs
  PROVE  /\ Written(field, n, value) \in Links
         /\ \A k \in Nodes : Written(field, n, value)[k] = IF k = n THEN value ELSE field[k]
BY DEF Written, Links, Ptrs

LEMMA AddNodeIs ==
  ASSUME NEW h, NEW D, Typed(h, D), NEW l, NEW node
  PROVE  AddNode(h, l, node) =
           Rewired(h, l, Set(h.next, h.list[l].tail, node),
                   Written(h.prev, node,
                           IF h.list[l].tail = None THEN h.prev[node] ELSE h.list[l].tail),
                   Row(IF h.list[l].tail = None THEN node ELSE h.list[l].head,
                       node, h.list[l].count + 1))
<1>. DEFINE Made(next0, prev0, row0) ==
              [h EXCEPT !.prev[node] = prev0, !.next = next0, !.list[l] = row0]
<1>1. ASSUME NEW next, NEW prev, NEW row,
             next = Set(h.next, h.list[l].tail, node),
             prev = IF h.list[l].tail = None THEN h.prev[node] ELSE h.list[l].tail,
             row = [head |-> IF h.list[l].tail = None THEN node ELSE h.list[l].head,
                    tail |-> node, count |-> h.list[l].count + 1]
      PROVE  AddNode(h, l, node) = Made(next, prev, row)
  BY <1>1 DEF AddNode
<1>2. ASSUME NEW next, NEW prev, NEW row
      PROVE  Made(next, prev, row) = Rewired(h, l, next, Written(h.prev, node, prev), row)
  BY DEF Typed, Rewired, Written
<1>. HIDE DEF Made
<1>. DEFINE next == Set(h.next, h.list[l].tail, node)
            prev == IF h.list[l].tail = None THEN h.prev[node] ELSE h.list[l].tail
            row == Row(IF h.list[l].tail = None THEN node ELSE h.list[l].head,
                       node, h.list[l].count + 1)
<1>3. row = [head |-> IF h.list[l].tail = None THEN node ELSE h.list[l].head,
             tail |-> node, count |-> h.list[l].count + 1]
  BY DEF Row
<1>4. /\ next = Set(h.next, h.list[l].tail, node)
      /\ prev = IF h.list[l].tail = None THEN h.prev[node] ELSE h.list[l].tail
  OBVIOUS
<1>. HIDE DEF next, prev, row
<1>5. AddNode(h, l, node) = Made(next, prev, row)
  BY <1>1, <1>3, <1>4
<1>6. AddNode(h, l, node) = Rewired(h, l, next, Written(h.prev, node, prev), row)
  BY <1>2, <1>5
<1> QED
  BY <1>6 DEF next, prev, row

LEMMA AddNodeGood ==
  ASSUME NEW h, NEW D, NEW S, NEW node \in Nodes, Good(h, D, S, <<node>>), NEW l \in D,
         h.next[node] = None, h.prev[node] = None, NEW g, g = AddNode(h, l, node)
  PROVE  /\ Good(g, D, PutIn(S, l, Len(S[l]), <<node>>), Empty)
         /\ g.data = h.data /\ g.live = h.live
<1>. DEFINE s == S[l]
            a == Len(s)
            w == <<node>>
            tail == h.list[l].tail
<1>1. w \in Seq(Nodes) /\ Len(w) = 1 /\ w[1] = node
  BY OneIs
<1>2. s \in Seq(Nodes) /\ Linked(h.next, h.prev, s) /\ Typed(h, D) /\ Apart(s, w)
  BY DEF Good, Rows
<1>3. tail = At(s, a) /\ h.list[l].count = a /\ a \in 0 .. Len(s)
  BY <1>2, GoodNodes, SeqIs
<1>4. tail \in Ptrs /\ node \in Ptrs /\ a \in Int /\ At(s, a + 1) = None
  BY <1>2, <1>3, AtIs, SeqIs DEF Ptrs, At
<1>5. /\ h.next \in Links /\ h.prev \in Links /\ h.live \in SUBSET Nodes
      /\ h.data \in [Nodes -> Items]
      /\ h.list \in [D -> [head : Ptrs, tail : Ptrs, count : Int]]
  BY <1>2, FieldsAre
<1>. DEFINE next2 == Set(h.next, tail, node)
            prev2 == Written(h.prev, node, IF tail = None THEN h.prev[node] ELSE tail)
            row == Row(IF tail = None THEN node ELSE h.list[l].head, node, h.list[l].count + 1)
<1>6. g = Rewired(h, l, next2, prev2, row)
  BY <1>2, AddNodeIs
<1>. HIDE DEF tail, w
<1>7. tail # node
  BY <1>1, <1>2, <1>3, <1>4, NodesAre DEF Apart, At
<1>8. next2 \in Links /\ \A n \in Nodes : next2[n] = IF n = tail THEN node ELSE h.next[n]
  <2>1. h.next \in Links /\ tail \in Ptrs /\ node \in Ptrs
    BY <1>4, <1>5
  <2> QED
    BY <2>1, SetIs
<1>9. prev2 \in Links /\ \A n \in Nodes : prev2[n] = IF n = node THEN tail ELSE h.prev[n]
  <2>1. h.prev \in Links /\ tail \in Ptrs
    BY <1>4, <1>5
  <2>2. prev2 = Written(h.prev, node, tail)
    BY DEF Written
  <2>. HIDE DEF prev2
  <2> QED
    BY <2>1, <2>2, WrittenIs
<1>10. /\ row \in [head : Ptrs, tail : Ptrs, count : Int]
       /\ row.head = IF tail = None THEN node ELSE h.list[l].head
       /\ row.tail = node /\ row.count = h.list[l].count + 1
  BY <1>4, <1>5 DEF Row
<1>. HIDE DEF row, next2, prev2
<1>11. /\ Typed(g, D)
       /\ g.live = h.live /\ g.next = next2 /\ g.prev = prev2 /\ g.data = h.data
       /\ g.list[l] = row /\ \A k \in D \ {l} : g.list[k] = h.list[k]
  BY <1>2, <1>6, <1>8, <1>9, <1>10, RewiredIs
<1>14. Attached(h.next, h.prev, g.next, g.prev, s, a, w)
  <2>. HIDE DEF a, s
  <2>1. ASSUME NEW n \in Nodes
        PROVE  g.next[n] = IF n = w[Len(w)] THEN At(s, a + 1)
                           ELSE IF n = At(s, a) THEN w[1] ELSE h.next[n]
    BY <1>1, <1>3, <1>4, <1>7, <1>8, <1>11
  <2>2. ASSUME NEW n \in Nodes
        PROVE  g.prev[n] = IF n = w[1] THEN At(s, a)
                           ELSE IF n = At(s, a + 1) THEN w[Len(w)] ELSE h.prev[n]
    BY <1>1, <1>3, <1>4, <1>7, <1>9, <1>11, NodesAre
  <2> QED
    BY <2>1, <2>2 DEF Attached
<1>15. Good(g, D, PutIn(S, l, a, w), Empty)
  <2>. HIDE DEF a
  <2>1. g.list[l].head = IF At(S[l], a) = None THEN w[1] ELSE h.list[l].head
    BY <1>1, <1>3, <1>10, <1>11
  <2>2. g.list[l].tail = IF At(S[l], a + 1) = None THEN w[Len(w)] ELSE h.list[l].tail
    BY <1>1, <1>4, <1>10, <1>11
  <2>3. g.list[l].count = h.list[l].count + Len(w)
    BY <1>1, <1>10, <1>11
  <2>4. \A k \in D \ {l} : g.list[k] = h.list[k]
    BY <1>11
  <2>5. Len(w) > 0 /\ a \in 0 .. Len(S[l]) /\ Good(h, D, S, w)
    BY <1>1, <1>3 DEF w
  <2>6. Attached(h.next, h.prev, g.next, g.prev, S[l], a, w)
    BY <1>14
  <2> QED
    BY <1>11, <2>1, <2>2, <2>3, <2>4, <2>5, <2>6, Attach
<1> QED
  BY <1>11, <1>15 DEF w

-----------------------------------------------------------------------------
(* The heaps of the calls that add and move nodes.                           *)

LEMMA NewNodeIs ==
  ASSUME NEW h, NEW D, Typed(h, D), NEW node \in Nodes, NEW item \in Items,
         NEW prev \in Ptrs, NEW next \in Ptrs, NEW g, g = NewNode(h, node, item, prev, next)
  PROVE  /\ Typed(g, D) /\ g.live = h.live \cup {node} /\ g.list = h.list
         /\ g.next = Written(h.next, node, next) /\ g.prev = Written(h.prev, node, prev)
         /\ g.data = Written(h.data, node, item)
         /\ g.next[node] = next /\ g.prev[node] = prev
         /\ \A n \in Nodes \ {node} : g.next[n] = h.next[n] /\ g.prev[n] = h.prev[n]
<1>1. g = Heap(h.live \cup {node}, Written(h.next, node, next), Written(h.prev, node, prev),
               Written(h.data, node, item), h.list)
  BY DEF NewNode, Typed, Heap, Written
<1>2. /\ g.live = h.live \cup {node} /\ g.list = h.list
      /\ g.next = Written(h.next, node, next) /\ g.prev = Written(h.prev, node, prev)
      /\ g.data = Written(h.data, node, item)
  BY <1>1, HeapFields
<1>3. h.next \in Links /\ h.prev \in Links
  BY FieldsAre
<1>4. /\ Written(h.next, node, next) \in Links /\ Written(h.prev, node, prev) \in Links
      /\ \A n \in Nodes : Written(h.next, node, next)[n] = IF n = node THEN next ELSE h.next[n]
      /\ \A n \in Nodes : Written(h.prev, node, prev)[n] = IF n = node THEN prev ELSE h.prev[n]
  <2>1. /\ Written(h.next, node, next) \in Links
        /\ \A n \in Nodes : Written(h.next, node, next)[n] = IF n = node THEN next ELSE h.next[n]
    BY <1>3, WrittenIs
  <2>2. /\ Written(h.prev, node, prev) \in Links
        /\ \A n \in Nodes : Written(h.prev, node, prev)[n] = IF n = node THEN prev ELSE h.prev[n]
    BY <1>3, WrittenIs
  <2> QED
    BY <2>1, <2>2
<1>5. Written(h.data, node, item) \in [Nodes -> Items]
  BY DEF Typed, Written
<1>6. Typed(g, D)
  <2>. DEFINE live == h.live \cup {node}
              nx == Written(h.next, node, next)
              pv == Written(h.prev, node, prev)
              dt == Written(h.data, node, item)
  <2>1. live \in SUBSET Nodes
    BY FieldsAre
  <2>2. nx \in Links /\ pv \in Links /\ dt \in [Nodes -> Items]
    BY <1>4, <1>5
  <2>3. g = Heap(live, nx, pv, dt, h.list)
    BY <1>1
  <2>. HIDE DEF live, nx, pv, dt
  <2> QED
    BY <2>1, <2>2, <2>3 DEF Heap, Typed, Links, Ptrs
<1> QED
  BY <1>2, <1>4, <1>6

\* Where one new node goes behind position a of a list.
InsertedAt(h, g, l, s, a, node) ==
    /\ g.live = h.live \cup {node}
    /\ \A n \in Nodes : g.next[n] = IF n = node THEN At(s, a + 1)
                                    ELSE IF n = At(s, a) THEN node ELSE h.next[n]
    /\ \A n \in Nodes : g.prev[n] = IF n = node THEN At(s, a)
                                    ELSE IF n = At(s, a + 1) THEN node ELSE h.prev[n]
    /\ g.list[l].head = IF At(s, a) = None THEN node ELSE h.list[l].head
    /\ g.list[l].tail = IF At(s, a + 1) = None THEN node ELSE h.list[l].tail
    /\ g.list[l].count = h.list[l].count + 1

LEMMA InsertGood ==
  ASSUME NEW h, NEW D, NEW S, Good(h, D, S, Empty), NEW node \in Nodes \ h.live,
         NEW l \in D, NEW a \in 0 .. Len(S[l]), NEW g, Typed(g, D),
         InsertedAt(h, g, l, S[l], a, node), \A k \in D \ {l} : g.list[k] = h.list[k]
  PROVE  Good(g, D, PutIn(S, l, a, <<node>>), Empty)
<1>. DEFINE w == <<node>>
            s == S[l]
<1>1. w \in Seq(Nodes) /\ Len(w) = 1 /\ w[1] = node
  BY OneIs
<1>2. PICK item \in Items : TRUE
  BY ListAssumption
<1>3. Typed(h, D) /\ node \in Nodes
  BY DEF Good
<1>. DEFINE h0 == NewNode(h, node, item, None, None)
<1>4. /\ Typed(h0, D) /\ h0.live = h.live \cup {node} /\ h0.list = h.list
      /\ \A n \in Nodes \ {node} : h0.next[n] = h.next[n] /\ h0.prev[n] = h.prev[n]
  <2>1. None \in Ptrs
    BY DEF Ptrs
  <2> QED
    BY <1>3, <2>1, NewNodeIs
<1>. HIDE DEF h0
<1>5. Good(h0, D, S, w)
  BY <1>4, Allocate DEF InsertedAt
<1>. HIDE DEF w
<1>6. Attached(h0.next, h0.prev, g.next, g.prev, s, a, w)
  BY <1>1, <1>4 DEF Attached, InsertedAt
<1>7. Good(g, D, PutIn(S, l, a, w), Empty)
  <2>1. g.list[l].head = IF At(S[l], a) = None THEN w[1] ELSE h0.list[l].head
    BY <1>1, <1>4 DEF InsertedAt
  <2>2. g.list[l].tail = IF At(S[l], a + 1) = None THEN w[Len(w)] ELSE h0.list[l].tail
    BY <1>1, <1>4 DEF InsertedAt
  <2>3. g.list[l].count = h0.list[l].count + Len(w)
    BY <1>1, <1>4 DEF InsertedAt
  <2>4. \A k \in D \ {l} : g.list[k] = h0.list[k]
    BY <1>4
  <2>5. Len(w) > 0 /\ g.live = h0.live
    BY <1>1, <1>4 DEF InsertedAt
  <2> QED
    BY <1>5, <1>6, <2>1, <2>2, <2>3, <2>4, <2>5, Attach
<1> QED
  BY <1>7 DEF w

\* list_splice_node takes the node at position a + 1 from one list to the end of another.
Moved(S, from, a, to) ==
    LET R == CutFrom(S, from, a, 1) IN PutIn(R, to, Len(R[to]), <<S[from][a + 1]>>)

FoundAt(s, a, node) == a + 1 <= Len(s) /\ node = s[a + 1]

LEMMA NodeSplicedGood ==
  ASSUME NEW h, NEW D, NEW S, Good(h, D, S, Empty), NEW from \in D, NEW to \in D,
         NEW a \in Nat, NEW node, FoundAt(S[from], a, node),
         NEW g, g = NodeSpliced(h, from, to, node)
  PROVE  Good(g, D, Moved(S, from, a, to), Empty) /\ g.data = h.data /\ g.live = h.live
<1>. DEFINE c == 1
            R == CutFrom(S, from, a, c)
            h1 == RemoveNode(h, from, node)
<1>0. a + 1 <= Len(S[from]) /\ node = S[from][a + 1]
  BY DEF FoundAt
<1>1. S[from] \in Seq(Nodes)
  BY DEF Good, Rows
<1>2. c \in Nat /\ c > 0 /\ a + c <= Len(S[from]) /\ node \in Nodes /\ node = S[from][a + c]
  BY <1>0, <1>1, SeqIs
<1>3. h1 = RemoveRange(h, from, node, node, c)
  BY RemoveNodeIs
<1>4. Part(S[from], a, c) = <<node>>
  BY <1>0, <1>1, PartOne
<1>. HIDE DEF c, h1
<1>5. /\ Good(h1, D, R, Part(S[from], a, c)) /\ h1.data = h.data /\ h1.live = h.live
      /\ h1.next[node] = None /\ h1.prev[node] = None
  <2>1. Segment(S[from], a, c, node, node)
    BY <1>0, <1>2 DEF Segment
  <2> QED
    BY <1>3, <2>1, RemoveRangeGood
<1>6. Good(h1, D, R, <<node>>)
  BY <1>4, <1>5
<1>7. g = AddNode(h1, to, node)
  BY DEF NodeSpliced, h1
<1>. HIDE DEF R
<1>8. /\ Good(g, D, PutIn(R, to, Len(R[to]), <<node>>), Empty)
      /\ g.data = h1.data /\ g.live = h1.live
  BY <1>2, <1>5, <1>6, <1>7, AddNodeGood
<1> QED
  BY <1>2, <1>5, <1>8 DEF Moved, R, c

\* A new node goes between before and after, at position a of a list.
\* The links and the row of the list once a node is between the nodes before and after.
Between(h, l, before, after, node, next, prev, row) ==
    /\ \A n \in Nodes : next[n] = IF n = node THEN after
                                  ELSE IF n = before THEN node ELSE h.next[n]
    /\ \A n \in Nodes : prev[n] = IF n = node THEN before
                                  ELSE IF n = after THEN node ELSE h.prev[n]
    /\ row = Row(IF before = None THEN node ELSE h.list[l].head,
                 IF after = None THEN node ELSE h.list[l].tail, h.list[l].count + 1)

LEMMA NewNodeGood ==
  ASSUME NEW h, NEW D, NEW S, Good(h, D, S, Empty), NEW node \in Nodes \ h.live,
         NEW item \in Items, NEW prev0 \in Ptrs, NEW next0 \in Ptrs,
         NEW h0, h0 = NewNode(h, node, item, prev0, next0),
         NEW l \in D, NEW a \in 0 .. Len(S[l]), NEW before, before = At(S[l], a),
         NEW after, after = At(S[l], a + 1),
         NEW next \in Links, NEW prev \in Links,
         NEW row, Between(h, l, before, after, node, next, prev, row),
         NEW g, g = Rewired(h0, l, next, prev, row)
  PROVE  /\ Good(g, D, PutIn(S, l, a, <<node>>), Empty)
         /\ g.data = Written(h.data, node, item)
<1>1. Typed(h, D)
  BY DEF Good
<1>2. /\ Typed(h0, D) /\ h0.live = h.live \cup {node} /\ h0.list = h.list
      /\ h0.data = Written(h.data, node, item)
  BY <1>1, NewNodeIs
<1>3. h.list[l] \in [head : Ptrs, tail : Ptrs, count : Int]
  BY <1>1, FieldsAre
<1>4. /\ row \in [head : Ptrs, tail : Ptrs, count : Int]
      /\ row.head = IF before = None THEN node ELSE h.list[l].head
      /\ row.tail = IF after = None THEN node ELSE h.list[l].tail
      /\ row.count = h.list[l].count + 1
  BY <1>3 DEF Row, Ptrs, Between
<1>5. /\ Typed(g, D)
      /\ g.live = h0.live /\ g.next = next /\ g.prev = prev /\ g.data = h0.data
      /\ g.list[l] = row /\ \A k \in D \ {l} : g.list[k] = h0.list[k]
  BY <1>2, <1>4, RewiredIs
<1>6. InsertedAt(h, g, l, S[l], a, node)
  <2>1. g.live = h.live \cup {node}
    BY <1>2, <1>5
  <2>2. /\ g.next = next /\ g.prev = prev /\ g.list[l] = row
        /\ before = At(S[l], a) /\ after = At(S[l], a + 1)
    BY <1>5
  <2>3. \A n \in Nodes : g.next[n] = IF n = node THEN after
                                      ELSE IF n = before THEN node ELSE h.next[n]
    BY <2>2 DEF Between
  <2>4. \A n \in Nodes : g.prev[n] = IF n = node THEN before
                                      ELSE IF n = after THEN node ELSE h.prev[n]
    BY <2>2 DEF Between
  <2>5. /\ g.list[l].head = IF before = None THEN node ELSE h.list[l].head
        /\ g.list[l].tail = IF after = None THEN node ELSE h.list[l].tail
        /\ g.list[l].count = h.list[l].count + 1
    BY <1>4, <2>2
  <2> QED
    BY <2>1, <2>2, <2>3, <2>4, <2>5 DEF InsertedAt
<1>7. \A k \in D \ {l} : g.list[k] = h.list[k]
  BY <1>2, <1>5
<1>8. Good(g, D, PutIn(S, l, a, <<node>>), Empty)
  BY <1>5, <1>6, <1>7, InsertGood
<1> QED
  BY <1>2, <1>5, <1>8

\* The heaps of list_add_head, _insert_after and _insert_before.
AddedHead(h, l, item, node) ==
    LET head == h.list[l].head
        h0 == NewNode(h, node, item, None, head)
    IN  [h0 EXCEPT !.prev = Set(@, head, node),
                   !.list[l] = [head |-> node, count |-> @.count + 1,
                                tail |-> IF head = None THEN node ELSE @.tail]]
InsertedAfter(h, l, item, old, node) ==
    LET next == h.next[old]
        h0 == NewNode(h, node, item, old, next)
    IN  [h0 EXCEPT !.prev = Set(@, next, node), !.next[old] = node,
                   !.list[l] = [head |-> @.head, count |-> @.count + 1,
                                tail |-> IF next = None THEN node ELSE @.tail]]
InsertedBefore(h, l, item, old, node) ==
    LET prev == h.prev[old]
        h0 == NewNode(h, node, item, prev, old)
    IN  [h0 EXCEPT !.next = Set(@, prev, node), !.prev[old] = node,
                   !.list[l] = [head |-> IF prev = None THEN node ELSE @.head,
                                tail |-> @.tail, count |-> @.count + 1]]

LEMMA AddedHeadIs ==
  ASSUME NEW h, NEW l, NEW item, NEW node, NEW D,
         NEW h0, h0 = NewNode(h, node, item, None, h.list[l].head), Typed(h0, D), l \in D,
         NEW head, head = h.list[l].head, h0.list = h.list
  PROVE  AddedHead(h, l, item, node) =
           Rewired(h0, l, h0.next, Set(h0.prev, head, node),
                   Row(node, IF head = None THEN node ELSE h.list[l].tail, h.list[l].count + 1))
<1>. DEFINE Made(prev0, row0) == [h0 EXCEPT !.prev = prev0, !.list[l] = row0]
<1>1. ASSUME NEW prev, NEW row, prev = Set(h0.prev, head, node),
             row = [head |-> node, count |-> h.list[l].count + 1,
                    tail |-> IF head = None THEN node ELSE h.list[l].tail]
      PROVE  AddedHead(h, l, item, node) = Made(prev, row)
  BY <1>1 DEF AddedHead
<1>2. ASSUME NEW prev, NEW row
      PROVE  Made(prev, row) = Rewired(h0, l, h0.next, prev, row)
  BY DEF Typed, Rewired
<1>. DEFINE prev == Set(h0.prev, head, node)
            row == Row(node, IF head = None THEN node ELSE h.list[l].tail, h.list[l].count + 1)
<1>3. row = [head |-> node, count |-> h.list[l].count + 1,
             tail |-> IF head = None THEN node ELSE h.list[l].tail]
  BY DEF Row
<1>4. prev = Set(h0.prev, head, node)
  OBVIOUS
<1>. HIDE DEF prev, row, Made
<1>5. AddedHead(h, l, item, node) = Made(prev, row)
  BY <1>1, <1>3, <1>4
<1>6. AddedHead(h, l, item, node) = Rewired(h0, l, h0.next, prev, row)
  BY <1>2, <1>5
<1> QED
  BY <1>6 DEF prev, row

LEMMA InsertedAfterIs ==
  ASSUME NEW h, NEW l, NEW item, NEW old, NEW node, NEW D,
         NEW h0, h0 = NewNode(h, node, item, old, h.next[old]), Typed(h0, D), l \in D,
         NEW next, next = h.next[old], h0.list = h.list
  PROVE  InsertedAfter(h, l, item, old, node) =
           Rewired(h0, l, Written(h0.next, old, node), Set(h0.prev, next, node),
                   Row(h.list[l].head, IF next = None THEN node ELSE h.list[l].tail,
                       h.list[l].count + 1))
<1>. DEFINE Made(prev0, row0) == [h0 EXCEPT !.prev = prev0, !.next[old] = node, !.list[l] = row0]
<1>1. ASSUME NEW prev, NEW row, prev = Set(h0.prev, next, node),
             row = [head |-> h.list[l].head, count |-> h.list[l].count + 1,
                    tail |-> IF next = None THEN node ELSE h.list[l].tail]
      PROVE  InsertedAfter(h, l, item, old, node)
               = Made(prev, row)
  BY <1>1 DEF InsertedAfter
<1>2. ASSUME NEW prev, NEW row
      PROVE  Made(prev, row)
               = Rewired(h0, l, Written(h0.next, old, node), prev, row)
  BY DEF Typed, Rewired, Written
<1>. DEFINE prev == Set(h0.prev, next, node)
            row == Row(h.list[l].head, IF next = None THEN node ELSE h.list[l].tail,
                       h.list[l].count + 1)
<1>3. row = [head |-> h.list[l].head, count |-> h.list[l].count + 1,
             tail |-> IF next = None THEN node ELSE h.list[l].tail]
  BY DEF Row
<1>4. prev = Set(h0.prev, next, node)
  OBVIOUS
<1>. HIDE DEF prev, row, Made
<1>5. InsertedAfter(h, l, item, old, node)
        = Made(prev, row)
  BY <1>1, <1>3, <1>4
<1>6. InsertedAfter(h, l, item, old, node) = Rewired(h0, l, Written(h0.next, old, node), prev, row)
  BY <1>2, <1>5
<1> QED
  BY <1>6 DEF prev, row

LEMMA InsertedBeforeIs ==
  ASSUME NEW h, NEW l, NEW item, NEW old, NEW node, NEW D,
         NEW h0, h0 = NewNode(h, node, item, h.prev[old], old), Typed(h0, D), l \in D,
         NEW prev, prev = h.prev[old], h0.list = h.list
  PROVE  InsertedBefore(h, l, item, old, node) =
           Rewired(h0, l, Set(h0.next, prev, node), Written(h0.prev, old, node),
                   Row(IF prev = None THEN node ELSE h.list[l].head, h.list[l].tail,
                       h.list[l].count + 1))
<1>. DEFINE Made(next0, row0) == [h0 EXCEPT !.next = next0, !.prev[old] = node, !.list[l] = row0]
<1>1. ASSUME NEW next, NEW row, next = Set(h0.next, prev, node),
             row = [head |-> IF prev = None THEN node ELSE h.list[l].head,
                    tail |-> h.list[l].tail, count |-> h.list[l].count + 1]
      PROVE  InsertedBefore(h, l, item, old, node)
               = Made(next, row)
  BY <1>1 DEF InsertedBefore
<1>2. ASSUME NEW next, NEW row
      PROVE  Made(next, row)
               = Rewired(h0, l, next, Written(h0.prev, old, node), row)
  BY DEF Typed, Rewired, Written
<1>. DEFINE next == Set(h0.next, prev, node)
            row == Row(IF prev = None THEN node ELSE h.list[l].head, h.list[l].tail,
                       h.list[l].count + 1)
<1>3. row = [head |-> IF prev = None THEN node ELSE h.list[l].head,
             tail |-> h.list[l].tail, count |-> h.list[l].count + 1]
  BY DEF Row
<1>4. next = Set(h0.next, prev, node)
  OBVIOUS
<1>. HIDE DEF next, row, Made
<1>5. InsertedBefore(h, l, item, old, node)
        = Made(next, row)
  BY <1>1, <1>3, <1>4
<1>6. InsertedBefore(h, l, item, old, node)
        = Rewired(h0, l, next, Written(h0.prev, old, node), row)
  BY <1>2, <1>5
<1> QED
  BY <1>6 DEF next, row

-----------------------------------------------------------------------------
(* What the lists hold.                                                      *)

Holds(c, data, D, S) ==
    c \in [D -> Seq(Items)] /\ \A l \in D : c[l] = Mapped(data, S[l])

LEMMA HoldsSame ==
  ASSUME NEW D, NEW S \in [D -> Seq(Nodes)], NEW c, NEW data, Holds(c, data, D, S), NEW data2,
         \A l \in D, n \in Nodes : On(S[l], n) => data2[n] = data[n]
  PROVE  Holds(c, data2, D, S)
<1>1. ASSUME NEW l \in D
      PROVE  Mapped(data, S[l]) = Mapped(data2, S[l])
  <2>1. S[l] \in Seq(Nodes)
    OBVIOUS
  <2>2. \A i \in 1 .. Len(S[l]) : data[S[l][i]] = data2[S[l][i]]
    BY <2>1, SeqIs DEF On
  <2> QED
    BY <2>1, <2>2, MappedSame
<1> QED
  BY <1>1 DEF Holds

LEMMA HoldsAttach ==
  ASSUME NEW D, NEW S \in [D -> Seq(Nodes)], NEW c, NEW data, Maps(data, Nodes, Items),
         Holds(c, data, D, S), NEW l \in D, NEW a \in 0 .. Len(S[l]), NEW w \in Seq(Nodes)
  PROVE  Holds(PutIn(c, l, a, Mapped(data, w)), data, D, PutIn(S, l, a, w))
<1>. DEFINE c2 == PutIn(c, l, a, Mapped(data, w))
            S2 == PutIn(S, l, a, w)
<1>1. S[l] \in Seq(Nodes) /\ c[l] = Mapped(data, S[l]) /\ c \in [D -> Seq(Items)]
  BY DEF Holds
<1>2. Put(S[l], a, w) \in Seq(Nodes)
  BY <1>1, PutIs
<1>3. S2[l] = Put(S[l], a, w) /\ \A k \in D \ {l} : S2[k] = S[k]
  BY <1>2 DEF PutIn
<1>4. Mapped(data, w) \in Seq(Items) /\ c[l] \in Seq(Items) /\ Len(c[l]) = Len(S[l])
  BY <1>1, MappedIs
<1>5. Put(c[l], a, Mapped(data, w)) \in Seq(Items)
  BY <1>4, PutIs
<1>6. /\ c2 \in [D -> Seq(Items)]
      /\ c2[l] = Put(c[l], a, Mapped(data, w)) /\ \A k \in D \ {l} : c2[k] = c[k]
  BY <1>1, <1>5 DEF PutIn
<1>7. Mapped(data, Put(S[l], a, w)) = Put(c[l], a, Mapped(data, w))
  BY <1>1, MappedPut
<1>. HIDE DEF c2, S2
<1>8. ASSUME NEW k \in D
      PROVE  c2[k] = Mapped(data, S2[k])
  <2>1. CASE k = l
    BY <1>3, <1>6, <1>7, <2>1
  <2>2. CASE k # l
    BY <1>3, <1>6, <2>2 DEF Holds
  <2> QED
    BY <2>1, <2>2
<1> QED
  BY <1>6, <1>8 DEF Holds, c2, S2

LEMMA HoldsDetach ==
  ASSUME NEW D, NEW S \in [D -> Seq(Nodes)], NEW c, NEW data, Maps(data, Nodes, Items),
         Holds(c, data, D, S), NEW l \in D, NEW a \in Nat, NEW n \in Nat, a + n <= Len(S[l])
  PROVE  /\ Holds(CutFrom(c, l, a, n), data, D, CutFrom(S, l, a, n))
         /\ Part(c[l], a, n) = Mapped(data, Part(S[l], a, n))
         /\ Len(c[l]) = Len(S[l])
<1>. DEFINE c2 == CutFrom(c, l, a, n)
            S2 == CutFrom(S, l, a, n)
<1>1. S[l] \in Seq(Nodes) /\ c[l] = Mapped(data, S[l]) /\ c \in [D -> Seq(Items)]
  BY DEF Holds
<1>2. Cut(S[l], a, n) \in Seq(Nodes)
  BY <1>1, CutIs
<1>3. S2[l] = Cut(S[l], a, n) /\ \A k \in D \ {l} : S2[k] = S[k]
  BY <1>2 DEF CutFrom
<1>4. c[l] \in Seq(Items) /\ Len(c[l]) = Len(S[l])
  BY <1>1, MappedIs
<1>5. Cut(c[l], a, n) \in Seq(Items)
  BY <1>4, CutIs
<1>6. /\ c2 \in [D -> Seq(Items)]
      /\ c2[l] = Cut(c[l], a, n) /\ \A k \in D \ {l} : c2[k] = c[k]
  BY <1>1, <1>5 DEF CutFrom
<1>7. Mapped(data, Cut(S[l], a, n)) = Cut(c[l], a, n)
  BY <1>1, MappedCut
<1>8. Mapped(data, Part(S[l], a, n)) = Part(c[l], a, n)
  BY <1>1, MappedPart
<1>. HIDE DEF c2, S2
<1>9. ASSUME NEW k \in D
      PROVE  c2[k] = Mapped(data, S2[k])
  <2>1. CASE k = l
    BY <1>3, <1>6, <1>7, <2>1
  <2>2. CASE k # l
    BY <1>3, <1>6, <2>2 DEF Holds
  <2> QED
    BY <2>1, <2>2
<1> QED
  BY <1>4, <1>6, <1>8, <1>9 DEF Holds, c2, S2

\* A new node with an item.
LEMMA HoldsNew ==
  ASSUME NEW D, NEW S \in [D -> Seq(Nodes)], NEW c, NEW data, Maps(data, Nodes, Items),
         Holds(c, data, D, S), NEW l \in D, NEW a \in 0 .. Len(S[l]),
         NEW node \in Nodes, \A k \in D : ~On(S[k], node), NEW item \in Items
  PROVE  Holds(PutIn(c, l, a, <<item>>), Written(data, node, item), D, PutIn(S, l, a, <<node>>))
<1>. DEFINE data2 == Written(data, node, item)
            w == <<node>>
<1>1. /\ Maps(data2, Nodes, Items)
      /\ data2[node] = item /\ \A n \in Nodes \ {node} : data2[n] = data[n]
  BY DEF Maps, Written
<1>. HIDE DEF data2
<1>2. Holds(c, data2, D, S)
  <2>1. \A k \in D, n \in Nodes : On(S[k], n) => data2[n] = data[n]
    BY <1>1
  <2> QED
    BY <2>1, HoldsSame
<1>3. w \in Seq(Nodes)
  BY OneIs
<1>4. Mapped(data2, w) = <<item>>
  BY <1>1, MappedOne
<1>. HIDE DEF w
<1>5. Holds(PutIn(c, l, a, Mapped(data2, w)), data2, D, PutIn(S, l, a, w))
  BY <1>1, <1>2, <1>3, HoldsAttach
<1> QED
  BY <1>4, <1>5 DEF data2, w

-----------------------------------------------------------------------------
(* The invariant: there are sequences of nodes that the lists are, and the   *)
(* contents are their items.                                                 *)

Kept(h, c) == \E S : Good(h, Lists, S, Empty) /\ Holds(c, h.data, Lists, S)
ListInv == Kept(heap, contents)

LEMMA GoodIs ==
  ASSUME NEW h, NEW D, NEW S, NEW w, Good(h, D, S, w)
  PROVE  /\ S \in [D -> Seq(Nodes)] /\ Typed(h, D) /\ Maps(h.data, Nodes, Items)
         /\ \A n \in Nodes : n \notin h.live => \A l \in D : ~On(S[l], n)
BY TypedIs DEF Good, Rows, Held

LEMMA FreshIs ==
  ASSUME Free(heap) # {}
  PROVE  Fresh \in Nodes \ heap.live
<1>1. Free(heap) \in SUBSET Nat
  BY NodesAre DEF Free
<1>2. \E n \in Free(heap) : \A m \in Free(heap) : n <= m
  BY <1>1, Least
<1>3. Fresh \in Free(heap)
  BY <1>2 DEF Fresh
<1> QED
  BY <1>3 DEF Free

LEMMA PlaceIs ==
  ASSUME NEW S, Good(heap, Lists, S, Empty), NEW l \in Lists, NEW node,
         IsMember(heap, l, node)
  PROVE  /\ Place(l, node) \in Nat /\ Place(l, node) + 1 <= Len(S[l])
         /\ S[l][Place(l, node) + 1] = node /\ node \in Nodes
<1>1. S[l] \in Seq(Nodes) /\ NodesOf(heap, l) = S[l]
  BY GoodNodes
<1>2. Len(S[l]) \in Nat /\ DOMAIN S[l] = 1 .. Len(S[l])
  BY <1>1, SeqIs
<1>3. \E i \in DOMAIN S[l] : S[l][i] = node
  BY <1>1 DEF IsMember
<1>. DEFINE i == CHOOSE i \in DOMAIN S[l] : S[l][i] = node
<1>4. i \in DOMAIN S[l] /\ S[l][i] = node
  BY <1>3
<1>5. Place(l, node) = i - 1
  BY <1>1 DEF Place
<1>. HIDE DEF i
<1>6. i \in 1 .. Len(S[l])
  BY <1>2, <1>4
<1>7. (i - 1) \in Nat /\ (i - 1) + 1 = i /\ i <= Len(S[l])
  BY <1>2, <1>6
<1>8. node \in Nodes
  BY <1>1, <1>4, <1>6, SeqIs
<1> QED
  BY <1>4, <1>5, <1>7, <1>8

LEMMA AddKept ==
  ASSUME ListInv, NEW l \in Lists, NEW item \in Items, Add(l, item)
  PROVE  ListInv'
<1>1. PICK S : Good(heap, Lists, S, Empty) /\ Holds(contents, heap.data, Lists, S)
  BY DEF ListInv, Kept
<1>. DEFINE node == Fresh
            h0 == NewNode(heap, node, item, None, None)
            w == <<node>>
            a == Len(S[l])
<1>2. node \in Nodes \ heap.live
  BY FreshIs DEF Add
<1>3. /\ S \in [Lists -> Seq(Nodes)] /\ Typed(heap, Lists) /\ Maps(heap.data, Nodes, Items)
      /\ \A k \in Lists : ~On(S[k], node)
  BY <1>1, <1>2, GoodIs
<1>. HIDE DEF node
<1>4. /\ Typed(h0, Lists) /\ h0.live = heap.live \cup {node} /\ h0.list = heap.list
      /\ h0.data = Written(heap.data, node, item)
      /\ h0.next[node] = None /\ h0.prev[node] = None
      /\ \A n \in Nodes \ {node} : h0.next[n] = heap.next[n] /\ h0.prev[n] = heap.prev[n]
  <2>1. None \in Ptrs
    BY DEF Ptrs
  <2> QED
    BY <1>2, <1>3, <2>1, NewNodeIs
<1>5. heap' = AddNode(h0, l, node)
  BY DEF Add, node
<1>. HIDE DEF h0
<1>6. Good(h0, Lists, S, <<node>>)
  BY <1>1, <1>2, <1>4, Allocate
<1>7. Good(heap', Lists, PutIn(S, l, a, <<node>>), Empty) /\ heap'.data = h0.data
  BY <1>2, <1>4, <1>5, <1>6, AddNodeGood
<1>8. a \in 0 .. Len(S[l]) /\ contents[l] \in Seq(Items) /\ a = Len(contents[l])
  <2>1. S[l] \in Seq(Nodes) /\ contents[l] = Mapped(heap.data, S[l])
    BY <1>1, <1>3 DEF Holds
  <2> QED
    BY <1>3, <2>1, SeqIs, MappedIs
<1>9. contents' = PutIn(contents, l, a, <<item>>)
  <2>1. contents' = [contents EXCEPT ![l] = Appended(contents[l], item)]
    BY DEF Add, Promise, Appended
  <2>2. Appended(contents[l], item) = Put(contents[l], a, <<item>>)
    BY <1>8, AppendedIs
  <2> QED
    BY <2>1, <2>2 DEF PutIn
<1>. HIDE DEF a
<1>10. Holds(contents', heap'.data, Lists, PutIn(S, l, a, <<node>>))
  <2>. DEFINE data == heap.data
              c == contents
  <2>1. /\ S \in [Lists -> Seq(Nodes)] /\ Maps(data, Nodes, Items)
        /\ Holds(c, data, Lists, S) /\ a \in 0 .. Len(S[l])
        /\ node \in Nodes /\ \A k \in Lists : ~On(S[k], node)
    BY <1>1, <1>2, <1>3, <1>8
  <2>2. heap'.data = Written(data, node, item)
    BY <1>4, <1>7
  <2>. HIDE DEF data, c
  <2>3. Holds(PutIn(c, l, a, <<item>>), Written(data, node, item), Lists,
              PutIn(S, l, a, <<node>>))
    BY <2>1, HoldsNew
  <2> QED
    BY <1>9, <2>2, <2>3 DEF c
<1> QED
  BY <1>7, <1>10 DEF ListInv, Kept

LEMMA NewKept ==
  ASSUME NEW h, NEW c, NEW S, Good(h, Lists, S, Empty), Holds(c, h.data, Lists, S),
         NEW node \in Nodes \ h.live, NEW l \in Lists, NEW a \in 0 .. Len(S[l]),
         NEW item \in Items, NEW g, Good(g, Lists, PutIn(S, l, a, <<node>>), Empty),
         g.data = Written(h.data, node, item)
  PROVE  Kept(g, PutIn(c, l, a, <<item>>))
<1>1. /\ S \in [Lists -> Seq(Nodes)] /\ Maps(h.data, Nodes, Items)
      /\ \A k \in Lists : ~On(S[k], node)
  BY GoodIs
<1>2. Holds(PutIn(c, l, a, <<item>>), g.data, Lists, PutIn(S, l, a, <<node>>))
  BY <1>1, HoldsNew
<1> QED
  BY <1>2 DEF Kept

LEMMA AddHeadKept ==
  ASSUME ListInv, NEW l \in Lists, NEW item \in Items, AddHead(l, item)
  PROVE  ListInv'
<1>1. PICK S : Good(heap, Lists, S, Empty) /\ Holds(contents, heap.data, Lists, S)
  BY DEF ListInv, Kept
<1>. DEFINE node == Fresh
            head == heap.list[l].head
            h0 == NewNode(heap, node, item, None, head)
            z == 0
<1>2. node \in Nodes \ heap.live
  BY FreshIs DEF AddHead
<1>3. /\ S \in [Lists -> Seq(Nodes)] /\ Typed(heap, Lists) /\ S[l] \in Seq(Nodes)
      /\ Len(S[l]) \in Nat /\ head = At(S[l], 1) /\ contents[l] \in Seq(Items)
  <2>1. S \in [Lists -> Seq(Nodes)] /\ Typed(heap, Lists)
    BY <1>1, GoodIs
  <2>2. S[l] \in Seq(Nodes) /\ head = At(S[l], 1) /\ Len(S[l]) \in Nat
    BY <1>1, GoodNodes, SeqIs
  <2>3. contents[l] \in Seq(Items)
    BY <1>1 DEF Holds
  <2> QED
    BY <2>1, <2>2, <2>3
<1>4. heap' = AddedHead(heap, l, item, node)
  BY DEF AddHead, AddedHead
<1>. HIDE DEF node
<1>5. head \in Ptrs /\ None \in Ptrs /\ node \in Ptrs
  BY <1>2, <1>3, AtIs DEF Ptrs
<1>. HIDE DEF head
<1>6. /\ Typed(h0, Lists) /\ h0.list = heap.list
      /\ h0.next = Written(heap.next, node, head) /\ h0.prev = Written(heap.prev, node, None)
      /\ h0.next[node] = head /\ h0.prev[node] = None
      /\ \A n \in Nodes \ {node} : h0.next[n] = heap.next[n] /\ h0.prev[n] = heap.prev[n]
  BY <1>2, <1>3, <1>5, NewNodeIs
<1>7. h0 = NewNode(heap, node, item, None, head)
  OBVIOUS
<1>. HIDE DEF h0
<1>8. h0.next \in Links /\ h0.prev \in Links
  BY <1>6, FieldsAre
<1>. DEFINE prev == Set(h0.prev, head, node)
            row == Row(node, IF head = None THEN node ELSE heap.list[l].tail,
                       heap.list[l].count + 1)
<1>9. heap' = Rewired(h0, l, h0.next, prev, row)
  BY <1>4, <1>6, <1>7, AddedHeadIs DEF head
<1>10. prev \in Links /\ \A n \in Nodes : prev[n] = IF n = head THEN node ELSE h0.prev[n]
  <2>1. h0.prev \in Links /\ head \in Ptrs /\ node \in Ptrs
    BY <1>5, <1>8
  <2> QED
    BY <2>1, SetIs
<1>11. /\ z \in 0 .. Len(S[l]) /\ At(S[l], z) = None /\ At(S[l], z + 1) = head
       /\ head # node
  <2>1. ~On(S[l], node)
    BY <1>1, <1>2, GoodIs
  <2> QED
    BY <1>2, <1>3, <2>1, NodesAre DEF At, On
<1>12. row = Row(IF At(S[l], z) = None THEN node ELSE heap.list[l].head,
                 IF head = None THEN node ELSE heap.list[l].tail, heap.list[l].count + 1)
  BY <1>11
<1>. HIDE DEF row, prev, z
<1>13. \A n \in Nodes : h0.next[n] = IF n = node THEN head
                                     ELSE IF n = At(S[l], z) THEN node ELSE heap.next[n]
  BY <1>6, <1>11, NodesAre
<1>14. \A n \in Nodes : prev[n] = IF n = node THEN At(S[l], z)
                                  ELSE IF n = head THEN node ELSE heap.prev[n]
  BY <1>6, <1>10, <1>11
<1>15. /\ Good(heap', Lists, PutIn(S, l, z, <<node>>), Empty)
       /\ heap'.data = Written(heap.data, node, item)
  <2>1. Between(heap, l, At(S[l], z), head, node, h0.next, prev, row)
    BY <1>12, <1>13, <1>14 DEF Between
  <2>2. prev \in Links
    BY <1>10
  <2> QED
    BY <1>1, <1>2, <1>5, <1>7, <1>8, <1>9, <1>11, <2>1, <2>2, NewNodeGood
<1>16. contents' = PutIn(contents, l, z, <<item>>)
  <2>1. <<item>> \o contents[l] = Put(contents[l], z, <<item>>)
    BY <1>3, PrependedIs DEF z
  <2> QED
    BY <2>1 DEF AddHead, Promise, PutIn
<1> QED
  BY <1>1, <1>2, <1>11, <1>15, <1>16, NewKept DEF ListInv

LEMMA InsertAfterKept ==
  ASSUME ListInv, NEW l \in Lists, NEW item \in Items, NEW old, InsertAfter(l, item, old)
  PROVE  ListInv'
<1>1. PICK S : Good(heap, Lists, S, Empty) /\ Holds(contents, heap.data, Lists, S)
  BY DEF ListInv, Kept
<1>. DEFINE node == Fresh
            next == heap.next[old]
            h0 == NewNode(heap, node, item, old, next)
            a == Place(l, old) + 1
<1>2. node \in Nodes \ heap.live /\ IsMember(heap, l, old)
  BY FreshIs DEF InsertAfter
<1>3. /\ S \in [Lists -> Seq(Nodes)] /\ Typed(heap, Lists) /\ S[l] \in Seq(Nodes)
      /\ Len(S[l]) \in Nat /\ contents[l] \in Seq(Items) /\ Len(contents[l]) = Len(S[l])
      /\ Linked(heap.next, heap.prev, S[l])
  <2>1. S \in [Lists -> Seq(Nodes)] /\ Typed(heap, Lists) /\ Maps(heap.data, Nodes, Items)
    BY <1>1, GoodIs
  <2>2. S[l] \in Seq(Nodes) /\ Len(S[l]) \in Nat
    BY <1>1, GoodNodes, SeqIs
  <2>3. contents[l] = Mapped(heap.data, S[l])
    BY <1>1 DEF Holds
  <2>4. Linked(heap.next, heap.prev, S[l])
    BY <1>1 DEF Good
  <2> QED
    BY <2>1, <2>2, <2>3, <2>4, MappedIs
<1>4. heap' = InsertedAfter(heap, l, item, old, node)
  BY DEF InsertAfter, InsertedAfter
<1>5. /\ a \in Nat /\ a \in 1 .. Len(S[l]) /\ S[l][a] = old /\ old \in Nodes
      /\ a \in 0 .. Len(S[l])
  <2>1. /\ Place(l, old) \in Nat /\ Place(l, old) + 1 <= Len(S[l])
        /\ S[l][Place(l, old) + 1] = old /\ old \in Nodes
    BY <1>1, <1>2, PlaceIs
  <2> QED
    BY <1>3, <2>1
<1>. HIDE DEF a
<1>6. old = At(S[l], a) /\ next = At(S[l], a + 1)
  BY <1>3, <1>5 DEF At, Linked
<1>. HIDE DEF node
<1>7. old # node /\ next # node
  <2>1. ~On(S[l], node)
    BY <1>1, <1>2, GoodIs
  <2> QED
    BY <1>2, <1>3, <1>5, <1>6, <2>1, NodesAre DEF At, On
<1>8. old \in Ptrs /\ next \in Ptrs /\ node \in Ptrs
  BY <1>2, <1>3, <1>5, <1>6, AtIs DEF Ptrs
<1>. HIDE DEF next
<1>9. /\ Typed(h0, Lists) /\ h0.list = heap.list
      /\ h0.next[node] = next /\ h0.prev[node] = old
      /\ \A n \in Nodes \ {node} : h0.next[n] = heap.next[n] /\ h0.prev[n] = heap.prev[n]
  BY <1>2, <1>3, <1>8, NewNodeIs
<1>10. h0 = NewNode(heap, node, item, old, next)
  OBVIOUS
<1>. HIDE DEF h0
<1>11. h0.next \in Links /\ h0.prev \in Links
  BY <1>9, FieldsAre
<1>. DEFINE next2 == Written(h0.next, old, node)
            prev2 == Set(h0.prev, next, node)
            row == Row(heap.list[l].head, IF next = None THEN node ELSE heap.list[l].tail,
                       heap.list[l].count + 1)
<1>12. heap' = Rewired(h0, l, next2, prev2, row)
  BY <1>4, <1>9, <1>10, InsertedAfterIs DEF next
<1>13. prev2 \in Links /\ \A n \in Nodes : prev2[n] = IF n = next THEN node ELSE h0.prev[n]
  <2>1. h0.prev \in Links /\ next \in Ptrs /\ node \in Ptrs
    BY <1>8, <1>11
  <2> QED
    BY <2>1, SetIs
<1>14. next2 \in Links /\ \A n \in Nodes : next2[n] = IF n = old THEN node ELSE h0.next[n]
  <2>1. h0.next \in Links /\ old \in Nodes /\ node \in Ptrs
    BY <1>5, <1>8, <1>11
  <2> QED
    BY <2>1, WrittenIs
<1>15. row = Row(IF old = None THEN node ELSE heap.list[l].head,
                 IF next = None THEN node ELSE heap.list[l].tail, heap.list[l].count + 1)
  BY <1>5, NodesAre
<1>. HIDE DEF row, next2, prev2
<1>16. \A n \in Nodes : next2[n] = IF n = node THEN next ELSE IF n = old THEN node ELSE heap.next[n]
  BY <1>7, <1>9, <1>14
<1>17. \A n \in Nodes : prev2[n] = IF n = node THEN old ELSE IF n = next THEN node ELSE heap.prev[n]
  BY <1>7, <1>9, <1>13
<1>18. /\ Good(heap', Lists, PutIn(S, l, a, <<node>>), Empty)
       /\ heap'.data = Written(heap.data, node, item)
  <2>1. Between(heap, l, old, next, node, next2, prev2, row)
    BY <1>15, <1>16, <1>17 DEF Between
  <2>2. next2 \in Links /\ prev2 \in Links
    BY <1>13, <1>14
  <2> QED
    BY <1>1, <1>2, <1>5, <1>6, <1>8, <1>10, <1>12, <2>1, <2>2, NewNodeGood
<1>19. contents' = PutIn(contents, l, a, <<item>>)
  <2>1. <<item>> \in Seq(Items)
    BY OneIs
  <2>2. Inserted(contents[l], a, <<item>>) = Put(contents[l], a, <<item>>)
    BY <1>3, <1>5, <2>1, InsertedIs
  <2> QED
    BY <2>2 DEF InsertAfter, Promise, PutIn, a
<1> QED
  BY <1>1, <1>2, <1>5, <1>18, <1>19, NewKept DEF ListInv

LEMMA InsertBeforeKept ==
  ASSUME ListInv, NEW l \in Lists, NEW item \in Items, NEW old, InsertBefore(l, item, old)
  PROVE  ListInv'
<1>1. PICK S : Good(heap, Lists, S, Empty) /\ Holds(contents, heap.data, Lists, S)
  BY DEF ListInv, Kept
<1>. DEFINE node == Fresh
            prev == heap.prev[old]
            h0 == NewNode(heap, node, item, prev, old)
            a == Place(l, old)
<1>2. node \in Nodes \ heap.live /\ IsMember(heap, l, old)
  BY FreshIs DEF InsertBefore
<1>3. /\ S \in [Lists -> Seq(Nodes)] /\ Typed(heap, Lists) /\ S[l] \in Seq(Nodes)
      /\ Len(S[l]) \in Nat /\ contents[l] \in Seq(Items) /\ Len(contents[l]) = Len(S[l])
      /\ Linked(heap.next, heap.prev, S[l])
  <2>1. S \in [Lists -> Seq(Nodes)] /\ Typed(heap, Lists) /\ Maps(heap.data, Nodes, Items)
    BY <1>1, GoodIs
  <2>2. S[l] \in Seq(Nodes) /\ Len(S[l]) \in Nat
    BY <1>1, GoodNodes, SeqIs
  <2>3. contents[l] = Mapped(heap.data, S[l])
    BY <1>1 DEF Holds
  <2>4. Linked(heap.next, heap.prev, S[l])
    BY <1>1 DEF Good
  <2> QED
    BY <2>1, <2>2, <2>3, <2>4, MappedIs
<1>4. heap' = InsertedBefore(heap, l, item, old, node)
  BY DEF InsertBefore, InsertedBefore
<1>5. /\ a \in Nat /\ a + 1 \in 1 .. Len(S[l]) /\ S[l][a + 1] = old /\ old \in Nodes
      /\ a \in 0 .. Len(S[l])
  <2>1. /\ Place(l, old) \in Nat /\ Place(l, old) + 1 <= Len(S[l])
        /\ S[l][Place(l, old) + 1] = old /\ old \in Nodes
    BY <1>1, <1>2, PlaceIs
  <2> QED
    BY <1>3, <2>1
<1>. HIDE DEF a
<1>6. old = At(S[l], a + 1) /\ prev = At(S[l], a)
  <2>1. prev = At(S[l], (a + 1) - 1) /\ (a + 1) - 1 = a
    BY <1>3, <1>5 DEF Linked
  <2> QED
    BY <1>5, <2>1 DEF At
<1>. HIDE DEF node
<1>7. old # node /\ prev # node
  <2>1. ~On(S[l], node)
    BY <1>1, <1>2, GoodIs
  <2> QED
    BY <1>2, <1>3, <1>5, <1>6, <2>1, NodesAre DEF At, On
<1>8. old \in Ptrs /\ prev \in Ptrs /\ node \in Ptrs
  BY <1>2, <1>3, <1>5, <1>6, AtIs DEF Ptrs
<1>. HIDE DEF prev
<1>9. /\ Typed(h0, Lists) /\ h0.list = heap.list
      /\ h0.next[node] = old /\ h0.prev[node] = prev
      /\ \A n \in Nodes \ {node} : h0.next[n] = heap.next[n] /\ h0.prev[n] = heap.prev[n]
  BY <1>2, <1>3, <1>8, NewNodeIs
<1>10. h0 = NewNode(heap, node, item, prev, old)
  OBVIOUS
<1>. HIDE DEF h0
<1>11. h0.next \in Links /\ h0.prev \in Links
  BY <1>9, FieldsAre
<1>. DEFINE next2 == Set(h0.next, prev, node)
            prev2 == Written(h0.prev, old, node)
            row == Row(IF prev = None THEN node ELSE heap.list[l].head, heap.list[l].tail,
                       heap.list[l].count + 1)
<1>12. heap' = Rewired(h0, l, next2, prev2, row)
  BY <1>4, <1>9, <1>10, InsertedBeforeIs DEF prev
<1>13. next2 \in Links /\ \A n \in Nodes : next2[n] = IF n = prev THEN node ELSE h0.next[n]
  <2>1. h0.next \in Links /\ prev \in Ptrs /\ node \in Ptrs
    BY <1>8, <1>11
  <2> QED
    BY <2>1, SetIs
<1>14. prev2 \in Links /\ \A n \in Nodes : prev2[n] = IF n = old THEN node ELSE h0.prev[n]
  <2>1. h0.prev \in Links /\ old \in Nodes /\ node \in Ptrs
    BY <1>5, <1>8, <1>11
  <2> QED
    BY <2>1, WrittenIs
<1>15. row = Row(IF prev = None THEN node ELSE heap.list[l].head,
                 IF old = None THEN node ELSE heap.list[l].tail, heap.list[l].count + 1)
  BY <1>5, NodesAre
<1>. HIDE DEF row, next2, prev2
<1>16. \A n \in Nodes : next2[n] = IF n = node THEN old ELSE IF n = prev THEN node ELSE heap.next[n]
  BY <1>7, <1>9, <1>13
<1>17. \A n \in Nodes : prev2[n] = IF n = node THEN prev ELSE IF n = old THEN node ELSE heap.prev[n]
  BY <1>7, <1>9, <1>14
<1>18. /\ Good(heap', Lists, PutIn(S, l, a, <<node>>), Empty)
       /\ heap'.data = Written(heap.data, node, item)
  <2>1. Between(heap, l, prev, old, node, next2, prev2, row)
    BY <1>15, <1>16, <1>17 DEF Between
  <2>2. next2 \in Links /\ prev2 \in Links
    BY <1>13, <1>14
  <2> QED
    BY <1>1, <1>2, <1>5, <1>6, <1>8, <1>10, <1>12, <2>1, <2>2, NewNodeGood
<1>19. contents' = PutIn(contents, l, a, <<item>>)
  <2>1. <<item>> \in Seq(Items)
    BY OneIs
  <2>2. Inserted(contents[l], a, <<item>>) = Put(contents[l], a, <<item>>)
    BY <1>3, <1>5, <2>1, InsertedIs
  <2> QED
    BY <2>2 DEF InsertBefore, Promise, PutIn, a
<1> QED
  BY <1>1, <1>2, <1>5, <1>18, <1>19, NewKept DEF ListInv

-----------------------------------------------------------------------------
(* The calls that free nodes.                                                *)

LEMMA ReleasedIs ==
  ASSUME NEW h, NEW D, Typed(h, D), NEW N, NEW g, g = Released(h, N)
  PROVE  /\ Typed(g, D) /\ g.list = h.list /\ g.live = h.live \ N
         /\ \A n \in Nodes : n \notin N => /\ g.next[n] = h.next[n] /\ g.prev[n] = h.prev[n]
                                           /\ g.data[n] = h.data[n]
<1>. DEFINE live == h.live \ N
            next == [n \in Nodes |-> IF n \in N THEN None ELSE h.next[n]]
            prev == [n \in Nodes |-> IF n \in N THEN None ELSE h.prev[n]]
            data == [n \in Nodes |-> IF n \in N THEN Blank ELSE h.data[n]]
<1>1. /\ h.next \in Links /\ h.prev \in Links /\ h.live \in SUBSET Nodes
      /\ h.data \in [Nodes -> Items]
      /\ h.list \in [D -> [head : Ptrs, tail : Ptrs, count : Int]]
  BY FieldsAre
<1>2. Blank \in Items
  BY ListAssumption DEF Blank
<1>3. live \in SUBSET Nodes
  BY <1>1
<1>4. next \in Links /\ prev \in Links
  BY <1>1 DEF Links
<1>5. data \in [Nodes -> Items]
  BY <1>1, <1>2
<1>6. g = Heap(live, next, prev, data, h.list)
  BY DEF Typed, Released, Heap
<1>7. g.live = live /\ g.next = next /\ g.prev = prev /\ g.data = data /\ g.list = h.list
  BY <1>6, HeapFields
<1>8. \A n \in Nodes : n \notin N => /\ g.next[n] = h.next[n] /\ g.prev[n] = h.prev[n]
                                     /\ g.data[n] = h.data[n]
  BY <1>7
<1>. HIDE DEF live, next, prev, data
<1>9. Typed(g, D)
  BY <1>1, <1>3, <1>4, <1>5, <1>6 DEF Heap, Typed, Links, Ptrs
<1> QED
  BY <1>7, <1>8, <1>9 DEF live

\* What is on w is freed.
LEMMA ReleasedGood ==
  ASSUME NEW h, NEW D, NEW S, NEW w, Good(h, D, S, w), NEW N, \A n \in Nodes : n \in N <=> On(w, n),
         NEW g, g = Released(h, N)
  PROVE  /\ Good(g, D, S, Empty)
         /\ \A c : Holds(c, h.data, D, S) => Holds(c, g.data, D, S)
<1>1. Typed(h, D) /\ S \in [D -> Seq(Nodes)] /\ \A l \in D : Apart(S[l], w)
  BY DEF Good, Rows
<1>2. /\ Typed(g, D) /\ g.list = h.list /\ g.live = h.live \ N
      /\ \A n \in Nodes : n \notin N => /\ g.next[n] = h.next[n] /\ g.prev[n] = h.prev[n]
                                        /\ g.data[n] = h.data[n]
  BY <1>1, ReleasedIs
<1>3. Good(g, D, S, Empty)
  <2>1. \A n \in Nodes : n \in g.live <=> n \in h.live /\ ~On(w, n)
    BY <1>2
  <2>2. \A n \in Nodes : ~On(w, n) => g.next[n] = h.next[n] /\ g.prev[n] = h.prev[n]
    BY <1>2
  <2>3. Typed(g, D) /\ g.list = h.list
    BY <1>2
  <2> QED
    BY <2>1, <2>2, <2>3, Release
<1>4. \A l \in D, n \in Nodes : On(S[l], n) => g.data[n] = h.data[n]
  <2>1. \A l \in D, n \in Nodes : ~(On(S[l], n) /\ On(w, n))
    BY <1>1, ApartIs
  <2> QED
    BY <1>2, <2>1
<1>5. \A c : Holds(c, h.data, D, S) => Holds(c, g.data, D, S)
  BY <1>1, <1>4, HoldsSame
<1> QED
  BY <1>3, <1>5

LEMMA RemoveNodeGood ==
  ASSUME NEW h, NEW D, NEW S, Good(h, D, S, Empty), NEW l \in D,
         NEW a \in Nat, a + 1 <= Len(S[l]), NEW node, node = S[l][a + 1],
         NEW g, g = RemoveNode(h, l, node)
  PROVE  /\ Good(g, D, CutFrom(S, l, a, 1), <<node>>) /\ g.data = h.data /\ g.live = h.live
         /\ g.next[node] = None /\ g.prev[node] = None
<1>. DEFINE c == 1
<1>1. S[l] \in Seq(Nodes)
  BY DEF Good, Rows
<1>2. c \in Nat /\ c > 0 /\ a + c <= Len(S[l]) /\ node = S[l][a + c]
  OBVIOUS
<1>3. g = RemoveRange(h, l, node, node, c)
  BY RemoveNodeIs
<1>4. Part(S[l], a, c) = <<node>>
  BY <1>1, PartOne
<1>. HIDE DEF c
<1>5. /\ Good(g, D, CutFrom(S, l, a, c), Part(S[l], a, c)) /\ g.data = h.data /\ g.live = h.live
      /\ g.next[node] = None /\ g.prev[node] = None
  <2>1. Segment(S[l], a, c, node, node)
    BY <1>2 DEF Segment
  <2> QED
    BY <1>3, <2>1, RemoveRangeGood
<1> QED
  BY <1>4, <1>5 DEF c

LEMMA RmKept ==
  ASSUME ListInv, NEW l \in Lists, NEW node, Rm(l, node)
  PROVE  ListInv'
<1>1. PICK S : Good(heap, Lists, S, Empty) /\ Holds(contents, heap.data, Lists, S)
  BY DEF ListInv, Kept
<1>. DEFINE a == Place(l, node)
            c == 1
            h1 == RemoveNode(heap, l, node)
            R == CutFrom(S, l, a, c)
<1>2. IsMember(heap, l, node) /\ heap' = Released(h1, {node})
  BY DEF Rm
<1>3. a \in Nat /\ a + 1 <= Len(S[l]) /\ S[l][a + 1] = node /\ node \in Nodes
  BY <1>1, <1>2, PlaceIs
<1>4. S \in [Lists -> Seq(Nodes)] /\ Maps(heap.data, Nodes, Items)
  BY <1>1, GoodIs
<1>5. contents' = [contents EXCEPT ![l] = Without(contents[l], a, c)]
  BY DEF Rm, Promise
<1>. HIDE DEF a
<1>6. Good(h1, Lists, R, <<node>>) /\ h1.data = heap.data
  BY <1>1, <1>3, RemoveNodeGood
<1>. HIDE DEF h1
<1>7. c \in Nat /\ a + c <= Len(S[l])
  BY <1>3
<1>. HIDE DEF c
<1>8. Holds(CutFrom(contents, l, a, c), heap.data, Lists, R) /\ Len(contents[l]) = Len(S[l])
  BY <1>1, <1>3, <1>4, <1>7, HoldsDetach
<1>9. contents' = CutFrom(contents, l, a, c)
  <2>1. contents[l] \in Seq(Items)
    BY <1>1 DEF Holds
  <2>2. Without(contents[l], a, c) = Cut(contents[l], a, c)
    BY <1>3, <1>7, <1>8, <2>1, WithoutIs
  <2> QED
    BY <1>5, <2>2 DEF CutFrom
<1>. HIDE DEF R
<1>10. \A n \in Nodes : n \in {node} <=> On(<<node>>, n)
  <2>. DEFINE w == <<node>>
  <2>1. w \in Seq(Nodes) /\ Len(w) = 1 /\ w[1] = node
    BY <1>3, OneIs
  <2>. HIDE DEF w
  <2>2. \A n \in Nodes : n \in {node} <=> On(w, n)
    BY <2>1 DEF On
  <2> QED
    BY <2>2 DEF w
<1>11. /\ Good(heap', Lists, R, Empty)
       /\ \A d : Holds(d, h1.data, Lists, R) => Holds(d, heap'.data, Lists, R)
  BY <1>2, <1>6, <1>10, ReleasedGood
<1>12. Holds(contents', heap'.data, Lists, R)
  BY <1>6, <1>8, <1>9, <1>11
<1> QED
  BY <1>11, <1>12 DEF ListInv, Kept

\* list_splice_node.
LEMMA HoldsMoved ==
  ASSUME NEW D, NEW S \in [D -> Seq(Nodes)], NEW c, NEW data, Maps(data, Nodes, Items),
         Holds(c, data, D, S), NEW from \in D, NEW to \in D, NEW a \in Nat, a + 1 <= Len(S[from])
  PROVE  Holds(Moved(c, from, a, to), data, D, Moved(S, from, a, to))
<1>. DEFINE z == 1
            R == CutFrom(S, from, a, z)
            d == CutFrom(c, from, a, z)
            w == <<S[from][a + 1]>>
            b == Len(R[to])
<1>1. z \in Nat /\ a + z <= Len(S[from])
  OBVIOUS
<1>2. S[from] \in Seq(Nodes) /\ Part(S[from], a, z) = w
  BY PartOne
<1>3. S[from][a + 1] \in Nodes
  BY <1>2, SeqIs
<1>4. w \in Seq(Nodes)
  BY <1>3, OneIs
<1>5. c[from] \in Seq(Items) /\ c[from] = Mapped(data, S[from])
  BY DEF Holds
<1>6. Mapped(data, w) = <<c[from][a + 1]>>
  <2>1. a + 1 \in 1 .. Len(S[from])
    BY <1>2, SeqIs
  <2>2. c[from][a + 1] = data[S[from][a + 1]]
    BY <1>2, <1>5, <2>1, MappedIs
  <2> QED
    BY <1>3, <2>2, MappedOne
<1>. HIDE DEF z
<1>7. Holds(d, data, D, R)
  BY <1>1, HoldsDetach
<1>8. R \in [D -> Seq(Nodes)]
  <2>1. Cut(S[from], a, z) \in Seq(Nodes)
    BY <1>1, <1>2, CutIs
  <2> QED
    BY <2>1 DEF CutFrom
<1>. HIDE DEF R, d, w
<1>9. b \in 0 .. Len(R[to]) /\ Len(d[to]) = b
  <2>1. R[to] \in Seq(Nodes) /\ d[to] = Mapped(data, R[to])
    BY <1>7, <1>8 DEF Holds
  <2> QED
    BY <2>1, MappedIs, SeqIs
<1>10. Holds(PutIn(d, to, b, Mapped(data, w)), data, D, PutIn(R, to, b, w))
  BY <1>4, <1>7, <1>8, <1>9, HoldsAttach
<1> QED
  BY <1>6, <1>9, <1>10 DEF Moved, R, d, w, z

LEMMA SpliceNodeKept ==
  ASSUME ListInv, NEW from \in Lists, NEW to \in Lists, NEW node, SpliceNode(from, to, node)
  PROVE  ListInv'
<1>1. PICK S : Good(heap, Lists, S, Empty) /\ Holds(contents, heap.data, Lists, S)
  BY DEF ListInv, Kept
<1>. DEFINE a == Place(from, node)
            z == 1
<1>2. IsMember(heap, from, node) /\ heap' = NodeSpliced(heap, from, to, node)
  BY DEF SpliceNode
<1>3. a \in Nat /\ a + 1 <= Len(S[from]) /\ S[from][a + 1] = node /\ node \in Nodes
  BY <1>1, <1>2, PlaceIs
<1>4. S \in [Lists -> Seq(Nodes)] /\ Maps(heap.data, Nodes, Items)
  BY <1>1, GoodIs
<1>. DEFINE rest == [contents EXCEPT ![from] = Without(contents[from], a, z)]
<1>5. contents' = [rest EXCEPT ![to] = Appended(rest[to], contents[from][a + 1])]
  BY DEF SpliceNode, Appended
<1>. HIDE DEF a
<1>6. Good(heap', Lists, Moved(S, from, a, to), Empty) /\ heap'.data = heap.data
  <2>1. FoundAt(S[from], a, node)
    BY <1>3 DEF FoundAt
  <2> QED
    BY <1>1, <1>2, <1>3, <2>1, NodeSplicedGood
<1>7. z \in Nat /\ a + z <= Len(S[from])
  BY <1>3
<1>8. contents[from] \in Seq(Items) /\ Len(contents[from]) = Len(S[from])
  <2>1. contents[from] = Mapped(heap.data, S[from]) /\ S[from] \in Seq(Nodes)
    BY <1>1, <1>4 DEF Holds
  <2> QED
    BY <1>4, <2>1, MappedIs
<1>9. contents[from][a + 1] \in Items
  BY <1>3, <1>8, SeqIs
<1>. HIDE DEF z
<1>10. rest = CutFrom(contents, from, a, z)
  <2>1. Without(contents[from], a, z) = Cut(contents[from], a, z)
    BY <1>3, <1>7, <1>8, WithoutIs
  <2> QED
    BY <2>1 DEF CutFrom
<1>11. rest[to] \in Seq(Items)
  <2>1. Cut(contents[from], a, z) \in Seq(Items)
    BY <1>3, <1>7, <1>8, CutIs
  <2>2. contents \in [Lists -> Seq(Items)]
    BY <1>1 DEF Holds
  <2>. HIDE DEF rest
  <2> QED
    BY <1>10, <2>1, <2>2 DEF CutFrom
<1>. HIDE DEF rest
<1>12. Appended(rest[to], contents[from][a + 1])
         = Put(rest[to], Len(rest[to]), <<contents[from][a + 1]>>)
  BY <1>9, <1>11, AppendedIs
<1>13. contents' = Moved(contents, from, a, to)
  BY <1>5, <1>10, <1>12 DEF Moved, PutIn, z
<1>14. Holds(Moved(contents, from, a, to), heap.data, Lists, Moved(S, from, a, to))
  BY <1>1, <1>3, <1>4, HoldsMoved
<1> QED
  BY <1>6, <1>13, <1>14 DEF ListInv, Kept

\* The list l gives up its nodes.
Emptied(S, l) == [S EXCEPT ![l] = Empty]

LEMMA EmptiedGood ==
  ASSUME NEW h, NEW D, NEW S, Good(h, D, S, Empty), NEW l \in D,
         NEW g, g = Rewired(h, l, h.next, h.prev, EmptyList)
  PROVE  /\ Good(g, D, Emptied(S, l), S[l])
         /\ g.data = h.data /\ g.live = h.live /\ g.next = h.next /\ g.prev = h.prev
         /\ g.list[l] = EmptyList /\ \A k \in D \ {l} : g.list[k] = h.list[k]
<1>. DEFINE R == Emptied(S, l)
            w == S[l]
<1>1. Typed(h, D) /\ Rows(D, S, Empty)
  BY DEF Good
<1>2. /\ EmptyList \in [head : Ptrs, tail : Ptrs, count : Int]
      /\ EmptyList.head = None /\ EmptyList.tail = None /\ EmptyList.count = 0
  BY DEF EmptyList, Ptrs
<1>3. h.next \in Links /\ h.prev \in Links
  BY <1>1, FieldsAre
<1>4. /\ Typed(g, D)
      /\ g.live = h.live /\ g.next = h.next /\ g.prev = h.prev /\ g.data = h.data
      /\ g.list[l] = EmptyList /\ \A k \in D \ {l} : g.list[k] = h.list[k]
  BY <1>1, <1>2, <1>3, RewiredIs
<1>5. S \in [D -> Seq(Nodes)]
  BY <1>1 DEF Rows
<1>6. /\ R \in [D -> Seq(Nodes)]
      /\ R[l] = Empty /\ \A k \in D \ {l} : R[k] = S[k]
  BY <1>5, EmptyIs DEF Emptied
<1>7. w \in Seq(Nodes) /\ Once(w)
  BY <1>1, <1>5 DEF Rows
<1>. HIDE DEF R
<1>8. Rows(D, R, w)
  <2>1. ASSUME NEW k \in D
        PROVE  Once(R[k]) /\ Apart(R[k], w)
    <3>1. CASE k = l
      BY <1>6, <3>1, EmptyIs
    <3>2. CASE k # l
      <4>1. R[k] = S[k] /\ Once(S[k]) /\ Apart(S[k], S[l])
        BY <1>1, <1>6, <3>2 DEF Rows
      <4> QED
        BY <4>1
    <3> QED
      BY <3>1, <3>2
  <2>2. ASSUME NEW j \in D, NEW k \in D, j # k
        PROVE  Apart(R[j], R[k])
    <3>1. CASE j = l \/ k = l
      BY <1>6, <3>1, EmptyIs
    <3>2. CASE j # l /\ k # l
      <4>1. R[j] = S[j] /\ R[k] = S[k] /\ Apart(S[j], S[k])
        BY <1>1, <1>6, <2>2, <3>2 DEF Rows
      <4> QED
        BY <4>1
    <3> QED
      BY <3>1, <3>2
  <2> QED
    BY <1>6, <1>7, <2>1, <2>2 DEF Rows
<1>9. ASSUME NEW k \in D
      PROVE  Linked(g.next, g.prev, R[k]) /\ Ends(g.list[k], R[k])
  <2>1. CASE k = l
    <3>1. Linked(g.next, g.prev, Empty) /\ At(Empty, 1) = None /\ At(Empty, 0) = None
      BY EmptyIs
    <3> QED
      BY <1>2, <1>4, <1>6, <2>1, <3>1, EmptyIs DEF Ends
  <2>2. CASE k # l
    BY <1>4, <1>6, <2>2 DEF Good
  <2> QED
    BY <2>1, <2>2
<1>10. Chained(g.next, g.prev, w)
  <2>1. Linked(h.next, h.prev, w) /\ Len(w) \in Nat
    BY <1>7, SeqIs DEF Good
  <2>. HIDE DEF w
  <2>2. ASSUME NEW i \in 1 .. Len(w) - 1
        PROVE  h.next[w[i]] = w[i + 1] /\ h.prev[w[i + 1]] = w[i]
    <3>1. i \in 1 .. Len(w) /\ i + 1 \in 1 .. Len(w) /\ (i + 1) - 1 = i
      BY <2>1
    <3>2. h.next[w[i]] = At(w, i + 1) /\ h.prev[w[i + 1]] = At(w, (i + 1) - 1)
      BY <2>1, <3>1 DEF Linked
    <3> QED
      BY <3>1, <3>2 DEF At
  <2> QED
    BY <1>4, <2>2 DEF Chained
<1>11. \A n \in Nodes : n \in g.live <=> Held(D, R, w, n)
  <2>1. ASSUME NEW n \in Nodes
        PROVE  Held(D, S, Empty, n) <=> Held(D, R, w, n)
    <3>1. ~On(Empty, n)
      BY EmptyIs
    <3>2. ASSUME NEW k \in D, On(S[k], n)
          PROVE  On(w, n) \/ On(R[k], n)
      BY <1>6, <3>2
    <3>3. ASSUME NEW k \in D, On(R[k], n)
          PROVE  On(S[k], n)
      BY <1>6, <3>1, <3>3
    <3> QED
      BY <3>1, <3>2, <3>3 DEF Held
  <2> QED
    BY <1>4, <2>1 DEF Good
<1>12. Good(g, D, R, w)
  <2>. HIDE DEF w
  <2>1. \A k \in D : Linked(g.next, g.prev, R[k]) /\ Ends(g.list[k], R[k])
    BY <1>9
  <2> QED
    BY <1>4, <1>8, <2>1, <1>10, <1>11 DEF Good
<1> QED
  BY <1>4, <1>12 DEF R

\* list_uninit.
LEMMA UninitKept ==
  ASSUME ListInv, NEW l \in Lists, Uninit(l)
  PROVE  ListInv'
<1>1. PICK S : Good(heap, Lists, S, Empty) /\ Holds(contents, heap.data, Lists, S)
  BY DEF ListInv, Kept
<1>. DEFINE N == ToSet(NodesOf(heap, l))
            g == Rewired(heap, l, heap.next, heap.prev, EmptyList)
            f == Released(heap, N)
            R == Emptied(S, l)
            w == S[l]
<1>2. /\ S \in [Lists -> Seq(Nodes)] /\ Typed(heap, Lists) /\ Maps(heap.data, Nodes, Items)
      /\ w \in Seq(Nodes) /\ NodesOf(heap, l) = w
  BY <1>1, GoodIs, GoodNodes
<1>3. \A n \in Nodes : n \in N <=> On(w, n)
  BY <1>2, SeqIs DEF ToSet, On
<1>4. heap' = [f EXCEPT !.list[l] = EmptyList]
  BY DEF Uninit
<1>. HIDE DEF N
<1>5. /\ Typed(f, Lists) /\ f.list = heap.list /\ f.live = heap.live \ N
      /\ \A n \in Nodes : n \notin N => /\ f.next[n] = heap.next[n] /\ f.prev[n] = heap.prev[n]
                                        /\ f.data[n] = heap.data[n]
  BY <1>2, ReleasedIs
<1>. HIDE DEF f
<1>6. heap' = Rewired(f, l, f.next, f.prev, EmptyList)
  BY <1>4, <1>5 DEF Typed, Rewired
<1>7. /\ Typed(heap', Lists)
      /\ heap'.live = f.live /\ heap'.next = f.next /\ heap'.prev = f.prev /\ heap'.data = f.data
      /\ heap'.list[l] = EmptyList /\ \A k \in Lists \ {l} : heap'.list[k] = f.list[k]
  <2>1. f.next \in Links /\ f.prev \in Links
    BY <1>5, FieldsAre
  <2>2. EmptyList \in [head : Ptrs, tail : Ptrs, count : Int]
    BY DEF EmptyList, Ptrs
  <2> QED
    BY <1>5, <1>6, <2>1, <2>2, RewiredIs
<1>8. /\ Good(g, Lists, R, w)
      /\ g.live = heap.live /\ g.next = heap.next /\ g.prev = heap.prev
      /\ g.list[l] = EmptyList /\ \A k \in Lists \ {l} : g.list[k] = heap.list[k]
  BY <1>1, EmptiedGood
<1>. HIDE DEF g
<1>9. heap'.list = g.list
  <2>1. Typed(g, Lists)
    BY <1>8 DEF Good
  <2>2. /\ g.list \in [Lists -> [head : Ptrs, tail : Ptrs, count : Int]]
        /\ heap'.list \in [Lists -> [head : Ptrs, tail : Ptrs, count : Int]]
    BY <1>7, <2>1, FieldsAre
  <2>3. \A k \in Lists : heap'.list[k] = g.list[k]
    BY <1>5, <1>7, <1>8
  <2> QED
    BY <2>2, <2>3
<1>10. Good(heap', Lists, R, Empty)
  <2>1. \A n \in Nodes : n \in heap'.live <=> n \in g.live /\ ~On(w, n)
    BY <1>3, <1>5, <1>7, <1>8
  <2>2. \A n \in Nodes : ~On(w, n) => heap'.next[n] = g.next[n] /\ heap'.prev[n] = g.prev[n]
    BY <1>3, <1>5, <1>7, <1>8
  <2>. HIDE DEF R, w
  <2> QED
    BY <1>7, <1>8, <1>9, <2>1, <2>2, Release
<1>11. Holds(contents', heap'.data, Lists, R)
  <2>1. /\ contents \in [Lists -> Seq(Items)]
        /\ \A k \in Lists : contents[k] = Mapped(heap.data, S[k])
    BY <1>1 DEF Holds
  <2>2. contents' = [contents EXCEPT ![l] = <<>>]
    BY DEF Uninit, Promise
  <2>3. /\ contents' \in [Lists -> Seq(Items)]
        /\ contents'[l] = <<>> /\ \A k \in Lists \ {l} : contents'[k] = contents[k]
    BY <2>1, <2>2
  <2>4. R[l] = Empty /\ \A k \in Lists \ {l} : R[k] = S[k]
    BY <1>2, EmptyIs DEF Emptied
  <2>. HIDE DEF R
  <2>5. Mapped(heap'.data, Empty) = <<>>
    BY DEF Empty, Mapped
  <2>6. ASSUME NEW k \in Lists, k # l
        PROVE  Mapped(heap'.data, S[k]) = Mapped(heap.data, S[k])
    <3>1. S[k] \in Seq(Nodes) /\ Apart(S[k], w)
      BY <1>1, <1>2, <2>6 DEF Good, Rows
    <3>. HIDE DEF w
    <3>2. \A i \in 1 .. Len(S[k]) : heap'.data[S[k][i]] = heap.data[S[k][i]]
      <4>1. ASSUME NEW i \in 1 .. Len(S[k])
            PROVE  S[k][i] \in Nodes /\ ~On(w, S[k][i])
        BY <3>1, <4>1, SeqIs DEF Apart, On
      <4> QED
        BY <1>3, <1>5, <1>7, <4>1
    <3> QED
      BY <3>1, <3>2, MappedSame
  <2> QED
    BY <2>1, <2>3, <2>4, <2>5, <2>6 DEF Holds
<1> QED
  BY <1>10, <1>11 DEF ListInv, Kept

-----------------------------------------------------------------------------
(* list_splice.                                                              *)

\* The heap of _add_range in front of a node at.
RangeAdded(h, l, at, count, first, last) ==
    LET prev == h.prev[at] IN
    [h EXCEPT !.prev = [@ EXCEPT ![first] = prev, ![at] = last],
              !.next = [Set(@, prev, first) EXCEPT ![last] = at],
              !.list[l] = [head |-> IF prev = None THEN first ELSE @.head,
                           tail |-> @.tail, count |-> @.count + count]]

LEMMA RangeAddedIs ==
  ASSUME NEW h, NEW D, Typed(h, D), NEW l \in D, NEW at, NEW count, NEW first, NEW last,
         NEW before, before = h.prev[at]
  PROVE  RangeAdded(h, l, at, count, first, last) =
           Rewired(h, l, Written(Set(h.next, before, first), last, at),
                   Written(Written(h.prev, first, before), at, last),
                   Row(IF before = None THEN first ELSE h.list[l].head, h.list[l].tail,
                       h.list[l].count + count))
<1>. DEFINE Made(next0, prev0, row0) == [h EXCEPT !.prev = prev0, !.next = next0, !.list[l] = row0]
<1>1. ASSUME NEW next, NEW prev, NEW row,
             next = [Set(h.next, before, first) EXCEPT ![last] = at],
             prev = [h.prev EXCEPT ![first] = before, ![at] = last],
             row = [head |-> IF before = None THEN first ELSE h.list[l].head,
                    tail |-> h.list[l].tail, count |-> h.list[l].count + count]
      PROVE  RangeAdded(h, l, at, count, first, last) = Made(next, prev, row)
  BY <1>1 DEF RangeAdded
<1>2. ASSUME NEW next, NEW prev, NEW row
      PROVE  Made(next, prev, row) = Rewired(h, l, next, prev, row)
  BY DEF Typed, Rewired
<1>. HIDE DEF Made
<1>. DEFINE next == Written(Set(h.next, before, first), last, at)
            prev == Written(Written(h.prev, first, before), at, last)
            row == Row(IF before = None THEN first ELSE h.list[l].head, h.list[l].tail,
                       h.list[l].count + count)
<1>3. row = [head |-> IF before = None THEN first ELSE h.list[l].head,
             tail |-> h.list[l].tail, count |-> h.list[l].count + count]
  BY DEF Row
<1>4. next = [Set(h.next, before, first) EXCEPT ![last] = at]
  BY DEF Written
<1>5. prev = [h.prev EXCEPT ![first] = before, ![at] = last]
  BY DEF Written
<1>. HIDE DEF next, prev, row
<1>6. RangeAdded(h, l, at, count, first, last) = Made(next, prev, row)
  BY <1>1, <1>3, <1>4, <1>5
<1>7. RangeAdded(h, l, at, count, first, last) = Rewired(h, l, next, prev, row)
  BY <1>2, <1>6
<1> QED
  BY <1>7 DEF next, prev, row

\* In front of a node.
LEMMA RangeAddedGood ==
  ASSUME NEW h, NEW D, NEW S, NEW w, Good(h, D, S, w), Len(w) > 0, NEW l \in D,
         NEW a \in Nat, a < Len(S[l]), NEW at, at = S[l][a + 1],
         NEW g, g = RangeAdded(h, l, at, Len(w), w[1], w[Len(w)])
  PROVE  Good(g, D, PutIn(S, l, a, w), Empty) /\ g.data = h.data
<1>. DEFINE s == S[l]
            first == w[1]
            last == w[Len(w)]
            before == h.prev[at]
<1>1. /\ s \in Seq(Nodes) /\ Linked(h.next, h.prev, s) /\ Typed(h, D) /\ Apart(s, w)
      /\ w \in Seq(Nodes)
  BY DEF Good, Rows
<1>2. Len(s) \in Nat /\ a + 1 \in 1 .. Len(s) /\ a \in 0 .. Len(s) /\ (a + 1) - 1 = a
  BY <1>1, SeqIs
<1>3. at \in Nodes /\ first \in Nodes /\ last \in Nodes /\ Len(w) \in Nat
  <2>1. Len(w) \in Nat /\ 1 \in 1 .. Len(w) /\ Len(w) \in 1 .. Len(w)
    BY <1>1, SeqIs
  <2> QED
    BY <1>1, <1>2, <2>1, SeqIs
<1>4. at # first /\ at # last
  <2>1. 1 \in 1 .. Len(w) /\ Len(w) \in 1 .. Len(w)
    BY <1>3
  <2> QED
    BY <1>1, <1>2, <2>1 DEF Apart
<1>5. before = At(s, a) /\ at = At(s, a + 1)
  BY <1>1, <1>2 DEF Linked, At
<1>6. before \in Ptrs /\ at \in Ptrs /\ first \in Ptrs /\ last \in Ptrs
  BY <1>1, <1>2, <1>3, <1>5, AtIs DEF Ptrs
<1>7. /\ h.next \in Links /\ h.prev \in Links
      /\ h.list \in [D -> [head : Ptrs, tail : Ptrs, count : Int]]
  BY <1>1, FieldsAre
<1>. DEFINE next1 == Set(h.next, before, first)
            next2 == Written(next1, last, at)
            prev1 == Written(h.prev, first, before)
            prev2 == Written(prev1, at, last)
            row == Row(IF before = None THEN first ELSE h.list[l].head, h.list[l].tail,
                       h.list[l].count + Len(w))
<1>8. g = Rewired(h, l, next2, prev2, row)
  BY <1>1, RangeAddedIs
<1>9. row \in [head : Ptrs, tail : Ptrs, count : Int]
      /\ row.head = (IF before = None THEN first ELSE h.list[l].head)
      /\ row.tail = h.list[l].tail /\ row.count = h.list[l].count + Len(w)
  BY <1>3, <1>6, <1>7 DEF Row
<1>. HIDE DEF before, row, first, last
<1>10. next1 \in Links /\ \A n \in Nodes : next1[n] = IF n = before THEN first ELSE h.next[n]
  <2>1. h.next \in Links /\ before \in Ptrs /\ first \in Ptrs
    BY <1>6, <1>7
  <2> QED
    BY <2>1, SetIs
<1>11. prev1 \in Links /\ \A n \in Nodes : prev1[n] = IF n = first THEN before ELSE h.prev[n]
  <2>1. h.prev \in Links /\ first \in Nodes /\ before \in Ptrs
    BY <1>3, <1>6, <1>7
  <2> QED
    BY <2>1, WrittenIs
<1>. HIDE DEF next1, prev1
<1>12. next2 \in Links /\ \A n \in Nodes : next2[n] = IF n = last THEN at ELSE next1[n]
  <2>1. next1 \in Links /\ last \in Nodes /\ at \in Ptrs
    BY <1>3, <1>6, <1>10
  <2> QED
    BY <2>1, WrittenIs
<1>13. prev2 \in Links /\ \A n \in Nodes : prev2[n] = IF n = at THEN last ELSE prev1[n]
  <2>1. prev1 \in Links /\ at \in Nodes /\ last \in Ptrs
    BY <1>3, <1>6, <1>11
  <2> QED
    BY <2>1, WrittenIs
<1>. HIDE DEF next2, prev2
<1>14. /\ Typed(g, D)
       /\ g.live = h.live /\ g.next = next2 /\ g.prev = prev2 /\ g.data = h.data
       /\ g.list[l] = row /\ \A k \in D \ {l} : g.list[k] = h.list[k]
  BY <1>1, <1>8, <1>9, <1>12, <1>13, RewiredIs
<1>15. Attached(h.next, h.prev, g.next, g.prev, s, a, w)
  <2>1. \A n \in Nodes : next2[n] = IF n = last THEN at ELSE IF n = before THEN first ELSE h.next[n]
    BY <1>10, <1>12
  <2>2. \A n \in Nodes : prev2[n] = IF n = first THEN before ELSE IF n = at THEN last ELSE h.prev[n]
    BY <1>4, <1>11, <1>13
  <2>. HIDE DEF s
  <2> QED
    BY <1>5, <1>14, <2>1, <2>2 DEF Attached, first, last
<1>16. Good(g, D, PutIn(S, l, a, w), Empty)
  <2>1. g.list[l].head = IF At(S[l], a) = None THEN w[1] ELSE h.list[l].head
    BY <1>5, <1>9, <1>14 DEF first
  <2>2. g.list[l].tail = IF At(S[l], a + 1) = None THEN w[Len(w)] ELSE h.list[l].tail
    BY <1>3, <1>5, <1>9, <1>14, NodesAre
  <2>3. g.list[l].count = h.list[l].count + Len(w)
    BY <1>9, <1>14
  <2>4. \A k \in D \ {l} : g.list[k] = h.list[k]
    BY <1>14
  <2>5. a \in 0 .. Len(S[l])
    BY <1>2
  <2>6. Attached(h.next, h.prev, g.next, g.prev, S[l], a, w)
    BY <1>15
  <2>. HIDE DEF s
  <2> QED
    BY <1>14, <2>1, <2>2, <2>3, <2>4, <2>5, <2>6, Attach
<1> QED
  BY <1>14, <1>16

\* To an empty list.
LEMMA RangeFirstGood ==
  ASSUME NEW h, NEW D, NEW S, NEW w, Good(h, D, S, w), Len(w) > 0, NEW l \in D,
         Len(S[l]) = 0, h.next[w[Len(w)]] = None, h.prev[w[1]] = None, NEW row,
         row = Row(w[1], w[Len(w)], h.list[l].count + Len(w)),
         NEW g, g = Rewired(h, l, h.next, h.prev, row), NEW a, a = 0
  PROVE  Good(g, D, PutIn(S, l, a, w), Empty) /\ g.data = h.data
<1>1. /\ S[l] \in Seq(Nodes) /\ Typed(h, D) /\ w \in Seq(Nodes)
  BY DEF Good, Rows
<1>2. w[1] \in Nodes /\ w[Len(w)] \in Nodes /\ Len(w) \in Nat
  <2>1. Len(w) \in Nat /\ 1 \in 1 .. Len(w) /\ Len(w) \in 1 .. Len(w)
    BY <1>1, SeqIs
  <2> QED
    BY <1>1, <2>1, SeqIs
<1>3. At(S[l], a) = None /\ At(S[l], a + 1) = None /\ a \in 0 .. Len(S[l])
  BY DEF At
<1>4. /\ h.next \in Links /\ h.prev \in Links
      /\ h.list \in [D -> [head : Ptrs, tail : Ptrs, count : Int]]
  BY <1>1, FieldsAre
<1>5. /\ row \in [head : Ptrs, tail : Ptrs, count : Int]
      /\ row.head = w[1] /\ row.tail = w[Len(w)] /\ row.count = h.list[l].count + Len(w)
  BY <1>2, <1>4 DEF Row, Ptrs
<1>6. /\ Typed(g, D)
      /\ g.live = h.live /\ g.next = h.next /\ g.prev = h.prev /\ g.data = h.data
      /\ g.list[l] = row /\ \A k \in D \ {l} : g.list[k] = h.list[k]
  BY <1>1, <1>4, <1>5, RewiredIs
<1>7. Attached(h.next, h.prev, g.next, g.prev, S[l], a, w)
  BY <1>3, <1>6, NodesAre DEF Attached
<1>8. /\ g.list[l].head = IF At(S[l], a) = None THEN w[1] ELSE h.list[l].head
      /\ g.list[l].tail = IF At(S[l], a + 1) = None THEN w[Len(w)] ELSE h.list[l].tail
      /\ g.list[l].count = h.list[l].count + Len(w)
  <2>1. /\ g.list[l].head = w[1] /\ g.list[l].tail = w[Len(w)]
        /\ g.list[l].count = h.list[l].count + Len(w)
    BY <1>5, <1>6
  <2> QED
    BY <1>3, <2>1
<1>9. \A k \in D \ {l} : g.list[k] = h.list[k]
  BY <1>6, Zenon
<1>10. Good(g, D, PutIn(S, l, a, w), Empty)
  BY <1>3, <1>6, <1>7, <1>8, <1>9, Attach
<1> QED
  BY <1>6, <1>10

LEMMA AddRangeGood ==
  ASSUME NEW h, NEW D, NEW S, NEW w, Good(h, D, S, w), NEW c, c = Len(w), c > 0,
         NEW l \in D, NEW a \in Nat, a < Len(S[l]) \/ (a = 0 /\ Len(S[l]) = 0),
         NEW first, first = w[1], NEW last, last = w[Len(w)],
         h.next[last] = None, h.prev[first] = None,
         NEW g, g = AddRange(h, l, a, c, first, last)
  PROVE  Good(g, D, PutIn(S, l, a, w), Empty) /\ g.data = h.data
<1>. DEFINE at == NodeAt(h, l, a)
<1>1. S[l] \in Seq(Nodes) /\ NodesOf(h, l) = S[l] /\ Len(S[l]) \in Nat /\ Typed(h, D)
  BY GoodNodes, SeqIs DEF Good
<1>2. CASE a < Len(S[l])
  <2>1. at = S[l][a + 1] /\ at \in Nodes
    BY <1>1, <1>2, SeqIs DEF NodeAt
  <2>2. g = RangeAdded(h, l, at, Len(w), w[1], w[Len(w)])
    BY <2>1, NodesAre DEF AddRange, RangeAdded
  <2>. HIDE DEF at
  <2> QED
    BY <1>2, <2>1, <2>2, RangeAddedGood
<1>3. CASE a = 0 /\ Len(S[l]) = 0
  <2>1. at = None
    BY <1>1, <1>3 DEF NodeAt
  <2>. DEFINE row == Row(w[1], w[Len(w)], h.list[l].count + Len(w))
  <2>2. g = [h EXCEPT !.list[l] = row]
    BY <2>1 DEF AddRange, Row
  <2>. HIDE DEF at, row
  <2>3. g = Rewired(h, l, h.next, h.prev, row)
    BY <1>1, <2>2 DEF Typed, Rewired
  <2> QED
    BY <1>3, <2>3, RangeFirstGood DEF row
<1> QED
  BY <1>2, <1>3

LEMMA NodeAtIs ==
  ASSUME NEW h, NEW D, NEW S, NEW w, Good(h, D, S, w), NEW l \in D, NEW i \in 1 .. Len(S[l]),
         NEW k, k = i - 1
  PROVE  NodeAt(h, l, k) = S[l][i]
<1>1. NodesOf(h, l) = S[l] /\ Len(S[l]) \in Nat
  BY GoodNodes, SeqIs
<1> QED
  BY <1>1 DEF NodeAt

LEMMA SpliceKept ==
  ASSUME ListInv, NEW from \in Lists, NEW to \in Lists, NEW fromStart \in Nat,
         NEW toStart \in Nat, NEW count \in Nat, Splice(from, to, fromStart, toStart, count)
  PROVE  ListInv'
<1>1. PICK S : Good(heap, Lists, S, Empty) /\ Holds(contents, heap.data, Lists, S)
  BY DEF ListInv, Kept
<1>2. CASE count <= 0
  <2>1. heap' = heap /\ contents' = contents
    BY <1>2 DEF Splice, list_vars
  <2> QED
    BY <1>1, <2>1 DEF ListInv, Kept
<1>3. CASE count > 0
  <2>. DEFINE first == NodeAt(heap, from, fromStart)
              last == NodeAt(heap, from, fromStart + count - 1)
              removed == RemoveRange(heap, from, first, last, count)
              rest == [contents EXCEPT ![from] = Without(contents[from], fromStart, count)]
              moved == SubSeq(contents[from], fromStart + 1, fromStart + count)
              R == CutFrom(S, from, fromStart, count)
              w == Part(S[from], fromStart, count)
              d == CutFrom(contents, from, fromStart, count)
              v == Part(contents[from], fromStart, count)
  <2>1. /\ fromStart + count <= heap.list[from].count
        /\ \/ toStart < removed.list[to].count
           \/ toStart = 0 /\ removed.list[to].count = 0
        /\ heap' = AddRange(removed, to, toStart, count, first, last)
        /\ contents' = [rest EXCEPT ![to] = Inserted(rest[to], toStart, moved)]
    BY <1>3 DEF Splice
  <2>2. /\ S \in [Lists -> Seq(Nodes)] /\ Maps(heap.data, Nodes, Items)
        /\ S[from] \in Seq(Nodes) /\ heap.list[from].count = Len(S[from])
        /\ Len(S[from]) \in Nat
    BY <1>1, GoodIs, GoodNodes, SeqIs
  <2>3. fromStart + count <= Len(S[from])
    BY <2>1, <2>2
  <2>4. first = S[from][fromStart + 1]
    <3>. DEFINE i == fromStart + 1
    <3>1. i \in 1 .. Len(S[from]) /\ fromStart = i - 1
      BY <1>3, <2>2, <2>3
    <3>. HIDE DEF i
    <3>2. first = S[from][i]
      BY <1>1, <3>1, NodeAtIs
    <3> QED
      BY <3>2 DEF i
  <2>5. last = S[from][fromStart + count]
    <3>. DEFINE i == fromStart + count
                k == fromStart + count - 1
    <3>1. i \in 1 .. Len(S[from]) /\ k = i - 1
      BY <1>3, <2>2, <2>3
    <3>. HIDE DEF i, k
    <3>2. NodeAt(heap, from, k) = S[from][i]
      BY <1>1, <3>1, NodeAtIs
    <3> QED
      BY <3>2 DEF i, k
  <2>6. Segment(S[from], fromStart, count, first, last)
    BY <1>3, <2>3, <2>4, <2>5 DEF Segment
  <2>7. /\ w \in Seq(Nodes) /\ Len(w) = count
        /\ \A i \in 1 .. count : w[i] = S[from][fromStart + i]
    BY <2>2, <2>3, PartIs
  <2>8. first = w[1] /\ last = w[Len(w)]
    BY <1>3, <2>4, <2>5, <2>7
  <2>. HIDE DEF first, last
  <2>9. /\ Good(removed, Lists, R, w) /\ removed.data = heap.data
        /\ removed.next[last] = None /\ removed.prev[first] = None
    BY <1>1, <2>6, RemoveRangeGood
  <2>. HIDE DEF removed, R, w
  <2>10. removed.list[to].count = Len(R[to]) /\ R \in [Lists -> Seq(Nodes)]
    BY <2>9, GoodNodes, GoodIs
  <2>11. Good(heap', Lists, PutIn(R, to, toStart, w), Empty) /\ heap'.data = heap.data
    <3>1. toStart < Len(R[to]) \/ (toStart = 0 /\ Len(R[to]) = 0)
      BY <2>1, <2>10
    <3>2. count = Len(w)
      BY <2>7
    <3> QED
      BY <1>3, <2>1, <2>8, <2>9, <3>1, <3>2, AddRangeGood
  <2>12. toStart \in 0 .. Len(R[to]) /\ Len(R[to]) \in Nat
    <3>1. Len(R[to]) \in Nat
      BY <2>10, SeqIs
    <3> QED
      BY <2>1, <2>10, <3>1
  <2>13. /\ Holds(d, heap.data, Lists, R) /\ v = Mapped(heap.data, w)
         /\ Len(contents[from]) = Len(S[from])
    BY <1>1, <2>2, <2>3, HoldsDetach DEF R, w
  <2>14. contents[from] \in Seq(Items) /\ contents \in [Lists -> Seq(Items)]
    BY <1>1 DEF Holds
  <2>15. rest = d
    <3>1. Without(contents[from], fromStart, count) = Cut(contents[from], fromStart, count)
      BY <2>3, <2>13, <2>14, WithoutIs
    <3> QED
      BY <3>1 DEF CutFrom
  <2>16. moved = v /\ v \in Seq(Items)
    BY <2>3, <2>13, <2>14, SubSeqIs, PartIs
  <2>. HIDE DEF rest, moved, d, v
  <2>17. d[to] \in Seq(Items) /\ Len(d[to]) = Len(R[to])
    <3>1. R[to] \in Seq(Nodes) /\ d[to] = Mapped(heap.data, R[to])
      BY <2>10, <2>13 DEF Holds
    <3> QED
      BY <2>2, <3>1, MappedIs
  <2>18. contents' = PutIn(d, to, toStart, v)
    <3>1. Inserted(d[to], toStart, v) = Put(d[to], toStart, v)
      BY <2>12, <2>16, <2>17, InsertedIs
    <3> QED
      BY <2>1, <2>15, <2>16, <3>1 DEF PutIn
  <2>19. Holds(PutIn(d, to, toStart, v), heap.data, Lists, PutIn(R, to, toStart, w))
    BY <2>2, <2>7, <2>10, <2>12, <2>13, HoldsAttach
  <2> QED
    BY <2>11, <2>18, <2>19 DEF ListInv, Kept
<1> QED
  BY <1>2, <1>3

\* list_init.
LEMMA InitKept ==
  ASSUME ListInit
  PROVE  ListInv
<1>. DEFINE S == [l \in Lists |-> Empty]
<1>1. Blank \in Items
  BY ListAssumption DEF Blank
<1>2. Typed(heap, Lists)
  BY <1>1 DEF ListInit, Typed, EmptyList
<1>3. heap.live = {} /\ \A l \in Lists : heap.list[l] = EmptyList
  BY DEF ListInit
<1>4. EmptyList.head = None /\ EmptyList.tail = None /\ EmptyList.count = 0
  BY DEF EmptyList
<1>5. S \in [Lists -> Seq(Nodes)] /\ \A l \in Lists : S[l] = Empty
  BY EmptyIs
<1>. HIDE DEF S
<1>6. Rows(Lists, S, Empty)
  BY <1>5, EmptyIs DEF Rows
<1>7. ASSUME NEW l \in Lists
      PROVE  Linked(heap.next, heap.prev, S[l]) /\ Ends(heap.list[l], S[l])
  <2>1. /\ Linked(heap.next, heap.prev, Empty) /\ At(Empty, 1) = None /\ At(Empty, 0) = None
        /\ Len(Empty) = 0
    BY EmptyIs
  <2> QED
    BY <1>3, <1>4, <1>5, <2>1 DEF Ends
<1>8. Chained(heap.next, heap.prev, Empty)
  BY EmptyIs
<1>9. \A n \in Nodes : n \in heap.live <=> Held(Lists, S, Empty, n)
  BY <1>3, <1>5, EmptyIs DEF Held
<1>10. Good(heap, Lists, S, Empty)
  BY <1>2, <1>6, <1>7, <1>8, <1>9 DEF Good
<1>11. Holds(contents, heap.data, Lists, S)
  <2>1. contents \in [Lists -> Seq(Items)] /\ \A l \in Lists : contents[l] = <<>>
    BY DEF ListInit
  <2>2. Mapped(heap.data, Empty) = <<>>
    BY DEF Mapped, Empty
  <2> QED
    BY <1>5, <2>1, <2>2 DEF Holds
<1> QED
  BY <1>10, <1>11 DEF ListInv, Kept

-----------------------------------------------------------------------------
(* The invariant says what the properties say.                               *)

LEMMA InvNodes ==
  ASSUME ListInv
  PROVE  NodesOnOneList
<1>1. PICK S : Good(heap, Lists, S, Empty)
  BY DEF ListInv, Kept
<1>2. ListTypeOK
  BY <1>1, GoodHeap DEF ListTypeOK
<1>3. ASSUME NEW l \in Lists
      PROVE  /\ S[l] \in Seq(Nodes) /\ Once(S[l]) /\ NodesOf(heap, l) = S[l]
             /\ heap.list[l].count = Len(S[l]) /\ DOMAIN S[l] = 1 .. Len(S[l])
             /\ Walk(heap.list[l].tail, heap.prev) = Reverse(S[l])
             /\ \A n : n \in ToSet(S[l]) <=> On(S[l], n)
  BY <1>1, GoodNodes, SeqIs DEF ToSet, On
<1>4. \A n : n \in UNION {ToSet(NodesOf(heap, l)) : l \in Lists}
               <=> \E l \in Lists : On(S[l], n)
  BY <1>3
<1>5. \A n : (\E l \in Lists : On(S[l], n)) => n \in Nodes
  BY <1>3, SeqIs DEF On
<1>6. \A n \in Nodes : n \in heap.live <=> \E l \in Lists : On(S[l], n)
  BY <1>1, EmptyIs DEF Good, Held
<1>7. heap.live \subseteq Nodes
  BY <1>1, GoodIs, TypedIs
<1>8. heap.live = UNION {ToSet(NodesOf(heap, l)) : l \in Lists}
  BY <1>4, <1>5, <1>6, <1>7
<1>9. ASSUME NEW l \in Lists
      PROVE  LET nodes == NodesOf(heap, l) IN
             /\ Walk(heap.list[l].tail, heap.prev) = Reverse(nodes)
             /\ heap.list[l].count = Len(nodes)
             /\ IsInjective(nodes)
             /\ \A other \in Lists \ {l} : ToSet(nodes) \cap ToSet(NodesOf(heap, other)) = {}
  <2>1. IsInjective(NodesOf(heap, l))
    BY <1>3 DEF IsInjective, Once
  <2>2. ASSUME NEW other \in Lists \ {l}
        PROVE  ToSet(NodesOf(heap, l)) \cap ToSet(NodesOf(heap, other)) = {}
    <3>1. Apart(S[l], S[other])
      BY <1>1 DEF Good, Rows
    <3>2. \A n : ~(On(S[l], n) /\ On(S[other], n))
      BY <3>1, ApartIs
    <3> QED
      BY <1>3, <3>2
  <2> QED
    BY <1>3, <2>1, <2>2
<1> QED
  BY <1>2, <1>8, <1>9 DEF NodesOnOneList

LEMMA InvItems ==
  ASSUME ListInv
  PROVE  HoldsItsItems
<1>1. PICK S : Good(heap, Lists, S, Empty) /\ Holds(contents, heap.data, Lists, S)
  BY DEF ListInv, Kept
<1>2. ASSUME NEW l \in Lists
      PROVE  contents[l] = [i \in DOMAIN NodesOf(heap, l) |-> heap.data[NodesOf(heap, l)[i]]]
  <2>1. NodesOf(heap, l) = S[l] /\ DOMAIN S[l] = 1 .. Len(S[l])
    BY <1>1, GoodNodes, SeqIs
  <2>2. contents[l] = Mapped(heap.data, S[l])
    BY <1>1 DEF Holds
  <2> QED
    BY <2>1, <2>2 DEF Mapped
<1> QED
  BY <1>2 DEF HoldsItsItems

-----------------------------------------------------------------------------
(* The loops and the recursion of list_sort, as functions of what was there  *)
(* one step before, exist.                                                   *)

SplitStep(h, l, left, right, half, i, x) ==
    IF i = 0 THEN h ELSE SplitOne(x, l, left, right, i <= half)
MergeStep(h, l, left, right, func, i, x) ==
    IF i = 0 THEN h ELSE MergeOne(x, l, left, right, func)
\* A call of _sort, f being what those nested in it do.
SortCall(func, depth, f, h, l) ==
    IF depth = 0 \/ h.list[l].count <= 1 THEN h
    ELSE LET left == <<depth, "left">>
             right == <<depth, "right">>
             start == [h EXCEPT !.list = [@ EXCEPT ![left] = EmptyList,
                                                   ![right] = EmptyList]]
             halves == f[Split(start, l, left, right)][left]
         IN  Merge(f[halves][right], l, left, right, func, h.list[l].count)
CallStep(func, depth, f) ==
    [h \in Heaps(Stacked) |-> [l \in Stacked |-> SortCall(func, depth, f, h, l)]]

Splits(h, l, left, right, half, d, m) ==
    d = [i \in 0 .. m |-> SplitStep(h, l, left, right, half, i, d[i - 1])]

LEMMA SplitsExist ==
  ASSUME NEW h, NEW l, NEW left, NEW right, NEW half, NEW m \in Nat
  PROVE  \E d : Splits(h, l, left, right, half, d, m)
<1>. DEFINE One(i, x) == SplitStep(h, l, left, right, half, i, x)
            Is(d, i) == d[i] = One(i, d[i - 1])
            Bad == {k \in Nat : ~\E d : Splits(h, l, left, right, half, d, k)}
<1>1. SUFFICES ASSUME Bad # {}
               PROVE  FALSE
  OBVIOUS
<1>2. Bad \in SUBSET Nat
  OBVIOUS
<1>3. PICK b \in Bad : \A n \in Bad : b <= n
  BY <1>1, <1>2, Least
<1>4. \A x, y : One(0, x) = One(0, y)
  BY DEF SplitStep
<1>. HIDE DEF One
<1>5. CASE b = 0
  <2>. DEFINE d == [i \in 0 .. 0 |-> One(0, 0)]
  <2>1. \A i \in 0 .. 0 : i = 0
    OBVIOUS
  <2>2. d = [i \in 0 .. 0 |-> One(i, d[i - 1])]
    BY <1>4, <2>1
  <2>3. Splits(h, l, left, right, half, d, 0)
    BY <2>2 DEF Splits, One
  <2> QED
    BY <1>3, <1>5, <2>3
<1>6. CASE b # 0
  <2>1. b \in Nat /\ b - 1 \in Nat /\ b - 1 \notin Bad
    BY <1>3, <1>6
  <2>2. PICK d : Splits(h, l, left, right, half, d, b - 1)
    BY <2>1
  <2>3. \A i \in 0 .. b - 1 : Is(d, i)
    BY <2>2 DEF Splits, One
  <2>. DEFINE e == [i \in 0 .. b |-> IF i = b THEN One(b, d[b - 1]) ELSE d[i]]
  <2>4. ASSUME NEW i \in 0 .. b
        PROVE  Is(e, i)
    <3>1. CASE i = 0
      <4>1. i \in 0 .. b - 1 /\ i # b
        BY <1>6, <2>1, <3>1
      <4> QED
        BY <1>4, <2>3, <3>1, <4>1
    <3>2. CASE i # 0 /\ i # b
      <4>1. i \in 0 .. b - 1 /\ i - 1 \in 0 .. b /\ i - 1 # b
        BY <2>1, <3>2
      <4>2. e[i] = d[i] /\ e[i - 1] = d[i - 1] /\ Is(d, i)
        BY <2>3, <3>2, <4>1
      <4>. HIDE DEF e
      <4> QED
        BY <3>2, <4>2
    <3>3. CASE i = b
      <4>1. b - 1 \in 0 .. b /\ b - 1 # b
        BY <2>1
      <4>2. e[i] = One(b, d[b - 1]) /\ e[b - 1] = d[b - 1]
        BY <3>3, <4>1
      <4>. HIDE DEF e
      <4> QED
        BY <3>3, <4>2
    <3> QED
      BY <3>1, <3>2, <3>3
  <2>5. e = [i \in 0 .. b |-> e[i]]
    OBVIOUS
  <2>. HIDE DEF e
  <2>6. e = [i \in 0 .. b |-> One(i, e[i - 1])]
    BY <2>4, <2>5
  <2>7. Splits(h, l, left, right, half, e, b)
    BY <2>6 DEF Splits, One
  <2> QED
    BY <1>3, <2>7
<1> QED
  BY <1>5, <1>6

Merges(h, l, left, right, func, d, m) ==
    d = [i \in 0 .. m |-> MergeStep(h, l, left, right, func, i, d[i - 1])]

LEMMA MergesExist ==
  ASSUME NEW h, NEW l, NEW left, NEW right, NEW func, NEW m \in Nat
  PROVE  \E d : Merges(h, l, left, right, func, d, m)
<1>. DEFINE One(i, x) == MergeStep(h, l, left, right, func, i, x)
            Is(d, i) == d[i] = One(i, d[i - 1])
            Bad == {k \in Nat : ~\E d : Merges(h, l, left, right, func, d, k)}
<1>1. SUFFICES ASSUME Bad # {}
               PROVE  FALSE
  OBVIOUS
<1>2. Bad \in SUBSET Nat
  OBVIOUS
<1>3. PICK b \in Bad : \A n \in Bad : b <= n
  BY <1>1, <1>2, Least
<1>4. \A x, y : One(0, x) = One(0, y)
  BY DEF MergeStep
<1>. HIDE DEF One
<1>5. CASE b = 0
  <2>. DEFINE d == [i \in 0 .. 0 |-> One(0, 0)]
  <2>1. \A i \in 0 .. 0 : i = 0
    OBVIOUS
  <2>2. d = [i \in 0 .. 0 |-> One(i, d[i - 1])]
    BY <1>4, <2>1
  <2>3. Merges(h, l, left, right, func, d, 0)
    BY <2>2 DEF Merges, One
  <2> QED
    BY <1>3, <1>5, <2>3
<1>6. CASE b # 0
  <2>1. b \in Nat /\ b - 1 \in Nat /\ b - 1 \notin Bad
    BY <1>3, <1>6
  <2>2. PICK d : Merges(h, l, left, right, func, d, b - 1)
    BY <2>1
  <2>3. \A i \in 0 .. b - 1 : Is(d, i)
    BY <2>2 DEF Merges, One
  <2>. DEFINE e == [i \in 0 .. b |-> IF i = b THEN One(b, d[b - 1]) ELSE d[i]]
  <2>4. ASSUME NEW i \in 0 .. b
        PROVE  Is(e, i)
    <3>1. CASE i = 0
      <4>1. i \in 0 .. b - 1 /\ i # b
        BY <1>6, <2>1, <3>1
      <4> QED
        BY <1>4, <2>3, <3>1, <4>1
    <3>2. CASE i # 0 /\ i # b
      <4>1. i \in 0 .. b - 1 /\ i - 1 \in 0 .. b /\ i - 1 # b
        BY <2>1, <3>2
      <4>2. e[i] = d[i] /\ e[i - 1] = d[i - 1] /\ Is(d, i)
        BY <2>3, <3>2, <4>1
      <4>. HIDE DEF e
      <4> QED
        BY <3>2, <4>2
    <3>3. CASE i = b
      <4>1. b - 1 \in 0 .. b /\ b - 1 # b
        BY <2>1
      <4>2. e[i] = One(b, d[b - 1]) /\ e[b - 1] = d[b - 1]
        BY <3>3, <4>1
      <4>. HIDE DEF e
      <4> QED
        BY <3>3, <4>2
    <3> QED
      BY <3>1, <3>2, <3>3
  <2>5. e = [i \in 0 .. b |-> e[i]]
    OBVIOUS
  <2>. HIDE DEF e
  <2>6. e = [i \in 0 .. b |-> One(i, e[i - 1])]
    BY <2>4, <2>5
  <2>7. Merges(h, l, left, right, func, e, b)
    BY <2>6 DEF Merges, One
  <2> QED
    BY <1>3, <2>7
<1> QED
  BY <1>5, <1>6

Nested(func, d, m) == d = [i \in 0 .. m |-> CallStep(func, i, d[i - 1])]

LEMMA NestedExist ==
  ASSUME NEW func, NEW m \in Nat
  PROVE  \E d : Nested(func, d, m)
<1>. DEFINE One(i, x) == CallStep(func, i, x)
            Is(d, i) == d[i] = One(i, d[i - 1])
            Bad == {k \in Nat : ~\E d : Nested(func, d, k)}
<1>1. SUFFICES ASSUME Bad # {}
               PROVE  FALSE
  OBVIOUS
<1>2. Bad \in SUBSET Nat
  OBVIOUS
<1>3. PICK b \in Bad : \A n \in Bad : b <= n
  BY <1>1, <1>2, Least
<1>4. \A x, y : One(0, x) = One(0, y)
  BY DEF CallStep, SortCall
<1>. HIDE DEF One
<1>5. CASE b = 0
  <2>. DEFINE d == [i \in 0 .. 0 |-> One(0, 0)]
  <2>1. \A i \in 0 .. 0 : i = 0
    OBVIOUS
  <2>2. d = [i \in 0 .. 0 |-> One(i, d[i - 1])]
    BY <1>4, <2>1
  <2>3. Nested(func, d, 0)
    BY <2>2 DEF Nested, One
  <2> QED
    BY <1>3, <1>5, <2>3
<1>6. CASE b # 0
  <2>1. b \in Nat /\ b - 1 \in Nat /\ b - 1 \notin Bad
    BY <1>3, <1>6
  <2>2. PICK d : Nested(func, d, b - 1)
    BY <2>1
  <2>3. \A i \in 0 .. b - 1 : Is(d, i)
    BY <2>2 DEF Nested, One
  <2>. DEFINE e == [i \in 0 .. b |-> IF i = b THEN One(b, d[b - 1]) ELSE d[i]]
  <2>4. ASSUME NEW i \in 0 .. b
        PROVE  Is(e, i)
    <3>1. CASE i = 0
      <4>1. i \in 0 .. b - 1 /\ i # b
        BY <1>6, <2>1, <3>1
      <4> QED
        BY <1>4, <2>3, <3>1, <4>1
    <3>2. CASE i # 0 /\ i # b
      <4>1. i \in 0 .. b - 1 /\ i - 1 \in 0 .. b /\ i - 1 # b
        BY <2>1, <3>2
      <4>2. e[i] = d[i] /\ e[i - 1] = d[i - 1] /\ Is(d, i)
        BY <2>3, <3>2, <4>1
      <4>. HIDE DEF e
      <4> QED
        BY <3>2, <4>2
    <3>3. CASE i = b
      <4>1. b - 1 \in 0 .. b /\ b - 1 # b
        BY <2>1
      <4>2. e[i] = One(b, d[b - 1]) /\ e[b - 1] = d[b - 1]
        BY <3>3, <4>1
      <4>. HIDE DEF e
      <4> QED
        BY <3>3, <4>2
    <3> QED
      BY <3>1, <3>2, <3>3
  <2>5. e = [i \in 0 .. b |-> e[i]]
    OBVIOUS
  <2>. HIDE DEF e
  <2>6. e = [i \in 0 .. b |-> One(i, e[i - 1])]
    BY <2>4, <2>5
  <2>7. Nested(func, e, b)
    BY <2>6 DEF Nested, One
  <2> QED
    BY <1>3, <2>7
<1> QED
  BY <1>5, <1>6

LEMMA SplitIs ==
  ASSUME NEW h, NEW l, NEW left, NEW right, NEW n \in Nat, n = h.list[l].count
  PROVE  \E d : /\ Split(h, l, left, right) = d[n] /\ d[0] = h
                /\ \A i \in 1 .. n : d[i] = SplitOne(d[i - 1], l, left, right, i <= n \div 2)
<1>. DEFINE half == n \div 2
            d == CHOOSE e : Splits(h, l, left, right, half, e, n)
            One(i, x) == SplitStep(h, l, left, right, half, i, x)
<1>1. Split(h, l, left, right) = d[n]
  BY DEF Split, Splits, SplitStep
<1>. HIDE DEF half
<1>2. Splits(h, l, left, right, half, d, n)
  BY SplitsExist
<1>. HIDE DEF d
<1>3. d = [i \in 0 .. n |-> One(i, d[i - 1])]
  BY <1>2 DEF Splits
<1>4. \A i \in 0 .. n : d[i] = One(i, d[i - 1])
  <2>. HIDE DEF One
  <2> QED
    BY <1>3
<1>5. d[0] = h
  <2>1. 0 \in 0 .. n
    OBVIOUS
  <2> QED
    BY <1>4, <2>1 DEF SplitStep
<1>6. \A i \in 1 .. n : d[i] = SplitOne(d[i - 1], l, left, right, i <= half)
  <2>1. \A i \in 1 .. n : i \in 0 .. n /\ i # 0
    OBVIOUS
  <2> QED
    BY <1>4, <2>1 DEF SplitStep
<1> QED
  BY <1>1, <1>5, <1>6 DEF half

LEMMA MergeIs ==
  ASSUME NEW h, NEW l, NEW left, NEW right, NEW func, NEW n \in Nat
  PROVE  \E d : /\ Merge(h, l, left, right, func, n) = d[n] /\ d[0] = h
                /\ \A i \in 1 .. n : d[i] = MergeOne(d[i - 1], l, left, right, func)
<1>. DEFINE d == CHOOSE e : Merges(h, l, left, right, func, e, n)
            One(i, x) == MergeStep(h, l, left, right, func, i, x)
<1>1. Merge(h, l, left, right, func, n) = d[n]
  BY DEF Merge, Merges, MergeStep
<1>2. Merges(h, l, left, right, func, d, n)
  BY MergesExist
<1>. HIDE DEF d
<1>3. d = [i \in 0 .. n |-> One(i, d[i - 1])]
  BY <1>2 DEF Merges
<1>4. \A i \in 0 .. n : d[i] = One(i, d[i - 1])
  <2>. HIDE DEF One
  <2> QED
    BY <1>3
<1>5. d[0] = h
  <2>1. 0 \in 0 .. n
    OBVIOUS
  <2> QED
    BY <1>4, <2>1 DEF MergeStep
<1>6. \A i \in 1 .. n : d[i] = MergeOne(d[i - 1], l, left, right, func)
  <2>1. \A i \in 1 .. n : i \in 0 .. n /\ i # 0
    OBVIOUS
  <2> QED
    BY <1>4, <2>1 DEF MergeStep
<1> QED
  BY <1>1, <1>5, <1>6

\* A call of _sort, by what the calls nested in it return.
Start(h, left, right) ==
    [h EXCEPT !.list = [@ EXCEPT ![left] = EmptyList, ![right] = EmptyList]]
Halves(f, h, l, left, right) == f[Split(Start(h, left, right), l, left, right)][left]

LEMMA SortCallIs ==
  ASSUME NEW func, NEW depth, NEW f, NEW h, NEW l, ~(depth = 0 \/ h.list[l].count <= 1),
         NEW left, NEW right, left = <<depth, "left">>, right = <<depth, "right">>,
         NEW halves, halves = Halves(f, h, l, left, right)
  PROVE  SortCall(func, depth, f, h, l)
           = Merge(f[halves][right], l, left, right, func, h.list[l].count)
BY DEF SortCall, Halves, Start

LEMMA SortedIs ==
  ASSUME NEW func
  PROVE  \E f : /\ Sorted(func) = f[NodeBound]
                /\ \A depth \in 0 .. NodeBound, h \in Heaps(Stacked), l \in Stacked :
                     f[depth][h][l] = SortCall(func, depth, f[depth - 1], h, l)
<1>. DEFINE f == CHOOSE e : Nested(func, e, NodeBound)
            One(i, x) == CallStep(func, i, x)
<1>1. Sorted(func) = f[NodeBound]
  BY DEF Sorted, Nested, CallStep, SortCall
<1>2. Nested(func, f, NodeBound)
  BY NestedExist, NodesAre
<1>. HIDE DEF f
<1>3. f = [i \in 0 .. NodeBound |-> One(i, f[i - 1])]
  BY <1>2 DEF Nested
<1>4. \A i \in 0 .. NodeBound : f[i] = One(i, f[i - 1])
  <2>. HIDE DEF One
  <2> QED
    BY <1>3
<1>5. \A i \in 0 .. NodeBound, h \in Heaps(Stacked), l \in Stacked :
        f[i][h][l] = SortCall(func, i, f[i - 1], h, l)
  <2>1. ASSUME NEW i, NEW u, NEW h \in Heaps(Stacked), NEW l \in Stacked
        PROVE  CallStep(func, i, u)[h][l] = SortCall(func, i, u, h, l)
    <3>. DEFINE Row0(k) == [j \in Stacked |-> SortCall(func, i, u, k, j)]
    <3>1. CallStep(func, i, u) = [k \in Heaps(Stacked) |-> Row0(k)]
      BY DEF CallStep
    <3>2. CallStep(func, i, u)[h] = Row0(h)
      <4>. HIDE DEF Row0
      <4> QED
        BY <3>1
    <3>3. Row0(h)[l] = SortCall(func, i, u, h, l)
      OBVIOUS
    <3>. HIDE DEF Row0
    <3> QED
      BY <3>2, <3>3
  <2> QED
    BY <1>4, <2>1
<1> QED
  BY <1>1, <1>5

-----------------------------------------------------------------------------
(* Sequences that are ordered by a relation r of nodes, and what happens to  *)
(* the order when the first node of one goes to the end of another.          *)

Ordered(r, s) == \A i, j \in 1 .. Len(s) : i < j => <<s[i], s[j]>> \in r
Before(r, s, t) == \A m, n : On(s, m) /\ On(t, n) => <<m, n>> \in r
Shifted(s, t, x, s2, t2) ==
    /\ s \in Seq(Nodes) /\ t \in Seq(Nodes) /\ s2 \in Seq(Nodes) /\ t2 \in Seq(Nodes)
    /\ Len(s) > 0 /\ x = s[1] /\ Len(s2) = Len(s) - 1 /\ Len(t2) = Len(t) + 1
    /\ \A i \in 1 .. Len(s) - 1 : s2[i] = s[i + 1]
    /\ \A i \in 1 .. Len(t) + 1 : t2[i] = IF i = Len(t) + 1 THEN x ELSE t[i]

FirstMoved(S, from, to) == Moved(S, from, 0, to)
Movable(S, from, to) == from # to /\ Len(S[from]) > 0
MovedOne(D, S, from, to, T) ==
    /\ Shifted(S[from], S[to], S[from][1], T[from], T[to])
    /\ \A k \in D \ {from, to} : T[k] = S[k]

LEMMA ShiftedIs ==
  ASSUME NEW D, NEW S \in [D -> Seq(Nodes)], NEW from \in D, NEW to \in D,
         Movable(S, from, to)
  PROVE  MovedOne(D, S, from, to, FirstMoved(S, from, to))
<1>. DEFINE z == 0
            c == 1
            s == S[from]
            t == S[to]
            x == s[1]
            w == <<x>>
            R == CutFrom(S, from, z, c)
            s2 == Cut(s, z, c)
            t2 == Put(t, Len(t), w)
            T == FirstMoved(S, from, to)
<1>0. from # to /\ Len(S[from]) > 0
  BY DEF Movable
<1>1. s \in Seq(Nodes) /\ t \in Seq(Nodes) /\ Len(s) \in Nat /\ Len(t) \in Nat /\ Len(s) > 0
  BY <1>0, SeqIs
<1>2. z \in Nat /\ c \in Nat /\ z + c <= Len(s) /\ Len(t) \in 0 .. Len(t)
  BY <1>1
<1>3. x \in Nodes
  BY <1>1, SeqIs
<1>4. w \in Seq(Nodes) /\ Len(w) = 1 /\ w[1] = x
  BY <1>3, OneIs
<1>5. T = PutIn(R, to, Len(R[to]), w)
  BY DEF Moved, FirstMoved
<1>. HIDE DEF w, T
<1>6. /\ s2 \in Seq(Nodes) /\ Len(s2) = Len(s) - 1
      /\ \A i \in 1 .. Len(s) - 1 : s2[i] = s[i + 1]
  <2>1. /\ Cut(s, z, c) \in Seq(Nodes) /\ Len(Cut(s, z, c)) = Len(s) - c
        /\ \A i \in 1 .. Len(s) - c : Cut(s, z, c)[i] = IF i <= z THEN s[i] ELSE s[i + c]
    <3>1. s \in Seq(Nodes) /\ z \in Nat /\ c \in Nat /\ z + c <= Len(s)
      BY <1>1, <1>2
    <3>. HIDE DEF z, c, s, t, x, R, s2, t2, T
    <3> QED
      BY <3>1, CutIs
  <2> QED
    BY <2>1
<1>7. /\ t2 \in Seq(Nodes) /\ Len(t2) = Len(t) + 1
      /\ \A i \in 1 .. Len(t) + 1 : t2[i] = IF i = Len(t) + 1 THEN x ELSE t[i]
  <2>1. /\ t2 \in Seq(Nodes) /\ Len(t2) = Len(t) + Len(w)
        /\ \A i \in 1 .. Len(t) + Len(w) :
             t2[i] = IF i <= Len(t) THEN t[i]
                     ELSE IF i <= Len(t) + Len(w) THEN w[i - Len(t)] ELSE t[i - Len(w)]
    <3>. DEFINE a == Len(t)
    <3>1. t \in Seq(Nodes) /\ w \in Seq(Nodes) /\ a \in 0 .. Len(t)
      BY <1>1, <1>2, <1>4
    <3>2. t2 = Put(t, a, w)
      OBVIOUS
    <3>. HIDE DEF t, t2, a
    <3>3. /\ t2 \in Seq(Nodes) /\ Len(t2) = Len(t) + Len(w)
          /\ \A i \in 1 .. Len(t) + Len(w) :
               t2[i] = IF i <= a THEN t[i]
                       ELSE IF i <= a + Len(w) THEN w[i - a] ELSE t[i - Len(w)]
      BY <3>1, <3>2, PutIs
    <3> QED
      BY <3>3 DEF a
  <2>2. ASSUME NEW i \in 1 .. Len(t) + 1
        PROVE  t2[i] = IF i = Len(t) + 1 THEN x ELSE t[i]
    <3>1. CASE i = Len(t) + 1
      <4>1. i - Len(t) = 1 /\ ~(i <= Len(t)) /\ i <= Len(t) + Len(w) /\ i \in 1 .. Len(t) + Len(w)
        BY <1>1, <1>4, <3>1
      <4>. HIDE DEF t, t2, x
      <4>2. t2[i] = w[i - Len(t)]
        BY <2>1, <4>1
      <4> QED
        BY <1>4, <3>1, <4>1, <4>2
    <3>2. CASE i # Len(t) + 1
      <4>1. i <= Len(t) /\ i \in 1 .. Len(t) + Len(w)
        BY <1>1, <1>4, <3>2
      <4>. HIDE DEF t, t2, x
      <4> QED
        BY <2>1, <3>2, <4>1
    <3> QED
      BY <3>1, <3>2
  <2> QED
    BY <1>4, <2>1, <2>2
<1>8. /\ R \in [D -> Seq(Nodes)] /\ R[from] = s2
      /\ \A k \in D \ {from} : R[k] = S[k]
  <2>1. Cut(S[from], z, c) \in Seq(Nodes)
    BY <1>6
  <2>. HIDE DEF z, c
  <2> QED
    BY <2>1 DEF CutFrom
<1>9. R[to] = t
  BY <1>0, <1>8
<1>. HIDE DEF R, s2
<1>10. /\ T \in [D -> Seq(Nodes)] /\ T[to] = t2
       /\ \A k \in D \ {to} : T[k] = R[k]
  <2>1. T = [R EXCEPT ![to] = t2]
    BY <1>5, <1>9 DEF PutIn
  <2>. HIDE DEF t2
  <2> QED
    BY <1>7, <1>8, <2>1
<1>. HIDE DEF t2
<1>11. T[from] = s2 /\ \A k \in D \ {from, to} : T[k] = S[k]
  BY <1>0, <1>8, <1>10
<1> QED
  BY <1>1, <1>6, <1>7, <1>10, <1>11 DEF Shifted, MovedOne, T

LEMMA ShiftedOn ==
  ASSUME NEW s, NEW t, NEW x, NEW s2, NEW t2, Shifted(s, t, x, s2, t2), NEW n
  PROVE  /\ On(s, n) <=> n = x \/ On(s2, n)
         /\ On(t2, n) <=> On(t, n) \/ n = x
<1>1. /\ Len(s) \in Nat /\ Len(t) \in Nat /\ Len(s) > 0 /\ x = s[1]
      /\ Len(s2) = Len(s) - 1 /\ Len(t2) = Len(t) + 1
  BY SeqIs DEF Shifted
<1>2. ASSUME On(s, n), n # x
      PROVE  On(s2, n)
  <2>1. PICK i \in 1 .. Len(s) : s[i] = n
    BY <1>2 DEF On
  <2>2. i - 1 \in 1 .. Len(s) - 1 /\ (i - 1) + 1 = i
    BY <1>1, <1>2, <2>1
  <2>3. s2[i - 1] = s[(i - 1) + 1]
    BY <2>2 DEF Shifted
  <2> QED
    BY <1>1, <2>1, <2>2, <2>3 DEF On
<1>3. ASSUME On(s2, n)
      PROVE  On(s, n)
  <2>1. PICK i \in 1 .. Len(s) - 1 : s2[i] = n
    BY <1>1, <1>3 DEF On
  <2>2. i + 1 \in 1 .. Len(s) /\ s2[i] = s[i + 1]
    BY <1>1 DEF Shifted
  <2> QED
    BY <2>1, <2>2 DEF On
<1>4. On(s, x)
  BY <1>1 DEF On
<1>5. ASSUME On(t2, n), n # x
      PROVE  On(t, n)
  <2>1. PICK i \in 1 .. Len(t) + 1 : t2[i] = n
    BY <1>1, <1>5 DEF On
  <2>2. i \in 1 .. Len(t) /\ t2[i] = t[i]
    BY <1>1, <1>5, <2>1 DEF Shifted
  <2> QED
    BY <2>1, <2>2 DEF On
<1>6. ASSUME On(t, n)
      PROVE  On(t2, n)
  <2>1. PICK i \in 1 .. Len(t) : t[i] = n
    BY <1>6 DEF On
  <2>2. i \in 1 .. Len(t) + 1 /\ t2[i] = t[i]
    BY <1>1 DEF Shifted
  <2> QED
    BY <1>1, <2>1, <2>2 DEF On
<1>7. On(t2, x)
  <2>1. Len(t) + 1 \in 1 .. Len(t) + 1 /\ t2[Len(t) + 1] = x
    BY <1>1 DEF Shifted
  <2> QED
    BY <1>1, <2>1 DEF On
<1> QED
  BY <1>2, <1>3, <1>4, <1>5, <1>6, <1>7

LEMMA ShiftedOrder ==
  ASSUME NEW s, NEW t, NEW x, NEW s2, NEW t2, Shifted(s, t, x, s2, t2),
         NEW r, Ordered(r, s), Ordered(r, t), Before(r, t, s)
  PROVE  /\ Ordered(r, s2) /\ Ordered(r, t2) /\ Before(r, t2, s2)
         /\ \A n : On(s2, n) => <<x, n>> \in r
<1>1. /\ Len(s) \in Nat /\ Len(t) \in Nat /\ Len(s) > 0 /\ x = s[1]
      /\ Len(s2) = Len(s) - 1 /\ Len(t2) = Len(t) + 1
  BY SeqIs DEF Shifted
<1>2. \A n : On(s2, n) => <<x, n>> \in r
  <2>1. ASSUME NEW i \in 1 .. Len(s) - 1
        PROVE  <<x, s2[i]>> \in r
    <3>1. i + 1 \in 1 .. Len(s) /\ 1 \in 1 .. Len(s) /\ 1 < i + 1 /\ s2[i] = s[i + 1]
      BY <1>1 DEF Shifted
    <3> QED
      BY <1>1, <3>1 DEF Ordered
  <2> QED
    BY <1>1, <2>1 DEF On
<1>3. Ordered(r, s2)
  <2>1. ASSUME NEW i \in 1 .. Len(s2), NEW j \in 1 .. Len(s2), i < j
        PROVE  <<s2[i], s2[j]>> \in r
    <3>1. /\ i + 1 \in 1 .. Len(s) /\ j + 1 \in 1 .. Len(s) /\ i + 1 < j + 1
          /\ s2[i] = s[i + 1] /\ s2[j] = s[j + 1]
      BY <1>1, <2>1 DEF Shifted
    <3> QED
      BY <3>1 DEF Ordered
  <2> QED
    BY <2>1 DEF Ordered
<1>4. Ordered(r, t2)
  <2>1. ASSUME NEW i \in 1 .. Len(t2), NEW j \in 1 .. Len(t2), i < j
        PROVE  <<t2[i], t2[j]>> \in r
    <3>1. i \in 1 .. Len(t) /\ t2[i] = t[i] /\ On(t, t[i])
      BY <1>1, <2>1 DEF Shifted, On
    <3>2. CASE j = Len(t) + 1
      <4>1. t2[j] = x /\ On(s, x)
        BY <1>1, <3>2 DEF Shifted, On
      <4> QED
        BY <3>1, <4>1 DEF Before
    <3>3. CASE j # Len(t) + 1
      <4>1. j \in 1 .. Len(t) /\ j \in 1 .. Len(t) + 1
        BY <1>1, <3>3
      <4>2. t2[j] = t[j]
        BY <3>3, <4>1 DEF Shifted
      <4> QED
        BY <2>1, <3>1, <4>1, <4>2 DEF Ordered
    <3> QED
      BY <3>2, <3>3
  <2> QED
    BY <2>1 DEF Ordered
<1>5. Before(r, t2, s2)
  BY <1>2, ShiftedOn DEF Before
<1> QED
  BY <1>2, <1>3, <1>4, <1>5

\* While l is split: what is left of u comes after the halves a and b.
Halving(r, u, a, b) ==
    /\ Ordered(r, u) /\ Ordered(r, a) /\ Ordered(r, b)
    /\ Before(r, a, u) /\ Before(r, b, u) /\ Before(r, a, b)

\* While the halves are merged: m comes before what is left of a and b, and b after a in the
\* order q that they had.
Merging(r, q, m, a, b) ==
    /\ Ordered(r, m) /\ Ordered(r, a) /\ Ordered(r, b)
    /\ Before(r, m, a) /\ Before(r, m, b) /\ Before(q, a, b)

LEMMA HalvingLeft ==
  ASSUME NEW r, NEW u, NEW a, NEW b, Halving(r, u, a, b), Len(b) = 0,
         NEW x, NEW u2, NEW a2, Shifted(u, a, x, u2, a2)
  PROVE  Halving(r, u2, a2, b)
<1>1. Ordered(r, u2) /\ Ordered(r, a2) /\ Before(r, a2, u2)
  BY ShiftedOrder DEF Halving
<1>2. \A n : ~On(b, n)
  BY DEF On
<1> QED
  BY <1>1, <1>2 DEF Halving, Before

LEMMA HalvingRight ==
  ASSUME NEW r, NEW u, NEW a, NEW b, Halving(r, u, a, b),
         NEW x, NEW u2, NEW b2, Shifted(u, b, x, u2, b2)
  PROVE  Halving(r, u2, a, b2)
<1>1. Ordered(r, u2) /\ Ordered(r, b2) /\ Before(r, b2, u2)
  BY ShiftedOrder DEF Halving
<1>2. Before(r, a, u) /\ Before(r, a, b) /\ Ordered(r, a)
  BY DEF Halving
<1>3. Before(r, a, u2) /\ Before(r, a, b2)
  BY <1>2, ShiftedOn DEF Before
<1> QED
  BY <1>1, <1>2, <1>3 DEF Halving

LEMMA MergingLeft ==
  ASSUME NEW r, NEW q, NEW m, NEW a, NEW b, Merging(r, q, m, a, b),
         NEW x, NEW a2, NEW m2, Shifted(a, m, x, a2, m2), \A n : On(b, n) => <<x, n>> \in r
  PROVE  Merging(r, q, m2, a2, b)
<1>1. Ordered(r, a2) /\ Ordered(r, m2) /\ Before(r, m2, a2)
  BY ShiftedOrder DEF Merging
<1>2. Before(r, m, b) /\ Before(q, a, b) /\ Ordered(r, b)
  BY DEF Merging
<1>3. Before(r, m2, b) /\ Before(q, a2, b)
  BY <1>2, ShiftedOn DEF Before
<1> QED
  BY <1>1, <1>2, <1>3 DEF Merging

LEMMA MergingRight ==
  ASSUME NEW r, NEW q, NEW m, NEW a, NEW b, Merging(r, q, m, a, b),
         NEW x, NEW b2, NEW m2, Shifted(b, m, x, b2, m2), \A n : On(a, n) => <<x, n>> \in r
  PROVE  Merging(r, q, m2, a, b2)
<1>1. Ordered(r, b2) /\ Ordered(r, m2) /\ Before(r, m2, b2)
  BY ShiftedOrder DEF Merging
<1>2. Before(r, m, a) /\ Before(q, a, b) /\ Ordered(r, a)
  BY DEF Merging
<1>3. Before(r, m2, a) /\ Before(q, a, b2)
  BY <1>2, ShiftedOn DEF Before
<1> QED
  BY <1>1, <1>2, <1>3 DEF Merging

\* One step of either loop.
LEMMA MoveFirst ==
  ASSUME NEW h, NEW D, NEW S, Good(h, D, S, Empty), NEW from \in D, NEW to \in D, from # to,
         Len(S[from]) > 0, NEW g, g = NodeSpliced(h, from, to, h.list[from].head)
  PROVE  \E T : /\ Good(g, D, T, Empty) /\ g.data = h.data
                /\ Shifted(S[from], S[to], S[from][1], T[from], T[to])
                /\ \A k \in D \ {from, to} : T[k] = S[k]
<1>. DEFINE z == 0
            T == Moved(S, from, z, to)
            node == h.list[from].head
<1>1. S \in [D -> Seq(Nodes)] /\ Len(S[from]) \in Nat
  BY SeqIs DEF Good, Rows
<1>2. node = S[from][1]
  BY <1>1, GoodNodes DEF At
<1>3. z \in Nat /\ z + 1 <= Len(S[from]) /\ node = S[from][z + 1]
  BY <1>1, <1>2
<1>4. MovedOne(D, S, from, to, T)
  <2>1. T = FirstMoved(S, from, to)
    BY DEF FirstMoved
  <2>2. Movable(S, from, to)
    BY DEF Movable
  <2>. HIDE DEF T, z, node
  <2>3. MovedOne(D, S, from, to, FirstMoved(S, from, to))
    BY <1>1, <2>2, ShiftedIs
  <2> QED
    BY <2>1, <2>3
<1>. HIDE DEF z, node
<1>5. Good(g, D, T, Empty) /\ g.data = h.data
  <2>1. g = NodeSpliced(h, from, to, node)
    BY DEF node
  <2>2. Good(g, D, Moved(S, from, z, to), Empty) /\ g.data = h.data
    <3>1. z \in Nat /\ FoundAt(S[from], z, node)
      BY <1>3 DEF FoundAt
    <3> QED
      BY <2>1, <3>1, NodeSplicedGood
  <2> QED
    BY <2>2
<1> QED
  BY <1>4, <1>5 DEF MovedOne

\* The nodes on three sequences.
Together(u, a, b, n) == On(u, n) \/ On(a, n) \/ On(b, n)

\* After i steps of the loop that splits the n nodes of l.
SplitAt(g, D, S, data, l, left, right, r, n, i, T) ==
    /\ Good(g, D, T, Empty) /\ g.data = data
    /\ \A k \in D \ {l, left, right} : T[k] = S[k]
    /\ Halving(r, T[l], T[left], T[right])
    /\ Len(T[l]) = n - i
    /\ Len(T[left]) = IF i <= n \div 2 THEN i ELSE n \div 2
    /\ Len(T[right]) = IF i <= n \div 2 THEN 0 ELSE i - n \div 2
    /\ \A m : On(S[l], m) <=> Together(T[l], T[left], T[right], m)

LEMMA SplitStepGood ==
  ASSUME NEW g, NEW D, NEW S, NEW data, NEW l \in D, NEW left \in D, NEW right \in D,
         l # left, l # right, left # right, NEW r, NEW n \in Nat, NEW i \in 1 .. n,
         NEW T, SplitAt(g, D, S, data, l, left, right, r, n, i - 1, T),
         NEW f, f = SplitOne(g, l, left, right, i <= n \div 2)
  PROVE  \E U : SplitAt(f, D, S, data, l, left, right, r, n, i, U)
<1>. DEFINE half == n \div 2
            x == T[l][1]
<1>1. half \in Nat /\ half <= n
  OBVIOUS
<1>2. /\ Good(g, D, T, Empty) /\ g.data = data
      /\ \A k \in D \ {l, left, right} : T[k] = S[k]
      /\ Halving(r, T[l], T[left], T[right])
      /\ Len(T[l]) = n - (i - 1)
      /\ Len(T[left]) = IF i - 1 <= half THEN i - 1 ELSE half
      /\ Len(T[right]) = IF i - 1 <= half THEN 0 ELSE (i - 1) - half
      /\ \A m : On(S[l], m) <=> Together(T[l], T[left], T[right], m)
  BY DEF SplitAt
<1>. HIDE DEF half
<1>3. Len(T[l]) > 0
  BY <1>2
<1>4. CASE i <= half
  <2>1. f = NodeSpliced(g, l, left, g.list[l].head)
    BY <1>4 DEF SplitOne, half
  <2>2. PICK U : /\ Good(f, D, U, Empty) /\ f.data = g.data
                 /\ Shifted(T[l], T[left], x, U[l], U[left])
                 /\ \A k \in D \ {l, left} : U[k] = T[k]
    BY <1>2, <1>3, <2>1, MoveFirst
  <2>. HIDE DEF x
  <2>3. U[right] = T[right] /\ \A k \in D \ {l, left, right} : U[k] = S[k]
    BY <1>2, <2>2
  <2>4. Len(T[right]) = 0
    BY <1>1, <1>2, <1>4
  <2>5. Halving(r, U[l], U[left], U[right])
    BY <1>2, <2>2, <2>3, <2>4, HalvingLeft
  <2>6. Len(U[l]) = Len(T[l]) - 1 /\ Len(U[left]) = Len(T[left]) + 1
    BY <2>2 DEF Shifted
  <2>7. Len(U[l]) = n - i /\ Len(U[left]) = i /\ Len(U[right]) = 0
    BY <1>1, <1>2, <1>4, <2>3, <2>4, <2>6
  <2>8. \A m : On(S[l], m) <=> Together(U[l], U[left], U[right], m)
    BY <1>2, <2>2, <2>3, ShiftedOn DEF Together
  <2> QED
    BY <1>2, <1>4, <2>2, <2>3, <2>5, <2>7, <2>8 DEF SplitAt, half
<1>5. CASE ~(i <= half)
  <2>1. f = NodeSpliced(g, l, right, g.list[l].head)
    BY <1>5 DEF SplitOne, half
  <2>2. PICK U : /\ Good(f, D, U, Empty) /\ f.data = g.data
                 /\ Shifted(T[l], T[right], x, U[l], U[right])
                 /\ \A k \in D \ {l, right} : U[k] = T[k]
    BY <1>2, <1>3, <2>1, MoveFirst
  <2>. HIDE DEF x
  <2>3. U[left] = T[left] /\ \A k \in D \ {l, left, right} : U[k] = S[k]
    BY <1>2, <2>2
  <2>5. Halving(r, U[l], U[left], U[right])
    BY <1>2, <2>2, <2>3, HalvingRight
  <2>6. Len(U[l]) = Len(T[l]) - 1 /\ Len(U[right]) = Len(T[right]) + 1
    BY <2>2 DEF Shifted
  <2>7. Len(U[l]) = n - i /\ Len(U[left]) = half /\ Len(U[right]) = i - half
    BY <1>1, <1>2, <1>5, <2>3, <2>6
  <2>8. \A m : On(S[l], m) <=> Together(U[l], U[left], U[right], m)
    BY <1>2, <2>2, <2>3, ShiftedOn DEF Together
  <2> QED
    BY <1>2, <1>5, <2>2, <2>3, <2>5, <2>7, <2>8 DEF SplitAt, half
<1> QED
  BY <1>4, <1>5

LEMMA SplitGood ==
  ASSUME NEW h, NEW D, NEW S, Good(h, D, S, Empty), NEW l \in D, NEW left \in D, NEW right \in D,
         l # left, l # right, left # right, Len(S[left]) = 0, Len(S[right]) = 0,
         NEW r, Ordered(r, S[l]), NEW n, n = Len(S[l]), NEW g, g = Split(h, l, left, right)
  PROVE  \E T : SplitAt(g, D, S, h.data, l, left, right, r, n, n, T)
<1>1. n \in Nat /\ n = h.list[l].count
  BY GoodNodes
<1>2. PICK d : /\ g = d[n] /\ d[0] = h
               /\ \A i \in 1 .. n : d[i] = SplitOne(d[i - 1], l, left, right, i <= n \div 2)
  BY <1>1, SplitIs
<1>. DEFINE Is(i) == \E T : SplitAt(d[i], D, S, h.data, l, left, right, r, n, i, T)
            Bad == {i \in 0 .. n : ~Is(i)}
<1>3. Is(0)
  <2>1. \A m : ~On(S[left], m) /\ ~On(S[right], m)
    BY DEF On
  <2>2. Ordered(r, S[left]) /\ Ordered(r, S[right])
    BY DEF Ordered
  <2>3. Halving(r, S[l], S[left], S[right])
    BY <2>1, <2>2 DEF Halving, Before
  <2>4. \A m : On(S[l], m) <=> Together(S[l], S[left], S[right], m)
    BY <2>1 DEF Together
  <2>5. n \div 2 \in Nat
    BY <1>1
  <2>6. SplitAt(h, D, S, h.data, l, left, right, r, n, 0, S)
    BY <1>1, <2>3, <2>4, <2>5 DEF SplitAt
  <2> QED
    BY <1>2, <2>6
<1>4. ASSUME NEW i \in 1 .. n, Is(i - 1)
      PROVE  Is(i)
  <2>1. PICK T : SplitAt(d[i - 1], D, S, h.data, l, left, right, r, n, i - 1, T)
    BY <1>4
  <2>2. d[i] = SplitOne(d[i - 1], l, left, right, i <= n \div 2)
    BY <1>2
  <2> QED
    BY <1>1, <2>1, <2>2, SplitStepGood
<1>. HIDE DEF Is
<1>5. \A i \in 0 .. n : Is(i)
  <2>1. SUFFICES ASSUME Bad # {}
                 PROVE  FALSE
    OBVIOUS
  <2>2. Bad \in SUBSET Nat
    BY <1>1
  <2>3. PICK b \in Bad : \A m \in Bad : b <= m
    <3>. HIDE DEF Bad
    <3> QED
      BY <2>1, <2>2, Least
  <2>4. b \in 1 .. n /\ b - 1 \in 0 .. n /\ b - 1 \notin Bad
    BY <1>1, <1>3, <2>3
  <2> QED
    BY <1>4, <2>3, <2>4
<1> QED
  BY <1>1, <1>2, <1>5 DEF Is

-----------------------------------------------------------------------------
(* The order in which a sort leaves nodes with these data: p tells where     *)
(* they were before.                                                         *)

Earlier(p) == {e \in Nodes \X Nodes : p[e[1]] < p[e[2]]}
Later(func, data, p, x, y) ==
    \/ Key(data[x]) < Key(data[y])
    \/ /\ Key(data[x]) = Key(data[y])
       /\ IF func = "<=" THEN p[x] < p[y] ELSE p[y] < p[x]
InTurn(func, data, p) == {e \in Nodes \X Nodes : Later(func, data, p, e[1], e[2])}

LEMMA TurnsAre ==
  ASSUME NEW func \in Comparators, NEW data, Maps(data, Nodes, Items), NEW p \in [Nodes -> Int],
         NEW r, r = InTurn(func, data, p), NEW q, q = Earlier(p)
  PROVE  /\ \A x, y \in Nodes : <<x, y>> \in r <=> Later(func, data, p, x, y)
         /\ \A x, y \in Nodes : <<x, y>> \in q <=> p[x] < p[y]
         /\ \A x, y, z \in Nodes : <<x, y>> \in r /\ <<y, z>> \in r => <<x, z>> \in r
         /\ \A x, y \in Nodes : <<x, y>> \in q =>
              IF GoesFirst(func, data[x], data[y]) THEN <<x, y>> \in r ELSE <<y, x>> \in r
<1>1. \A x \in Nodes : Key(data[x]) \in Int /\ p[x] \in Int
  BY ListAssumption DEF Maps
<1>2. \A x, y \in Nodes : <<x, y>> \in r <=> Later(func, data, p, x, y)
  BY DEF InTurn
<1>3. \A x, y \in Nodes : <<x, y>> \in q <=> p[x] < p[y]
  BY DEF Earlier
<1>4. ASSUME NEW x \in Nodes, NEW y \in Nodes, NEW z \in Nodes,
             Later(func, data, p, x, y), Later(func, data, p, y, z)
      PROVE  Later(func, data, p, x, z)
  BY <1>1, <1>4 DEF Later
<1>5. ASSUME NEW x \in Nodes, NEW y \in Nodes, p[x] < p[y]
      PROVE  IF GoesFirst(func, data[x], data[y]) THEN Later(func, data, p, x, y)
             ELSE Later(func, data, p, y, x)
  BY <1>1, <1>5 DEF Later, GoesFirst
<1> QED
  BY <1>2, <1>3, <1>4, <1>5

LEMMA FirstIs ==
  ASSUME NEW s \in Seq(Nodes), Len(s) > 0, NEW r, Ordered(r, s), NEW n, On(s, n)
  PROVE  s[1] \in Nodes /\ n \in Nodes /\ On(s, s[1]) /\ (n = s[1] \/ <<s[1], n>> \in r)
<1>1. Len(s) \in Nat /\ 1 \in 1 .. Len(s)
  BY SeqIs
<1>2. PICK i \in 1 .. Len(s) : s[i] = n
  BY DEF On
<1>3. i = 1 \/ 1 < i
  BY <1>1
<1> QED
  BY <1>1, <1>2, <1>3, SeqIs DEF Ordered, On

\* After i steps of the loop that merges n nodes into l.
MergeAt(g, D, S, data, l, left, right, r, q, n, i, T) ==
    /\ Good(g, D, T, Empty) /\ g.data = data
    /\ \A k \in D \ {l, left, right} : T[k] = S[k]
    /\ Merging(r, q, T[l], T[left], T[right])
    /\ Len(T[l]) = i /\ Len(T[left]) + Len(T[right]) = n - i
    /\ \A m : Together(S[l], S[left], S[right], m) <=> Together(T[l], T[left], T[right], m)

LEMMA MergeStepGood ==
  ASSUME NEW g, NEW D, NEW S, NEW data, Maps(data, Nodes, Items),
         NEW l \in D, NEW left \in D, NEW right \in D, l # left, l # right, left # right,
         NEW func \in Comparators, NEW p \in [Nodes -> Int],
         NEW r, r = InTurn(func, data, p), NEW q, q = Earlier(p),
         NEW n \in Nat, NEW i \in 1 .. n,
         NEW T, MergeAt(g, D, S, data, l, left, right, r, q, n, i - 1, T),
         NEW f, f = MergeOne(g, l, left, right, func)
  PROVE  \E U : MergeAt(f, D, S, data, l, left, right, r, q, n, i, U)
<1>. DEFINE a == T[left]
            b == T[right]
            x == a[1]
            y == b[1]
            lhead == g.list[left].head
            rhead == g.list[right].head
<1>1. /\ Good(g, D, T, Empty) /\ g.data = data
      /\ \A k \in D \ {l, left, right} : T[k] = S[k]
      /\ Merging(r, q, T[l], a, b)
      /\ Len(T[l]) = i - 1 /\ Len(a) + Len(b) = n - (i - 1)
      /\ \A m : Together(S[l], S[left], S[right], m) <=> Together(T[l], a, b, m)
  BY DEF MergeAt
<1>2. /\ a \in Seq(Nodes) /\ b \in Seq(Nodes) /\ Len(a) \in Nat /\ Len(b) \in Nat
      /\ lhead = At(a, 1) /\ rhead = At(b, 1)
  BY <1>1, GoodNodes, SeqIs
<1>. HIDE DEF lhead, rhead, a, b
<1>3. /\ lhead # None <=> Len(a) > 0
      /\ rhead # None <=> Len(b) > 0
      /\ Len(a) > 0 => lhead = x
      /\ Len(b) > 0 => rhead = y
  BY <1>2, AtIs DEF At
<1>4. Len(a) > 0 \/ Len(b) > 0
  BY <1>1, <1>2
<1>5. Ordered(r, a) /\ Ordered(r, b) /\ Before(q, a, b)
  BY <1>1 DEF Merging
<1>6. ASSUME Len(a) > 0, Len(b) > 0
      PROVE  /\ x \in Nodes /\ y \in Nodes
             /\ IF GoesFirst(func, data[x], data[y]) THEN <<x, y>> \in r ELSE <<y, x>> \in r
  <2>1. On(a, x) /\ On(b, y) /\ x \in Nodes /\ y \in Nodes
    BY <1>2, <1>6, SeqIs DEF On
  <2>2. <<x, y>> \in q
    BY <1>5, <2>1 DEF Before
  <2> QED
    BY <2>1, <2>2, TurnsAre
<1>. HIDE DEF x, y
<1>7. CASE TakesLeft(g, func, lhead, rhead)
  <2>1. Len(a) > 0 /\ (Len(b) > 0 => GoesFirst(func, data[x], data[y]))
    BY <1>1, <1>3, <1>4, <1>7 DEF TakesLeft
  <2>2. \A m : On(b, m) => <<x, m>> \in r
    <3>1. ASSUME NEW m, On(b, m)
          PROVE  <<x, m>> \in r
      <4>1. Len(b) > 0
        BY <1>2, <3>1 DEF On
      <4>2. x \in Nodes /\ y \in Nodes /\ <<x, y>> \in r
        BY <1>6, <2>1, <4>1
      <4>3. m \in Nodes /\ (m = y \/ <<y, m>> \in r)
        BY <1>2, <1>5, <3>1, <4>1, FirstIs DEF y
      <4> QED
        BY <4>2, <4>3, TurnsAre
    <3> QED
      BY <3>1
  <2>3. f = NodeSpliced(g, left, l, g.list[left].head)
    BY <1>7 DEF MergeOne, lhead, rhead
  <2>4. PICK U : /\ Good(f, D, U, Empty) /\ f.data = g.data
                 /\ Shifted(a, T[l], x, U[left], U[l])
                 /\ \A k \in D \ {left, l} : U[k] = T[k]
    BY <1>1, <2>1, <2>3, MoveFirst DEF a, x
  <2>5. U[right] = b /\ \A k \in D \ {l, left, right} : U[k] = S[k]
    BY <1>1, <2>4 DEF b
  <2>6. Merging(r, q, U[l], U[left], U[right])
    BY <1>1, <2>2, <2>4, <2>5, MergingLeft
  <2>7. Len(U[l]) = i /\ Len(U[left]) + Len(U[right]) = n - i
    <3>1. Len(U[l]) = Len(T[l]) + 1 /\ Len(U[left]) = Len(a) - 1
      BY <2>4 DEF Shifted
    <3> QED
      BY <1>1, <1>2, <2>5, <3>1
  <2>8. \A m : Together(S[l], S[left], S[right], m) <=> Together(U[l], U[left], U[right], m)
    BY <1>1, <2>4, <2>5, ShiftedOn DEF Together
  <2> QED
    BY <1>1, <2>4, <2>5, <2>6, <2>7, <2>8 DEF MergeAt
<1>8. CASE ~TakesLeft(g, func, lhead, rhead)
  <2>1. Len(b) > 0 /\ (Len(a) > 0 => ~GoesFirst(func, data[x], data[y]))
    BY <1>1, <1>3, <1>8 DEF TakesLeft
  <2>2. \A m : On(a, m) => <<y, m>> \in r
    <3>1. ASSUME NEW m, On(a, m)
          PROVE  <<y, m>> \in r
      <4>1. Len(a) > 0
        BY <1>2, <3>1 DEF On
      <4>2. x \in Nodes /\ y \in Nodes /\ <<y, x>> \in r
        BY <1>6, <2>1, <4>1
      <4>3. m \in Nodes /\ (m = x \/ <<x, m>> \in r)
        BY <1>2, <1>5, <3>1, <4>1, FirstIs DEF x
      <4> QED
        BY <4>2, <4>3, TurnsAre
    <3> QED
      BY <3>1
  <2>3. f = NodeSpliced(g, right, l, g.list[right].head)
    BY <1>8 DEF MergeOne, lhead, rhead
  <2>4. PICK U : /\ Good(f, D, U, Empty) /\ f.data = g.data
                 /\ Shifted(b, T[l], y, U[right], U[l])
                 /\ \A k \in D \ {right, l} : U[k] = T[k]
    BY <1>1, <2>1, <2>3, MoveFirst DEF b, y
  <2>5. U[left] = a /\ \A k \in D \ {l, left, right} : U[k] = S[k]
    BY <1>1, <2>4 DEF a
  <2>6. Merging(r, q, U[l], U[left], U[right])
    BY <1>1, <2>2, <2>4, <2>5, MergingRight
  <2>7. Len(U[l]) = i /\ Len(U[left]) + Len(U[right]) = n - i
    <3>1. Len(U[l]) = Len(T[l]) + 1 /\ Len(U[right]) = Len(b) - 1
      BY <2>4 DEF Shifted
    <3> QED
      BY <1>1, <1>2, <2>5, <3>1
  <2>8. \A m : Together(S[l], S[left], S[right], m) <=> Together(U[l], U[left], U[right], m)
    BY <1>1, <2>4, <2>5, ShiftedOn DEF Together
  <2> QED
    BY <1>1, <2>4, <2>5, <2>6, <2>7, <2>8 DEF MergeAt
<1> QED
  BY <1>7, <1>8

\* There are n nodes on a and b.
CountOf(n, a, b) == n = Len(a) + Len(b)

LEMMA MergeGood ==
  ASSUME NEW h, NEW D, NEW S, Good(h, D, S, Empty),
         NEW l \in D, NEW left \in D, NEW right \in D, l # left, l # right, left # right,
         NEW func \in Comparators, NEW p \in [Nodes -> Int],
         NEW r, r = InTurn(func, h.data, p), NEW q, q = Earlier(p), Len(S[l]) = 0,
         Ordered(r, S[left]), Ordered(r, S[right]), Before(q, S[left], S[right]),
         NEW n \in Nat, CountOf(n, S[left], S[right]),
         NEW g, g = Merge(h, l, left, right, func, n)
  PROVE  \E T : MergeAt(g, D, S, h.data, l, left, right, r, q, n, n, T)
<1>1. n \in Nat /\ Maps(h.data, Nodes, Items)
  BY GoodIs
<1>2. PICK d : /\ g = d[n] /\ d[0] = h
               /\ \A i \in 1 .. n : d[i] = MergeOne(d[i - 1], l, left, right, func)
  BY <1>1, MergeIs
<1>. DEFINE Is(i) == \E T : MergeAt(d[i], D, S, h.data, l, left, right, r, q, n, i, T)
            Bad == {i \in 0 .. n : ~Is(i)}
<1>3. Is(0)
  <2>1. \A m : ~On(S[l], m)
    BY DEF On
  <2>2. Ordered(r, S[l])
    BY DEF Ordered
  <2>3. Merging(r, q, S[l], S[left], S[right])
    BY <2>1, <2>2 DEF Merging, Before
  <2>4. MergeAt(h, D, S, h.data, l, left, right, r, q, n, 0, S)
    BY <1>1, <2>3 DEF MergeAt, CountOf
  <2> QED
    BY <1>2, <2>4
<1>4. ASSUME NEW i \in 1 .. n, Is(i - 1)
      PROVE  Is(i)
  <2>1. PICK T : MergeAt(d[i - 1], D, S, h.data, l, left, right, r, q, n, i - 1, T)
    BY <1>4
  <2>2. d[i] = MergeOne(d[i - 1], l, left, right, func)
    BY <1>2
  <2> QED
    BY <1>1, <2>1, <2>2, MergeStepGood
<1>. HIDE DEF Is
<1>5. \A i \in 0 .. n : Is(i)
  <2>1. SUFFICES ASSUME Bad # {}
                 PROVE  FALSE
    OBVIOUS
  <2>2. Bad \in SUBSET Nat
    BY <1>1
  <2>3. PICK b \in Bad : \A m \in Bad : b <= m
    <3>. HIDE DEF Bad
    <3> QED
      BY <2>1, <2>2, Least
  <2>4. b \in 1 .. n /\ b - 1 \in 0 .. n /\ b - 1 \notin Bad
    BY <1>1, <1>3, <2>3
  <2> QED
    BY <1>4, <2>3, <2>4
<1> QED
  BY <1>1, <1>2, <1>5 DEF Is

-----------------------------------------------------------------------------
(* The calls of _sort.                                                       *)

\* What a call at this depth finds: l is none of the frames that it and the calls nested in it
\* use, these frames are empty, and the nodes of l are in the order q.
Callable(h, S, l, depth, q) ==
    /\ Good(h, Stacked, S, Empty) /\ l \in Stacked
    /\ \A k \in 1 .. depth, side \in {"left", "right"} :
         l # <<k, side>> /\ Len(S[<<k, side>>]) = 0
    /\ Ordered(q, S[l]) /\ Len(S[l]) <= depth + 1

\* And what it leaves: the same nodes in the order r.
InOrderNow(g, data, S, l, r, T) ==
    /\ Good(g, Stacked, T, Empty) /\ g.data = data
    /\ \A k \in Stacked \ {l} : T[k] = S[k]
    /\ Ordered(r, T[l]) /\ Len(T[l]) = Len(S[l])
    /\ \A m : On(T[l], m) <=> On(S[l], m)

\* The calls f of one depth sort.
Sorts(f, depth, data, q, r) ==
    \A h, S, l : Callable(h, S, l, depth, q) /\ h.data = data =>
                   \E T : InOrderNow(f[h][l], data, S, l, r, T)

LEMMA StartIs ==
  ASSUME NEW h, NEW D, NEW S, Good(h, D, S, Empty), NEW left \in D, NEW right \in D,
         Len(S[left]) = 0, Len(S[right]) = 0
  PROVE  Start(h, left, right) = h
<1>1. h.list \in [D -> [head : Ptrs, tail : Ptrs, count : Int]] /\ Typed(h, D)
  BY FieldsAre DEF Good
<1>2. ASSUME NEW l \in D, Len(S[l]) = 0
      PROVE  h.list[l] = EmptyList
  <2>1. h.list[l].head = None /\ h.list[l].tail = None /\ h.list[l].count = 0
    BY <1>2, GoodNodes DEF At
  <2>2. h.list[l] \in [head : Ptrs, tail : Ptrs, count : Int]
    BY <1>1
  <2> QED
    BY <2>1, <2>2 DEF EmptyList
<1>3. h.list[left] = EmptyList /\ h.list[right] = EmptyList
  BY <1>2
<1>4. [h.list EXCEPT ![left] = EmptyList, ![right] = EmptyList] = h.list
  BY <1>1, <1>3
<1>5. Start(h, left, right) = [h EXCEPT !.list = h.list]
  BY <1>4 DEF Start
<1> QED
  BY <1>1, <1>5 DEF Typed

LEMMA HalfIs ==
  ASSUME NEW n \in Nat, n > 1, NEW half, half = n \div 2
  PROVE  /\ half \in Nat /\ half <= n - 1 /\ n - half <= n - 1 /\ n - half \in Nat
         /\ n - n = 0 /\ (n <= half <=> FALSE)
OBVIOUS

\* A call whose nested calls sort sorts.
LEMMA CallSorts ==
  ASSUME NEW func \in Comparators, NEW p \in [Nodes -> Int], NEW data,
         NEW r, r = InTurn(func, data, p), NEW q, q = Earlier(p),
         NEW depth \in 1 .. NodeBound, NEW f, Sorts(f, depth - 1, data, q, r),
         NEW h, NEW S, NEW l, Callable(h, S, l, depth, q), h.data = data, Len(S[l]) > 1,
         NEW g, g = SortCall(func, depth, f, h, l)
  PROVE  \E T : InOrderNow(g, data, S, l, r, T)
<1>. DEFINE D == Stacked
            left == <<depth, "left">>
            right == <<depth, "right">>
            n == Len(S[l])
            half == n \div 2
            g1 == Split(h, l, left, right)
            g2 == f[g1][left]
            g3 == f[g2][right]
<1>1. /\ Good(h, D, S, Empty) /\ l \in D
      /\ \A k \in 1 .. depth, side \in {"left", "right"} :
           l # <<k, side>> /\ Len(S[<<k, side>>]) = 0
      /\ Ordered(q, S[l]) /\ n <= depth + 1
  BY DEF Callable
<1>2. /\ depth \in 1 .. depth /\ depth \in Nat /\ depth - 1 \in Nat
      /\ NodeBound \in Nat /\ \A k \in 1 .. depth - 1 : k \in 1 .. depth /\ k # depth
  BY NodesAre
<1>3. /\ left \in D /\ right \in D /\ left # right /\ l # left /\ l # right
      /\ Len(S[left]) = 0 /\ Len(S[right]) = 0
      /\ \A k \in 1 .. depth - 1, side \in {"left", "right"} :
           <<k, side>> \in D /\ <<k, side>> # left /\ <<k, side>> # right
  BY <1>1, <1>2 DEF Stacked, Frames
<1>4. n \in Nat /\ h.list[l].count = n
  BY <1>1, GoodNodes
<1>5. Start(h, left, right) = h
  BY <1>1, <1>3, StartIs
<1>6. g = Merge(g3, l, left, right, func, n)
  <2>1. Halves(f, h, l, left, right) = g2
    BY <1>5 DEF Halves
  <2>2. ~(depth = 0 \/ h.list[l].count <= 1)
    BY <1>2, <1>4
  <2>. HIDE DEF left, right, g2, n
  <2>3. g = Merge(f[g2][right], l, left, right, func, h.list[l].count)
    BY <2>1, <2>2, SortCallIs DEF left, right
  <2> QED
    BY <1>4, <2>3 DEF g2
<1>. HIDE DEF D
<1>7. /\ half \in Nat /\ half <= n - 1 /\ n - half <= n - 1 /\ n - half \in Nat
      /\ n - n = 0 /\ ~(n <= half)
  <2>1. n > 1
    OBVIOUS
  <2>. HIDE DEF n
  <2> QED
    BY <1>4, <2>1, HalfIs
<1>. DEFINE One(side) == <<depth - 1, side>>
            Others == \A k \in 1 .. depth - 1, side \in {"left", "right"} :
                        /\ <<k, side>> \in D /\ <<k, side>> # left /\ <<k, side>> # right
                        /\ l # <<k, side>> /\ Len(S[<<k, side>>]) = 0
<1>8. Others
  BY <1>1, <1>2, <1>3
<1>. HIDE DEF left, right
<1>9. PICK T1 : SplitAt(g1, D, S, data, l, left, right, q, n, n, T1)
  <2>. HIDE DEF g1, n
  <2> QED
    BY <1>1, <1>3, SplitGood DEF g1, n
<1>. HIDE DEF g1
<1>10. /\ Good(g1, D, T1, Empty) /\ g1.data = data
       /\ \A k \in D \ {l, left, right} : T1[k] = S[k]
       /\ Ordered(q, T1[left]) /\ Ordered(q, T1[right]) /\ Before(q, T1[left], T1[right])
       /\ Len(T1[l]) = 0 /\ Len(T1[left]) = half /\ Len(T1[right]) = n - half
       /\ \A m : On(S[l], m) <=> Together(T1[l], T1[left], T1[right], m)
  <2>1. /\ Good(g1, D, T1, Empty) /\ g1.data = data
        /\ \A k \in D \ {l, left, right} : T1[k] = S[k]
        /\ Halving(q, T1[l], T1[left], T1[right])
        /\ Len(T1[l]) = n - n
        /\ Len(T1[left]) = (IF n <= half THEN n ELSE half)
        /\ Len(T1[right]) = (IF n <= half THEN 0 ELSE n - half)
        /\ \A m : On(S[l], m) <=> Together(T1[l], T1[left], T1[right], m)
    BY <1>9 DEF SplitAt
  <2>. HIDE DEF half, n
  <2>2. Len(T1[left]) = half /\ Len(T1[right]) = n - half /\ Len(T1[l]) = 0
    BY <1>7, <2>1
  <2> QED
    BY <2>1, <2>2 DEF Halving
<1>. HIDE DEF half, n
<1>11. PICK T2 : InOrderNow(g2, data, T1, left, r, T2)
  <2>1. Callable(g1, T1, left, depth - 1, q)
    <3>1. \A k \in 1 .. depth - 1, side \in {"left", "right"} :
            left # <<k, side>> /\ Len(T1[<<k, side>>]) = 0
      BY <1>8, <1>10
    <3>2. Len(T1[left]) <= (depth - 1) + 1
      BY <1>1, <1>2, <1>4, <1>7, <1>10
    <3> QED
      BY <1>3, <1>10, <3>1, <3>2 DEF Callable, D
  <2> QED
    BY <1>10, <2>1 DEF Sorts
<1>. HIDE DEF g2
<1>12. /\ Good(g2, D, T2, Empty) /\ g2.data = data
       /\ \A k \in D \ {left} : T2[k] = T1[k]
       /\ Ordered(r, T2[left]) /\ Len(T2[left]) = half
       /\ \A m : On(T2[left], m) <=> On(T1[left], m)
  BY <1>10, <1>11 DEF InOrderNow, D
<1>13. T2[right] = T1[right] /\ T2[l] = T1[l]
  BY <1>1, <1>3, <1>12
<1>14. PICK T3 : InOrderNow(g3, data, T2, right, r, T3)
  <2>1. Callable(g2, T2, right, depth - 1, q)
    <3>1. \A k \in 1 .. depth - 1, side \in {"left", "right"} :
            right # <<k, side>> /\ Len(T2[<<k, side>>]) = 0
      BY <1>8, <1>10, <1>12
    <3>2. Len(T2[right]) <= (depth - 1) + 1
      BY <1>1, <1>2, <1>4, <1>7, <1>10, <1>13
    <3> QED
      BY <1>3, <1>10, <1>12, <1>13, <3>1, <3>2 DEF Callable, D
  <2> QED
    BY <1>12, <2>1 DEF Sorts
<1>. HIDE DEF g3
<1>15. /\ Good(g3, D, T3, Empty) /\ g3.data = data
       /\ \A k \in D \ {right} : T3[k] = T2[k]
       /\ Ordered(r, T3[right]) /\ Len(T3[right]) = n - half
       /\ \A m : On(T3[right], m) <=> On(T1[right], m)
  BY <1>10, <1>13, <1>14 DEF InOrderNow, D
<1>16. T3[left] = T2[left] /\ T3[l] = T1[l]
  BY <1>1, <1>3, <1>13, <1>15
<1>17. PICK T : MergeAt(g, D, T3, data, l, left, right, r, q, n, n, T)
  <2>1. Len(T3[l]) = 0 /\ Ordered(r, T3[left]) /\ Ordered(r, T3[right])
    BY <1>10, <1>12, <1>15, <1>16
  <2>2. Before(q, T3[left], T3[right])
    BY <1>10, <1>12, <1>15, <1>16 DEF Before
  <2>3. CountOf(n, T3[left], T3[right])
    <3>1. Len(T3[right]) = n - half /\ T3[left] = T2[left] /\ Len(T2[left]) = half
      BY <1>12, <1>15, <1>16
    <3>2. half \in Nat /\ n \in Nat /\ n = half + (n - half)
      BY <1>4, <1>7
    <3>. HIDE DEF half, n
    <3> QED
      BY <3>1, <3>2 DEF CountOf
  <2>4. r = InTurn(func, g3.data, p)
    BY <1>15
  <2> QED
    BY <1>1, <1>3, <1>4, <1>6, <1>15, <2>1, <2>2, <2>3, <2>4, MergeGood
<1>18. /\ Good(g, D, T, Empty) /\ g.data = data
       /\ \A k \in D \ {l, left, right} : T[k] = T3[k]
       /\ Ordered(r, T[l]) /\ Len(T[l]) = n
       /\ Len(T[left]) + Len(T[right]) = 0
       /\ \A m : Together(T3[l], T3[left], T3[right], m)
                   <=> Together(T[l], T[left], T[right], m)
  <2>1. /\ Good(g, D, T, Empty) /\ g.data = data
        /\ \A k \in D \ {l, left, right} : T[k] = T3[k]
        /\ Merging(r, q, T[l], T[left], T[right])
        /\ Len(T[l]) = n /\ Len(T[left]) + Len(T[right]) = n - n
        /\ \A m : Together(T3[l], T3[left], T3[right], m)
                    <=> Together(T[l], T[left], T[right], m)
    BY <1>17 DEF MergeAt
  <2>2. Len(T[left]) + Len(T[right]) = 0
    BY <1>7, <2>1
  <2> QED
    BY <2>1, <2>2 DEF Merging
<1>19. Len(T[left]) = 0 /\ Len(T[right]) = 0
  <2>1. Len(T[left]) \in Nat /\ Len(T[right]) \in Nat
    BY <1>3, <1>18, GoodNodes
  <2>2. Len(T[left]) + Len(T[right]) = 0
    BY <1>18
  <2>3. \A a, b \in Nat : a + b = 0 => a = 0 /\ b = 0
    OBVIOUS
  <2> QED
    BY <2>1, <2>2, <2>3
<1>20. \A k \in D \ {l} : T[k] = S[k]
  <2>1. T \in [D -> Seq(Nodes)] /\ S \in [D -> Seq(Nodes)]
    BY <1>1, <1>18, GoodIs
  <2>2. T[left] = S[left]
    <3>1. T[left] \in Seq(Nodes) /\ S[left] \in Seq(Nodes)
      BY <1>3, <2>1
    <3> QED
      BY <1>3, <1>19, <3>1, SameSeq
  <2>3. T[right] = S[right]
    <3>1. T[right] \in Seq(Nodes) /\ S[right] \in Seq(Nodes)
      BY <1>3, <2>1
    <3> QED
      BY <1>3, <1>19, <3>1, SameSeq
  <2>4. \A k \in D \ {l, left, right} : T[k] = S[k]
    BY <1>10, <1>12, <1>15, <1>18
  <2> QED
    BY <2>2, <2>3, <2>4
<1>21. \A m : On(T[l], m) <=> On(S[l], m)
  <2>1. \A m : ~On(T[left], m) /\ ~On(T[right], m)
    BY <1>19 DEF On
  <2>2. \A m : Together(T3[l], T3[left], T3[right], m)
                 <=> Together(T1[l], T1[left], T1[right], m)
    BY <1>12, <1>15, <1>16 DEF Together
  <2>3. \A m : Together(T[l], T[left], T[right], m) <=> On(T[l], m)
    BY <2>1 DEF Together
  <2> QED
    BY <1>10, <1>18, <2>2, <2>3
<1> QED
  BY <1>18, <1>20, <1>21 DEF InOrderNow, n, D

LEMMA SortedGood ==
  ASSUME NEW func \in Comparators, NEW p \in [Nodes -> Int], NEW data,
         NEW r, r = InTurn(func, data, p), NEW q, q = Earlier(p),
         NEW h, NEW S, NEW l, Callable(h, S, l, NodeBound, q), h.data = data,
         NEW g, g = Sorted(func)[h][l]
  PROVE  \E T : InOrderNow(g, data, S, l, r, T)
<1>1. PICK f : /\ Sorted(func) = f[NodeBound]
               /\ \A depth \in 0 .. NodeBound, x \in Heaps(Stacked), k \in Stacked :
                    f[depth][x][k] = SortCall(func, depth, f[depth - 1], x, k)
  BY SortedIs
<1>. DEFINE Is(depth) == Sorts(f[depth], depth, data, q, r)
            Bad == {depth \in 0 .. NodeBound : ~Is(depth)}
<1>2. ASSUME NEW depth \in 0 .. NodeBound, depth > 0 => Is(depth - 1)
      PROVE  Is(depth)
  <2>1. SUFFICES ASSUME NEW x, NEW R, NEW k, Callable(x, R, k, depth, q), x.data = data
                 PROVE  \E T : InOrderNow(f[depth][x][k], data, R, k, r, T)
    BY DEF Sorts
  <2>2. /\ Good(x, Stacked, R, Empty) /\ k \in Stacked /\ Len(R[k]) <= depth + 1
        /\ Len(R[k]) \in Nat /\ x.list[k].count = Len(R[k])
    BY <2>1, GoodNodes DEF Callable
  <2>3. f[depth][x][k] = SortCall(func, depth, f[depth - 1], x, k)
    <3>1. x \in Heaps(Stacked)
      BY <2>2, GoodHeap
    <3> QED
      BY <1>1, <2>2, <3>1
  <2>4. CASE depth = 0 \/ Len(R[k]) <= 1
    <3>1. f[depth][x][k] = x
      BY <2>2, <2>3, <2>4 DEF SortCall
    <3>2. Len(R[k]) <= 1
      BY <2>2, <2>4
    <3>3. Ordered(r, R[k])
      BY <2>2, <3>2 DEF Ordered
    <3>4. InOrderNow(x, data, R, k, r, R)
      BY <2>1, <2>2, <3>3 DEF InOrderNow
    <3> QED
      BY <3>1, <3>4
  <2>5. CASE depth # 0 /\ Len(R[k]) > 1
    <3>1. depth \in 1 .. NodeBound /\ Sorts(f[depth - 1], depth - 1, data, q, r)
      BY <1>2, <2>5, NodesAre
    <3> QED
      BY <2>1, <2>3, <2>5, <3>1, CallSorts
  <2> QED
    BY <2>2, <2>4, <2>5
<1>. HIDE DEF Is
<1>3. \A depth \in 0 .. NodeBound : Is(depth)
  <2>1. SUFFICES ASSUME Bad # {}
                 PROVE  FALSE
    OBVIOUS
  <2>2. Bad \in SUBSET Nat
    BY NodesAre
  <2>3. PICK b \in Bad : \A m \in Bad : b <= m
    <3>. HIDE DEF Bad
    <3> QED
      BY <2>1, <2>2, Least
  <2>4. b \in 0 .. NodeBound /\ (b > 0 => b - 1 \in 0 .. NodeBound /\ b - 1 \notin Bad)
    BY <2>3, NodesAre
  <2>5. b > 0 => Is(b - 1)
    BY <2>4
  <2> QED
    BY <1>2, <2>3, <2>4, <2>5
<1>4. Sorts(f[NodeBound], NodeBound, data, q, r)
  BY <1>3, NodesAre DEF Is
<1> QED
  BY <1>1, <1>4 DEF Sorts

-----------------------------------------------------------------------------
(* The frames of list_sort come and go.                                      *)

LEMMA FramesEnter ==
  ASSUME NEW h, NEW S, Good(h, Lists, S, Empty), NEW list,
         list = [k \in Stacked |-> IF k \in Lists THEN h.list[k] ELSE EmptyList],
         NEW g, g = [h EXCEPT !.list = list],
         NEW R, R = [k \in Stacked |-> IF k \in Lists THEN S[k] ELSE Empty]
  PROVE  Good(g, Stacked, R, Empty) /\ g.data = h.data
<1>1. Typed(h, Lists) /\ Rows(Lists, S, Empty) /\ S \in [Lists -> Seq(Nodes)]
  BY DEF Good, Rows
<1>2. /\ h.next \in Links /\ h.prev \in Links /\ h.live \in SUBSET Nodes
      /\ h.data \in [Nodes -> Items]
      /\ h.list \in [Lists -> [head : Ptrs, tail : Ptrs, count : Int]]
  BY <1>1, FieldsAre
<1>3. EmptyList \in [head : Ptrs, tail : Ptrs, count : Int]
  BY DEF EmptyList, Ptrs
<1>4. /\ list \in [Stacked -> [head : Ptrs, tail : Ptrs, count : Int]]
      /\ \A k \in Stacked : list[k] = IF k \in Lists THEN h.list[k] ELSE EmptyList
  BY <1>2, <1>3
<1>5. /\ R \in [Stacked -> Seq(Nodes)]
      /\ \A k \in Stacked : R[k] = IF k \in Lists THEN S[k] ELSE Empty
  BY <1>1, EmptyIs
<1>6. g = Heap(h.live, h.next, h.prev, h.data, list)
  BY <1>1 DEF Typed, Heap
<1>7. /\ g.live = h.live /\ g.next = h.next /\ g.prev = h.prev /\ g.data = h.data
      /\ g.list = list
  BY <1>6, HeapFields
<1>8. Typed(g, Stacked)
  BY <1>2, <1>4, <1>6 DEF Heap, Typed, Links, Ptrs
<1>9. Rows(Stacked, R, Empty)
  <2>1. \A k \in Stacked : Once(R[k]) /\ Apart(R[k], Empty)
    BY <1>1, <1>5, EmptyIs DEF Rows
  <2>2. ASSUME NEW j \in Stacked, NEW k \in Stacked, j # k
        PROVE  Apart(R[j], R[k])
    <3>1. CASE j \in Lists /\ k \in Lists
      BY <1>1, <1>5, <2>2, <3>1 DEF Rows
    <3>2. CASE j \notin Lists \/ k \notin Lists
      BY <1>5, <3>2, EmptyIs
    <3> QED
      BY <3>1, <3>2
  <2> QED
    BY <1>5, <2>1, <2>2, EmptyIs DEF Rows
<1>10. ASSUME NEW k \in Stacked
       PROVE  Linked(g.next, g.prev, R[k]) /\ Ends(g.list[k], R[k])
  <2>1. CASE k \in Lists
    BY <1>4, <1>5, <1>7, <2>1 DEF Good
  <2>2. CASE k \notin Lists
    <3>1. Linked(g.next, g.prev, Empty) /\ At(Empty, 1) = None /\ At(Empty, 0) = None
      BY EmptyIs
    <3>2. EmptyList.head = None /\ EmptyList.tail = None /\ EmptyList.count = 0
      BY DEF EmptyList
    <3> QED
      BY <1>4, <1>5, <1>7, <2>2, <3>1, <3>2, EmptyIs DEF Ends
  <2> QED
    BY <2>1, <2>2
<1>11. \A n \in Nodes : n \in g.live <=> Held(Stacked, R, Empty, n)
  <2>1. ASSUME NEW n
        PROVE  Held(Stacked, R, Empty, n) <=> Held(Lists, S, Empty, n)
    <3>1. ~On(Empty, n)
      BY EmptyIs
    <3>2. Lists \subseteq Stacked
      BY DEF Stacked
    <3> QED
      BY <1>5, <3>1, <3>2 DEF Held
  <2> QED
    BY <1>7, <2>1 DEF Good
<1>12. Chained(g.next, g.prev, Empty)
  BY EmptyIs
<1> QED
  BY <1>7, <1>8, <1>9, <1>10, <1>11, <1>12 DEF Good

LEMMA FramesLeave ==
  ASSUME NEW h, NEW R, Good(h, Stacked, R, Empty), \A k \in Stacked \ Lists : R[k] = Empty,
         NEW list, list = [k \in Lists |-> h.list[k]],
         NEW g, g = [h EXCEPT !.list = list],
         NEW S, S = [k \in Lists |-> R[k]]
  PROVE  Good(g, Lists, S, Empty) /\ g.data = h.data
<1>0. Lists \subseteq Stacked
  BY DEF Stacked
<1>1. Typed(h, Stacked) /\ Rows(Stacked, R, Empty) /\ R \in [Stacked -> Seq(Nodes)]
  BY DEF Good, Rows
<1>2. /\ h.next \in Links /\ h.prev \in Links /\ h.live \in SUBSET Nodes
      /\ h.data \in [Nodes -> Items]
      /\ h.list \in [Stacked -> [head : Ptrs, tail : Ptrs, count : Int]]
  BY <1>1, FieldsAre
<1>4. /\ list \in [Lists -> [head : Ptrs, tail : Ptrs, count : Int]]
      /\ \A k \in Lists : list[k] = h.list[k]
  BY <1>0, <1>2
<1>5. S \in [Lists -> Seq(Nodes)] /\ \A k \in Lists : S[k] = R[k]
  BY <1>0, <1>1
<1>6. g = Heap(h.live, h.next, h.prev, h.data, list)
  BY <1>1 DEF Typed, Heap
<1>7. /\ g.live = h.live /\ g.next = h.next /\ g.prev = h.prev /\ g.data = h.data
      /\ g.list = list
  BY <1>6, HeapFields
<1>8. Typed(g, Lists)
  BY <1>2, <1>4, <1>6 DEF Heap, Typed, Links, Ptrs
<1>9. Rows(Lists, S, Empty)
  <2>1. \A k \in Lists : Once(S[k]) /\ Apart(S[k], Empty)
    BY <1>0, <1>1, <1>5 DEF Rows
  <2>2. \A j, k \in Lists : j # k => Apart(S[j], S[k])
    BY <1>0, <1>1, <1>5 DEF Rows
  <2> QED
    BY <1>5, <2>1, <2>2, EmptyIs DEF Rows
<1>10. \A k \in Lists : Linked(g.next, g.prev, S[k]) /\ Ends(g.list[k], S[k])
  BY <1>0, <1>4, <1>5, <1>7 DEF Good
<1>11. \A n \in Nodes : n \in g.live <=> Held(Lists, S, Empty, n)
  <2>1. ASSUME NEW n
        PROVE  Held(Stacked, R, Empty, n) <=> Held(Lists, S, Empty, n)
    <3>1. ~On(Empty, n)
      BY EmptyIs
    <3>2. \A k \in Stacked : On(R[k], n) => k \in Lists
      BY <3>1
    <3> QED
      BY <1>0, <1>5, <3>1, <3>2 DEF Held
  <2> QED
    BY <1>7, <2>1 DEF Good
<1>12. Chained(g.next, g.prev, Empty)
  BY EmptyIs
<1> QED
  BY <1>7, <1>8, <1>9, <1>10, <1>11, <1>12 DEF Good

-----------------------------------------------------------------------------
(* What the reference for the sort says: each item at the place of its rank. *)

Precedes(base, i, j) ==
    Key(base[i]) < Key(base[j]) \/ (Key(base[i]) = Key(base[j]) /\ i <= j)
RankIn(base, i) == Cardinality({j \in DOMAIN base : Precedes(base, j, i)})
OfRank(base, r) == CHOOSE i \in DOMAIN base : RankIn(base, i) = r
Ranked(base) == [r \in DOMAIN base |-> base[OfRank(base, r)]]
InPlaces(base, n, f) ==
    /\ DOMAIN base = 1 .. n /\ Maps(f, 1 .. n, 1 .. n)
    /\ \A i \in 1 .. n : Precedes(base, i, i)
    /\ \A j, k \in 1 .. n : Precedes(base, f[j], f[k]) <=> j <= k

LEMMA InOrderRanked ==
  ASSUME NEW s, NEW func
  PROVE  InOrder(s, func) = Ranked(IF func = "<=" THEN s ELSE Reverse(s))
BY DEF InOrder, Ranked, OfRank, RankIn, Precedes

\* A function f of 1 .. n to itself that maps the order of the numbers to Precedes maps each
\* number to the place of this rank.
LEMMA PlaceOfRank ==
  ASSUME NEW n \in Nat, NEW base, NEW f, InPlaces(base, n, f), NEW k \in 1 .. n
  PROVE  OfRank(base, k) = f[k]
<1>. DEFINE I == 1 .. n
<1>0. /\ DOMAIN base = 1 .. n /\ Maps(f, 1 .. n, 1 .. n)
      /\ \A i \in 1 .. n : Precedes(base, i, i)
      /\ \A j, m \in 1 .. n : Precedes(base, f[j], f[m]) <=> j <= m
  BY DEF InPlaces
<1>1. \A j \in I : f[j] \in I
  BY <1>0 DEF Maps
<1>2. \A j, m \in I : f[j] = f[m] => j = m
  <2>1. ASSUME NEW j \in I, NEW m \in I, f[j] = f[m]
        PROVE  j <= m /\ m <= j
    BY <1>0, <1>1, <2>1
  <2> QED
    BY <2>1
<1>3. IsFiniteSet(I)
  BY FS_Interval
<1>4. f \in Injection(I, I)
  BY <1>0, <1>2 DEF Injection, IsInjective, Maps
<1>. HIDE DEF I
<1>5. f \in Surjection(I, I)
  BY <1>3, <1>4, FS_Injection
<1>6. \A i \in I : \E j \in I : f[j] = i
  BY <1>5 DEF Surjection
<1>7. ASSUME NEW m \in I
      PROVE  RankIn(base, f[m]) = m
  <2>. DEFINE A == 1 .. m
              B == {j \in I : Precedes(base, j, f[m])}
              g == [j \in A |-> f[j]]
  <2>1. m \in Nat /\ \A j \in A : j \in I /\ j <= m
    BY <1>7 DEF I
  <2>2. \A j \in A : f[j] \in B
    BY <1>0, <1>1, <1>7, <2>1 DEF I
  <2>3. \A i \in B : \E j \in A : f[j] = i
    <3>1. ASSUME NEW i \in B
          PROVE  \E j \in A : f[j] = i
      <4>1. PICK j \in I : f[j] = i
        BY <1>6
      <4>2. j <= m
        BY <1>0, <1>7, <4>1 DEF I
      <4>3. j \in A
        BY <4>2, <2>1 DEF I
      <4> QED
        BY <4>1, <4>3
    <3> QED
      BY <3>1
  <2>4. IsFiniteSet(A) /\ Cardinality(A) = m
    BY <2>1, FS_Interval
  <2>. HIDE DEF A, B
  <2>5. g \in [A -> B] /\ DOMAIN g = A
    BY <2>2
  <2>6. g \in Injection(A, B)
    BY <1>2, <2>1, <2>5 DEF Injection, IsInjective
  <2>7. g \in Surjection(A, B)
    BY <2>3, <2>5 DEF Surjection
  <2>8. Cardinality(B) = m
    BY <2>4, <2>6, <2>7, FS_Bijection DEF ExistsBijection, Bijection
  <2> QED
    BY <1>0, <2>8 DEF RankIn, B, I
<1>8. \A i \in I : RankIn(base, i) = k => i = f[k]
  BY <1>6, <1>7
<1>9. k \in I /\ f[k] \in DOMAIN base /\ RankIn(base, f[k]) = k
  BY <1>0, <1>1, <1>7 DEF I
<1> QED
  BY <1>0, <1>8, <1>9 DEF I, OfRank

LEMMA KeyOrder ==
  ASSUME NEW a \in Int, NEW b \in Int, NEW i \in Int, NEW j \in Int,
         a < b \/ (a = b /\ i < j)
  PROVE  /\ a < b \/ (a = b /\ i <= j)
         /\ ~(b < a \/ (b = a /\ j <= i))
OBVIOUS

LEMMA Backwards ==
  ASSUME NEW n \in Nat, NEW a \in 1 .. n
  PROVE  /\ (n - a) + 1 \in 1 .. n /\ (n - ((n - a) + 1)) + 1 = a
         /\ \A b \in 1 .. n : a < b => (n - b) + 1 < (n - a) + 1
OBVIOUS

\* The items in the order in which the reference breaks ties; p is the place in s of each node
\* of t.
BaseOf(func, c) == IF func = "<=" THEN c ELSE Reverse(c)
Located(p, s, t) ==
    /\ \A i \in 1 .. Len(s) : p[s[i]] = i
    /\ \A m : On(t, m) => On(s, m)

\* The place in the reference's base of the node that is at k of t.
PlaceIn(func, n, p, t, k) == IF func = "<=" THEN p[t[k]] ELSE (n - p[t[k]]) + 1

LEMMA PlaceInIs ==
  ASSUME NEW func \in Comparators, NEW data, Maps(data, Nodes, Items),
         NEW s \in Seq(Nodes), NEW t \in Seq(Nodes), NEW p, Located(p, s, t),
         NEW k \in 1 .. Len(t)
  PROVE  /\ p[t[k]] \in 1 .. Len(s) /\ PlaceIn(func, Len(s), p, t, k) \in 1 .. Len(s)
         /\ BaseOf(func, Mapped(data, s))[PlaceIn(func, Len(s), p, t, k)] = data[t[k]]
<1>. DEFINE c == Mapped(data, s)
            n == Len(s)
            base == BaseOf(func, c)
            x == t[k]
            a == p[x]
<1>1. /\ c \in Seq(Items) /\ Len(c) = Len(s) /\ \A i \in 1 .. Len(s) : c[i] = data[s[i]]
  BY MappedIs
<1>0. n \in Nat /\ Len(t) \in Nat
  BY SeqIs
<1>2. On(s, x)
  BY DEF On, Located
<1>3. a \in 1 .. n /\ s[a] = x
  BY <1>2 DEF On, Located
<1>4. (n - a) + 1 \in 1 .. n /\ (n - ((n - a) + 1)) + 1 = a
  BY <1>0, <1>3, Backwards
<1>. HIDE DEF c, x, a, base, n
<1>5. ASSUME func = "<="
      PROVE  /\ PlaceIn(func, n, p, t, k) \in 1 .. n
             /\ base[PlaceIn(func, n, p, t, k)] = data[x]
  <2>1. base = c /\ PlaceIn(func, n, p, t, k) = a
    BY <1>5 DEF PlaceIn, BaseOf, base, a, x
  <2>2. c[a] = data[s[a]]
    BY <1>1, <1>3 DEF n
  <2> QED
    BY <1>3, <2>1, <2>2
<1>6. ASSUME func # "<="
      PROVE  /\ PlaceIn(func, n, p, t, k) \in 1 .. n
             /\ base[PlaceIn(func, n, p, t, k)] = data[x]
  <2>1. base = Reverse(c) /\ PlaceIn(func, n, p, t, k) = (n - a) + 1
    BY <1>6 DEF PlaceIn, BaseOf, base, a, x
  <2>2. \A i \in 1 .. Len(c) : Reverse(c)[i] = c[(Len(c) - i) + 1]
    BY <1>1, ReverseIs
  <2>3. Len(c) = n
    BY <1>1 DEF n
  <2>4. base[(n - a) + 1] = c[(n - ((n - a) + 1)) + 1]
    BY <1>4, <2>1, <2>2, <2>3
  <2>5. base[(n - a) + 1] = c[a]
    BY <1>4, <2>4
  <2>6. c[a] = data[s[a]]
    BY <1>1, <1>3 DEF n
  <2> QED
    BY <1>3, <1>4, <2>1, <2>5, <2>6
<1>7. /\ a \in 1 .. n /\ PlaceIn(func, n, p, t, k) \in 1 .. n
      /\ base[PlaceIn(func, n, p, t, k)] = data[x]
  BY <1>3, <1>5, <1>6
<1> QED
  BY <1>7 DEF n, x, a, base, c

LEMMA InOrderIs ==
  ASSUME NEW func \in Comparators, NEW data, Maps(data, Nodes, Items),
         NEW s \in Seq(Nodes), NEW t \in Seq(Nodes), Len(t) = Len(s),
         \A m : On(t, m) => On(s, m), NEW p \in [Nodes -> Int],
         \A i \in 1 .. Len(s) : p[s[i]] = i,
         NEW r, r = InTurn(func, data, p), Ordered(r, t)
  PROVE  InOrder(Mapped(data, s), func) = Mapped(data, t)
<1>. DEFINE c == Mapped(data, s)
            n == Len(s)
            base == BaseOf(func, c)
            f == [k \in 1 .. n |-> PlaceIn(func, n, p, t, k)]
<1>1. n \in Nat /\ \A i \in 1 .. n : t[i] \in Nodes
  BY SeqIs
<1>2. /\ c \in Seq(Items) /\ Len(c) = n
  BY MappedIs
<1>3. base \in Seq(Items) /\ Len(base) = n
  BY <1>2, ReverseIs DEF BaseOf
<1>4. DOMAIN base = 1 .. n /\ \A i \in 1 .. n : Key(base[i]) \in Int
  BY <1>3, SeqIs, ListAssumption
<1>5. \A k \in 1 .. n : p[t[k]] \in 1 .. n /\ f[k] \in 1 .. n /\ base[f[k]] = data[t[k]]
  <2>1. ASSUME NEW k \in 1 .. n
        PROVE  p[t[k]] \in 1 .. n /\ f[k] \in 1 .. n /\ base[f[k]] = data[t[k]]
    <3>1. Located(p, s, t) /\ k \in 1 .. Len(t) /\ f[k] = PlaceIn(func, Len(s), p, t, k)
      BY DEF Located
    <3>. HIDE DEF f
    <3>2. p[t[k]] \in 1 .. Len(s) /\ PlaceIn(func, Len(s), p, t, k) \in 1 .. Len(s)
      BY <3>1, PlaceInIs
    <3>3. BaseOf(func, Mapped(data, s))[PlaceIn(func, Len(s), p, t, k)] = data[t[k]]
      BY <3>1, PlaceInIs
    <3> QED
      BY <3>1, <3>2, <3>3
  <2> QED
    BY <2>1
<1>6. ASSUME NEW j \in 1 .. n, NEW k \in 1 .. n, j < k
      PROVE  Precedes(base, f[j], f[k]) /\ ~Precedes(base, f[k], f[j])
  <2>1. <<t[j], t[k]>> \in r
    BY <1>1, <1>6 DEF Ordered
  <2>2. Later(func, data, p, t[j], t[k])
    BY <1>1, <2>1, TurnsAre
  <2>3. /\ Key(data[t[j]]) \in Int /\ Key(data[t[k]]) \in Int
        /\ f[j] \in Int /\ f[k] \in Int
    <3>1. Key(data[t[j]]) \in Int /\ Key(data[t[k]]) \in Int
      BY <1>1, ListAssumption DEF Maps
    <3>2. f[j] \in 1 .. n /\ f[k] \in 1 .. n
      BY <1>5
    <3>. HIDE DEF f
    <3> QED
      BY <1>1, <3>1, <3>2
  <2>4. \/ Key(data[t[j]]) < Key(data[t[k]])
        \/ Key(data[t[j]]) = Key(data[t[k]]) /\ f[j] < f[k]
    <3>1. CASE func = "<="
      <4>1. f[j] = p[t[j]] /\ f[k] = p[t[k]]
        BY <3>1 DEF PlaceIn
      <4> QED
        BY <2>2, <3>1, <4>1 DEF Later
    <3>2. CASE func # "<="
      <4>1. f[j] = (n - p[t[j]]) + 1 /\ f[k] = (n - p[t[k]]) + 1
        BY <3>2 DEF PlaceIn
      <4>2. p[t[k]] < p[t[j]] => f[j] < f[k]
        <5>. DEFINE a == p[t[k]]
                    b == p[t[j]]
        <5>1. n \in Nat /\ a \in 1 .. n /\ b \in 1 .. n
          BY <1>1, <1>5
        <5>. HIDE DEF a, b, n, f
        <5>2. a < b => (n - b) + 1 < (n - a) + 1
          BY <5>1, Backwards
        <5> QED
          BY <4>1, <5>2 DEF a, b
      <4> QED
        BY <2>2, <3>2, <4>2 DEF Later
    <3> QED
      BY <3>1, <3>2
  <2>5. base[f[j]] = data[t[j]] /\ base[f[k]] = data[t[k]]
    BY <1>5
  <2>. HIDE DEF base, f
  <2> QED
    BY <2>3, <2>4, <2>5, KeyOrder DEF Precedes
<1>7. \A i \in 1 .. n : Precedes(base, i, i)
  BY <1>4 DEF Precedes
<1>8. Maps(f, 1 .. n, 1 .. n)
  BY <1>5 DEF Maps
<1>. HIDE DEF base, f, n
<1>9. \A j, k \in 1 .. n : Precedes(base, f[j], f[k]) <=> j <= k
  <2>1. ASSUME NEW j \in 1 .. n, NEW k \in 1 .. n
        PROVE  Precedes(base, f[j], f[k]) <=> j <= k
    <3>1. j < k \/ j = k \/ k < j
      BY <1>1
    <3>2. CASE j < k
      BY <1>6, <3>2
    <3>3. CASE j = k
      BY <1>5, <1>7, <3>3
    <3>4. CASE k < j
      BY <1>6, <3>4
    <3> QED
      BY <3>1, <3>2, <3>3, <3>4
  <2> QED
    BY <2>1
<1>10. ASSUME NEW k \in 1 .. n
       PROVE  base[OfRank(base, k)] = data[t[k]]
  <2>0. InPlaces(base, n, f)
    BY <1>4, <1>7, <1>8, <1>9 DEF InPlaces
  <2>1. OfRank(base, k) = f[k]
    BY <1>1, <2>0, PlaceOfRank
  <2> QED
    BY <1>5, <2>1
<1>11. Ranked(base) = [k \in 1 .. n |-> data[t[k]]]
  BY <1>4, <1>10 DEF Ranked
<1>12. InOrder(c, func) = Ranked(base)
  BY InOrderRanked DEF base, BaseOf
<1> QED
  BY <1>11, <1>12 DEF Mapped, n

-----------------------------------------------------------------------------
(* list_sort keeps the invariant.                                            *)

\* Where the nodes of s are in it.
Places(s) == [n \in Nodes |-> IF On(s, n) THEN CHOOSE i \in 1 .. Len(s) : s[i] = n ELSE 0]

LEMMA PlacesAre ==
  ASSUME NEW s \in Seq(Nodes), Once(s), NEW p, p = Places(s)
  PROVE  /\ p \in [Nodes -> Int] /\ \A i \in 1 .. Len(s) : p[s[i]] = i
         /\ Ordered(Earlier(p), s)
<1>1. Len(s) \in Nat /\ \A i \in 1 .. Len(s) : s[i] \in Nodes
  BY SeqIs
<1>2. ASSUME NEW i \in 1 .. Len(s)
      PROVE  p[s[i]] = i
  <2>1. On(s, s[i]) /\ s[i] \in Nodes
    BY <1>1 DEF On
  <2>2. p[s[i]] = CHOOSE j \in 1 .. Len(s) : s[j] = s[i]
    BY <2>1 DEF Places
  <2> QED
    BY <2>2 DEF Once
<1>3. ASSUME NEW n \in Nodes
      PROVE  p[n] \in Int
  <2>1. CASE On(s, n)
    <3>1. PICK i \in 1 .. Len(s) : s[i] = n
      BY <2>1 DEF On
    <3> QED
      BY <1>1, <1>2, <3>1
  <2>2. CASE ~On(s, n)
    BY <2>2 DEF Places
  <2> QED
    BY <2>1, <2>2
<1>4. p \in [Nodes -> Int]
  BY <1>3 DEF Places
<1>5. Ordered(Earlier(p), s)
  BY <1>1, <1>2 DEF Ordered, Earlier
<1> QED
  BY <1>2, <1>4, <1>5

LEMMA LengthIs ==
  ASSUME NEW h, NEW D, NEW S, Good(h, D, S, Empty), NEW l \in D
  PROVE  S[l] \in Seq(Nodes) /\ Once(S[l]) /\ Len(S[l]) \in Nat /\ Len(S[l]) <= NodeBound + 1
BY GoodNodes, NodesAre

LEMMA SortKept ==
  ASSUME ListInv, NEW l \in Lists, NEW func \in Comparators, Sort(l, func)
  PROVE  ListInv'
<1>1. PICK S : Good(heap, Lists, S, Empty) /\ Holds(contents, heap.data, Lists, S)
  BY DEF ListInv, Kept
<1>. DEFINE list == [k \in Stacked |-> IF k \in Lists THEN heap.list[k] ELSE EmptyList]
            g == [heap EXCEPT !.list = list]
            R == [k \in Stacked |-> IF k \in Lists THEN S[k] ELSE Empty]
            h == Sorted(func)[g][l]
            data == heap.data
            p == Places(S[l])
            q == Earlier(p)
            r == InTurn(func, data, p)
            back == [k \in Lists |-> h.list[k]]
<1>2. /\ heap' = [h EXCEPT !.list = back]
      /\ contents' = [contents EXCEPT ![l] = InOrder(contents[l], func)]
  BY DEF Sort, Promise
<1>3. /\ S \in [Lists -> Seq(Nodes)] /\ Maps(data, Nodes, Items)
      /\ S[l] \in Seq(Nodes) /\ Once(S[l]) /\ Len(S[l]) \in Nat /\ Len(S[l]) <= NodeBound + 1
      /\ contents \in [Lists -> Seq(Items)]
  BY <1>1, GoodIs, LengthIs DEF Holds
<1>4. p \in [Nodes -> Int] /\ (\A i \in 1 .. Len(S[l]) : p[S[l][i]] = i) /\ Ordered(q, S[l])
  BY <1>3, PlacesAre
<1>5. Good(g, Stacked, R, Empty) /\ g.data = data
  BY <1>1, FramesEnter
<1>6. /\ l \in Stacked /\ R[l] = S[l] /\ \A k \in Lists : k \in Stacked /\ R[k] = S[k]
      /\ \A k \in Stacked \ Lists : R[k] = Empty
      /\ \A k \in 1 .. NodeBound, side \in {"left", "right"} :
           <<k, side>> \in Stacked \ Lists
  BY ListAssumption DEF Stacked, Frames
<1>7. Len(Empty) = 0
  BY EmptyIs
<1>. HIDE DEF list, g, R, p, q, r, data
<1>8. Callable(g, R, l, NodeBound, q)
  <2>1. ASSUME NEW k \in 1 .. NodeBound, NEW side \in {"left", "right"}
        PROVE  l # <<k, side>> /\ Len(R[<<k, side>>]) = 0
    BY <1>6, <1>7
  <2> QED
    BY <1>3, <1>4, <1>5, <1>6, <2>1 DEF Callable
<1>9. PICK T : InOrderNow(h, data, R, l, r, T)
  BY <1>4, <1>5, <1>8, SortedGood DEF q, r
<1>. HIDE DEF h
<1>10. /\ Good(h, Stacked, T, Empty) /\ h.data = data
       /\ \A k \in Stacked \ {l} : T[k] = R[k]
       /\ Ordered(r, T[l]) /\ Len(T[l]) = Len(S[l])
       /\ \A m : On(T[l], m) <=> On(S[l], m)
  BY <1>6, <1>9 DEF InOrderNow
<1>. DEFINE U == [k \in Lists |-> T[k]]
<1>11. Good(heap', Lists, U, Empty) /\ heap'.data = data
  <2>1. \A k \in Stacked \ Lists : T[k] = Empty
    BY <1>6, <1>10
  <2>. DEFINE f == [h EXCEPT !.list = back]
  <2>2. Good(h, Stacked, T, Empty)
    BY <1>10
  <2>3. /\ back = [k \in Lists |-> h.list[k]] /\ f = [h EXCEPT !.list = back]
        /\ U = [k \in Lists |-> T[k]]
    OBVIOUS
  <2>4. heap' = f
    BY <1>2
  <2>. HIDE DEF f, back, U
  <2>5. Good(f, Lists, U, Empty) /\ f.data = h.data
    BY <2>1, <2>2, <2>3, FramesLeave
  <2> QED
    BY <1>10, <2>4, <2>5
<1>12. T[l] \in Seq(Nodes)
  BY <1>6, <1>10, LengthIs
<1>13. InOrder(Mapped(data, S[l]), func) = Mapped(data, T[l])
  BY <1>3, <1>4, <1>10, <1>12, InOrderIs DEF r
<1>14. Mapped(data, T[l]) \in Seq(Items)
  BY <1>3, <1>12, MappedIs
<1>15. Holds(contents', data, Lists, U)
  <2>1. contents[l] = Mapped(data, S[l]) /\ \A k \in Lists : contents[k] = Mapped(data, S[k])
    BY <1>1 DEF Holds, data
  <2>2. /\ contents' \in [Lists -> Seq(Items)] /\ contents'[l] = Mapped(data, T[l])
        /\ \A k \in Lists \ {l} : contents'[k] = contents[k]
    BY <1>2, <1>3, <1>13, <1>14, <2>1
  <2>3. ASSUME NEW k \in Lists
        PROVE  contents'[k] = Mapped(data, U[k])
    <3>1. CASE k = l
      BY <2>2, <3>1
    <3>2. CASE k # l
      BY <1>6, <1>10, <2>1, <2>2, <3>2
    <3> QED
      BY <3>1, <3>2
  <2> QED
    BY <2>2, <2>3 DEF Holds
<1> QED
  BY <1>11, <1>15 DEF ListInv, Kept

-----------------------------------------------------------------------------
(* What follows for every behaviour.                                         *)

LEMMA StepKept ==
  ListInv /\ [ListNext]_list_vars => ListInv'
<1>. SUFFICES ASSUME ListInv, [ListNext]_list_vars
              PROVE  ListInv'
  OBVIOUS
<1>1. CASE UNCHANGED list_vars
  BY <1>1 DEF list_vars, ListInv
<1>2. CASE ListNext
  <2>1. PICK l \in Lists :
          \/ \E item \in Items :
               \/ Add(l, item) \/ AddHead(l, item)
               \/ \E node \in Nodes : InsertAfter(l, item, node) \/ InsertBefore(l, item, node)
          \/ \E node \in Nodes : Rm(l, node)
          \/ \E to \in Lists, node \in Nodes : SpliceNode(l, to, node)
          \/ \E to \in Lists, fromStart, toStart \in 0 .. NodeBound - 1,
                count \in 0 .. NodeBound : Splice(l, to, fromStart, toStart, count)
          \/ \E func \in Comparators : Sort(l, func)
          \/ Uninit(l)
    BY <1>2 DEF ListNext
  <2>2. ASSUME NEW item \in Items, Add(l, item)
        PROVE  ListInv'
    BY <2>2, AddKept
  <2>3. ASSUME NEW item \in Items, AddHead(l, item)
        PROVE  ListInv'
    BY <2>3, AddHeadKept
  <2>4. ASSUME NEW item \in Items, NEW node \in Nodes, InsertAfter(l, item, node)
        PROVE  ListInv'
    BY <2>4, InsertAfterKept
  <2>5. ASSUME NEW item \in Items, NEW node \in Nodes, InsertBefore(l, item, node)
        PROVE  ListInv'
    BY <2>5, InsertBeforeKept
  <2>6. ASSUME NEW node \in Nodes, Rm(l, node)
        PROVE  ListInv'
    BY <2>6, RmKept
  <2>7. ASSUME NEW to \in Lists, NEW node \in Nodes, SpliceNode(l, to, node)
        PROVE  ListInv'
    BY <2>7, SpliceNodeKept
  <2>8. ASSUME NEW to \in Lists, NEW fromStart \in 0 .. NodeBound - 1,
               NEW toStart \in 0 .. NodeBound - 1, NEW count \in 0 .. NodeBound,
               Splice(l, to, fromStart, toStart, count)
        PROVE  ListInv'
    <3>1. fromStart \in Nat /\ toStart \in Nat /\ count \in Nat
      BY NodesAre
    <3> QED
      BY <2>8, <3>1, SpliceKept
  <2>9. ASSUME NEW func \in Comparators, Sort(l, func)
        PROVE  ListInv'
    BY <2>9, SortKept
  <2>10. ASSUME Uninit(l)
         PROVE  ListInv'
    BY <2>10, UninitKept
  <2> QED
    BY <2>1, <2>2, <2>3, <2>4, <2>5, <2>6, <2>7, <2>8, <2>9, <2>10
<1> QED
  BY <1>1, <1>2

LEMMA ListInvariant == ListSpec => []ListInv
<1>1. ListInit => ListInv
  BY InitKept
<1> QED
  BY <1>1, StepKept, PTL DEF ListSpec

\* Whatever sequence of calls of list.c, on however many lists: every allocated node is on
\* exactly one list and once, so none leaks and none is freed while it is on a list; and the
\* previous links, the tail and the count of each list agree with its next links, also for the
\* lists that the calls of list_sort left.
THEOREM ListsCorrect == ListSpec => []NodesOnOneList
<1>1. ListInv => NodesOnOneList
  BY InvNodes
<1> QED
  BY <1>1, ListInvariant, PTL

\* And each list holds the items that the calls on it should have left, in that order: the
\* splices keep the order of both lists, and the merge sort of _sort (list.c:144-216) sorts a
\* list of any length, stably for a comparator that is "<=" and with equal items reversed for
\* one that is "<".
THEOREM ItemsCorrect == ListSpec => []HoldsItsItems
<1>1. ListInv => HoldsItsItems
  BY InvItems
<1> QED
  BY <1>1, ListInvariant, PTL

=============================================================================
