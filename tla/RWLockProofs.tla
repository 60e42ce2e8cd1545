---------------------------- MODULE RWLockProofs ----------------------------
(***************************************************************************)
(* Proofs about RWLock for any finite set of threads.                      *)
(*                                                                         *)
(* The inductive invariant adds one fact to the properties: a thread whose *)
(* pc says that it is between mtx_lock and mtx_unlock owns the mutex.  The *)
(* counters are exact because each step moves one thread between the       *)
(* groups they count, while the threads it wakes stay in theirs.           *)
(***************************************************************************)
EXTENDS RWLock, FiniteSetTheorems, TLAPS

MutexOwner == \A t \in Threads : pc[t] \in MutexPCs => mutex = t

\* How many threads f places in S.
Count(f, S) == Cardinality({u \in Threads : f[u] \in S})

\* CountersExact, with the counted groups as functions of pc.
CountersCounted ==
    ~Destroyed =>
      /\ readers = Count(pc, ReaderPCs)
      /\ writers = Count(pc, WriterPCs)
      /\ readers_waiting = Count(pc, ReaderBlockedPCs)
      /\ writers_waiting = Count(pc, WriterBlockedPCs)

IInv ==
    /\ TypeOK
    /\ MutexOwner
    /\ Exclusion
    /\ CountersCounted

\* Every thread but t stays where it is or is woken.
OthersOnlyWake(t) ==
    \A u \in Threads \ {t} :
        \/ pc'[u] = pc[u]
        \/ pc[u] = "r_wait" /\ pc'[u] = "r_woken"
        \/ pc[u] = "w_wait" /\ pc'[u] = "w_woken"

\* What a step of t adds to a counter of the threads in S.
Moved(t, S) ==
    (IF pc'[t] \in S THEN 1 ELSE 0) - (IF pc[t] \in S THEN 1 ELSE 0)

\* The mutex is handed over by its owner or taken when free.
OwnerStep(t) ==
    /\ mutex' \in Threads \cup {NoThread}
    /\ mutex' = mutex \/ mutex \in {NoThread, t}
    /\ pc'[t] \in MutexPCs => mutex' = t

\* A holder stays one, or enters past the right groups being empty.
HolderStep(t) ==
    \/ pc'[t] \notin ReaderPCs \cup WriterPCs
    \/ pc[t] \in ReaderPCs /\ pc'[t] \in ReaderPCs
    \/ pc[t] \in WriterPCs
    \/ At(ReaderPCs \cup WriterPCs) = {}
    \/ pc'[t] \in ReaderPCs /\ At(WriterPCs) = {}

\* The counters follow the thread.
CounterStep(t) ==
    IF Destroyed THEN UNCHANGED counters ELSE
       /\ readers' = readers + Moved(t, ReaderPCs)
       /\ writers' = writers + Moved(t, WriterPCs)
       /\ readers_waiting' = readers_waiting + Moved(t, ReaderBlockedPCs)
       /\ writers_waiting' = writers_waiting + Moved(t, WriterBlockedPCs)

CountedGroups == {ReaderPCs, WriterPCs, ReaderBlockedPCs, WriterBlockedPCs}

-----------------------------------------------------------------------------

\* The size of a subset of Threads defined by where threads are changes by at
\* most one when one thread moves and no other enters or leaves it.
LEMMA CountStep ==
    ASSUME NEW p, NEW q, NEW S, NEW t \in Threads,
           \A u \in Threads \ {t} : q[u] \in S <=> p[u] \in S
    PROVE  /\ Count(p, S) \in Nat
           /\ Count(q, S) \in Nat
           /\ q[t] \in S /\ p[t] \notin S => Count(q, S) = Count(p, S) + 1
           /\ q[t] \notin S /\ p[t] \in S => Count(q, S) = Count(p, S) - 1
           /\ (q[t] \in S <=> p[t] \in S) => Count(q, S) = Count(p, S)
<1> DEFINE P == {u \in Threads : p[u] \in S}
           Q == {u \in Threads : q[u] \in S}
<1>1. IsFiniteSet(P) /\ IsFiniteSet(Q)
  BY FS_Subset, ThreadsAssumption
<1>2. Count(p, S) \in Nat /\ Count(q, S) \in Nat
  BY <1>1, FS_CardinalityType DEF Count
<1>3. ASSUME q[t] \in S, p[t] \notin S
      PROVE  Count(q, S) = Count(p, S) + 1
  <2>1. Q = P \cup {t} /\ t \notin P
    BY <1>3
  <2> QED BY <2>1, <1>1, FS_AddElement DEF Count
<1>4. ASSUME q[t] \notin S, p[t] \in S
      PROVE  Count(q, S) = Count(p, S) - 1
  <2>1. Q = P \ {t} /\ t \in P
    BY <1>4
  <2> QED BY <2>1, <1>1, FS_RemoveElement DEF Count
<1>5. ASSUME q[t] \in S <=> p[t] \in S
      PROVE  Count(q, S) = Count(p, S)
  <2>1. Q = P
    BY <1>5
  <2> QED BY <2>1 DEF Count
<1> QED BY <1>2, <1>3, <1>4, <1>5

\* What a step of one thread does to the groups the counters stand for.
LEMMA GroupStep ==
    ASSUME NEW t \in Threads, OthersOnlyWake(t), NEW S \in CountedGroups
    PROVE  /\ Count(pc, S) \in Nat
           /\ Count(pc', S) \in Nat
           /\ pc'[t] \in S /\ pc[t] \notin S => Count(pc', S) = Count(pc, S) + 1
           /\ pc'[t] \notin S /\ pc[t] \in S => Count(pc', S) = Count(pc, S) - 1
           /\ (pc'[t] \in S <=> pc[t] \in S) => Count(pc', S) = Count(pc, S)
<1>1. \A u \in Threads \ {t} : pc'[u] \in S <=> pc[u] \in S
  BY DEF OthersOnlyWake, CountedGroups, ReaderPCs, WriterPCs, ReaderBlockedPCs,
         WriterBlockedPCs
<1> QED BY <1>1, CountStep

\* Waking threads and moving one of them keeps Exclusion, unless that one
\* enters beside a holder.
LEMMA ExclusionStep ==
    ASSUME NEW t \in Threads, Exclusion, OthersOnlyWake(t), HolderStep(t)
    PROVE  Exclusion'
<1> SUFFICES ASSUME NEW w \in Threads, pc'[w] \in WriterPCs,
                    NEW u \in Threads, pc'[u] \in ReaderPCs \cup WriterPCs
             PROVE  u = w
  BY DEF Exclusion, At
<1>1. \A v \in Threads \ {t} :
        /\ pc'[v] \in WriterPCs <=> pc[v] \in WriterPCs
        /\ pc'[v] \in ReaderPCs <=> pc[v] \in ReaderPCs
  BY DEF OthersOnlyWake, ReaderPCs, WriterPCs
<1>2. ReaderPCs \cap WriterPCs = {}
  BY DEF ReaderPCs, WriterPCs
<1> QED BY <1>1, <1>2 DEF Exclusion, At, HolderStep

\* A step of a thread that moves the mutex, the holders and the counters as the
\* four step formulas say keeps the invariant.
LEMMA ThreadStep ==
    ASSUME NEW t \in Threads, IInv,
           pc' \in [Threads -> PCs], kill' \in BOOLEAN, UNCHANGED uninit,
           found' \subseteq Threads, writers' \in {0, 1},
           OthersOnlyWake(t), OwnerStep(t), HolderStep(t), CounterStep(t)
    PROVE  IInv'
<1>1. MutexOwner'
  <2> SUFFICES ASSUME NEW u \in Threads \ {t}, pc'[u] \in MutexPCs
               PROVE  mutex' = u
    BY DEF MutexOwner, OwnerStep
  <2>1. pc[u] \in MutexPCs
    BY DEF OthersOnlyWake, MutexPCs, LeavingPCs
  <2>2. mutex = u
    BY <2>1 DEF IInv, MutexOwner
  <2> QED BY <2>2, ThreadsAssumption DEF OwnerStep
<1>2. Exclusion'
  BY ExclusionStep DEF IInv
<1>3. CASE Destroyed
  <2>1. TypeOK'
    BY <1>3 DEF IInv, TypeOK, CounterStep, counters, uninit, OwnerStep
  <2>2. CountersCounted'
    BY <1>3 DEF CountersCounted, Destroyed, uninit
  <2> QED BY <1>1, <1>2, <2>1, <2>2 DEF IInv
<1>4. CASE ~Destroyed
  <2>1. \A S \in CountedGroups : /\ Count(pc', S) \in Nat
                                /\ Count(pc, S) \in Nat
                                /\ Count(pc', S) = Count(pc, S) + Moved(t, S)
    <3> SUFFICES ASSUME NEW S \in CountedGroups
                 PROVE  /\ Count(pc', S) \in Nat
                        /\ Count(pc, S) \in Nat
                        /\ Count(pc', S) = Count(pc, S) + Moved(t, S)
      OBVIOUS
    <3> QED BY GroupStep DEF Moved
  <2>2. CountersCounted'
    BY <1>4, <2>1 DEF IInv, CountersCounted, CounterStep, CountedGroups
  <2>3. TypeOK'
    BY <1>4, <2>1, <2>2 DEF IInv, TypeOK, CountersCounted, Destroyed, uninit,
                            OwnerStep, CountedGroups
  <2> QED BY <1>1, <1>2, <2>2, <2>3 DEF IInv
<1> QED BY <1>3, <1>4

-----------------------------------------------------------------------------

\* An empty group is counted as zero, and a group counted as zero is empty.
LEMMA NobodyCounted ==
    ASSUME NEW S, Count(pc, S) = 0
    PROVE  At(S) = {}
<1>1. IsFiniteSet(At(S))
  BY FS_Subset, ThreadsAssumption DEF At
<1>2. Cardinality(At(S)) = 0
  BY DEF Count, At
<1> QED BY <1>1, <1>2, FS_EmptySet

LEMMA InitIInv == Init => IInv
<1> SUFFICES ASSUME Init PROVE IInv
  OBVIOUS
<1> USE DEF Init
<1>1. TypeOK
  BY DEF TypeOK, PCs, OutsidePCs
<1>2. MutexOwner
  BY DEF MutexOwner, MutexPCs, LeavingPCs
<1>3. Exclusion
  BY DEF Exclusion, At, WriterPCs
<1>4. \A S \in CountedGroups : Count(pc, S) = 0
  <2> SUFFICES ASSUME NEW S \in CountedGroups PROVE Count(pc, S) = 0
    OBVIOUS
  <2>1. {u \in Threads : pc[u] \in S} = {}
    BY DEF CountedGroups, ReaderPCs, WriterPCs, ReaderBlockedPCs,
           WriterBlockedPCs
  <2> QED BY <2>1, FS_EmptySet DEF Count
<1>5. CountersCounted
  BY <1>4 DEF CountersCounted, CountedGroups
<1> QED BY <1>1, <1>2, <1>3, <1>5 DEF IInv

\* The steps of rwlock_read_lock meet the hypotheses of ThreadStep.
LEMMA ReadLockStep ==
    ASSUME NEW t \in Threads, IInv,
           ReadCheckKill(t) \/ ReadEnter(t) \/ ReadAwake(t) \/ ReadTest(t)
    PROVE  IInv'
<1> USE DEF IInv, TypeOK, OthersOnlyWake, OwnerStep, HolderStep, CounterStep, Moved,
            PCs, OutsidePCs, ReaderPCs, WriterPCs, ReaderBlockedPCs,
            WriterBlockedPCs, MutexPCs, LeavingPCs, counters, uninit, Goto
<1>1. CASE ReadCheckKill(t)
  BY <1>1, ThreadStep DEF ReadCheckKill
<1>2. CASE ReadEnter(t)
  <2>1. CASE ReadBlocked
    BY <1>2, <2>1, ThreadStep DEF ReadEnter, Acquire, Destroyed
  <2>2. CASE ~ReadBlocked
    <3>1. At(WriterPCs) = {}
      BY <1>2, <2>2, NobodyCounted
         DEF ReadEnter, Acquire, ReadBlocked, CountersCounted
    <3> QED BY <1>2, <2>2, <3>1, ThreadStep DEF ReadEnter, Acquire, Destroyed
  <2> QED BY <2>1, <2>2
<1>3. CASE ReadAwake(t)
  BY <1>3, ThreadStep DEF ReadAwake, Acquire, Destroyed, StopReadWait
<1>4. CASE ReadTest(t)
  <2>0. mutex = t
    BY <1>4 DEF ReadTest, MutexOwner
  <2>1. CASE ReadBlocked
    BY <1>4, <2>0, <2>1, ThreadStep DEF ReadTest
  <2>2. CASE ~ReadBlocked
    <3>1. At(WriterPCs) = {}
      BY <1>4, <2>2, NobodyCounted DEF ReadTest, ReadBlocked, CountersCounted
    <3> QED BY <1>4, <2>0, <2>2, <3>1, ThreadStep DEF ReadTest, StopReadWait
  <2> QED BY <2>1, <2>2
<1> QED BY <1>1, <1>2, <1>3, <1>4

\* The steps of rwlock_write_lock meet the hypotheses of ThreadStep.
LEMMA WriteLockStep ==
    ASSUME NEW t \in Threads, IInv,
           WriteCheckKill(t) \/ WriteEnter(t) \/ WriteAwake(t) \/ WriteTest(t)
    PROVE  IInv'
<1> USE DEF IInv, TypeOK, OthersOnlyWake, OwnerStep, HolderStep, CounterStep, Moved,
            PCs, OutsidePCs, ReaderPCs, WriterPCs, ReaderBlockedPCs,
            WriterBlockedPCs, MutexPCs, LeavingPCs, counters, uninit, Goto
<1>0. ASSUME ~Destroyed, ~WriteBlocked
      PROVE  At(ReaderPCs \cup WriterPCs) = {} /\ writers = 0
  <2>1. At(WriterPCs) = {} /\ At(ReaderPCs) = {} /\ writers = 0
    BY <1>0, NobodyCounted DEF WriteBlocked, CountersCounted
  <2> QED BY <2>1 DEF At
<1>1. CASE WriteCheckKill(t)
  BY <1>1, ThreadStep DEF WriteCheckKill
<1>2. CASE WriteEnter(t)
  <2>1. CASE WriteBlocked
    BY <1>2, <2>1, ThreadStep DEF WriteEnter, Acquire, Destroyed
  <2>2. CASE ~WriteBlocked
    BY <1>0, <1>2, <2>2, ThreadStep DEF WriteEnter, Acquire
  <2> QED BY <2>1, <2>2
<1>3. CASE WriteAwake(t)
  BY <1>3, ThreadStep DEF WriteAwake, Acquire, Destroyed
<1>4. CASE WriteTest(t)
  <2>0. mutex = t
    BY <1>4 DEF WriteTest, MutexOwner
  <2>1. CASE WriteBlocked
    BY <1>4, <2>0, <2>1, ThreadStep DEF WriteTest
  <2>2. CASE ~WriteBlocked
    BY <1>0, <1>4, <2>0, <2>2, ThreadStep DEF WriteTest
  <2> QED BY <2>1, <2>2
<1> QED BY <1>1, <1>2, <1>3, <1>4

\* Signalling moves the signaller to its label and may wake one writer.
LEMMA SignalStep ==
    ASSUME NEW t \in Threads, TypeOK, pc[t] \notin {"r_wait", "w_wait"},
           SignalWriter(t, "released")
    PROVE  /\ pc' \in [Threads -> PCs]
           /\ pc'[t] = "released"
           /\ OthersOnlyWake(t)
<1> USE DEF TypeOK, OthersOnlyWake, PCs, MutexPCs, LeavingPCs, WriterBlockedPCs, Goto
<1>1. CASE At({"w_wait"}) = {}
  BY <1>1 DEF SignalWriter
<1>2. CASE At({"w_wait"}) # {}
  <2>1. PICK w \in At({"w_wait"}) :
           pc' = [pc EXCEPT ![t] = "released", ![w] = "w_woken"]
    BY <1>2 DEF SignalWriter
  <2>2. w \in Threads /\ pc[w] = "w_wait" /\ w # t
    BY DEF At
  <2> QED BY <2>1, <2>2
<1> QED BY <1>1, <1>2

\* The steps that count a holder out meet the hypotheses of ThreadStep.
LEMMA UnlockInv ==
    ASSUME NEW t \in Threads, IInv, UnlockStep(t)
    PROVE  IInv'
<1> USE DEF IInv, TypeOK, OthersOnlyWake, OwnerStep, HolderStep, CounterStep, Moved,
            PCs, OutsidePCs, ReaderPCs, WriterPCs, ReaderBlockedPCs,
            WriterBlockedPCs, MutexPCs, LeavingPCs, counters, uninit, Goto
<1>1. CASE ReadUnlock(t)
  BY <1>1, ThreadStep DEF ReadUnlock, Acquire
<1>2. CASE WriteUnlock(t)
  <2>1. /\ pc' \in [Threads -> PCs]
        /\ pc'[t] = "w_left"
        /\ OthersOnlyWake(t)
    BY <1>2 DEF WriteUnlock
  <2>2. Count(pc', WriterPCs) = Count(pc, WriterPCs) - 1
        /\ Count(pc', WriterPCs) \in Nat
    BY <1>2, <2>1, GroupStep DEF WriteUnlock, CountedGroups
  <2>3. writers = 1
    BY <1>2, <2>2 DEF WriteUnlock, Acquire, CountersCounted
  <2> QED BY <1>2, <2>1, <2>3, ThreadStep DEF WriteUnlock, Acquire
<1> QED BY <1>1, <1>2 DEF UnlockStep

\* A signalling thread goes on to unlock the mutex, and those it signals wake.
LEMMA SignalMoves ==
    ASSUME NEW t \in Threads, TypeOK, ReadSignal(t) \/ WriteSignal(t)
    PROVE  /\ pc' \in [Threads -> PCs]
           /\ pc[t] \in {"r_left", "w_left"}
           /\ pc'[t] = "released"
           /\ OthersOnlyWake(t)
           /\ UNCHANGED <<mutex, counters, kill, uninit, found>>
<1> USE DEF TypeOK, OthersOnlyWake, PCs, ReaderBlockedPCs, WriterBlockedPCs, MutexPCs,
            LeavingPCs, Goto
<1>1. CASE ReadSignal(t)
  BY <1>1, SignalStep DEF ReadSignal
<1>2. CASE WriteSignal(t)
  BY <1>2, SignalStep DEF WriteSignal, Awaken
<1> QED BY <1>1, <1>2

\* The steps that signal meet the hypotheses of ThreadStep.
LEMMA SignalInv ==
    ASSUME NEW t \in Threads, IInv, ReadSignal(t) \/ WriteSignal(t)
    PROVE  IInv'
<1>1. /\ pc' \in [Threads -> PCs]
      /\ pc[t] \in {"r_left", "w_left"}
      /\ pc'[t] = "released"
      /\ OthersOnlyWake(t)
      /\ UNCHANGED <<mutex, counters, kill, uninit, found>>
  BY SignalMoves DEF IInv
<1>2. mutex = t
  BY <1>1 DEF IInv, MutexOwner, MutexPCs, LeavingPCs
<1>3. OwnerStep(t)
  BY <1>1, <1>2 DEF OwnerStep
<1>4. HolderStep(t)
  BY <1>1 DEF HolderStep, ReaderPCs, WriterPCs
<1>5. CounterStep(t)
  BY <1>1 DEF CounterStep, Moved, counters, IInv, TypeOK, ReaderPCs, WriterPCs,
              ReaderBlockedPCs, WriterBlockedPCs
<1> QED BY <1>1, <1>3, <1>4, <1>5, ThreadStep DEF IInv, TypeOK, counters

\* The steps of a thread that leave every group alone, but for undefined
\* behaviour, which only a destroyed lock allows.
LEMMA OtherThreadStep ==
    ASSUME NEW t \in Threads, IInv,
           MutexUnlock(t) \/ SetKill(t) \/ SpuriousWakeup(t) \/ Undefined(t)
    PROVE  IInv'
<1> USE DEF IInv, TypeOK, OthersOnlyWake, OwnerStep, HolderStep, CounterStep, Moved,
            PCs, OutsidePCs, ReaderPCs, WriterPCs, ReaderBlockedPCs,
            WriterBlockedPCs, MutexPCs, LeavingPCs, counters, uninit, Goto
<1>1. CASE MutexUnlock(t)
  BY <1>1, ThreadStep DEF MutexUnlock
<1>2. CASE SetKill(t)
  BY <1>2, ThreadStep DEF SetKill
<1>3. CASE SpuriousWakeup(t)
  BY <1>3, ThreadStep DEF SpuriousWakeup
<1>4. CASE Undefined(t)
  BY <1>4, ThreadStep DEF Undefined
<1> QED BY <1>1, <1>2, <1>3, <1>4

\* rwlock_uninit wakes threads and reads counters: no group changes.
LEMMA UninitInv ==
    ASSUME IInv, Uninit
    PROVE  IInv'
<1>1. /\ UNCHANGED <<mutex, counters>>
      /\ upc \in {"before", "broadcast_w", "broadcast_r", "poll"}
      /\ \A u \in Threads :
           \/ pc'[u] = pc[u]
           \/ pc[u] = "r_wait" /\ pc'[u] = "r_woken"
           \/ pc[u] = "w_wait" /\ pc'[u] = "w_woken"
      /\ pc' \in [Threads -> PCs]
  BY DEF IInv, TypeOK, Uninit, UninitKill, UninitBroadcastW, UninitBroadcastR,
         UninitPoll, UninitDestroy, Awaken, PCs, ReaderBlockedPCs,
         WriterBlockedPCs
<1>2. TypeOK'
  BY <1>1 DEF IInv, TypeOK, Uninit, UninitKill, UninitBroadcastW,
              UninitBroadcastR, UninitPoll, UninitDestroy, counters, At
<1>3. \A S \in CountedGroups \cup {MutexPCs} :
        \A u \in Threads : pc'[u] \in S <=> pc[u] \in S
  BY <1>1 DEF CountedGroups, ReaderPCs, WriterPCs, ReaderBlockedPCs,
              WriterBlockedPCs, MutexPCs, LeavingPCs
<1>4. MutexOwner'
  BY <1>1, <1>3 DEF IInv, MutexOwner
<1>5. Exclusion'
  BY <1>3 DEF IInv, Exclusion, At, CountedGroups
<1>6. \A S \in CountedGroups : Count(pc', S) = Count(pc, S)
  <2> SUFFICES ASSUME NEW S \in CountedGroups
               PROVE  Count(pc', S) = Count(pc, S)
    OBVIOUS
  <2>1. {u \in Threads : pc'[u] \in S} = {u \in Threads : pc[u] \in S}
    BY <1>3
  <2> QED BY <2>1 DEF Count
<1>7. CountersCounted'
  BY <1>1, <1>6 DEF IInv, CountersCounted, Destroyed, counters, CountedGroups
<1> QED BY <1>2, <1>4, <1>5, <1>7 DEF IInv

LEMMA NextIInv == IInv /\ [Next]_vars => IInv'
<1> SUFFICES ASSUME IInv, [Next]_vars PROVE IInv'
  OBVIOUS
<1>1. ASSUME NEW t \in Threads,
             \/ ReadCheckKill(t) \/ WriteCheckKill(t) \/ LockStep(t)
             \/ UnlockStep(t) \/ SetKill(t) \/ SpuriousWakeup(t) \/ Undefined(t)
      PROVE  IInv'
  BY <1>1, ReadLockStep, WriteLockStep, SignalInv, UnlockInv, OtherThreadStep
     DEF LockStep
<1>2. CASE UNCHANGED vars
  BY <1>2 DEF vars, counters, uninit, IInv, TypeOK, MutexOwner, Exclusion, At,
              CountersCounted, Destroyed
<1> QED BY <1>1, <1>2, UninitInv DEF Next

\* The invariant holds in every reachable state of the lock, for any finite set
\* of threads.
THEOREM Invariance == Spec => []IInv
BY InitIInv, NextIInv, PTL DEF Spec

\* Every variable of the lock keeps its type: in particular, no counter of
\* rw_lock.c is ever decremented below zero.
THEOREM TypeCorrect == Spec => []TypeOK
<1>1. IInv => TypeOK
  BY DEF IInv
<1> QED BY <1>1, Invariance, PTL

\* A writer shares the lock with nobody, whatever the wakeups, the kill flag and
\* rwlock_uninit do.
THEOREM ExclusionCorrect == Spec => []Exclusion
<1>1. IInv => Exclusion
  BY DEF IInv
<1> QED BY <1>1, Invariance, PTL

\* The counters rwlock_uninit polls are at every moment the numbers of threads
\* that hold the lock or wait for it.
THEOREM CountersCorrect == Spec => []CountersExact
<1>1. IInv => CountersExact
  BY DEF IInv, CountersCounted, CountersExact, Count, At
<1> QED BY <1>1, Invariance, PTL

-----------------------------------------------------------------------------
(***************************************************************************)
(* RWLock implements AbstractRWLock: each step is a step of the abstract   *)
(* lock on the groups of threads, or changes none of them.                 *)
(***************************************************************************)

\* Only a killed lock is destroyed, so the writers undefined behaviour takes
\* out of the queue leave a closed one.
UninitKilled == upc # "before" => kill

LEMMA UninitKilledInv == Spec => []UninitKilled
<1>1. Init => UninitKilled
  BY DEF Init, UninitKilled
<1>2. UninitKilled /\ [Next]_vars => UninitKilled'
  BY DEF UninitKilled, Next, vars, uninit, LockStep, UnlockStep, ReadCheckKill,
         ReadEnter, ReadAwake, ReadTest, WriteCheckKill, WriteEnter, WriteAwake,
         WriteTest, ReadSignal, WriteSignal, MutexUnlock, ReadUnlock, WriteUnlock,
         SetKill, SpuriousWakeup, Undefined, Uninit, UninitKill, UninitBroadcastW,
         UninitBroadcastR, UninitPoll, UninitDestroy
<1> QED BY <1>1, <1>2, PTL DEF Spec

\* Where the groups of threads are after a step that moves t and wakes others.
LEMMA GroupsAfter ==
    ASSUME NEW t \in Threads, OthersOnlyWake(t), NEW S \in CountedGroups
    PROVE  /\ pc'[t] \in S => At(S)' = At(S) \cup {t}
           /\ pc'[t] \notin S => At(S)' = At(S) \ {t}
           /\ pc[t] \in S <=> t \in At(S)
BY DEF OthersOnlyWake, CountedGroups, ReaderPCs, WriterPCs, ReaderBlockedPCs,
       WriterBlockedPCs, At

\* A step that keeps t in its group, or out of all of them, changes nothing the
\* abstract lock shows.
LEMMA StutterStep ==
    ASSUME NEW t \in Threads, OthersOnlyWake(t), UNCHANGED kill,
           pc'[t] \in ReaderPCs <=> pc[t] \in ReaderPCs,
           pc'[t] \in WriterPCs <=> pc[t] \in WriterPCs,
           pc'[t] \in WriterBlockedPCs <=> pc[t] \in WriterBlockedPCs
    PROVE  UNCHANGED Abstract!vars
BY GroupsAfter DEF Abstract!vars, CountedGroups

\* rwlock_read_lock begins a read or stutters.
LEMMA ReadLockRefines ==
    ASSUME NEW t \in Threads, IInv,
           ReadCheckKill(t) \/ ReadEnter(t) \/ ReadAwake(t) \/ ReadTest(t)
    PROVE  [Abstract!Next]_(Abstract!vars)
<1> USE DEF IInv, TypeOK, OthersOnlyWake, PCs, ReaderPCs, WriterPCs,
            ReaderBlockedPCs, WriterBlockedPCs, Goto
<1>1. OthersOnlyWake(t) /\ UNCHANGED kill
  BY DEF ReadCheckKill, ReadEnter, ReadAwake, ReadTest
<1>2. CASE pc'[t] \notin ReaderPCs
  BY <1>1, <1>2, StutterStep DEF ReadCheckKill, ReadEnter, ReadAwake, ReadTest
<1>3. CASE pc'[t] \in ReaderPCs
  <2>1. ~ReadBlocked /\ ~Destroyed /\ pc[t] \in {"r_lock", "r_test"}
        /\ pc'[t] = "r_got"
    BY <1>3 DEF ReadCheckKill, ReadEnter, ReadAwake, ReadTest, Acquire
  <2>2. At(WriterPCs) = {} /\ At(WriterBlockedPCs) = {}
    BY <2>1, NobodyCounted DEF ReadBlocked, CountersCounted
  <2>3. /\ t \notin At(ReaderPCs)
        /\ At(ReaderPCs)' = At(ReaderPCs) \cup {t}
        /\ At(WriterPCs)' = At(WriterPCs)
        /\ At(WriterBlockedPCs)' = At(WriterBlockedPCs)
    BY <1>1, <2>1, <2>2, GroupsAfter DEF CountedGroups
  <2>4. Abstract!BeginRead(t)
    BY <1>1, <2>2, <2>3 DEF Abstract!BeginRead
  <2> QED BY <2>4 DEF Abstract!Next
<1> QED BY <1>2, <1>3

\* rwlock_write_lock queues a writer, lets one in, lets one give up, or stutters.
LEMMA WriteLockRefines ==
    ASSUME NEW t \in Threads, IInv,
           WriteCheckKill(t) \/ WriteEnter(t) \/ WriteAwake(t) \/ WriteTest(t)
    PROVE  [Abstract!Next]_(Abstract!vars)
<1> USE DEF IInv, TypeOK, OthersOnlyWake, PCs, ReaderPCs, WriterPCs,
            ReaderBlockedPCs, WriterBlockedPCs, Goto
<1>1. OthersOnlyWake(t) /\ UNCHANGED kill
  BY DEF WriteCheckKill, WriteEnter, WriteAwake, WriteTest
<1>2. CASE pc[t] = "w_lock" /\ pc'[t] = "w_wait"
  <2>1. WriteBlocked /\ ~Destroyed
    BY <1>2 DEF WriteCheckKill, WriteEnter, WriteAwake, WriteTest, Acquire
  <2>2. At(ReaderPCs) \cup At(WriterPCs) # {}
    <3>1. Count(pc, ReaderPCs) # 0 \/ Count(pc, WriterPCs) # 0
      BY <2>1 DEF WriteBlocked, CountersCounted
    <3>2. \A S : At(S) = {} => Count(pc, S) = 0
      BY FS_EmptySet DEF Count, At
    <3> QED BY <3>1, <3>2
  <2>3. /\ t \notin At(ReaderPCs) \cup At(WriterPCs) \cup At(WriterBlockedPCs)
        /\ At(ReaderPCs)' = At(ReaderPCs)
        /\ At(WriterPCs)' = At(WriterPCs)
        /\ At(WriterBlockedPCs)' = At(WriterBlockedPCs) \cup {t}
    BY <1>1, <1>2, GroupsAfter DEF CountedGroups
  <2>4. Abstract!Queue(t)
    BY <1>1, <2>2, <2>3 DEF Abstract!Queue
  <2> QED BY <2>4 DEF Abstract!Next
<1>3. CASE pc'[t] = "w_got"
  <2>1. ~WriteBlocked /\ ~Destroyed /\ pc[t] \in {"w_lock", "w_test"}
    BY <1>3 DEF WriteCheckKill, WriteEnter, WriteAwake, WriteTest, Acquire
  <2>2. At(WriterPCs) = {} /\ At(ReaderPCs) = {}
    BY <2>1, NobodyCounted DEF WriteBlocked, CountersCounted
  <2>3. /\ At(ReaderPCs)' = {}
        /\ At(WriterPCs)' = {t}
        /\ At(WriterBlockedPCs)' = At(WriterBlockedPCs) \ {t}
    BY <1>1, <1>3, <2>2, GroupsAfter DEF CountedGroups
  <2>4. Abstract!BeginWrite(t)
    BY <1>1, <2>2, <2>3 DEF Abstract!BeginWrite
  <2> QED BY <2>4 DEF Abstract!Next
<1>4. CASE pc[t] = "w_woken" /\ pc'[t] = "refused"
  <2>1. kill
    BY <1>4 DEF WriteCheckKill, WriteEnter, WriteAwake, WriteTest
  <2>2. /\ t \in At(WriterBlockedPCs)
        /\ At(ReaderPCs)' = At(ReaderPCs)
        /\ At(WriterPCs)' = At(WriterPCs)
        /\ At(WriterBlockedPCs)' = At(WriterBlockedPCs) \ {t}
    BY <1>1, <1>4, GroupsAfter DEF CountedGroups
  <2>3. Abstract!GiveUp(t)
    BY <1>1, <2>1, <2>2 DEF Abstract!GiveUp
  <2> QED BY <2>3 DEF Abstract!Next
<1>5. CASE /\ ~(pc[t] = "w_lock" /\ pc'[t] = "w_wait")
           /\ pc'[t] # "w_got"
           /\ ~(pc[t] = "w_woken" /\ pc'[t] = "refused")
  BY <1>1, <1>5, StutterStep DEF WriteCheckKill, WriteEnter, WriteAwake, WriteTest
<1> QED BY <1>2, <1>3, <1>4, <1>5

\* An unlock ends the read or the write of its thread.
LEMMA UnlockRefines ==
    ASSUME NEW t \in Threads, IInv, UnlockStep(t)
    PROVE  [Abstract!Next]_(Abstract!vars)
<1> USE DEF IInv, TypeOK, PCs, ReaderPCs, WriterPCs, ReaderBlockedPCs,
            WriterBlockedPCs, MutexPCs, LeavingPCs, Goto
<1>1. /\ OthersOnlyWake(t)
      /\ pc'[t] \in {"r_left", "w_left"}
      /\ UNCHANGED kill
      /\ pc[t] \in {"reading", "writing"}
  BY DEF UnlockStep, ReadUnlock, WriteUnlock, OthersOnlyWake
<1>2. /\ At(ReaderPCs)' = At(ReaderPCs) \ {t}
      /\ At(WriterPCs)' = At(WriterPCs) \ {t}
      /\ At(WriterBlockedPCs)' = At(WriterBlockedPCs)
      /\ t \in At(ReaderPCs) <=> pc[t] = "reading"
      /\ t \in At(WriterPCs) <=> pc[t] = "writing"
  BY <1>1, GroupsAfter DEF CountedGroups
<1>3. CASE pc[t] = "reading"
  <2>1. Abstract!EndRead(t)
    BY <1>1, <1>2, <1>3 DEF Abstract!EndRead
  <2> QED BY <2>1 DEF Abstract!Next
<1>4. CASE pc[t] = "writing"
  <2>1. At(WriterPCs) = {t}
    BY <1>2, <1>4 DEF Exclusion, At
  <2>2. Abstract!EndWrite(t)
    BY <1>1, <1>2, <1>4, <2>1 DEF Abstract!EndWrite
  <2> QED BY <2>2 DEF Abstract!Next
<1> QED BY <1>1, <1>3, <1>4

\* A signal changes no group.
LEMMA SignalRefines ==
    ASSUME NEW t \in Threads, IInv, ReadSignal(t) \/ WriteSignal(t)
    PROVE  [Abstract!Next]_(Abstract!vars)
<1>1. /\ pc[t] \in {"r_left", "w_left"}
      /\ pc'[t] = "released"
      /\ OthersOnlyWake(t)
      /\ UNCHANGED kill
  BY SignalMoves DEF IInv
<1> QED BY <1>1, StutterStep DEF ReaderPCs, WriterPCs, WriterBlockedPCs

\* A thread that falls into undefined behaviour leaves the lock, or its queue.
LEMMA OtherStepRefines ==
    ASSUME NEW t \in Threads, IInv, UninitKilled,
           MutexUnlock(t) \/ SetKill(t) \/ SpuriousWakeup(t) \/ Undefined(t)
    PROVE  [Abstract!Next]_(Abstract!vars)
<1> USE DEF IInv, TypeOK, OthersOnlyWake, PCs, OutsidePCs, ReaderPCs, WriterPCs,
            ReaderBlockedPCs, WriterBlockedPCs, MutexPCs, LeavingPCs, Goto
<1>1. CASE MutexUnlock(t) \/ SpuriousWakeup(t)
  BY <1>1, StutterStep DEF MutexUnlock, SpuriousWakeup
<1>2. CASE SetKill(t)
  <2>1. Abstract!Close
    BY <1>2 DEF SetKill, Abstract!Close, At
  <2> QED BY <2>1 DEF Abstract!Next
<1>3. CASE Undefined(t)
  <2>1. OthersOnlyWake(t) /\ pc'[t] = "undefined" /\ UNCHANGED kill /\ kill
    BY <1>3 DEF Undefined, Destroyed, UninitKilled
  <2>2. /\ At(ReaderPCs)' = At(ReaderPCs) \ {t}
        /\ At(WriterPCs)' = At(WriterPCs) \ {t}
        /\ At(WriterBlockedPCs)' = At(WriterBlockedPCs) \ {t}
        /\ t \in At(ReaderPCs) <=> pc[t] \in ReaderPCs
        /\ t \in At(WriterPCs) <=> pc[t] \in WriterPCs
        /\ t \in At(WriterBlockedPCs) <=> pc[t] \in WriterBlockedPCs
    BY <2>1, GroupsAfter DEF CountedGroups
  <2>3. CASE pc[t] \in ReaderPCs
    <3>1. Abstract!EndRead(t)
      BY <2>1, <2>2, <2>3 DEF Abstract!EndRead
    <3> QED BY <3>1 DEF Abstract!Next
  <2>4. CASE pc[t] \in WriterPCs
    <3>1. At(WriterPCs) = {t}
      BY <2>2, <2>4 DEF Exclusion, At
    <3>2. Abstract!EndWrite(t)
      BY <2>1, <2>2, <2>4, <3>1 DEF Abstract!EndWrite
    <3> QED BY <3>2 DEF Abstract!Next
  <2>5. CASE pc[t] \in WriterBlockedPCs
    <3>1. Abstract!GiveUp(t)
      BY <2>1, <2>2, <2>5 DEF Abstract!GiveUp
    <3> QED BY <3>1 DEF Abstract!Next
  <2>6. CASE pc[t] \notin ReaderPCs \cup WriterPCs \cup WriterBlockedPCs
    BY <2>2, <2>1, <2>6 DEF Abstract!vars
  <2> QED BY <2>3, <2>4, <2>5, <2>6
<1> QED BY <1>1, <1>2, <1>3

\* rwlock_uninit closes the lock and moves nobody between the groups.
LEMMA UninitRefines ==
    ASSUME IInv, Uninit
    PROVE  [Abstract!Next]_(Abstract!vars)
<1>1. \A u \in Threads :
        \/ pc'[u] = pc[u]
        \/ pc[u] = "r_wait" /\ pc'[u] = "r_woken"
        \/ pc[u] = "w_wait" /\ pc'[u] = "w_woken"
  BY DEF IInv, TypeOK, Uninit, UninitKill, UninitBroadcastW, UninitBroadcastR,
         UninitPoll, UninitDestroy, Awaken
<1>2. /\ At(ReaderPCs)' = At(ReaderPCs)
      /\ At(WriterPCs)' = At(WriterPCs)
      /\ At(WriterBlockedPCs)' = At(WriterBlockedPCs)
  BY <1>1 DEF At, ReaderPCs, WriterPCs, WriterBlockedPCs
<1>3. kill' = kill \/ kill' = TRUE
  BY DEF Uninit, UninitKill, UninitBroadcastW, UninitBroadcastR, UninitPoll,
         UninitDestroy
<1> QED BY <1>2, <1>3 DEF Abstract!vars, Abstract!Next, Abstract!Close

\* The lock of rw_lock.c is a readers-writer lock that prefers writers: every
\* behaviour of it is one of AbstractRWLock.
THEOREM Refinement == Spec => ImplementsAbstract
<1>1. Init => Abstract!Init
  BY DEF Init, Abstract!Init, At, ReaderPCs, WriterPCs, WriterBlockedPCs
<1>2. IInv /\ UninitKilled /\ [Next]_vars => [Abstract!Next]_(Abstract!vars)
  <2> SUFFICES ASSUME IInv, UninitKilled, [Next]_vars
               PROVE  [Abstract!Next]_(Abstract!vars)
    OBVIOUS
  <2>1. CASE UNCHANGED vars
    BY <2>1 DEF vars, Abstract!vars, At
  <2>2. CASE Next
    BY <2>2, ReadLockRefines, WriteLockRefines, SignalRefines, UnlockRefines,
       OtherStepRefines, UninitRefines DEF Next, LockStep
  <2> QED BY <2>1, <2>2
<1> QED BY <1>1, <1>2, Invariance, UninitKilledInv, PTL
        DEF Spec, ImplementsAbstract, Abstract!Spec

-----------------------------------------------------------------------------
(***************************************************************************)
(* No wakeup is lost.                                                      *)
(***************************************************************************)

LEMMA CountZero ==
    ASSUME NEW f, NEW S
    PROVE  Count(f, S) = 0 <=> \A u \in Threads : f[u] \notin S
<1> DEFINE F == {u \in Threads : f[u] \in S}
<1>1. IsFiniteSet(F)
  BY FS_Subset, ThreadsAssumption
<1>2. Cardinality(F) = 0 <=> F = {}
  BY <1>1, FS_EmptySet
<1> QED BY <1>2 DEF Count

\* NoLostWakeup with quantifiers over the threads.
CalledPCs == ReaderPCs \cup WriterPCs \cup {"w_woken", "w_test", "r_left", "w_left"}
WriterNearPCs == WriterPCs \cup WriterBlockedPCs \cup {"w_left"}

Awaited ==
    ~kill =>
      /\ \A t \in Threads : pc[t] = "w_wait" => \E u \in Threads : pc[u] \in CalledPCs
      /\ \A t \in Threads : pc[t] = "r_wait" =>
            \E u \in Threads : pc[u] \in WriterNearPCs

LEMMA AwaitedIsNoLostWakeup == Awaited <=> NoLostWakeup
BY DEF Awaited, NoLostWakeup, CalledPCs, WriterNearPCs, At

\* A reader goes to sleep behind a writer.
LEMMA ReadLockAwaited ==
    ASSUME NEW t \in Threads, IInv, Awaited,
           ReadCheckKill(t) \/ ReadEnter(t) \/ ReadAwake(t) \/ ReadTest(t)
    PROVE  Awaited'
<1> USE DEF IInv, TypeOK, PCs, ReaderPCs, WriterPCs, ReaderBlockedPCs,
            WriterBlockedPCs, CalledPCs, WriterNearPCs, Goto
<1> SUFFICES ASSUME ~kill PROVE Awaited'
  BY DEF Awaited, ReadCheckKill, ReadEnter, ReadAwake, ReadTest
<1>1. \A u \in Threads \ {t} : pc'[u] = pc[u]
  BY DEF ReadCheckKill, ReadEnter, ReadAwake, ReadTest
<1>2. pc[t] \notin CalledPCs \cup WriterNearPCs
      /\ pc'[t] # "w_wait"
  BY DEF ReadCheckKill, ReadEnter, ReadAwake, ReadTest
<1>3. ASSUME pc'[t] = "r_wait"
      PROVE  \E u \in Threads : pc[u] \in WriterNearPCs
  <2>1. ReadBlocked /\ ~Destroyed
    BY <1>3 DEF ReadCheckKill, ReadEnter, ReadAwake, ReadTest, Acquire
  <2>2. Count(pc, WriterPCs) # 0 \/ Count(pc, WriterBlockedPCs) # 0
    BY <2>1 DEF ReadBlocked, CountersCounted
  <2> QED BY <2>2, CountZero
<1> QED BY <1>1, <1>2, <1>3 DEF Awaited

\* A writer goes to sleep behind a holder.
LEMMA WriteLockAwaited ==
    ASSUME NEW t \in Threads, IInv, Awaited,
           WriteCheckKill(t) \/ WriteEnter(t) \/ WriteAwake(t) \/ WriteTest(t)
    PROVE  Awaited'
<1> USE DEF IInv, TypeOK, PCs, ReaderPCs, WriterPCs, ReaderBlockedPCs,
            WriterBlockedPCs, CalledPCs, WriterNearPCs, Goto
<1> SUFFICES ASSUME ~kill PROVE Awaited'
  BY DEF Awaited, WriteCheckKill, WriteEnter, WriteAwake, WriteTest
<1>1. \A u \in Threads \ {t} : pc'[u] = pc[u]
  BY DEF WriteCheckKill, WriteEnter, WriteAwake, WriteTest
<1>2. /\ pc'[t] # "r_wait"
      /\ pc[t] \in WriterNearPCs => pc'[t] \in WriterNearPCs
  BY DEF WriteCheckKill, WriteEnter, WriteAwake, WriteTest
<1>3. CASE pc'[t] = "w_wait"
  <2>1. WriteBlocked /\ ~Destroyed /\ pc[t] \in {"w_lock", "w_test"}
    BY <1>3 DEF WriteCheckKill, WriteEnter, WriteAwake, WriteTest, Acquire
  <2>2. Count(pc, WriterPCs) # 0 \/ Count(pc, ReaderPCs) # 0
    BY <2>1 DEF WriteBlocked, CountersCounted
  <2>3. PICK u \in Threads : pc[u] \in ReaderPCs \cup WriterPCs
    BY <2>2, CountZero
  <2>4. u # t
    BY <2>1, <2>3
  <2>5. pc'[u] \in CalledPCs
    BY <1>1, <2>3, <2>4
  <2> QED BY <1>1, <1>2, <2>5 DEF Awaited
<1>4. CASE pc'[t] # "w_wait"
  <2>1. pc[t] \in CalledPCs => pc'[t] \in CalledPCs
    BY <1>4 DEF WriteCheckKill, WriteEnter, WriteAwake, WriteTest
  <2> QED BY <1>1, <1>2, <1>4, <2>1 DEF Awaited
<1> QED BY <1>3, <1>4

\* A holder that was counted out has yet to signal.
LEMMA UnlockAwaited ==
    ASSUME NEW t \in Threads, IInv, Awaited, UnlockStep(t)
    PROVE  Awaited'
BY DEF UnlockStep, ReadUnlock, WriteUnlock, Awaited, IInv, TypeOK, CalledPCs,
       WriterNearPCs, ReaderPCs, WriterPCs, WriterBlockedPCs, Goto

\* The last reader to leave calls a writer, if one sleeps.
LEMMA ReadSignalAwaited ==
    ASSUME NEW t \in Threads, IInv, Awaited, ReadSignal(t)
    PROVE  Awaited'
<1> USE DEF IInv, TypeOK, PCs, ReaderPCs, WriterPCs, ReaderBlockedPCs,
            WriterBlockedPCs, MutexPCs, LeavingPCs, CalledPCs, WriterNearPCs, Goto
<1> SUFFICES ASSUME ~kill PROVE Awaited'
  BY DEF Awaited, ReadSignal
<1>1. OthersOnlyWake(t) /\ pc'[t] = "released" /\ pc[t] = "r_left" /\ ~Destroyed
  BY SignalMoves DEF ReadSignal
<1>2. \A u \in Threads : pc'[u] = "r_wait" =>
         \E v \in Threads : pc'[v] \in WriterNearPCs
  BY <1>1 DEF Awaited, OthersOnlyWake
<1>3. ASSUME NEW u \in Threads, pc'[u] = "w_wait"
      PROVE  \E v \in Threads : pc'[v] \in CalledPCs
  <2>1. pc[u] = "w_wait" /\ u # t
    BY <1>1, <1>3 DEF OthersOnlyWake
  <2>2. writers_waiting > 0
    <3>1. Count(pc, WriterBlockedPCs) # 0
      BY <2>1, CountZero
    <3> QED BY <3>1, <1>1 DEF CountersCounted
  <2>3. CASE readers = 0
    <3>1. SignalWriter(t, "released")
      BY <2>2, <2>3 DEF ReadSignal
    <3> QED BY <3>1, <2>1 DEF SignalWriter, At
  <2>4. CASE readers # 0
    <3>1. Count(pc, ReaderPCs) # 0
      BY <1>1, <2>4 DEF CountersCounted
    <3>2. PICK v \in Threads : pc[v] \in ReaderPCs
      BY <3>1, CountZero
    <3>3. pc'[v] \in ReaderPCs
      BY <1>1, <3>2 DEF OthersOnlyWake
    <3> QED BY <3>3
  <2> QED BY <2>3, <2>4
<1> QED BY <1>2, <1>3 DEF Awaited

\* A writer that leaves calls a writer, or all the readers when none waits.
LEMMA WriteSignalAwaited ==
    ASSUME NEW t \in Threads, IInv, Awaited, WriteSignal(t)
    PROVE  Awaited'
<1> USE DEF IInv, TypeOK, PCs, ReaderPCs, WriterPCs, ReaderBlockedPCs,
            WriterBlockedPCs, MutexPCs, LeavingPCs, CalledPCs, WriterNearPCs, Goto
<1> SUFFICES ASSUME ~kill PROVE Awaited'
  BY DEF Awaited, WriteSignal
<1>1. pc[t] = "w_left" /\ ~Destroyed
  BY DEF WriteSignal
<1>2. CASE writers_waiting > 0
  <2>1. SignalWriter(t, "released")
    BY <1>2 DEF WriteSignal
  <2>2. OthersOnlyWake(t)
    BY <1>1, <2>1, SignalStep
  <2>3. PICK w \in Threads : pc[w] \in WriterBlockedPCs
    <3>1. Count(pc, WriterBlockedPCs) # 0
      BY <1>1, <1>2 DEF CountersCounted
    <3> QED BY <3>1, CountZero
  <2>4. w # t /\ pc'[w] \in WriterBlockedPCs
    BY <1>1, <2>2, <2>3 DEF OthersOnlyWake
  <2>5. ASSUME NEW u \in Threads, pc'[u] = "w_wait"
        PROVE  \E v \in Threads : pc'[v] \in CalledPCs
    <3>1. pc[u] = "w_wait"
      BY <2>1, <2>5, <1>1 DEF SignalWriter, At
    <3> QED BY <2>1, <3>1, <1>1 DEF SignalWriter, At
  <2> QED BY <2>4, <2>5 DEF Awaited
<1>3. CASE writers_waiting = 0
  <2>1. \A u \in Threads : pc[u] \notin WriterBlockedPCs
    BY <1>1, <1>3, CountZero DEF CountersCounted
  <2>2. readers_waiting = 0 => \A u \in Threads : pc[u] \notin ReaderBlockedPCs
    BY <1>1, CountZero DEF CountersCounted
  <2>3. \A u \in Threads : pc'[u] \notin {"w_wait", "r_wait"}
    <3>1. CASE readers_waiting > 0
      <4>1. pc' = [[u \in Threads |-> IF pc[u] = "r_wait" THEN "r_woken" ELSE pc[u]]
                      EXCEPT ![t] = "released"]
        BY <1>3, <3>1 DEF WriteSignal, Awaken
      <4> QED BY <4>1, <2>1
    <3>2. CASE readers_waiting = 0
      <4>1. pc' = [pc EXCEPT ![t] = "released"]
        BY <1>3, <3>2 DEF WriteSignal
      <4> QED BY <4>1, <2>1, <2>2, <3>2
    <3>3. readers_waiting > 0 \/ readers_waiting = 0
      OBVIOUS
    <3> QED BY <3>1, <3>2, <3>3
  <2> QED BY <2>3 DEF Awaited
<1>4. writers_waiting > 0 \/ writers_waiting = 0
  OBVIOUS
<1> QED BY <1>2, <1>3, <1>4

\* Nobody sleeps in vain while the lock is not killed: a sleeping writer has a
\* holder or a woken writer before it, a sleeping reader a writer.
THEOREM NoLostWakeupCorrect == Spec => []NoLostWakeup
<1>1. Init => Awaited
  BY DEF Init, Awaited
<1>2. IInv /\ UninitKilled /\ Awaited /\ [Next]_vars => Awaited'
  <2> SUFFICES ASSUME IInv, UninitKilled, Awaited, [Next]_vars
               PROVE  Awaited'
    OBVIOUS
  <2>1. ASSUME NEW t \in Threads, MutexUnlock(t) \/ SetKill(t)
                                  \/ SpuriousWakeup(t) \/ Undefined(t)
        PROVE  Awaited'
    BY <2>1 DEF Awaited, MutexUnlock, SetKill, SpuriousWakeup, Undefined, Goto,
                IInv, TypeOK, UninitKilled, Destroyed, CalledPCs, WriterNearPCs,
                ReaderPCs, WriterPCs, WriterBlockedPCs
  <2>2. CASE Uninit
    BY <2>2 DEF Awaited, UninitKilled, Uninit, UninitKill, UninitBroadcastW,
                UninitBroadcastR, UninitPoll, UninitDestroy
  <2>3. CASE UNCHANGED vars
    BY <2>3 DEF vars, Awaited
  <2> QED BY <2>1, <2>2, <2>3, ReadLockAwaited, WriteLockAwaited,
             ReadSignalAwaited, WriteSignalAwaited, UnlockAwaited
          DEF Next, LockStep
<1>3. Spec => []Awaited
  BY <1>1, <1>2, Invariance, UninitKilledInv, PTL DEF Spec
<1> QED BY <1>3, AwaitedIsNoLostWakeup, PTL

-----------------------------------------------------------------------------
(***************************************************************************)
(* rwlock_uninit waits for those it found.                                 *)
(***************************************************************************)

\* Whom each counter counts.
Counted(name) ==
    CASE name = "readers" -> ReaderPCs
      [] name = "writers" -> WriterPCs
      [] name = "readers_waiting" -> ReaderBlockedPCs
      [] name = "writers_waiting" -> WriterBlockedPCs

\* Where uninit finds a thread that it has to wait for.
FoundPCs == ReaderPCs \cup WriterPCs \cup {"r_wait", "r_woken", "w_wait", "w_woken"}

\* A thread that was found and has not left yet is in no group whose counter was read as zero;
\* once the lock is destroyed it is counted nowhere, so that it owns the mutex.
Draining ==
    /\ upc = "before" => found = {}
    /\ upc # "before" => kill
    /\ ~Destroyed => \A t \in found : pc[t] \in FoundPCs \cup LeavingPCs
    /\ upc = "poll" =>
         \A t \in found : \A name \in CounterNames \ unread : pc[t] \notin Counted(name)
    /\ Destroyed => \A t \in found : mutex = t /\ pc[t] \in LeavingPCs \cup {"undefined"}

\* A step of one thread: whom was found stays in its group, or is counted out for good, as a
\* killed lock lets no waiter in.
LEMMA ThreadDrains ==
    ASSUME IInv, Draining, ~Destroyed, UNCHANGED uninit, kill' = kill \/ kill', found' \subseteq found,
           \A t \in found' : \/ pc'[t] = pc[t]
                             \/ {pc[t], pc'[t]} \subseteq ReaderPCs
                             \/ {pc[t], pc'[t]} \subseteq WriterPCs
                             \/ {pc[t], pc'[t]} \subseteq {"r_wait", "r_woken"}
                             \/ {pc[t], pc'[t]} \subseteq {"w_wait", "w_woken"}
                             \/ pc'[t] \in LeavingPCs
    PROVE  Draining'
<1>1. \A t \in found' : pc'[t] \in FoundPCs \cup LeavingPCs
  BY DEF Draining, FoundPCs
<1>2. \A t \in found' : \A name \in CounterNames :
         pc'[t] \in Counted(name) => pc[t] \in Counted(name)
  BY DEF Counted, CounterNames, ReaderPCs, WriterPCs, ReaderBlockedPCs, WriterBlockedPCs,
         LeavingPCs
<1>3. found = {} => found' = {}
  OBVIOUS
<1> QED BY <1>1, <1>2, <1>3 DEF Draining, uninit, Destroyed

\* The threads that a step of t wakes stay in their groups.
LEMMA StepDrains ==
    ASSUME IInv, Draining, ~Destroyed, NEW t \in Threads, UNCHANGED <<uninit, kill>>,
           OthersOnlyWake(t),
           \/ found' = found \ {t}
           \/ found' = found /\ pc[t] \notin FoundPCs \cup LeavingPCs
           \/ found' = found /\ pc'[t] \in LeavingPCs
           \/ found' = found /\ pc[t] = "r_got" /\ pc'[t] = "reading"
           \/ found' = found /\ pc[t] = "w_got" /\ pc'[t] = "writing"
           \/ found' = found /\ pc[t] = "r_wait" /\ pc'[t] = "r_woken"
           \/ found' = found /\ pc[t] = "w_wait" /\ pc'[t] = "w_woken"
    PROVE  Draining'
<1>1. found \subseteq Threads /\ \A u \in found : pc[u] \in FoundPCs \cup LeavingPCs
  BY DEF IInv, TypeOK, Draining
<1> QED BY <1>1, ThreadDrains DEF OthersOnlyWake, ReaderPCs, WriterPCs

LEMMA LockDrains ==
    ASSUME IInv, Draining, ~Destroyed, NEW t \in Threads,
           ReadCheckKill(t) \/ WriteCheckKill(t) \/ LockStep(t) \/ SpuriousWakeup(t)
    PROVE  Draining'
<1>1. CASE \/ ReadCheckKill(t) \/ WriteCheckKill(t) \/ ReadEnter(t) \/ ReadTest(t)
           \/ WriteEnter(t) \/ WriteTest(t)
  <2>1. /\ UNCHANGED <<uninit, kill>> /\ OthersOnlyWake(t) /\ found' = found
        /\ pc[t] \in {"idle", "r_lock", "r_test", "w_lock", "w_test"}
    BY <1>1 DEF ReadCheckKill, ReadEnter, ReadTest, WriteCheckKill, WriteEnter, WriteTest, Goto,
                OthersOnlyWake, IInv, TypeOK
  <2> QED BY <2>1, StepDrains DEF FoundPCs, LeavingPCs, ReaderPCs, WriterPCs
<1>2. CASE ReadAwake(t) \/ WriteAwake(t)
  <2>1. /\ UNCHANGED <<uninit, kill>> /\ OthersOnlyWake(t) /\ found' = found
        /\ kill => pc'[t] = "refused"
    BY <1>2 DEF ReadAwake, WriteAwake, Goto, OthersOnlyWake, IInv, TypeOK
  <2>2. CASE kill
    BY <2>1, <2>2, StepDrains DEF LeavingPCs
  <2>3. CASE ~kill
    <3>1. found = {} /\ found' = found \ {t}
      BY <2>1, <2>3 DEF Draining
    <3> QED BY <2>1, <3>1, StepDrains
  <2> QED BY <2>2, <2>3
<1>3. CASE ReadSignal(t) \/ WriteSignal(t)
  <2>1. /\ UNCHANGED <<uninit, kill>> /\ OthersOnlyWake(t) /\ found' = found
        /\ pc'[t] = "released"
    BY <1>3, SignalMoves DEF IInv
  <2> QED BY <2>1, StepDrains DEF LeavingPCs
<1>4. CASE MutexUnlock(t)
  <2>1. /\ UNCHANGED <<uninit, kill>> /\ OthersOnlyWake(t)
        /\ \/ found' = found /\ pc[t] = "r_got" /\ pc'[t] = "reading"
           \/ found' = found /\ pc[t] = "w_got" /\ pc'[t] = "writing"
           \/ found' = found \ {t}
    BY <1>4 DEF MutexUnlock, Goto, OthersOnlyWake, IInv, TypeOK
  <2> QED BY <2>1, StepDrains
<1>5. CASE SpuriousWakeup(t)
  <2>1. /\ UNCHANGED <<uninit, kill>> /\ OthersOnlyWake(t) /\ found' = found
        /\ \/ pc[t] = "r_wait" /\ pc'[t] = "r_woken"
           \/ pc[t] = "w_wait" /\ pc'[t] = "w_woken"
    BY <1>5 DEF SpuriousWakeup, Goto, OthersOnlyWake, IInv, TypeOK
  <2> QED BY <2>1, StepDrains
<1> QED BY <1>1, <1>2, <1>3, <1>4, <1>5 DEF LockStep

LEMMA UnlockDrains ==
    ASSUME IInv, Draining, ~Destroyed, NEW t \in Threads, UnlockStep(t)
    PROVE  Draining'
<1>1. /\ UNCHANGED <<uninit, kill>> /\ OthersOnlyWake(t) /\ found' = found
      /\ pc'[t] \in {"r_left", "w_left"}
  BY DEF UnlockStep, ReadUnlock, WriteUnlock, Goto, OthersOnlyWake, IInv, TypeOK
<1> QED BY <1>1, StepDrains DEF LeavingPCs

\* The mutex of a destroyed lock changes hands no more.
LEMMA DestroyedDrains ==
    ASSUME IInv, Draining, Destroyed, [Next]_vars
    PROVE  Draining'
<1>1. /\ UNCHANGED <<uninit, mutex, found>> /\ kill'
      /\ \A u \in Threads : pc'[u] = pc[u] \/ pc'[u] = "undefined"
  BY DEF Draining, Destroyed, Next, vars, uninit, LockStep, UnlockStep, ReadCheckKill, ReadEnter,
         ReadAwake, ReadTest, WriteCheckKill, WriteEnter, WriteAwake, WriteTest, ReadSignal,
         WriteSignal, MutexUnlock, ReadUnlock, WriteUnlock, SetKill, SpuriousWakeup, Undefined,
         Acquire, Uninit, UninitKill, UninitBroadcastW, UninitBroadcastR, UninitPoll,
         UninitDestroy, Goto, IInv, TypeOK
<1>2. found \subseteq Threads
  BY DEF IInv, TypeOK
<1> QED BY <1>1, <1>2 DEF Draining, Destroyed, uninit

\* A counter that is read as zero counts nobody at that moment.
LEMMA PollDrains ==
    ASSUME IInv, Draining, NEW name \in CounterNames, UninitPoll(name)
    PROVE  Draining'
<1>1. upc = "poll" /\ UNCHANGED <<pc, kill, found>> /\ kill
  BY DEF UninitPoll, Draining
<1>2. CASE upc' = "broadcast_w"
  BY <1>1, <1>2 DEF Draining, Destroyed
<1>3. CASE Counter(name) <= 0 /\ unread' = unread \ {name} /\ UNCHANGED upc
  <2>1. Counter(name) = Count(pc, Counted(name)) /\ Counter(name) \in Nat
    BY <1>1 DEF IInv, TypeOK, CountersCounted, Destroyed, Counter, Counted, CounterNames
  <2>2. \A t \in Threads : pc[t] \notin Counted(name)
    BY <1>3, <2>1, CountZero
  <2>3. found \subseteq Threads
    BY DEF IInv, TypeOK
  <2> QED BY <1>1, <1>3, <2>2, <2>3 DEF Draining, Destroyed
<1> QED BY <1>2, <1>3 DEF UninitPoll

LEMMA UninitStepDrains ==
    ASSUME IInv, Draining, Uninit
    PROVE  Draining'
<1>1. CASE UninitKill
  BY <1>1 DEF UninitKill, Draining, Destroyed, At, FoundPCs
<1>2. CASE UninitBroadcastW \/ UninitBroadcastR
  <2>1. /\ kill /\ kill' = kill /\ found' = found /\ ~Destroyed
        /\ upc' \in {"broadcast_r", "poll"} /\ (upc' = "poll" => unread' = CounterNames)
    BY <1>2 DEF UninitBroadcastW, UninitBroadcastR, Draining, Destroyed
  <2>2. \A t \in found : pc'[t] \in FoundPCs \cup LeavingPCs
    BY <1>2, <2>1 DEF UninitBroadcastW, UninitBroadcastR, Awaken, Draining, FoundPCs, LeavingPCs,
                      IInv, TypeOK
  <2> QED BY <2>1, <2>2 DEF Draining, Destroyed
<1>3. CASE \E name \in CounterNames : UninitPoll(name)
  BY <1>3, PollDrains
<1>4. CASE UninitDestroy
  <2>1. \A t \in found : \A name \in CounterNames : pc[t] \notin Counted(name)
    BY <1>4 DEF UninitDestroy, Draining
  <2>2. \A t \in found : pc[t] \in FoundPCs =>
           \E name \in CounterNames : pc[t] \in Counted(name)
    BY DEF FoundPCs, Counted, CounterNames, ReaderPCs, WriterPCs, ReaderBlockedPCs,
           WriterBlockedPCs
  <2>3. \A t \in found : pc[t] \in LeavingPCs
    BY <1>4, <2>1, <2>2 DEF UninitDestroy, Destroyed, Draining
  <2>4. \A t \in found : mutex = t
    BY <2>3 DEF IInv, TypeOK, MutexOwner, MutexPCs
  <2> QED BY <1>4, <2>3, <2>4 DEF UninitDestroy, Draining, Destroyed
<1> QED BY <1>1, <1>2, <1>3, <1>4 DEF Uninit

\* When rwlock_uninit destroys the mutex, every thread that it found holding the lock or asleep
\* in it has been counted out, though the counters are read one at a time and without the mutex:
\* a thread that was found leaves its group for none of the others.  At most one of them is
\* still inside, as its owner, and it may yet signal and unlock what is destroyed.
THEOREM DrainsCorrect == Spec => []UninitDrains
<1>1. Init => Draining
  BY DEF Init, Draining, Destroyed
<1>2. IInv /\ Draining /\ [Next]_vars => Draining'
  <2> SUFFICES ASSUME IInv, Draining, [Next]_vars, ~Destroyed PROVE Draining'
    BY DestroyedDrains
  <2>1. ASSUME NEW t \in Threads, SetKill(t)
        PROVE  Draining'
    BY <2>1, ThreadDrains DEF SetKill
  <2>2. CASE UNCHANGED vars
    BY <2>2, ThreadDrains DEF vars
  <2>3. \A t \in Threads : ~Undefined(t)
    BY DEF Undefined
  <2> QED BY <2>1, <2>2, <2>3, LockDrains, UnlockDrains, UninitStepDrains DEF Next
<1>3. Draining => UninitDrains
  BY DEF Draining, UninitDrains
<1> QED BY <1>1, <1>2, <1>3, Invariance, PTL DEF Spec

=============================================================================
