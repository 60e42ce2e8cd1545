--------------------------- MODULE AbstractRWLock ---------------------------
(***************************************************************************)
(* What a readers-writer lock with writer priority promises to its         *)
(* clients, with no mutex, counter or condition variable: who reads, who   *)
(* writes, which writers are queued, and whether the lock was closed       *)
(* (rwlock_set_kill, rwlock_uninit).  RWLock implements it.                *)
(***************************************************************************)

CONSTANT Threads

VARIABLES
    reading,   \* the threads that hold the lock for reading
    writing,   \* the threads that hold it for writing, at most one
    queued,    \* the writers that found the lock held and wait for it
    closed     \* nobody who waits is let in for certain any more

vars == <<reading, writing, queued, closed>>

Init ==
    /\ reading = {}
    /\ writing = {}
    /\ queued = {}
    /\ closed = FALSE

\* A reader is let in only past an empty queue: writers come first.
BeginRead(t) ==
    /\ t \notin reading
    /\ writing = {}
    /\ queued = {}
    /\ reading' = reading \cup {t}
    /\ UNCHANGED <<writing, queued, closed>>

EndRead(t) ==
    /\ t \in reading
    /\ reading' = reading \ {t}
    /\ UNCHANGED <<writing, queued, closed>>

\* A writer queues only behind a holder.
Queue(t) ==
    /\ reading \cup writing # {}
    /\ t \notin queued \cup reading \cup writing
    /\ queued' = queued \cup {t}
    /\ UNCHANGED <<reading, writing, closed>>

\* A writer that was queued, or one that arrives at a free lock.
BeginWrite(t) ==
    /\ reading = {}
    /\ writing = {}
    /\ writing' = {t}
    /\ queued' = queued \ {t}
    /\ UNCHANGED <<reading, closed>>

EndWrite(t) ==
    /\ t \in writing
    /\ writing' = {}
    /\ UNCHANGED <<reading, queued, closed>>

Close ==
    /\ closed' = TRUE
    /\ UNCHANGED <<reading, writing, queued>>

\* A queued writer gives up, which only a closed lock lets it do.
GiveUp(t) ==
    /\ closed
    /\ t \in queued
    /\ queued' = queued \ {t}
    /\ UNCHANGED <<reading, writing, closed>>

Next ==
    \/ Close
    \/ \E t \in Threads :
          \/ BeginRead(t) \/ EndRead(t)
          \/ Queue(t) \/ BeginWrite(t) \/ EndWrite(t)
          \/ GiveUp(t)

Spec == Init /\ [][Next]_vars

=============================================================================
