------------------------------ MODULE MCRWLock ------------------------------
(* Model checking RWLock.  Threads are model values: no symmetry, as the run *)
(* also checks liveness.                                                     *)
EXTENDS RWLock

=============================================================================
