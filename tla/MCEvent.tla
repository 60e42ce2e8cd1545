------------------------------- MODULE MCEvent -------------------------------
(* Model checking Event.  Its properties are safety properties that treat the *)
(* threads alike, and the observers.                                          *)
EXTENDS Event, TLC

Symmetry == Permutations(Threads \ Senders) \cup Permutations(Observers)

=============================================================================
