----------------------------- MODULE MCTasking ------------------------------
(* Model checking Tasking. *)
EXTENDS Tasking

=============================================================================
