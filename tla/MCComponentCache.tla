-------------------------- MODULE MCComponentCache ---------------------------
(* Model checking ComponentCache. *)
EXTENDS ComponentCache

=============================================================================
