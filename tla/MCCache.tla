------------------------------ MODULE MCCache -------------------------------
(* Model checking Cache.  Its properties are safety properties that treat    *)
(* the items alike, so permuting them is a symmetry.                         *)
EXTENDS Cache, TLC

ItemSymmetry == Permutations(Items)

=============================================================================
