----------------------------- MODULE MCLinkArray -----------------------------
(* Model checking LinkArray.  Its properties are safety properties that      *)
(* treat the items alike, so permuting them is a symmetry.                   *)
EXTENDS LinkArray, TLC

ItemSymmetry == Permutations(Elements)

=============================================================================
