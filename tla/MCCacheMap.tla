----------------------------- MODULE MCCacheMap ------------------------------
(* Model checking CacheMap: the hash that marks unused entries, one key of   *)
(* a bucket of its own, and keys that come apart at eight or sixteen.         *)
(* Its properties are safety properties that treat the items alike, so       *)
(* permuting them is a symmetry.                                             *)
EXTENDS CacheMap, TLC

SomeKeys == {-1, 0, 7, 11, 15, 23}

ItemSymmetry == Permutations(Items)

=============================================================================
