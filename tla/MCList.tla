------------------------------- MODULE MCList -------------------------------
(* Model checking List: two lists, and items of which two are equal to the   *)
(* comparators.                                                              *)
EXTENDS List

MCKey(item) == item \div 2

=============================================================================
