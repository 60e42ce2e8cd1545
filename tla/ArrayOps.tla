------------------------------ MODULE ArrayOps ------------------------------
(***************************************************************************)
(* core/array.c: the items of an Array as a sequence, and the functions    *)
(* that others of the modelled parts call.  Positions count from 1, and 0  *)
(* stands for the code's -1.                                               *)
(***************************************************************************)
EXTENDS Integers, Sequences

\* array_find: the first item that the comparison accepts.
ArrayFind(array, item) ==
    IF \A i \in DOMAIN array : array[i] # item THEN 0
    ELSE CHOOSE i \in DOMAIN array :
           array[i] = item /\ \A j \in 1 .. (i - 1) : array[j] # item

\* array_remove_at: the last item takes the place.
ArrayRemoveAt(array, i) ==
    SubSeq([array EXCEPT ![i] = array[Len(array)]], 1, Len(array) - 1)

\* array_find_and_remove.
ArrayFindAndRemove(array, item) ==
    IF ArrayFind(array, item) = 0 THEN array
    ELSE ArrayRemoveAt(array, ArrayFind(array, item))

=============================================================================
