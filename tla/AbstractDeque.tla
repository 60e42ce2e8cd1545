---------------------------- MODULE AbstractDeque ----------------------------
(***************************************************************************)
(* What core/link_array.c promises: a sequence that grows at both ends and *)
(* shrinks anywhere.                                                       *)
(***************************************************************************)
EXTENDS SequencesExt

CONSTANT Items

VARIABLE contents

Init == contents = <<>>

PushFront(item) == contents' = <<item>> \o contents
PushBack(item) == contents' = Append(contents, item)

PopAt(i) == i \in DOMAIN contents /\ contents' = RemoveAt(contents, i)

Clear == contents' = <<>>

Next ==
    \/ \E item \in Items : PushFront(item) \/ PushBack(item)
    \/ \E i \in DOMAIN contents : PopAt(i)
    \/ Clear

Spec == Init /\ [][Next]_contents

=============================================================================
