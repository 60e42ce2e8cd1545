-------------------------- MODULE AbstractSlotMap ---------------------------
(***************************************************************************)
(* What core/cache.c promises: a map from handles to items, whose new      *)
(* handles are never ones in use, and which changes one handle at a time   *)
(* until it is freed.                                                      *)
(***************************************************************************)
EXTENDS Functions

CONSTANTS Handles, Items

VARIABLE live       \* the item each handle in use stands for

Init == live \in [{} -> Items]

Add(item) ==
    \E h \in Handles \ DOMAIN live :
      live' = [g \in DOMAIN live \cup {h} |-> IF g = h THEN item ELSE live[g]]

Remove(h) == live' = Restrict(live, DOMAIN live \ {h})

Free == live' \in [{} -> Items]

Next ==
    \/ \E item \in Items : Add(item)
    \/ \E h \in Handles : Remove(h)
    \/ Free

Spec == Init /\ [][Next]_live

=============================================================================
