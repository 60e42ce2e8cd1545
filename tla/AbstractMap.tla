---------------------------- MODULE AbstractMap -----------------------------
(***************************************************************************)
(* What core/cache_map.c promises: a map from hashed keys to items, in     *)
(* which adding under a key that is there replaces its item.               *)
(***************************************************************************)
EXTENDS Functions

CONSTANTS Keys, Items

VARIABLE content    \* the item of each key that is there

Init == content = <<>>

With(f, k, item) == [l \in DOMAIN f \cup {k} |-> IF l = k THEN item ELSE f[l]]

Put(k, item) == content' = With(content, k, item)

Delete(k) == content' = Restrict(content, DOMAIN content \ {k})

Clear == content' = <<>>

Next ==
    \/ \E k \in Keys, item \in Items : Put(k, item)
    \/ \E k \in Keys : Delete(k)
    \/ Clear

Spec == Init /\ [][Next]_content

=============================================================================
