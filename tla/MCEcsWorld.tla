---------------------------- MODULE MCEcsWorld -----------------------------
(* Model checking EcsWorld with two systems, one of which requires a type    *)
(* that both require.  No symmetry, as new handles are chosen, and Main is   *)
(* not like the other threads.                                               *)
EXTENDS EcsWorld

CONSTANTS physics, health, body, life

TheSystems == <<physics, health>>

TheRequired == [s \in {physics, health} |-> IF s = physics THEN {body} ELSE {body, life}]

\* Three commands in a program of one thread, one in a program of two.
TheCommandsBound == <<3, 1>>

=============================================================================
