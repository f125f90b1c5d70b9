--------------------------- MODULE MC_ActorRuntime ---------------------------
(* Instances of the actor runtime: which threads spawn, which call          *)
(* exit_with, and what the fields of a module hold that nothing was stored  *)
(* to, is chosen in the configurations.                                     *)
EXTENDS ActorRuntime

CONSTANTS a1, a2, main

MCActors == {a1, a2}
OnlyMain == {main}
Everyone == MCActors \cup {main}
OneActor == {a1}
Nobody   == {}

Zeroed        == {FALSE}
Uninitialised == BOOLEAN

AsIfSet     == {0}
MainOnStack == {0, 1}
=============================================================================
