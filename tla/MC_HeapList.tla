----------------------------- MODULE MC_HeapList -----------------------------
(* Two objects that come and go; with a first limit of one a collection     *)
(* happens at every second allocation or so.                                *)
EXTENDS HeapList, TLC

CONSTANTS m1, m2, o1, o2

TwoModules == {m1, m2}

TwoObjects == {o1, o2}

Symmetric == Permutations(Objects) \cup Permutations(Modules)

(* Where the properties say something: there is no need to go on behind.    *)
Orderly == ~exposed /\ ~cut
=============================================================================
