---------------------------- MODULE MC_CallStack ----------------------------
(* A program with one function of two locals, one of them its argument, a   *)
(* handler with an argument, and an event with one handler.                 *)
EXTENDS CallStack

CONSTANTS top, f, h, e

MCArity      == [b \in {f, h} |-> 1]
MCLocalSpace == [b \in {f, h} |-> IF b = f THEN 2 ELSE 1]
MCOns        == [b \in {e} |-> 1]

(* The spawn is the second instruction of the body.                         *)
SpawnAtTop       == {[body |-> top, point |-> 1]}
SpawnInFunction  == {[body |-> f, point |-> 1]}
=============================================================================
