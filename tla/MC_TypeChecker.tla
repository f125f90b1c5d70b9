--------------------------- MODULE MC_TypeChecker ---------------------------
(* Programs with two variables and the native that reads a mutable.         *)
EXTENDS TypeChecker, TLC

MCNatives == "v" :> Forall({"A"}, Fun(<<Mutable(Quantified("A"))>>, Quantified("A")))
=============================================================================
