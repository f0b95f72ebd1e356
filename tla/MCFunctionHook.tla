--------------------------- MODULE MCFunctionHook ---------------------------
(* Hook types for the instances of FunctionHook, and the symmetry of       *)
(* arguments: they are told apart only by being allocated once.            *)
EXTENDS FunctionHook, TLC

PreAndPost == {-1, 2}

ArgSymmetry == Permutations(Args)
=============================================================================
