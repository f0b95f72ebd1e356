-------------------------- MODULE MCSystemCallHook --------------------------
(* The symmetry of the instances of SystemCallHook: callers are told apart *)
(* by nothing, arguments by being allocated once.                          *)
EXTENDS SystemCallHook, TLC

ThreadsAndArgs == Permutations(Callers) \cup Permutations(Args)
=============================================================================
