-------------------------- MODULE MCHookInitialize --------------------------
EXTENDS HookInitialize, TLC
CONSTANTS p1, p2, t1, t2, t3, v1, v2
TwoAndOne == t1 :> p1 @@ t2 :> p1 @@ t3 :> p2
Hooks ==
  t1 :> {"create"} @@ t2 :> {"create"} @@ t3 :> {"create", "last", "get", "set", "delete"}
SameProgram == Permutations({t1, t2})
Table ==
  <<[name |-> "malloc", value |-> v1], [name |-> "Giant", value |-> v2], [name |-> "last", value |-> v1]>>
=============================================================================
