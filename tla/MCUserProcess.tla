--------------------------- MODULE MCUserProcess ----------------------------
EXTENDS UserProcess, TLC
CONSTANTS t1, t2
SomeCalls == (t1 :> 2) @@ (t2 :> 1)
SomeWork ==
  (t1 :> {"redirect", "server", "read", "shared", "stub"}) @@ (t2 :> {"shared", "protected", "stream", "aligned", "stub"})
=============================================================================
