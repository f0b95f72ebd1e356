SPECIFICATION Spec
CONSTANTS
  Threads = {t1, t2}
  Processors = {p1, p2}
  t1 = t1
  t2 = t2
  Nowhere = Nowhere
  PatchesOf <- SomePatches
  Original <- Code
INVARIANTS OpenAccounted FaultExplained CodeExecutable
  WholeUnlessLocked PatchExact
SYMMETRY Symmetry
CHECK_DEADLOCK FALSE
