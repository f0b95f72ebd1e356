SPECIFICATION Spec
CONSTANTS
  NULL = NULL
  System = System
  Callers = {c1, c2}
  Operators = {o1}
  Args = {a1, a2}
  Hooks = {A}
  Types = {1}
  InitialHookSize = 1
  MaxHooks = 2
  PauseSufficient = TRUE
INVARIANTS PrologueOnLiveArgument CloneComplete ChainOfLive
  LockWordAccounted
SYMMETRY ThreadsAndArgs
CHECK_DEADLOCK FALSE
