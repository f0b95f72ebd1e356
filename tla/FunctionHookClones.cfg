SPECIFICATION Spec
CONSTANTS
  NULL = NULL
  Callers = {c1}
  Operators = {o1}
  Args = {a1}
  Hooks = {A, B, C}
  Types <- PreAndPost
  InitialHookSize = 2
  MaxHooks = 3
  PauseSufficient = TRUE
  UniqueHooks = TRUE
  Removable = {}
INVARIANTS ArraysEnded 
