SPECIFICATION Spec
CONSTANTS
  NULL = NULL
  Callers = {}
  Operators = {o1, o2}
  Args = {a1, a2}
  Hooks = {A, B}
  Types = {3}
  InitialHookSize = 2
  MaxHooks = 2
  PauseSufficient = TRUE
  UniqueHooks = TRUE
  Removable = {A, B}
INVARIANTS MutexAccounted PatchedIffLive TrailingNull
 
