SPECIFICATION Spec
CONSTANTS
  NULL = NULL
  Callers = {c1, c2}
  Operators = {o1}
  Args = {a1, a2}
  Hooks = {A}
  Types = {1}
  InitialHookSize = 2
  MaxHooks = 1
  PauseSufficient = TRUE
  UniqueHooks = TRUE
  Removable = {}
INVARIANTS EntryCountExact PrologueOnLiveArgument
SYMMETRY ArgSymmetry
