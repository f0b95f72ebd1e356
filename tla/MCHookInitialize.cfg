SPECIFICATION Spec
CONSTANTS
  p1 = p1
  p2 = p2
  t1 = t1
  t2 = t2
  t3 = t3
  v1 = v1
  v2 = v2
  NULL = NULL
  Absent = Absent
  Programs = {p1, p2}
  Threads = {t1, t2, t3}
  ProgramOf <- TwoAndOne
  ClientNames = {"client"}
  KernelNames = {"Giant", "malloc", "last"}
  Values = {v1, v2}
  SymbolTable <- Table
  Gap = 0
  Work <- Hooks
  MaxCalls = 1
INVARIANTS OneRegistry  HandlerReady SymbolMutexAccounted LookUpAnswers NoCircularWait
SYMMETRY SameProgram
CHECK_DEADLOCK FALSE
