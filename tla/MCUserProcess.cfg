SPECIFICATION Spec
CONSTANTS
  t1 = t1
  t2 = t2
  Threads = {t1, t2}
  Work <- SomeWork
  MaxCalls <- SomeCalls
  MaxFd = 4
  FirstSize = 1
  MaxBytes = 3
  IntMax = 7
  PageSize = 2
  Sizes = {0, 1, 3}
  MaxObjects = 2
INVARIANTS    MappingBacked ReadComplete
  StubTarget StubFailsAlone
CHECK_DEADLOCK FALSE
