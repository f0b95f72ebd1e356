\* Calls of the hooked function and two threads in ps4AtomicSpinLock64.
SPECIFICATION Spec
CONSTANTS
  AsmThreads = {a1, a2}
  SwapThreads = {c1, c2}
INVARIANT SetWordAccounted
