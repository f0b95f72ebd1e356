\* Six calls of a hooked function, nobody in the C path.
SPECIFICATION Spec
CONSTANTS
  AsmThreads = {a1, a2, a3, a4, a5, a6}
  SwapThreads = {}
PROPERTIES Progress ImplementsSection
