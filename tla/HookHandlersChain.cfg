SPECIFICATION HandlerSpec
CONSTANTS
  NULL = 0
  MaxHooks = 3
  Types <- EnabledTypes
  Controls <- AllControls
  SystemCallControls <- NoBreak
  SignExtends = TRUE
INVARIANT ResultFromLastCallee
PROPERTIES ImplementsChain Returns
CHECK_DEADLOCK FALSE
