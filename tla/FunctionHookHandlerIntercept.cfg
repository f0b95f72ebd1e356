SPECIFICATION Spec
CONSTANTS
  NULL = 0
  MaxHooks = 2
  Types <- EnabledTypes
  Controls <- AllControls
  SignExtends = FALSE
INVARIANT InterceptEndsCall
CHECK_DEADLOCK FALSE
