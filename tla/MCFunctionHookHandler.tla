----------------------- MODULE MCFunctionHookHandler ------------------------
EXTENDS FunctionHookHandler

EnabledTypes == HookTypes \ {0}
AllControls == {-1, 0, 1}
=============================================================================
