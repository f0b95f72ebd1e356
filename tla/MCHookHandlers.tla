--------------------------- MODULE MCHookHandlers ---------------------------
EXTENDS HookHandlers

EnabledTypes == HookTypes \ {0}
AllControls == {-1, 0, 1}
NoBreak == {-1, 0}
=============================================================================
