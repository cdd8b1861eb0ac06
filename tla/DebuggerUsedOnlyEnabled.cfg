SPECIFICATION Spec
CONSTANT MaxSkipStepFrameCount = 2
INVARIANT DebuggerUsedOnlyEnabled
CHECK_DEADLOCK FALSE
