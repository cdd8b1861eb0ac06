SPECIFICATION Spec
CONSTANT MaxSkipStepFrameCount = 2
INVARIANT PauseRequestKept
CHECK_DEADLOCK FALSE
