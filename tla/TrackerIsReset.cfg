SPECIFICATION Spec
CONSTANTS MaxDepth = 1 MaxId = 2 MaxTasks = 2
INVARIANT TrackerIsReset
CHECK_DEADLOCK FALSE
