SPECIFICATION Spec
CONSTANTS MaxDepth = 2 MaxId = 2 MaxTasks = 4
INVARIANTS TypeOK BreakpointsAreOperations CurrentIsRunning OperationsEnd StepIntoAsyncIsSingle ClientListsOperations
