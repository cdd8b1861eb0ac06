SPECIFICATION Spec
CONSTANTS MaxConnections = 2 MaxClients = 2 MaxQueue = 3
INVARIANT AcceptsWhenFree
CHECK_DEADLOCK FALSE
