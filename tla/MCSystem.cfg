SPECIFICATION SysSpec
CONSTANTS MaxConnections = 3 MaxClients = 1 MaxQueue = 3
INVARIANTS WaitsForSomeone WaitsForOpen AskerIsServed
PROPERTIES LossEndsStop
CHECK_DEADLOCK FALSE
