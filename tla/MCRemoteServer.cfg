SPECIFICATION Spec
CONSTANTS MaxConnections = 3 MaxClients = 1 MaxQueue = 3
INVARIANTS TypeOK SessionFollowsConnection NoMixup ConnectsWhenFree
CHECK_DEADLOCK FALSE
