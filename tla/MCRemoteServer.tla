--------------------------- MODULE MCRemoteServer ---------------------------
EXTENDS RemoteServer
=============================================================================
