------------------------------ MODULE MCSystem ------------------------------
EXTENDS InspectorSystem
=============================================================================
