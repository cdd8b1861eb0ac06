------------------------------ MODULE MCDebugger ------------------------------
EXTENDS InspectorDebugger
=============================================================================
