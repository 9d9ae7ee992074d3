---------------------------- MODULE MCDebugComms ----------------------------
EXTENDS DebugComms
=============================================================================
