---------------------------- MODULE MCServerRun ----------------------------
EXTENDS ServerRun, TLC
=============================================================================
