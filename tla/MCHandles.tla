---------------------------- MODULE MCHandles ----------------------------
EXTENDS Handles, TLC
=============================================================================
