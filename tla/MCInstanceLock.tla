---------------------------- MODULE MCInstanceLock ----------------------------
EXTENDS InstanceLock
=============================================================================
