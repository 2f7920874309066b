---------------------------- MODULE MCHostSession ----------------------------
EXTENDS HostSession
=============================================================================
