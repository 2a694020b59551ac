---------------------------- MODULE MCShmPingPong ----------------------------
EXTENDS ShmPingPong
=============================================================================
