-------------------------- MODULE MCMessageDelegate --------------------------
EXTENDS MessageDelegate
=============================================================================
