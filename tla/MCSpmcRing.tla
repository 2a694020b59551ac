----------------------------- MODULE MCSpmcRing -----------------------------
EXTENDS SpmcRing
=============================================================================
