--------------------------- MODULE MCBlockingQueue ---------------------------
EXTENDS BlockingQueue
=============================================================================
