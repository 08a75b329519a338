--------------------------- MODULE MCLeaseTiming ---------------------------
EXTENDS LeaseTiming
=============================================================================
