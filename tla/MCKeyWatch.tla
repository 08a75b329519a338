----------------------------- MODULE MCKeyWatch -----------------------------
EXTENDS KeyWatch

CONSTANTS me, other
=============================================================================
