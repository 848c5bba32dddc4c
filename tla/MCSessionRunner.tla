--------------------------- MODULE MCSessionRunner ---------------------------
EXTENDS SessionRunner
=============================================================================
