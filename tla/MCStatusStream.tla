--------------------------- MODULE MCStatusStream ---------------------------
EXTENDS StatusStream
=============================================================================
