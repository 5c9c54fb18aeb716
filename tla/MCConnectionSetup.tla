--------------------------- MODULE MCConnectionSetup ---------------------------
EXTENDS ConnectionSetup, TLC

=============================================================================
