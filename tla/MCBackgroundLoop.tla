-------------------------- MODULE MCBackgroundLoop --------------------------
EXTENDS BackgroundLoop

CONSTANTS c1, c2

MCCallers == {c1, c2}
Anything == Disturbances
=============================================================================
