------------------------- MODULE MCForwardWatchDog ---------------------------
EXTENDS ForwardWatchDog
=============================================================================
