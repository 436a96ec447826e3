---------------------------- MODULE MCForwardRTC -----------------------------
EXTENDS ForwardRTC
=============================================================================
