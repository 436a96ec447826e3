-------------------------- MODULE MCBridgeWatchDog --------------------------
EXTENDS BridgeWatchDog
CONSTANTS s1, s2, d
MCTracks == {[dst |-> d, srcs |-> {s1}], [dst |-> d, srcs |-> {s1, s2}]}
=============================================================================
