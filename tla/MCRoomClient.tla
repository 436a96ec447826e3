---------------------------- MODULE MCRoomClient ----------------------------
EXTENDS RoomClient
CONSTANTS u1, s1, s2, c1, c2
MCPairs == {<<u1, s1>>, <<u1, s2>>}
MCUsers == {c1, c2, Keeper}
=============================================================================
