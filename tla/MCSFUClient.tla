----------------------------- MODULE MCSFUClient -----------------------------
EXTENDS SFUClient
MCUsers == {Reader, Owner, Refresher, Trickler} \cup {Joiner(k) : k \in PCs}
=============================================================================
