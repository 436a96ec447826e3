--------------------------- MODULE MCISGLBSyncer -----------------------------
EXTENDS ISGLBSyncer

CONSTANTS c, f, p, i, j

\* One forward and one proceed track that are started, replaced and stopped, for
\* the clients the node has or for others.
MCStatuses ==
  [clients : {{}, {c}},
   tracks : {[k \in {f} |-> i], [k \in {f, p} |-> IF k = f THEN j ELSE i], [k \in {p} |-> j]}]
=============================================================================
