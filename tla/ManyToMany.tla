----------------------------- MODULE ManyToMany ------------------------------
(***************************************************************************)
(* What util/setmap.go promises: one many-to-many relation between keys    *)
(* and values.                                                             *)
(***************************************************************************)
CONSTANTS Keys, Values

VARIABLE pairs

Init == pairs = {}

Add(k, v)      == pairs' = pairs \cup {<<k, v>>}
Remove(k, v)   == pairs' = pairs \ {<<k, v>>}
RemoveKey(k)   == pairs' = {p \in pairs : p[1] # k}
RemoveValue(v) == pairs' = {p \in pairs : p[2] # v}

Next ==
  \/ \E k \in Keys, v \in Values : Add(k, v) \/ Remove(k, v)
  \/ \E k \in Keys : RemoveKey(k)
  \/ \E v \in Values : RemoveValue(v)

Spec == Init /\ [][Next]_pairs

=============================================================================
