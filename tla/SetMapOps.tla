------------------------------ MODULE SetMapOps ------------------------------
(***************************************************************************)
(* The data structures of util/setmap.go as operators.                     *)
(*                                                                         *)
(* A SetMap is a Go map from keys to sets of values: here a function whose *)
(* DOMAIN is the set of keys present in the Go map.  A SetMapaMteS keeps   *)
(* the same many-to-many relation twice, in a SetMap and in the reversed   *)
(* SetMap; here a record with the fields fwd and reverse.  No operator     *)
(* restores the agreement of the two copies: each one updates them         *)
(* separately, as the code does.                                           *)
(***************************************************************************)

EmptyMap == [k \in {} |-> {}]

GetSet(map, key) == IF key \in DOMAIN map THEN map[key] ELSE {}

Exists(map, key, value) == key \in DOMAIN map /\ value \in map[key]

AddTo(map, key, value) ==
  [k \in DOMAIN map \cup {key} |->
     IF k = key THEN GetSet(map, key) \cup {value} ELSE map[k]]

\* SetMap.Remove of value for every key of a set: a key whose set becomes
\* empty leaves the map.  One call of SetMap.Remove is the case {key}.
RemoveFrom(map, keys, value) ==
  LET emptied == {k \in keys \cap DOMAIN map : map[k] \subseteq {value}}
  IN  [k \in DOMAIN map \ emptied |->
         IF k \in keys THEN map[k] \ {value} ELSE map[k]]

DeleteKey(map, key) == [k \in DOMAIN map \ {key} |-> map[k]]

-----------------------------------------------------------------------------
(* SetMapaMteS *)

NewSetMapaMteS == [fwd |-> EmptyMap, reverse |-> EmptyMap]

Add(m, key, value) ==
  [fwd |-> AddTo(m.fwd, key, value), reverse |-> AddTo(m.reverse, value, key)]

\* Variant with a bug: the reversed map keeps the pair.
RemoveOneSided(m, key, value) ==
  [m EXCEPT !.fwd = RemoveFrom(m.fwd, {key}, value)]

Remove(m, key, value) ==
  [fwd     |-> RemoveFrom(m.fwd, {key}, value),
   reverse |-> RemoveFrom(m.reverse, {value}, key)]

\* Variant with a bug: the keys of the value lose their other values too.
RemoveValueAndKeys(m, value) ==
  [fwd     |-> [k \in DOMAIN m.fwd \ GetSet(m.reverse, value) |-> m.fwd[k]],
   reverse |-> DeleteKey(m.reverse, value)]

\* The loop runs over the keys that the reversed map holds for the value.
RemoveValue(m, value) ==
  [fwd     |-> RemoveFrom(m.fwd, GetSet(m.reverse, value), value),
   reverse |-> DeleteKey(m.reverse, value)]

RemoveKey(m, key) ==
  [fwd     |-> DeleteKey(m.fwd, key),
   reverse |-> RemoveFrom(m.reverse, GetSet(m.fwd, key), key)]

GetKeys(m, value) == GetSet(m.reverse, value)

\* len(GetSet(x)) <= 1, where x is in the set that led to it: no two elements.
AtMostOne(set) == \A x, y \in set : x = y

GetUniqueValues(m, key) ==
  {v \in GetSet(m.fwd, key) : AtMostOne(GetSet(m.reverse, v))}

GetUniqueKeys(m, value) ==
  {k \in GetSet(m.reverse, value) : AtMostOne(GetSet(m.fwd, k))}

\* Variant with a bug: the reversed map keeps the keys.
RemoveKeysForwardOnly(m, keys) ==
  [m EXCEPT !.fwd = [k \in DOMAIN m.fwd \ keys |-> m.fwd[k]]]

\* The loop over GetUniqueKeys(value) that removes each of them, as the caller
\* in pkg/isglb/service.go runs it: the keys are collected before the first
\* removal.
RemoveKeys(m, keys) ==
  LET values == UNION {GetSet(m.fwd, k) : k \in keys}
      left(v) == m.reverse[v] \ {k \in keys : v \in GetSet(m.fwd, k)}
      emptied == {v \in values \cap DOMAIN m.reverse : left(v) = {}}
  IN  [fwd     |-> [k \in DOMAIN m.fwd \ keys |-> m.fwd[k]],
       reverse |-> [v \in DOMAIN m.reverse \ emptied |-> left(v)]]

-----------------------------------------------------------------------------
(* What the methods keep, for keys in K and values in V *)

IsSetMapaMteS(m, K, V) ==
  /\ m = [fwd |-> m.fwd, reverse |-> m.reverse]
  /\ DOMAIN m.fwd \subseteq K /\ m.fwd \in [DOMAIN m.fwd -> SUBSET V]
  /\ DOMAIN m.reverse \subseteq V /\ m.reverse \in [DOMAIN m.reverse -> SUBSET K]

Mirrored(m, K, V) ==
  \A k \in K, v \in V : Exists(m.fwd, k, v) <=> Exists(m.reverse, v, k)

NoneEmpty(m) ==
  /\ \A k \in DOMAIN m.fwd : m.fwd[k] # {}
  /\ \A v \in DOMAIN m.reverse : m.reverse[v] # {}

WellFormed(m, K, V) ==
  IsSetMapaMteS(m, K, V) /\ Mirrored(m, K, V) /\ NoneEmpty(m)

=============================================================================
