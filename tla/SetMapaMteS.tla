----------------------------- MODULE SetMapaMteS -----------------------------
(***************************************************************************)
(* SetMapaMteS of util/setmap.go as a machine: any sequence of its four    *)
(* mutating methods, by one goroutine (the type has no lock).              *)
(***************************************************************************)
EXTENDS SetMapOps, FiniteSetsExt

CONSTANTS Keys, Values

VARIABLE m

MapInit == m = NewSetMapaMteS

DoAdd(k, v)      == m' = Add(m, k, v)
DoRemove(k, v)   == m' = Remove(m, k, v)
DoRemoveKey(k)   == m' = RemoveKey(m, k)
DoRemoveValue(v) == m' = RemoveValue(m, v)

MapNext ==
  \/ \E k \in Keys, v \in Values : DoAdd(k, v) \/ DoRemove(k, v)
  \/ \E k \in Keys : DoRemoveKey(k)
  \/ \E v \in Values : DoRemoveValue(v)

MapSpec == MapInit /\ [][MapNext]_m

-----------------------------------------------------------------------------
\* The type invariant: both copies are Go maps from one side to sets of the
\* other.
MapTypeOK == IsSetMapaMteS(m, Keys, Values)

\* After any calls, a key has a value in the forward map exactly when the value
\* has the key in the reverse map, although Add, Remove, RemoveKey and
\* RemoveValue write the two maps one after the other (setmap.go:69-95).
Mirror == Mirrored(m, Keys, Values)

\* No key keeps an empty set: Remove deletes the key with its last value
\* (setmap.go:25-27), so "the key is present" and "the key has a value" are the
\* same question for every caller.
NoEmptySet == NoneEmpty(m)

\* The relation the forward map represents.
Pairs == {p \in Keys \X Values : p[2] \in GetSet(m.fwd, p[1])}

\* GetUniqueKeys(v), computed from both maps (setmap.go:115-125), is the set of
\* keys that would lose their last value if v were removed; GetUniqueValues is
\* the same with the sides swapped (setmap.go:102-112).
UniqueExact ==
  /\ \A v \in Values :
       GetUniqueKeys(m, v) = {k \in Keys : {w \in Values : <<k, w>> \in Pairs} = {v}}
  /\ \A k \in Keys :
       GetUniqueValues(m, k) = {v \in Values : {j \in Keys : <<j, v>> \in Pairs} = {k}}

\* RemoveKeys, which removes a set of keys at once, is the loop of RemoveKey
\* over them, in an order of the map's choosing (service.go:130-131).
RemoveKeysIsLoop ==
  \A ks \in SUBSET Keys :
    IsFiniteSet(ks) =>
      RemoveKeys(m, ks) = FoldSet(LAMBDA k, acc : RemoveKey(acc, k), m, ks)

Relation == INSTANCE ManyToMany WITH pairs <- Pairs

\* The four methods behave as one relation that gains and loses pairs.
ImplementsRelation == Relation!Spec
=============================================================================
