------------------------- MODULE ISGLBService_proofs -------------------------
(***************************************************************************)
(* Safety of the ISGLB server for every set of streams, nodes, statuses    *)
(* and reports and every capacity of recvCh: first the many-to-many map of *)
(* util/setmap.go, which only the server uses (what each operator of       *)
(* SetMapOps keeps, then the map as a machine), then the handlers and the  *)
(* receive routine, then the sender of one stream.                         *)
(***************************************************************************)
EXTENDS ISGLBService, SFUStatusSender, SetMapaMteS, FiniteSetTheorems, SequenceTheorems, TLAPS

-----------------------------------------------------------------------------
(* The operators of the map *)

\* A new map (setmap.go:62-67) is well formed.
LEMMA NewWellFormed ==
  ASSUME NEW K, NEW V
  PROVE  WellFormed(NewSetMapaMteS, K, V)
BY DEF WellFormed, IsSetMapaMteS, Mirrored, NoneEmpty, NewSetMapaMteS,
       EmptyMap, Exists

\* SetMapaMteS.Add (setmap.go:69-72) keeps the map well formed.
LEMMA AddWellFormed ==
  ASSUME NEW K, NEW V, NEW r, WellFormed(r, K, V), NEW k \in K, NEW v \in V
  PROVE  WellFormed(Add(r, k, v), K, V)
<1>1. IsSetMapaMteS(Add(r, k, v), K, V)
  BY DEF WellFormed, IsSetMapaMteS, Add, AddTo, GetSet
<1>2. Mirrored(Add(r, k, v), K, V)
  BY DEF WellFormed, IsSetMapaMteS, Mirrored, Add, AddTo, GetSet, Exists
<1>3. NoneEmpty(Add(r, k, v))
  BY DEF WellFormed, IsSetMapaMteS, NoneEmpty, Add, AddTo, GetSet
<1>4. QED
  BY <1>1, <1>2, <1>3 DEF WellFormed

\* SetMapaMteS.Remove (setmap.go:74-77) keeps the map well formed.
LEMMA RemoveWellFormed ==
  ASSUME NEW K, NEW V, NEW r, WellFormed(r, K, V), NEW k \in K, NEW v \in V
  PROVE  WellFormed(Remove(r, k, v), K, V)
<1>1. IsSetMapaMteS(Remove(r, k, v), K, V)
  BY DEF WellFormed, IsSetMapaMteS, Remove, RemoveFrom
<1>2. Mirrored(Remove(r, k, v), K, V)
  BY DEF WellFormed, IsSetMapaMteS, Mirrored, Remove, RemoveFrom, Exists
<1>3. NoneEmpty(Remove(r, k, v))
  BY DEF WellFormed, IsSetMapaMteS, NoneEmpty, Remove, RemoveFrom
<1>4. QED
  BY <1>1, <1>2, <1>3 DEF WellFormed

\* SetMapaMteS.RemoveValue (setmap.go:79-86) keeps the map well formed.
LEMMA RemoveValueWellFormed ==
  ASSUME NEW K, NEW V, NEW r, WellFormed(r, K, V), NEW v \in V
  PROVE  WellFormed(RemoveValue(r, v), K, V)
<1>1. IsSetMapaMteS(RemoveValue(r, v), K, V)
  BY DEF WellFormed, IsSetMapaMteS, RemoveValue, RemoveFrom, DeleteKey
<1>2. Mirrored(RemoveValue(r, v), K, V)
  BY DEF WellFormed, IsSetMapaMteS, Mirrored, RemoveValue, RemoveFrom,
         DeleteKey, GetSet, Exists
<1>3. NoneEmpty(RemoveValue(r, v))
  BY DEF WellFormed, IsSetMapaMteS, NoneEmpty, RemoveValue, RemoveFrom, DeleteKey
<1>4. QED
  BY <1>1, <1>2, <1>3 DEF WellFormed

\* SetMapaMteS.RemoveKey (setmap.go:88-95) keeps the map well formed.
LEMMA RemoveKeyWellFormed ==
  ASSUME NEW K, NEW V, NEW r, WellFormed(r, K, V), NEW k \in K
  PROVE  WellFormed(RemoveKey(r, k), K, V)
<1>1. IsSetMapaMteS(RemoveKey(r, k), K, V)
  BY DEF WellFormed, IsSetMapaMteS, RemoveKey, RemoveFrom, DeleteKey
<1>2. Mirrored(RemoveKey(r, k), K, V)
  BY DEF WellFormed, IsSetMapaMteS, Mirrored, RemoveKey, RemoveFrom,
         DeleteKey, GetSet, Exists
<1>3. NoneEmpty(RemoveKey(r, k))
  BY DEF WellFormed, IsSetMapaMteS, NoneEmpty, RemoveKey, RemoveFrom, DeleteKey
<1>4. QED
  BY <1>1, <1>2, <1>3 DEF WellFormed

\* Removing a set of keys at once (service.go:130-131) keeps the map well formed.
LEMMA RemoveKeysWellFormed ==
  ASSUME NEW K, NEW V, NEW r, WellFormed(r, K, V), NEW ks \in SUBSET K
  PROVE  WellFormed(RemoveKeys(r, ks), K, V)
<1>1. IsSetMapaMteS(RemoveKeys(r, ks), K, V)
  BY DEF WellFormed, IsSetMapaMteS, RemoveKeys
<1>2. Mirrored(RemoveKeys(r, ks), K, V)
  BY DEF WellFormed, IsSetMapaMteS, Mirrored, RemoveKeys, GetSet, Exists
<1>3. NoneEmpty(RemoveKeys(r, ks))
  BY DEF WellFormed, IsSetMapaMteS, Mirrored, NoneEmpty, RemoveKeys, GetSet, Exists
<1>4. QED
  BY <1>1, <1>2, <1>3 DEF WellFormed

\* What is left without some keys: they leave the sets of the reversed map, and with
\* them the values that no other key has.
WithoutKeys(r, ks) ==
  [fwd     |-> [k \in DOMAIN r.fwd \ ks |-> r.fwd[k]],
   reverse |-> [v \in {w \in DOMAIN r.reverse : ~(r.reverse[w] \subseteq ks)} |->
                  r.reverse[v] \ ks]]

\* That is what RemoveKeys leaves of a well-formed map (service.go:130-131).
LEMMA RemoveKeysCuts ==
  ASSUME NEW K, NEW V, NEW r, WellFormed(r, K, V), NEW ks \in SUBSET K
  PROVE  RemoveKeys(r, ks) = WithoutKeys(r, ks)
<1> DEFINE values == UNION {GetSet(r.fwd, k) : k \in ks}
           left(v) == r.reverse[v] \ {k \in ks : v \in GetSet(r.fwd, k)}
           emptied == {v \in values \cap DOMAIN r.reverse : left(v) = {}}
           rest == {w \in DOMAIN r.reverse : ~(r.reverse[w] \subseteq ks)}
<1>1. ASSUME NEW v \in DOMAIN r.reverse, NEW k \in ks
      PROVE  v \in GetSet(r.fwd, k) <=> k \in r.reverse[v]
  BY DEF WellFormed, IsSetMapaMteS, Mirrored, Exists, GetSet
<1>2. ASSUME NEW v \in DOMAIN r.reverse PROVE left(v) = r.reverse[v] \ ks
  BY <1>1
<1>3. ASSUME NEW v \in DOMAIN r.reverse
      PROVE  v \in emptied <=> r.reverse[v] \subseteq ks
  <2>1. CASE r.reverse[v] \subseteq ks
    <3>1. PICK k \in r.reverse[v] : TRUE
      BY DEF WellFormed, NoneEmpty
    <3>2. k \in ks /\ v \in GetSet(r.fwd, k)
      BY <1>1, <2>1, <3>1
    <3>3. v \in values
      BY <3>2
    <3> QED
      BY <1>2, <2>1, <3>3
  <2>2. CASE ~(r.reverse[v] \subseteq ks)
    BY <1>2, <2>2
  <2> QED
    BY <2>1, <2>2
<1>4. DOMAIN r.reverse \ emptied = rest
  BY <1>3
<1>5. RemoveKeys(r, ks) = [fwd     |-> [k \in DOMAIN r.fwd \ ks |-> r.fwd[k]],
                           reverse |-> [v \in DOMAIN r.reverse \ emptied |-> left(v)]]
  BY DEF RemoveKeys
<1> HIDE DEF left, emptied
<1>6. [v \in DOMAIN r.reverse \ emptied |-> left(v)] = [v \in rest |-> r.reverse[v] \ ks]
  BY <1>2, <1>4
<1> QED
  BY <1>5, <1>6 DEF WithoutKeys

\* RemoveKey leaves that of one key (setmap.go:88-95).
LEMMA RemoveKeyCuts ==
  ASSUME NEW K, NEW V, NEW r, WellFormed(r, K, V), NEW key \in K
  PROVE  RemoveKey(r, key) = WithoutKeys(r, {key})
<1> DEFINE emptied == {v \in GetSet(r.fwd, key) \cap DOMAIN r.reverse : r.reverse[v] \subseteq {key}}
           rest == {w \in DOMAIN r.reverse : ~(r.reverse[w] \subseteq {key})}
<1>1. ASSUME NEW v \in DOMAIN r.reverse
      PROVE  v \in GetSet(r.fwd, key) <=> key \in r.reverse[v]
  BY DEF WellFormed, IsSetMapaMteS, Mirrored, Exists, GetSet
<1>2. DOMAIN r.reverse \ emptied = rest
  BY <1>1 DEF WellFormed, NoneEmpty
<1>3. ASSUME NEW v \in DOMAIN r.reverse
      PROVE  (IF v \in GetSet(r.fwd, key) THEN r.reverse[v] \ {key} ELSE r.reverse[v])
               = r.reverse[v] \ {key}
  BY <1>1
<1>4. RemoveFrom(r.reverse, GetSet(r.fwd, key), key) = [v \in rest |-> r.reverse[v] \ {key}]
  BY <1>2, <1>3 DEF RemoveFrom
<1> QED
  BY <1>4 DEF RemoveKey, DeleteKey, WithoutKeys

\* Removing a set of keys at once is the loop of the deletion, one turn for each key
\* in any order (service.go:130-131): without a turn the map is as it was, and each
\* turn removes one key more, whichever were removed before.
THEOREM RemoveKeysByTurns ==
  ASSUME NEW K, NEW V, NEW r, WellFormed(r, K, V)
  PROVE  /\ RemoveKeys(r, {}) = r
         /\ \A ks \in SUBSET K, k \in K :
              RemoveKeys(r, ks \cup {k}) = RemoveKey(RemoveKeys(r, ks), k)
<1>1. RemoveKeys(r, {}) = r
  <2>1. {w \in DOMAIN r.reverse : ~(r.reverse[w] \subseteq {})} = DOMAIN r.reverse
    BY DEF WellFormed, NoneEmpty
  <2>2. [k \in DOMAIN r.fwd \ {} |-> r.fwd[k]] = r.fwd
    BY DEF WellFormed, IsSetMapaMteS
  <2>3. [v \in DOMAIN r.reverse |-> r.reverse[v] \ {}] = r.reverse
    BY DEF WellFormed, IsSetMapaMteS
  <2>4. {} \in SUBSET K
    OBVIOUS
  <2>5. RemoveKeys(r, {}) = [fwd |-> r.fwd, reverse |-> r.reverse]
    <3>1. RemoveKeys(r, {}) = WithoutKeys(r, {})
      BY <2>4, RemoveKeysCuts
    <3> QED
      BY <2>1, <2>2, <2>3, <3>1 DEF WithoutKeys
  <2> QED
    BY <2>5 DEF WellFormed, IsSetMapaMteS
<1>2. ASSUME NEW ks \in SUBSET K, NEW k \in K
      PROVE  RemoveKeys(r, ks \cup {k}) = RemoveKey(RemoveKeys(r, ks), k)
  <2> DEFINE cut == RemoveKeys(r, ks)
             left == {w \in DOMAIN r.reverse : ~(r.reverse[w] \subseteq ks)}
  <2>1. WellFormed(cut, K, V)
    BY RemoveKeysWellFormed
  <2>2. /\ cut.fwd = [j \in DOMAIN r.fwd \ ks |-> r.fwd[j]]
        /\ cut.reverse = [v \in left |-> r.reverse[v] \ ks]
    <3>1. cut = WithoutKeys(r, ks)
      BY RemoveKeysCuts
    <3> QED
      BY <3>1 DEF WithoutKeys
  <2> HIDE DEF cut
  <2>3. RemoveKey(cut, k) = WithoutKeys(cut, {k})
    BY <2>1, RemoveKeyCuts
  <2>4. [j \in DOMAIN cut.fwd \ {k} |-> cut.fwd[j]]
          = [j \in DOMAIN r.fwd \ (ks \cup {k}) |-> r.fwd[j]]
    <3>1. DOMAIN cut.fwd \ {k} = DOMAIN r.fwd \ (ks \cup {k})
      BY <2>2
    <3> QED
      BY <2>2, <3>1
  <2>5. {w \in DOMAIN cut.reverse : ~(cut.reverse[w] \subseteq {k})}
          = {w \in DOMAIN r.reverse : ~(r.reverse[w] \subseteq ks \cup {k})}
    BY <2>2
  <2>6. ASSUME NEW v \in left PROVE cut.reverse[v] \ {k} = r.reverse[v] \ (ks \cup {k})
    BY <2>2
  <2>7. RemoveKeys(r, ks \cup {k}) = WithoutKeys(r, ks \cup {k})
    <3>1. ks \cup {k} \in SUBSET K
      OBVIOUS
    <3> QED
      BY <3>1, RemoveKeysCuts
  <2>8. [v \in {w \in DOMAIN cut.reverse : ~(cut.reverse[w] \subseteq {k})} |-> cut.reverse[v] \ {k}]
          = [v \in {w \in DOMAIN r.reverse : ~(r.reverse[w] \subseteq ks \cup {k})} |->
               r.reverse[v] \ (ks \cup {k})]
    <3>1. \A v \in {w \in DOMAIN r.reverse : ~(r.reverse[w] \subseteq ks \cup {k})} : v \in left
      OBVIOUS
    <3> HIDE DEF left
    <3> QED
      BY <2>5, <2>6, <3>1
  <2> QED
    <3>1. WithoutKeys(cut, {k}) = WithoutKeys(r, ks \cup {k})
      BY <2>4, <2>8 DEF WithoutKeys
    <3> QED
      BY <2>3, <2>7, <3>1 DEF cut
<1> QED
  BY <1>1, <1>2

-----------------------------------------------------------------------------
(* The loop over a set of keys *)

\* Of some sets of keys one is smallest.  This stands in for an induction over
\* the turns of a loop: a loop that went wrong would go wrong for a smallest set.
LEMMA Smallest ==
  ASSUME NEW S, IsFiniteSet(S), NEW T \in SUBSET SUBSET S, T # {}
  PROVE  \E t \in T : \A u \in T : u \subseteq t => u = t
<1>1. IsWellFoundedOn(StrictSubsetOrdering(S), FiniteSubsetsOf(S))
  BY FS_StrictSubsetOrderingWellFounded
<1>2. T \subseteq FiniteSubsetsOf(S)
  BY FS_FiniteSubsetsOfFinite
<1>3. \E t \in T : \A u \in T : ~(<<u, t>> \in StrictSubsetOrdering(S))
  BY <1>1, <1>2, WFMin
<1> QED
  BY <1>3 DEF StrictSubsetOrdering

\* g is the map that the loop of RemoveKey over each set of keys leaves
\* (service.go:130-131): the turn of one of the keys comes last.
Turns(g, r, ks) ==
  g = [s \in SUBSET ks |->
         IF s = {} THEN r
         ELSE RemoveKey(g[s \ {CHOOSE k \in s : TRUE}], CHOOSE k \in s : TRUE)]

\* What the loop over the keys computes is that map.
LEMMA LoopTurns ==
  ASSUME NEW r, NEW ks
  PROVE  FoldSet(LAMBDA k, acc : RemoveKey(acc, k), r, ks)
           = (CHOOSE g : Turns(g, r, ks))[ks]
BY DEF FoldSet, MapThenFoldSet, Turns

\* There is such a map: what RemoveKeys leaves of each set.
LEMMA RemoveKeysTurns ==
  ASSUME NEW K, NEW V, NEW r, WellFormed(r, K, V), NEW ks \in SUBSET K
  PROVE  Turns([s \in SUBSET ks |-> RemoveKeys(r, s)], r, ks)
<1> DEFINE g == [s \in SUBSET ks |-> RemoveKeys(r, s)]
<1>1. ASSUME NEW s \in SUBSET ks
      PROVE  g[s] = IF s = {} THEN r
                    ELSE RemoveKey(g[s \ {CHOOSE k \in s : TRUE}], CHOOSE k \in s : TRUE)
  <2>1. CASE s = {}
    BY <2>1, RemoveKeysByTurns
  <2>2. CASE s # {}
    <3> DEFINE final == CHOOSE k \in s : TRUE
               others == s \ {final}
    <3>1. final \in s
      BY <2>2
    <3>2. others \in SUBSET ks /\ others \in SUBSET K /\ final \in K /\ s = others \cup {final}
      BY <3>1
    <3> HIDE DEF final, others
    <3>3. RemoveKeys(r, others \cup {final}) = RemoveKey(RemoveKeys(r, others), final)
      BY <3>2, RemoveKeysByTurns
    <3> QED
      BY <2>2, <3>2, <3>3 DEF final, others
  <2> QED
    BY <2>1, <2>2
<1> HIDE DEF g
<1>2. g = [s \in SUBSET ks |-> g[s]]
  BY DEF g
<1> QED
  BY <1>1, <1>2 DEF Turns, g

\* And there is no other, for finitely many keys: on a smallest set on which two
\* such maps differed, they would agree before the last turn.
LEMMA TurnsRemoveKeys ==
  ASSUME NEW K, NEW V, NEW r, WellFormed(r, K, V),
         NEW ks \in SUBSET K, IsFiniteSet(ks), NEW g, Turns(g, r, ks)
  PROVE  g[ks] = RemoveKeys(r, ks)
<1> DEFINE wrong == {s \in SUBSET ks : g[s] # RemoveKeys(r, s)}
<1> SUFFICES ASSUME wrong # {} PROVE FALSE
  OBVIOUS
<1>1. PICK s \in wrong : \A u \in wrong : u \subseteq s => u = s
  <2>1. wrong \in SUBSET SUBSET ks
    OBVIOUS
  <2> HIDE DEF wrong
  <2> QED
    BY <2>1, Smallest
<1>2. s \in SUBSET ks /\ g[s] # RemoveKeys(r, s)
  BY <1>1
<1>3. g[s] = IF s = {} THEN r
             ELSE RemoveKey(g[s \ {CHOOSE k \in s : TRUE}], CHOOSE k \in s : TRUE)
  BY <1>2 DEF Turns
<1>4. s # {}
  BY <1>2, <1>3, RemoveKeysByTurns
<1> DEFINE final == CHOOSE k \in s : TRUE
           others == s \ {final}
<1>5. final \in s
  BY <1>4
<1>6. others \subseteq s /\ others # s /\ others \in SUBSET ks
  BY <1>2, <1>5
<1>7. g[others] = RemoveKeys(r, others)
  BY <1>1, <1>6
<1>8. others \in SUBSET K /\ final \in K /\ s = others \cup {final}
  BY <1>2, <1>5
<1> HIDE DEF final, others, wrong
<1>9. RemoveKeys(r, others \cup {final}) = RemoveKey(RemoveKeys(r, others), final)
  BY <1>8, RemoveKeysByTurns
<1> QED
  BY <1>2, <1>3, <1>4, <1>7, <1>8, <1>9 DEF final, others

\* The loop that removes finitely many keys, one after the other in any order
\* (service.go:130-131), leaves what RemoveKeys leaves of a well-formed map.
THEOREM LoopRemovesKeys ==
  ASSUME NEW K, NEW V, NEW r, WellFormed(r, K, V), NEW ks \in SUBSET K, IsFiniteSet(ks)
  PROVE  RemoveKeys(r, ks) = FoldSet(LAMBDA k, acc : RemoveKey(acc, k), r, ks)
<1>1. \E g : Turns(g, r, ks)
  BY RemoveKeysTurns
<1>2. Turns((CHOOSE g : Turns(g, r, ks)), r, ks)
  BY <1>1
<1>3. (CHOOSE g : Turns(g, r, ks))[ks] = RemoveKeys(r, ks)
  BY <1>2, TurnsRemoveKeys
<1> QED
  BY <1>3, LoopTurns

-----------------------------------------------------------------------------
(* What a caller relies on *)

\* Add binds the key and the value, and no other key or value enters a map.
LEMMA AddBinds ==
  ASSUME NEW K, NEW V, NEW r, WellFormed(r, K, V), NEW k \in K, NEW v \in V
  PROVE  /\ DOMAIN Add(r, k, v).fwd = DOMAIN r.fwd \cup {k}
         /\ DOMAIN Add(r, k, v).reverse = DOMAIN r.reverse \cup {v}
         /\ \A j \in K, w \in V :
              Exists(r.fwd, j, w) => Exists(Add(r, k, v).fwd, j, w)
BY DEF WellFormed, IsSetMapaMteS, Add, AddTo, GetSet, Exists

\* Removing a value's unique keys and then the value (service.go:130-140)
\* removes exactly the pairs of that value: its unique keys leave the forward
\* map, no other key does, and it alone leaves the reverse map.
LEMMA DeletionForgets ==
  ASSUME NEW K, NEW V, NEW r, WellFormed(r, K, V), NEW v \in V
  PROVE  LET unique == GetUniqueKeys(r, v)
             rest   == RemoveValue(RemoveKeys(r, unique), v)
         IN  /\ unique \subseteq K
             /\ WellFormed(rest, K, V)
             /\ DOMAIN rest.fwd = DOMAIN r.fwd \ unique
             /\ DOMAIN rest.reverse \subseteq DOMAIN r.reverse \ {v}
             /\ \A k \in K, w \in V :
                  Exists(r.fwd, k, w) /\ w # v => Exists(rest.fwd, k, w)
<1> DEFINE unique == GetUniqueKeys(r, v)
           cut    == RemoveKeys(r, unique)
           rest   == RemoveValue(cut, v)
<1>1. unique \in SUBSET K
  BY DEF WellFormed, IsSetMapaMteS, GetUniqueKeys, GetSet
<1>2. WellFormed(cut, K, V)
  BY <1>1, RemoveKeysWellFormed
<1>3. WellFormed(rest, K, V)
  BY <1>2, RemoveValueWellFormed
<1>4. \A k \in unique : r.fwd[k] = {v} /\ k \in DOMAIN r.fwd
  BY DEF WellFormed, IsSetMapaMteS, Mirrored, GetUniqueKeys, AtMostOne, GetSet, Exists
<1>5. \A k \in DOMAIN r.fwd \ unique : \E w \in r.fwd[k] : w # v
  BY DEF WellFormed, IsSetMapaMteS, Mirrored, NoneEmpty, GetUniqueKeys, AtMostOne,
         GetSet, Exists
<1>6. /\ DOMAIN cut.fwd = DOMAIN r.fwd \ unique
      /\ \A k \in DOMAIN cut.fwd : cut.fwd[k] = r.fwd[k]
      /\ DOMAIN cut.reverse \subseteq DOMAIN r.reverse
  BY DEF RemoveKeys
<1>7. DOMAIN rest.fwd = DOMAIN r.fwd \ unique
  BY <1>5, <1>6 DEF RemoveValue, RemoveFrom
<1>8. DOMAIN rest.reverse \subseteq DOMAIN r.reverse \ {v}
  BY <1>6 DEF RemoveValue, DeleteKey
<1>9. ASSUME NEW k \in K, NEW w \in V, Exists(r.fwd, k, w), w # v
      PROVE  Exists(rest.fwd, k, w)
  <2>1. k \in DOMAIN cut.fwd /\ w \in cut.fwd[k]
    BY <1>4, <1>6, <1>9 DEF Exists
  <2>2. QED
    BY <2>1, <1>9 DEF RemoveValue, RemoveFrom, Exists
<1>10. QED
  BY <1>1, <1>3, <1>7, <1>8, <1>9

-----------------------------------------------------------------------------
(* The map as a machine *)

\* What is true of the machine's map at every moment.
MapInv == WellFormed(m, Keys, Values)

\* Every sequence of Add, Remove, RemoveKey and RemoveValue calls leaves the
\* two maps well formed.
THEOREM AlwaysWellFormed == MapSpec => []MapInv
<1>1. MapInit => MapInv
  BY NewWellFormed DEF MapInit, MapInv
<1>2. MapInv /\ [MapNext]_m => MapInv'
  <2> SUFFICES ASSUME MapInv, [MapNext]_m PROVE MapInv'
    OBVIOUS
  <2> USE DEF MapInv
  <2>1. ASSUME NEW k \in Keys, NEW v \in Values, DoAdd(k, v) PROVE MapInv'
    BY <2>1, AddWellFormed DEF DoAdd
  <2>2. ASSUME NEW k \in Keys, NEW v \in Values, DoRemove(k, v) PROVE MapInv'
    BY <2>2, RemoveWellFormed DEF DoRemove
  <2>3. ASSUME NEW k \in Keys, DoRemoveKey(k) PROVE MapInv'
    BY <2>3, RemoveKeyWellFormed DEF DoRemoveKey
  <2>4. ASSUME NEW v \in Values, DoRemoveValue(v) PROVE MapInv'
    BY <2>4, RemoveValueWellFormed DEF DoRemoveValue
  <2>5. CASE UNCHANGED m
    BY <2>5
  <2>6. QED
    BY <2>1, <2>2, <2>3, <2>4, <2>5 DEF MapNext
<1>3. QED
  BY <1>1, <1>2, PTL DEF MapSpec

\* The forward and the reverse map agree after any sequence of calls.
THEOREM MirrorHolds == MapSpec => []Mirror
<1>1. MapInv => Mirror
  BY DEF MapInv, WellFormed, Mirror
<1>2. QED
  BY <1>1, AlwaysWellFormed, PTL

\* A key whose values have all been removed is absent from the Go map.
THEOREM NoEmptySetHolds == MapSpec => []NoEmptySet
<1>1. MapInv => NoEmptySet
  BY DEF MapInv, WellFormed, NoEmptySet
<1>2. QED
  BY <1>1, AlwaysWellFormed, PTL

\* What a key holds in the forward map and a value in the reverse map are the
\* two sides of the relation.
LEMMA SidesOfPairs ==
  ASSUME MapInv
  PROVE  /\ \A k \in Keys : {w \in Values : <<k, w>> \in Pairs} = GetSet(m.fwd, k)
         /\ \A v \in Values : {j \in Keys : <<j, v>> \in Pairs} = GetSet(m.reverse, v)
         /\ \A k \in Keys, v \in Values :
              v \in GetSet(m.fwd, k) <=> k \in GetSet(m.reverse, v)
         /\ \A k \in Keys : GetSet(m.fwd, k) \subseteq Values
         /\ \A v \in Values : GetSet(m.reverse, v) \subseteq Keys
<1> USE DEF MapInv, WellFormed, IsSetMapaMteS, GetSet
<1>1. \A k \in Keys, v \in Values :
        v \in GetSet(m.fwd, k) <=> k \in GetSet(m.reverse, v)
  BY DEF Mirrored, Exists
<1>2. \A k \in Keys, v \in Values : <<k, v>> \in Pairs <=> v \in GetSet(m.fwd, k)
  BY DEF Pairs
<1>3. /\ \A k \in Keys : GetSet(m.fwd, k) \subseteq Values
      /\ \A v \in Values : GetSet(m.reverse, v) \subseteq Keys
  OBVIOUS
<1> HIDE DEF MapInv, WellFormed, IsSetMapaMteS, GetSet
<1>4. QED
  BY <1>1, <1>2, <1>3

\* The keys unique to a value are exactly those with no other value.
THEOREM UniqueExactHolds == MapSpec => []UniqueExact
<1>1. MapInv => UniqueExact
  <2> SUFFICES ASSUME MapInv PROVE UniqueExact
    OBVIOUS
  <2>1. ASSUME NEW v \in Values
        PROVE  GetUniqueKeys(m, v) = {k \in Keys : GetSet(m.fwd, k) = {v}}
    <3>1. \A k \in GetSet(m.reverse, v) : k \in Keys /\ v \in GetSet(m.fwd, k)
      BY SidesOfPairs
    <3>2. \A k \in Keys : GetSet(m.fwd, k) = {v} => k \in GetSet(m.reverse, v)
      BY SidesOfPairs
    <3>3. QED
      BY <3>1, <3>2 DEF GetUniqueKeys, AtMostOne
  <2>2. ASSUME NEW k \in Keys
        PROVE  GetUniqueValues(m, k) = {v \in Values : GetSet(m.reverse, v) = {k}}
    <3>1. \A v \in GetSet(m.fwd, k) : v \in Values /\ k \in GetSet(m.reverse, v)
      BY SidesOfPairs
    <3>2. \A v \in Values : GetSet(m.reverse, v) = {k} => v \in GetSet(m.fwd, k)
      BY SidesOfPairs
    <3>3. QED
      BY <3>1, <3>2 DEF GetUniqueValues, AtMostOne
  <2>3. /\ \A k \in Keys : {w \in Values : <<k, w>> \in Pairs} = GetSet(m.fwd, k)
        /\ \A v \in Values : {j \in Keys : <<j, v>> \in Pairs} = GetSet(m.reverse, v)
    BY SidesOfPairs
  <2>4. ASSUME NEW v \in Values
        PROVE  {k \in Keys : GetSet(m.fwd, k) = {v}}
                 = {k \in Keys : {w \in Values : <<k, w>> \in Pairs} = {v}}
    BY <2>3
  <2>5. ASSUME NEW k \in Keys
        PROVE  {v \in Values : GetSet(m.reverse, v) = {k}}
                 = {v \in Values : {j \in Keys : <<j, v>> \in Pairs} = {k}}
    BY <2>3
  <2>6. QED
    BY <2>1, <2>2, <2>4, <2>5 DEF UniqueExact
<1>2. QED
  BY <1>1, AlwaysWellFormed, PTL

\* After any sequence of calls, removing any finite set of keys at once is the
\* loop over its keys (service.go:130-131).
THEOREM RemoveKeysAlwaysLoop == MapSpec => []RemoveKeysIsLoop
<1>1. MapInv => RemoveKeysIsLoop
  BY LoopRemovesKeys DEF MapInv, RemoveKeysIsLoop
<1>2. QED
  BY <1>1, AlwaysWellFormed, PTL

\* The four methods implement one many-to-many relation: what the forward map
\* holds changes exactly as a relation that gains and loses pairs.
THEOREM RefinesRelation == MapSpec => ImplementsRelation
<1>1. MapInit => Relation!Init
  BY DEF MapInit, Relation!Init, Pairs, GetSet, NewSetMapaMteS, EmptyMap
<1>2. MapInv /\ [MapNext]_m => [Relation!Next]_Pairs
  <2> SUFFICES ASSUME MapInv, [MapNext]_m
               PROVE  [Relation!Next]_Pairs
    OBVIOUS
  <2> USE DEF MapInv, WellFormed, IsSetMapaMteS, GetSet, Pairs
  <2>1. ASSUME NEW k \in Keys, NEW v \in Values, DoAdd(k, v)
        PROVE  Relation!Add(k, v)
    BY <2>1 DEF DoAdd, Add, AddTo, Relation!Add
  <2>2. ASSUME NEW k \in Keys, NEW v \in Values, DoRemove(k, v)
        PROVE  Relation!Remove(k, v)
    BY <2>2 DEF DoRemove, Remove, RemoveFrom, Relation!Remove
  <2>3. ASSUME NEW k \in Keys, DoRemoveKey(k)
        PROVE  Relation!RemoveKey(k)
    BY <2>3 DEF DoRemoveKey, RemoveKey, DeleteKey, Relation!RemoveKey
  <2>4. ASSUME NEW v \in Values, DoRemoveValue(v)
        PROVE  Relation!RemoveValue(v)
    BY <2>4 DEF DoRemoveValue, RemoveValue, RemoveFrom, Mirrored, Exists,
                Relation!RemoveValue
  <2>5. CASE UNCHANGED m
    BY <2>5
  <2>6. QED
    BY <2>1, <2>2, <2>3, <2>4, <2>5 DEF MapNext, Relation!Next
<1>3. QED
  BY <1>1, <1>2, AlwaysWellFormed, PTL DEF MapSpec, ImplementsRelation, Relation!Spec

-----------------------------------------------------------------------------
(* Messages and the queue *)

\* The fields of a message and the set each comes from.
LEMMA MessageFields ==
  ASSUME NEW msg \in Message
  PROVE  /\ msg.type \in {"status", "report", "deleted"}
         /\ msg.sig \in Sigs
         /\ msg.type = "status" =>
              msg.nid \in Nids /\ msg.status \in Statuses
         /\ msg.type = "report" => msg.report \in Reports
         /\ msg.type = "deleted" <=> msg = DeletedMsg(msg.sig)
BY DEF Message, StatusMsg, ReportMsg, DeletedMsg

\* Receiving takes the head of recvCh and moves the rest up (service.go:114, 120).
LEMMA QueueTail ==
  ASSUME NEW q \in Seq(Message), q # <<>>
  PROVE  /\ Len(q) \in Nat \ {0}
         /\ Head(q) = q[1] /\ Head(q) \in Message
         /\ Tail(q) \in Seq(Message)
         /\ Len(Tail(q)) = Len(q) - 1
         /\ \A i \in 1..Len(Tail(q)) : Tail(q)[i] = q[i + 1]
         /\ \A i \in 2..Len(q) : q[i] = Tail(q)[i - 1] /\ i - 1 \in 1..Len(Tail(q))
<1>1. Len(q) \in Nat \ {0}
  BY EmptySeq
<1>2. /\ Head(q) \in Message
      /\ Tail(q) \in Seq(Message)
      /\ Len(Tail(q)) = Len(q) - 1
      /\ \A i \in 1..Len(Tail(q)) : Tail(q)[i] = q[i + 1]
  BY HeadTailProperties
<1>3. Head(q) = q[1]
  OBVIOUS
<1>4. QED
  BY <1>1, <1>2, <1>3

\* Pushing keeps what is in recvCh and puts the message last (service.go:61, 95).
LEMMA QueueAppend ==
  ASSUME NEW q \in Seq(Message), NEW msg \in Message
  PROVE  /\ Len(q) \in Nat
         /\ Append(q, msg) \in Seq(Message)
         /\ Len(Append(q, msg)) = Len(q) + 1
         /\ \A i \in 1..Len(q) : Append(q, msg)[i] = q[i]
         /\ Append(q, msg)[Len(q) + 1] = msg
BY AppendProperties, LenProperties

-----------------------------------------------------------------------------
(* The inductive invariant *)

LEMMA InitInv == Init => IInv
<1> SUFFICES ASSUME Init PROVE IInv
  OBVIOUS
<1> USE RecvCapAssumption, MaxRequestsAssumption DEF Init
<1>1. TypeOK
  <2>1. IsSetMapaMteS(WhereToSend, Nids, Sigs)
    BY NewWellFormed DEF WellFormed
  <2>2. recvCh \in Seq(Message) /\ Len(recvCh) = 0
    OBVIOUS
  <2>3. latestStatus \in [DOMAIN latestStatus -> Statuses] /\ DOMAIN latestStatus = {}
    BY DEF NoStatus
  <2>4. requests \in 0..MaxRequests /\ Len(recvCh) <= RecvCap
    BY <2>2
  <2>5. expected \in [DOMAIN expected -> Statuses] /\ DOMAIN expected = {}
    BY DEF NoStatus
  <2>6. QED
    BY <2>1, <2>2, <2>3, <2>4, <2>5 DEF TypeOK
<1>2. NoSendOnClosedChannel /\ OpenChannels /\ SendingBound
  BY DEF NoSendOnClosedChannel, OpenChannels, SendingBound
<1>3. DeletedForgotten /\ DeletionIsLast
  BY DEF DeletedForgotten, DeletionIsLast
<1>4. NoGhostNode
  BY NewWellFormed DEF NoGhostNode, NewSetMapaMteS, EmptyMap, NoStatus
<1>5. QED
  BY <1>1, <1>2, <1>3, <1>4 DEF IInv

\* A handler's own steps keep the invariant.
LEMMA OpenInv == ASSUME IInv, NEW s \in Sigs, Open(s) PROVE IInv'
<1> USE DEF IInv, Open, batchVars
<1>1. TypeOK'
  BY DEF TypeOK
<1>2. NoSendOnClosedChannel' /\ OpenChannels'
  BY DEF NoSendOnClosedChannel, OpenChannels, TypeOK, ReadLocked
<1>3. DeletedForgotten' /\ DeletionIsLast'
  <2>1. \A t \in Sigs : handler'[t] = "done" <=> handler[t] = "done"
    BY DEF TypeOK
  <2>2. \A i \in 1..Len(recvCh) : recvCh[i].sig \in Sigs
    BY MessageFields, ElementOfSeq DEF TypeOK
  <2>3. QED
    BY <2>1, <2>2 DEF DeletedForgotten, DeletionIsLast, DeletePending
<1>4. NoGhostNode' /\ SendingBound'
  BY DEF NoGhostNode, SendingBound
<1>5. QED
  BY <1>1, <1>2, <1>3, <1>4

\* A pushed message of a stream whose handler runs is behind no deletion of
\* that stream.
LEMMA PushInv ==
  ASSUME IInv, NEW msg \in Message, Push(msg), UNCHANGED WhereToSend,
         \/ /\ handler[msg.sig] = "recv" /\ msg.type # "deleted"
            /\ UNCHANGED handler
         \/ /\ handler[msg.sig] = "deleting" /\ msg = DeletedMsg(msg.sig)
            /\ handler' = [handler EXCEPT ![msg.sig] = "done"]
  PROVE  /\ recvCh' \in Seq(Message) /\ Len(recvCh') <= RecvCap
         /\ DeletedForgotten' /\ DeletionIsLast'
<1> USE DEF IInv
<1>1. /\ recvCh \in Seq(Message) /\ Len(recvCh) \in Nat
      /\ recvCh' \in Seq(Message)
      /\ Len(recvCh') = Len(recvCh) + 1
      /\ \A i \in 1..Len(recvCh) : recvCh'[i] = recvCh[i]
      /\ recvCh'[Len(recvCh')] = msg
  BY QueueAppend DEF TypeOK, Push
<1>2. Len(recvCh') <= RecvCap
  BY <1>1, RecvCapAssumption DEF Push
<1>3. /\ msg.sig \in Sigs
      /\ msg.type = "deleted" <=> msg = DeletedMsg(msg.sig)
      /\ \A i \in 1..Len(recvCh) : recvCh[i].sig \in Sigs
  BY MessageFields, ElementOfSeq, <1>1
<1>4. \A t \in Sigs : handler'[t] = "done" => handler[t] = "done" \/ (t = msg.sig /\ msg = DeletedMsg(t))
  BY <1>3 DEF TypeOK
<1>5. \A t \in Sigs : handler[t] = "done" => handler'[t] = "done" /\ t # msg.sig
  BY <1>3 DEF TypeOK
<1>6. ASSUME NEW t \in Sigs, ~DeletePending(t)' PROVE ~DeletePending(t) /\ msg # DeletedMsg(t)
  BY <1>1, <1>6 DEF DeletePending
<1>7. DeletedForgotten'
  <2> SUFFICES ASSUME NEW t \in Sigs, handler'[t] = "done", ~DeletePending(t)'
               PROVE  /\ t \notin DOMAIN WhereToSend.reverse
                      /\ \A i \in 1..Len(recvCh') : recvCh'[i].sig # t
    BY DEF DeletedForgotten
  <2>1. handler[t] = "done" /\ ~DeletePending(t)
    BY <1>4, <1>6
  <2>2. /\ t \notin DOMAIN WhereToSend.reverse
        /\ \A i \in 1..Len(recvCh) : recvCh[i].sig # t
    BY <2>1 DEF DeletedForgotten
  <2>3. QED
    BY <1>1, <1>5, <2>1, <2>2
<1>8. DeletionIsLast'
  <2> SUFFICES ASSUME NEW i \in 1..Len(recvCh'), recvCh'[i].type = "deleted"
               PROVE  /\ handler'[recvCh'[i].sig] = "done"
                      /\ \A j \in i+1..Len(recvCh') : recvCh'[j].sig # recvCh'[i].sig
    BY DEF DeletionIsLast
  <2>1. CASE i \in 1..Len(recvCh)
    <3>1. /\ handler[recvCh[i].sig] = "done"
          /\ \A j \in i+1..Len(recvCh) : recvCh[j].sig # recvCh[i].sig
      BY <1>1, <2>1 DEF DeletionIsLast
    <3>2. QED
      BY <1>1, <1>3, <1>5, <2>1, <3>1
  <2>2. CASE i = Len(recvCh')
    BY <1>1, <1>3, <2>2 DEF TypeOK
  <2>3. QED
    BY <1>1, <2>1, <2>2
<1>9. QED
  BY <1>1, <1>2, <1>7, <1>8

LEMMA RecvRequestInv == ASSUME IInv, NEW s \in Sigs, RecvRequest(s) PROVE IInv'
<1> USE DEF IInv
<1>1. \E msg \in Message : Push(msg) /\ msg.sig = s /\ msg.type # "deleted"
  <2>1. ASSUME NEW n \in Nids, NEW st \in Statuses
        PROVE  /\ StatusMsg(s, n, st) \in Message
               /\ StatusMsg(s, n, st).sig = s /\ StatusMsg(s, n, st).type = "status"
    BY DEF Message, StatusMsg
  <2>2. ASSUME NEW r \in Reports
        PROVE  /\ ReportMsg(s, r) \in Message
               /\ ReportMsg(s, r).sig = s /\ ReportMsg(s, r).type = "report"
    BY DEF Message, ReportMsg
  <2>3. QED
    BY <2>1, <2>2 DEF RecvRequest
<1>2. /\ recvCh' \in Seq(Message) /\ Len(recvCh') <= RecvCap
      /\ DeletedForgotten' /\ DeletionIsLast'
  <2>1. PICK msg \in Message : Push(msg) /\ msg.sig = s /\ msg.type # "deleted"
    BY <1>1
  <2>2. QED
    BY <2>1, PushInv DEF RecvRequest, batchVars
<1>3. TypeOK'
  BY <1>2, MaxRequestsAssumption DEF TypeOK, RecvRequest, batchVars
<1>4. NoSendOnClosedChannel' /\ OpenChannels' /\ NoGhostNode' /\ SendingBound'
  BY DEF NoSendOnClosedChannel, OpenChannels, NoGhostNode, SendingBound, RecvRequest, batchVars
<1>5. QED
  BY <1>2, <1>3, <1>4

LEMMA PushDeletedInv == ASSUME IInv, NEW s \in Sigs, PushDeleted(s) PROVE IInv'
<1> USE DEF IInv
<1>1. DeletedMsg(s) \in Message /\ DeletedMsg(s).sig = s
  BY DEF Message, DeletedMsg
<1>2. /\ recvCh' \in Seq(Message) /\ Len(recvCh') <= RecvCap
      /\ DeletedForgotten' /\ DeletionIsLast'
  BY <1>1, PushInv DEF PushDeleted, batchVars
<1>3. TypeOK'
  BY <1>2 DEF TypeOK, PushDeleted, batchVars
<1>4. NoSendOnClosedChannel' /\ OpenChannels' /\ NoGhostNode' /\ SendingBound'
  BY DEF NoSendOnClosedChannel, OpenChannels, NoGhostNode, SendingBound, PushDeleted, batchVars, TypeOK
<1>5. QED
  BY <1>2, <1>3, <1>4

\* The end of a stream: sig.Recv fails, then its channel is closed.
LEMMA CloseInv ==
  ASSUME IInv, NEW s \in Sigs, RecvError(s) \/ CloseSendCh(s) PROVE IInv'
<1> USE DEF IInv, RecvError, CloseSendCh, batchVars
<1>1. TypeOK'
  BY DEF TypeOK
<1>2. OpenChannels'
  BY DEF OpenChannels, TypeOK
<1>3. NoSendOnClosedChannel'
  BY DEF NoSendOnClosedChannel, TypeOK, ReadLocked
<1>4. DeletedForgotten' /\ DeletionIsLast'
  <2>1. \A t \in Sigs : handler'[t] = "done" <=> handler[t] = "done"
    BY DEF TypeOK
  <2>2. \A i \in 1..Len(recvCh) : recvCh[i].sig \in Sigs
    BY MessageFields, ElementOfSeq DEF TypeOK
  <2>3. QED
    BY <2>1, <2>2 DEF DeletedForgotten, DeletionIsLast, DeletePending
<1>5. NoGhostNode' /\ SendingBound'
  BY DEF NoGhostNode, SendingBound
<1>6. QED
  BY <1>1, <1>2, <1>3, <1>4, <1>5

-----------------------------------------------------------------------------
(* The routine's steps *)

LEMMA StartRoutineInv == ASSUME IInv, StartRoutine PROVE IInv'
BY DEF IInv, StartRoutine, handlerVars, batchVars, TypeOK, NoSendOnClosedChannel,
       DeletedForgotten, DeletePending, NoGhostNode, OpenChannels, SendingBound,
       DeletionIsLast

\* Taking the head of recvCh: the deletion of a stream that has returned is
\* still in the rest of the queue, or has just been processed.
LEMMA ReceiveInv ==
  ASSUME IInv, NEW type, Receive(type),
         DOMAIN WhereToSend'.reverse
           \subseteq DOMAIN WhereToSend.reverse \cup {Head(recvCh).sig},
         type = "deleted" => Head(recvCh).sig \notin DOMAIN WhereToSend'.reverse
  PROVE  /\ Head(recvCh) \in Message
         /\ recvCh' \in Seq(Message) /\ Len(recvCh') <= RecvCap
         /\ DeletedForgotten' /\ DeletionIsLast'
<1> USE DEF IInv
<1> DEFINE msg == Head(recvCh)
<1>1. /\ recvCh \in Seq(Message) /\ recvCh # <<>>
      /\ recvCh' = Tail(recvCh) /\ handler' = handler /\ msg.type = type
  BY DEF Receive, TypeOK, handlerVars
<1>2. /\ Len(recvCh) \in Nat \ {0}
      /\ msg = recvCh[1] /\ msg \in Message
      /\ recvCh' \in Seq(Message)
      /\ Len(recvCh') = Len(recvCh) - 1
      /\ \A i \in 1..Len(recvCh') : recvCh'[i] = recvCh[i + 1] /\ i + 1 \in 1..Len(recvCh)
      /\ \A i \in 2..Len(recvCh) : recvCh[i] = recvCh'[i - 1] /\ i - 1 \in 1..Len(recvCh')
  BY <1>1, QueueTail
<1>3. Len(recvCh') <= RecvCap
  BY <1>2, RecvCapAssumption DEF TypeOK
<1>4. /\ msg.sig \in Sigs
      /\ msg.type = "deleted" <=> msg = DeletedMsg(msg.sig)
  BY <1>2, MessageFields
<1>5. ASSUME NEW t \in Sigs, handler[t] = "done", ~DeletePending(t)'
      PROVE  /\ t \notin DOMAIN WhereToSend'.reverse
             /\ \A i \in 1..Len(recvCh') : recvCh'[i].sig # t
  <2>1. \A i \in 2..Len(recvCh) : recvCh[i] # DeletedMsg(t)
    BY <1>2, <1>5 DEF DeletePending
  <2>2. CASE msg = DeletedMsg(t)
    <3>1. msg.sig = t /\ type = "deleted"
      BY <1>1, <2>2 DEF DeletedMsg
    <3>2. \A j \in 2..Len(recvCh) : recvCh[j].sig # t
      BY <1>1, <1>2, <3>1 DEF DeletionIsLast
    <3>3. QED
      BY <1>2, <3>1, <3>2
  <2>3. CASE msg # DeletedMsg(t)
    <3>1. ~DeletePending(t)
      BY <1>2, <2>1, <2>3 DEF DeletePending
    <3>2. /\ t \notin DOMAIN WhereToSend.reverse
          /\ \A i \in 1..Len(recvCh) : recvCh[i].sig # t
      BY <1>5, <3>1 DEF DeletedForgotten
    <3>3. QED
      BY <1>2, <3>2
  <2>4. QED
    BY <2>2, <2>3
<1>6. DeletedForgotten'
  BY <1>1, <1>5 DEF DeletedForgotten
<1>7. DeletionIsLast'
  <2> SUFFICES ASSUME NEW i \in 1..Len(recvCh'), recvCh'[i].type = "deleted"
               PROVE  /\ handler[recvCh'[i].sig] = "done"
                      /\ \A j \in i+1..Len(recvCh') : recvCh'[j].sig # recvCh'[i].sig
    BY <1>1 DEF DeletionIsLast
  <2>1. /\ i + 1 \in 1..Len(recvCh) /\ recvCh'[i] = recvCh[i + 1]
        /\ \A j \in i+1..Len(recvCh') :
             j + 1 \in (i+1)+1..Len(recvCh) /\ recvCh'[j] = recvCh[j + 1]
    BY <1>2
  <2>2. /\ handler[recvCh[i + 1].sig] = "done"
        /\ \A j \in (i+1)+1..Len(recvCh) : recvCh[j].sig # recvCh[i + 1].sig
    BY <2>1 DEF DeletionIsLast
  <2>3. QED
    BY <2>1, <2>2
<1>8. QED
  BY <1>2, <1>3, <1>6, <1>7

LEMMA ReceiveDeletedInv == ASSUME IInv, ReceiveDeleted PROVE IInv'
<1> USE DEF IInv
<1> DEFINE sig == Head(recvCh).sig
           unique == GetUniqueKeys(WhereToSend, sig)
<1>1. /\ Receive("deleted")
      /\ WhereToSend' = RemoveValue(RemoveKeys(WhereToSend, unique), sig)
      /\ latestStatus' = Without(latestStatus, unique)
      /\ counted' \in BOOLEAN
      /\ UNCHANGED <<handlerVars, routine, expected, sending, sender, savedReports>>
  BY DEF ReceiveDeleted, Receive, TypeOK
<1>2. sig \in Sigs
  BY QueueTail, MessageFields DEF Receive, ReceiveDeleted, TypeOK
<1>3. /\ WellFormed(WhereToSend', Nids, Sigs)
      /\ DOMAIN WhereToSend'.fwd = DOMAIN WhereToSend.fwd \ unique
      /\ DOMAIN WhereToSend'.reverse \subseteq DOMAIN WhereToSend.reverse \ {sig}
  BY <1>1, <1>2, DeletionForgets DEF NoGhostNode
<1>4. /\ recvCh' \in Seq(Message) /\ Len(recvCh') <= RecvCap
      /\ DeletedForgotten' /\ DeletionIsLast'
  BY <1>1, <1>3, ReceiveInv
<1>5. NoGhostNode'
  BY <1>1, <1>3 DEF NoGhostNode, Without
<1>6. TypeOK'
  BY <1>1, <1>3, <1>4 DEF TypeOK, WellFormed, Without, handlerVars
<1>7. NoSendOnClosedChannel' /\ OpenChannels' /\ SendingBound'
  BY <1>1 DEF NoSendOnClosedChannel, OpenChannels, SendingBound, Receive, handlerVars
<1>8. QED
  BY <1>4, <1>5, <1>6, <1>7

LEMMA ReceiveReportInv == ASSUME IInv, ReceiveReport PROVE IInv'
<1> USE DEF IInv
<1>1. /\ Receive("report")
      /\ savedReports' = savedReports \cup {Head(recvCh).report}
      /\ counted' \in BOOLEAN
      /\ UNCHANGED <<handlerVars, routine, expected, sending, sender,
                     WhereToSend, latestStatus>>
  BY DEF ReceiveReport, Receive, TypeOK
<1>2. /\ Head(recvCh) \in Message
      /\ recvCh' \in Seq(Message) /\ Len(recvCh') <= RecvCap
      /\ DeletedForgotten' /\ DeletionIsLast'
  BY <1>1, ReceiveInv
<1>3. Head(recvCh).report \in Reports
  BY <1>1, <1>2, MessageFields DEF Receive
<1>4. TypeOK'
  BY <1>1, <1>2, <1>3 DEF TypeOK, handlerVars
<1>5. NoSendOnClosedChannel' /\ OpenChannels' /\ NoGhostNode' /\ SendingBound'
  BY <1>1 DEF NoSendOnClosedChannel, OpenChannels, NoGhostNode, SendingBound, Receive,
              handlerVars
<1>6. QED
  BY <1>2, <1>4, <1>5

LEMMA ReceiveStatusInv == ASSUME IInv, ReceiveStatus PROVE IInv'
<1> USE DEF IInv
<1> DEFINE msg == Head(recvCh)
<1>1. /\ Receive("status")
      /\ WhereToSend' = Add(WhereToSend, msg.nid, msg.sig)
      /\ \/ msg.nid \in DOMAIN latestStatus /\ UNCHANGED <<latestStatus, counted>>
         \/ latestStatus' = Save(latestStatus, msg.nid, msg.status) /\ counted' = TRUE
      /\ UNCHANGED <<handlerVars, routine, expected, sending, sender, savedReports>>
  BY DEF ReceiveStatus, Receive, Unchanged
<1>2. msg \in Message /\ msg.type = "status"
  BY <1>1, QueueTail DEF Receive, TypeOK
<1>3. msg.sig \in Sigs /\ msg.nid \in Nids /\ msg.status \in Statuses
  BY <1>2, MessageFields
<1>4. /\ WellFormed(WhereToSend', Nids, Sigs)
      /\ DOMAIN WhereToSend'.fwd = DOMAIN WhereToSend.fwd \cup {msg.nid}
      /\ DOMAIN WhereToSend'.reverse = DOMAIN WhereToSend.reverse \cup {msg.sig}
  BY <1>1, <1>3, AddWellFormed, AddBinds DEF NoGhostNode
<1>5. /\ recvCh' \in Seq(Message) /\ Len(recvCh') <= RecvCap
      /\ DeletedForgotten' /\ DeletionIsLast'
  BY <1>1, <1>4, ReceiveInv
<1>6. NoGhostNode'
  BY <1>1, <1>4 DEF NoGhostNode, Save
<1>7. /\ DOMAIN latestStatus' \subseteq Nids
      /\ latestStatus' \in [DOMAIN latestStatus' -> Statuses]
      /\ counted' \in BOOLEAN
  BY <1>1, <1>3 DEF TypeOK, Save
<1>8. TypeOK'
  BY <1>1, <1>4, <1>5, <1>7 DEF TypeOK, WellFormed, handlerVars
<1>9. NoSendOnClosedChannel' /\ OpenChannels' /\ SendingBound'
  BY <1>1 DEF NoSendOnClosedChannel, OpenChannels, SendingBound, Receive, handlerVars
<1>10. QED
  BY <1>5, <1>6, <1>8, <1>9

\* A step that leaves the queue, the map and the handlers alone keeps what the
\* invariant says of them.
LEMMA QueueUntouched ==
  ASSUME IInv, UNCHANGED <<handler, recvCh, WhereToSend>>
  PROVE  DeletedForgotten' /\ DeletionIsLast'
BY DEF IInv, DeletedForgotten, DeletePending, DeletionIsLast

LEMMA UpdateSFUStatusInv == ASSUME IInv, UpdateSFUStatus PROVE IInv'
<1> USE DEF IInv, UpdateSFUStatus, handlerVars, batchVars
<1>1. DOMAIN expected' \subseteq Nids /\ expected' \in [DOMAIN expected' -> Statuses]
  OBVIOUS
<1>2. TypeOK'
  BY <1>1 DEF TypeOK
<1>3. NoSendOnClosedChannel' /\ OpenChannels' /\ NoGhostNode' /\ SendingBound'
  BY DEF NoSendOnClosedChannel, OpenChannels, NoGhostNode, SendingBound
<1>4. QED
  BY <1>2, <1>3, QueueUntouched

LEMMA DispatchInv == ASSUME IInv, NEW n \in Nids, Dispatch(n) PROVE IInv'
<1> USE DEF IInv
<1>1. /\ Take(n)
      /\ \/ UNCHANGED <<routine, sending>>
         \/ \E s \in sendChs :
              /\ routine' = "sending"
              /\ sending' = [nid |-> n, sig |-> s, status |-> expected[n]]
              /\ s \in GetSet(WhereToSend.fwd, n)
  BY DEF Dispatch, SkipUnchanged, SkipNoSig, SkipNoSendCh, BeginSend, FirstSig
<1>2. /\ DOMAIN expected' \subseteq Nids /\ expected' \in [DOMAIN expected' -> Statuses]
      /\ expected[n] \in Statuses
  BY <1>1 DEF Take, Without, TypeOK
<1>3. UNCHANGED <<handlerVars, recvCh, batchVars, sender>> /\ routine = "dispatch"
  BY <1>1 DEF Take
<1>4. TypeOK'
  <2>1. IF routine' = "sending"
        THEN sending' \in [nid : Nids, sig : Sigs, status : Statuses]
        ELSE sending' = {}
    BY <1>1, <1>2, <1>3 DEF TypeOK
  <2>2. routine' \in {"off", "batch", "dispatch", "sending"}
    BY <1>1, <1>3
  <2>3. QED
    BY <1>2, <1>3, <2>1, <2>2 DEF TypeOK, handlerVars, batchVars
<1>5. NoSendOnClosedChannel' /\ SendingBound'
  BY <1>1, <1>3 DEF NoSendOnClosedChannel, OpenChannels, SendingBound, GetSet, Exists,
                    handlerVars, batchVars
<1>6. OpenChannels' /\ NoGhostNode'
  BY <1>3 DEF OpenChannels, NoGhostNode, handlerVars, batchVars
<1>7. QED
  BY <1>3, <1>4, <1>5, <1>6, QueueUntouched DEF handlerVars, batchVars

LEMMA SendExpectedInv == ASSUME IInv, SendExpected PROVE IInv'
<1> USE DEF IInv, SendExpected, handlerVars, batchVars
<1>1. sending \in [nid : Nids, sig : Sigs, status : Statuses]
  BY DEF TypeOK
<1>2. /\ DOMAIN latestStatus' = DOMAIN latestStatus \cup {sending.nid}
      /\ latestStatus' \in [DOMAIN latestStatus' -> Statuses]
  BY <1>1 DEF Save, TypeOK
<1>3. TypeOK'
  BY <1>1, <1>2 DEF TypeOK
<1>4. NoSendOnClosedChannel' /\ OpenChannels' /\ SendingBound'
  BY DEF NoSendOnClosedChannel, OpenChannels, SendingBound, TypeOK
<1>5. NoGhostNode'
  BY <1>2 DEF NoGhostNode, SendingBound, Exists
<1>6. QED
  BY <1>3, <1>4, <1>5, QueueUntouched

LEMMA EndDispatchInv == ASSUME IInv, EndDispatch PROVE IInv'
<1> USE DEF IInv, EndDispatch, handlerVars
<1>1. TypeOK'
  BY DEF TypeOK
<1>2. NoSendOnClosedChannel' /\ OpenChannels' /\ NoGhostNode' /\ SendingBound'
  BY DEF NoSendOnClosedChannel, OpenChannels, NoGhostNode, SendingBound
<1>3. QED
  BY <1>1, <1>2, QueueUntouched

LEMMA SenderInv == ASSUME IInv, NEW s \in Sigs, Sender(s) PROVE IInv'
<1> USE DEF IInv, Sender, SenderStored, SenderExit, handlerVars, batchVars
<1>1. TypeOK'
  BY DEF TypeOK
<1>2. OpenChannels' /\ NoSendOnClosedChannel'
  BY DEF OpenChannels, NoSendOnClosedChannel, TypeOK
<1>3. NoGhostNode' /\ SendingBound'
  BY DEF NoGhostNode, SendingBound
<1>4. QED
  BY <1>1, <1>2, <1>3, QueueUntouched

-----------------------------------------------------------------------------
(* The theorems *)

LEMMA StepInv == IInv /\ [Next]_vars => IInv'
<1> SUFFICES ASSUME IInv, [Next]_vars PROVE IInv'
  OBVIOUS
<1>1. ASSUME NEW s \in Sigs, Handler(s) PROVE IInv'
  BY <1>1, OpenInv, RecvRequestInv, CloseInv, PushDeletedInv DEF Handler
<1>2. ASSUME NEW s \in Sigs, Sender(s) PROVE IInv'
  BY <1>2, SenderInv
<1>3. CASE Routine
  BY <1>3, StartRoutineInv, ReceiveDeletedInv, ReceiveReportInv, ReceiveStatusInv,
     UpdateSFUStatusInv, DispatchInv, SendExpectedInv, EndDispatchInv DEF Routine
<1>4. CASE UNCHANGED vars
  BY <1>4 DEF vars, handlerVars, batchVars, IInv, TypeOK, NoSendOnClosedChannel,
     DeletedForgotten, DeletePending, NoGhostNode, OpenChannels, SendingBound,
     DeletionIsLast
<1>5. QED
  BY <1>1, <1>2, <1>3, <1>4 DEF Next, Quiet

\* Every reachable state of the server satisfies the inductive invariant.
THEOREM ServerInvariant == Spec => []IInv
BY InitInv, StepInv, PTL DEF Spec

\* The variables keep their types: in particular recvCh never exceeds its
\* capacity and never holds anything but a request or a deletion.
THEOREM TypeCorrect == Spec => []TypeOK
<1>1. IInv => TypeOK
  BY DEF IInv
<1>2. QED
  BY <1>1, ServerInvariant, PTL

\* The send of service.go:208 never meets a closed channel or a sender that has
\* exited.
THEOREM NeverSendsOnClosedChannel == Spec => []NoSendOnClosedChannel
<1>1. IInv => NoSendOnClosedChannel
  BY DEF IInv
<1>2. QED
  BY <1>1, ServerInvariant, PTL

\* A stream whose deletion was processed is never bound to a node again.
THEOREM DeletedStaysForgotten == Spec => []DeletedForgotten
<1>1. IInv => DeletedForgotten
  BY DEF IInv
<1>2. QED
  BY <1>1, ServerInvariant, PTL

\* The algorithm sees exactly the nodes for which some stream stands.
THEOREM NeverGhostNode == Spec => []NoGhostNode
<1>1. IInv => NoGhostNode
  BY DEF IInv
<1>2. QED
  BY <1>1, ServerInvariant, PTL

\* Only the deletion of a stream itself unbinds it from a node.
THEOREM OnlyDeadUnbound == Spec => OnlyDeadStreamsUnbound
<1> DEFINE Unbinds(n, s) ==
      Exists(WhereToSend.fwd, n, s) /\ ~Exists(WhereToSend'.fwd, n, s)
           Step == \A n \in Nids, s \in Sigs : Unbinds(n, s) => handler[s] = "done"
<1>1. IInv /\ [Next]_vars => [Step]_vars
  <2> SUFFICES ASSUME IInv, Next, NEW n \in Nids, NEW s \in Sigs, Unbinds(n, s)
               PROVE  handler[s] = "done"
    OBVIOUS
  <2>1. WhereToSend' # WhereToSend
    OBVIOUS
  <2>2. ReceiveDeleted \/ ReceiveStatus
    BY <2>1 DEF Next, Handler, Open, RecvRequest, RecvError, CloseSendCh, PushDeleted,
       Sender, SenderStored, SenderExit, Routine, StartRoutine, ReceiveReport,
       UpdateSFUStatus, Dispatch, SkipUnchanged, SkipNoSig, SkipNoSendCh, BeginSend,
       FirstSig, Take, SendExpected, EndDispatch, Quiet, vars, batchVars
  <2>3. recvCh \in Seq(Message) /\ recvCh # <<>>
    BY <2>2 DEF IInv, TypeOK, ReceiveDeleted, ReceiveStatus, Receive
  <2>4. /\ Head(recvCh) = recvCh[1] /\ 1 \in 1..Len(recvCh)
        /\ Head(recvCh) \in Message
    BY <2>3, QueueTail
  <2>5. WellFormed(WhereToSend, Nids, Sigs)
    BY DEF IInv, NoGhostNode
  <2>6. CASE ReceiveStatus
    <3>1. Head(recvCh).nid \in Nids /\ Head(recvCh).sig \in Sigs
      BY <2>4, <2>6, MessageFields DEF ReceiveStatus, Receive
    <3>2. QED
      BY <2>5, <2>6, <3>1, AddBinds DEF ReceiveStatus
  <2>7. CASE ReceiveDeleted
    <3>1. Head(recvCh).sig \in Sigs /\ Head(recvCh).type = "deleted"
      BY <2>4, <2>7, MessageFields DEF ReceiveDeleted, Receive
    <3>2. s = Head(recvCh).sig
      BY <2>5, <2>7, <3>1, DeletionForgets DEF ReceiveDeleted
    <3>3. QED
      BY <2>4, <3>1, <3>2 DEF IInv, DeletionIsLast
  <2>8. QED
    BY <2>2, <2>6, <2>7
<1>2. QED
  BY <1>1, ServerInvariant, PTL DEF Spec, OnlyDeadStreamsUnbound

-----------------------------------------------------------------------------
(* The server keeps to its channels *)

\* The sender of a stream is started with its channel, not before (service.go:66-78).
OffBeforeOpen == \A s \in Sigs : handler[s] = "idle" => sender[s] = "off"

\* Every step of the server opens, uses, leaves or closes one channel, in the order
\* of module SendChannels, or touches none (service.go:66-78, 192-215).
LEMMA ChannelSteps ==
  IInv /\ OffBeforeOpen /\ [Next]_vars => OffBeforeOpen' /\ [Channels!Next]_<<sendChs, sender>>
<1> SUFFICES ASSUME IInv, OffBeforeOpen, [Next]_vars
             PROVE  OffBeforeOpen' /\ [Channels!Next]_<<sendChs, sender>>
  OBVIOUS
<1> USE DEF OffBeforeOpen, Channels!Goes
<1>1. /\ handler \in [Sigs -> {"idle", "recv", "closing", "deleting", "done"}]
      /\ sender \in [Sigs -> {"off", "ready", "busy", "exited"}]
      /\ sendChs = {s \in Sigs : handler[s] \in {"recv", "closing"}}
  BY DEF IInv, TypeOK, OpenChannels
<1>2. ASSUME NEW s \in Sigs, Open(s) PROVE OffBeforeOpen' /\ Channels!Open(s)
  BY <1>1, <1>2 DEF Open, Channels!Open
<1>3. ASSUME NEW s \in Sigs, CloseSendCh(s) PROVE OffBeforeOpen' /\ Channels!Close(s)
  BY <1>1, <1>3 DEF CloseSendCh, Channels!Close
<1>4. ASSUME NEW s \in Sigs, SenderStored(s) PROVE OffBeforeOpen' /\ Channels!Stored(s)
  BY <1>1, <1>4 DEF SenderStored, handlerVars, Channels!Stored
<1>5. ASSUME NEW s \in Sigs, SenderExit(s) PROVE OffBeforeOpen' /\ Channels!Exit(s)
  BY <1>1, <1>5 DEF SenderExit, handlerVars, Channels!Exit
<1>6. CASE SendExpected
  <2>1. sending.sig \in Sigs /\ sending.sig \in sendChs
    BY <1>1, <1>6 DEF SendExpected, IInv, NoSendOnClosedChannel
  <2>2. Channels!Handover(sending.sig)
    BY <1>6, <2>1 DEF SendExpected, handlerVars, Channels!Handover
  <2>3. OffBeforeOpen'
    BY <1>1, <1>6, <2>1 DEF SendExpected, handlerVars
  <2> QED
    BY <2>1, <2>2, <2>3 DEF Channels!Next
<1>7. ASSUME UNCHANGED <<sendChs, sender>>, \A s \in Sigs : handler'[s] = "idle" => handler[s] = "idle"
      PROVE  OffBeforeOpen' /\ UNCHANGED <<sendChs, sender>>
  BY <1>7
<1>8. ASSUME NEW s \in Sigs, RecvRequest(s) \/ RecvError(s) \/ PushDeleted(s)
      PROVE  OffBeforeOpen' /\ UNCHANGED <<sendChs, sender>>
  BY <1>1, <1>7, <1>8 DEF RecvRequest, RecvError, PushDeleted
<1>9. CASE Routine /\ ~SendExpected
  <2>1. UNCHANGED <<handler, sendChs, sender>>
    BY <1>9 DEF Routine, StartRoutine, ReceiveDeleted, ReceiveReport, ReceiveStatus, Receive,
                UpdateSFUStatus, Dispatch, SkipUnchanged, SkipNoSig, SkipNoSendCh, BeginSend,
                FirstSig, Take, EndDispatch, handlerVars
  <2> QED
    BY <1>7, <2>1
<1>10. CASE Quiet \/ UNCHANGED vars
  <2>1. UNCHANGED <<handler, sendChs, sender>>
    BY <1>10 DEF Quiet, vars, handlerVars
  <2> QED
    BY <1>7, <2>1
<1> QED
  BY <1>2, <1>3, <1>4, <1>5, <1>6, <1>8, <1>9, <1>10 DEF Next, Handler, Sender, Channels!Next

\* The server and the sender agree about sendCh: this is the server's half, for any
\* sender that takes one status at a time.
THEOREM ServerKeepsToChannels == Spec => KeepsToChannels
<1>1. Init => Channels!Init /\ OffBeforeOpen
  BY DEF Init, Channels!Init, OffBeforeOpen
<1> QED
  BY <1>1, ChannelSteps, ServerInvariant, PTL DEF Spec, KeepsToChannels, Channels!Spec

-----------------------------------------------------------------------------
(* The sender of one stream *)

\* The types, the room for the push and the survival of the newest status are
\* inductive together (service.go:226-269).
SenderIInv == SenderTypeOK /\ PushNeverBlocks /\ LatestSurvives

\* A sender that starts waits at sendCh, and has no channels yet (service.go:217-226).
LEMMA SenderInitInv == SenderInit => SenderIInv
BY NoneAssumption DEF SenderInit, SenderIInv, SenderTypeOK, PushNeverBlocks, LatestSurvives, Newest,
   Nothing

\* The routine's steps keep the invariant.
LEMMA SenderRoutineInv == SenderIInv /\ SenderRoutine => SenderIInv'
<1> SUFFICES ASSUME SenderIInv, SenderRoutine PROVE SenderIInv'
  OBVIOUS
<1> USE NoneAssumption DEF SenderIInv, Newest, Nothing
<1>1. ASSUME NEW n \in Nids, NEW st \in Statuses, ReceiveExpected(n, st) PROVE SenderIInv'
  <2>1. SenderTypeOK'
    BY <1>1 DEF SenderTypeOK, ReceiveExpected
  <2>2. PushNeverBlocks'
    BY <1>1 DEF PushNeverBlocks, ReceiveExpected
  <2>3. LatestSurvives'
    BY <1>1 DEF LatestSurvives, SenderTypeOK, ReceiveExpected
  <2>4. QED
    BY <2>1, <2>2, <2>3
<1>2. ASSUME Store, pc \in {"offer", "push"} PROVE SenderIInv'
  <2>1. held.nid \in Nids /\ held.status \in Statuses
    BY <1>2 DEF SenderTypeOK
  <2>2. SenderTypeOK'
    BY <1>2, <2>1 DEF SenderTypeOK, Store
  <2>3. PushNeverBlocks'
    BY <1>2 DEF PushNeverBlocks, Store
  <2>4. LatestSurvives'
    BY <1>2, <2>1 DEF LatestSurvives, SenderTypeOK, Store
  <2>5. QED
    BY <2>2, <2>3, <2>4
<1>3. CASE OfferRefused
  BY <1>3 DEF OfferRefused, SenderTypeOK, PushNeverBlocks, LatestSurvives
<1>4. CASE Drain
  <2>1. held.nid \in Nids
    BY <1>4 DEF Drain, SenderTypeOK
  <2>2. SenderTypeOK'
    BY <1>4 DEF SenderTypeOK, Drain
  <2>3. PushNeverBlocks'
    BY <1>4, <2>1 DEF PushNeverBlocks, SenderTypeOK, Drain
  <2>4. LatestSurvives'
    BY <1>4, <2>1 DEF LatestSurvives, SenderTypeOK, Drain
  <2>5. QED
    BY <2>2, <2>3, <2>4
<1>5. CASE Exit
  BY <1>5 DEF Exit, SenderTypeOK, PushNeverBlocks, LatestSurvives
<1>6. QED
  BY <1>1, <1>2, <1>3, <1>4, <1>5 DEF SenderRoutine, OfferAccepted, PushLatest

\* So do the handler's close and the workers' steps.
LEMMA WorkerInv ==
  ASSUME SenderIInv, Close \/ \E n \in Nids : Worker(n)
  PROVE  SenderIInv'
<1> USE NoneAssumption DEF SenderIInv, Newest, Nothing
<1>1. CASE Close
  BY <1>1 DEF Close, SenderTypeOK, PushNeverBlocks, LatestSurvives
<1>2. ASSUME NEW n \in Nids, TakeLatest(n) PROVE SenderIInv'
  <2>1. SenderTypeOK'
    BY <1>2 DEF SenderTypeOK, TakeLatest
  <2>2. PushNeverBlocks'
    BY <1>2 DEF PushNeverBlocks, SenderTypeOK, TakeLatest
  <2>3. LatestSurvives'
    BY <1>2 DEF LatestSurvives, SenderTypeOK, TakeLatest
  <2>4. QED
    BY <2>1, <2>2, <2>3
<1>3. ASSUME NEW n \in Nids, SigSendReturns(n) \/ WorkerExits(n) PROVE SenderIInv'
  BY <1>3 DEF SigSendReturns, WorkerExits, SenderTypeOK, PushNeverBlocks, LatestSurvives
<1>4. QED
  BY <1>1, <1>2, <1>3 DEF Worker

\* Every reachable state of the sender satisfies the invariant.
THEOREM SenderInvariant == SenderSpec => []SenderIInv
<1>1. SenderIInv /\ [SenderNext]_senderVars => SenderIInv'
  <2>1. ASSUME SenderIInv, UNCHANGED senderVars PROVE SenderIInv'
    BY <2>1 DEF senderVars, SenderIInv, SenderTypeOK, PushNeverBlocks, LatestSurvives, Newest
  <2>2. QED
    BY <2>1, SenderRoutineInv, WorkerInv DEF SenderNext, Ended
<1>2. QED
  BY <1>1, SenderInitInv, PTL DEF SenderSpec

\* The push of service.go:266 finds an empty channel.
THEOREM PushNeverBlocksHolds == SenderSpec => []PushNeverBlocks
<1>1. SenderIInv => PushNeverBlocks
  BY DEF SenderIInv
<1>2. QED
  BY <1>1, SenderInvariant, PTL

\* The newest status received for a nid is held, waits in its channel, or was
\* the last one that its worker took.
THEOREM LatestSurvivesHolds == SenderSpec => []LatestSurvives
<1>1. SenderIInv => LatestSurvives
  BY DEF SenderIInv
<1>2. QED
  BY <1>1, SenderInvariant, PTL

-----------------------------------------------------------------------------
(* The sender implements the mailbox *)

\* What the mailbox of module LatestMailbox holds in a state of the sender.
Waiting == [n \in Nids |-> IF pc = "push" /\ held.nid = n THEN held.status ELSE box[n]]

LEMMA WaitingDef == ASSUME NEW n \in Nids
                    PROVE  Waiting[n] = IF pc = "push" /\ held.nid = n
                                        THEN held.status ELSE box[n]
BY DEF Waiting

\* Every step of the sender is a step of the mailbox or leaves it unchanged.
THEOREM RefinesMailbox == SenderSpec => ImplementsMailbox
<1>1. SenderInit => Mailbox!Init
  BY DEF SenderInit, Mailbox!Init
<1>2. SenderIInv /\ [SenderNext]_senderVars => [Mailbox!Next]_<<Waiting, taken>>
  <2> SUFFICES ASSUME SenderIInv, [SenderNext]_senderVars PROVE [Mailbox!Next]_<<Waiting, taken>>
    OBVIOUS
  <2> USE NoneAssumption DEF SenderIInv, SenderTypeOK, Nothing, Waiting
  <2>1. ASSUME NEW n \in Nids, NEW st \in Statuses, ReceiveExpected(n, st)
        PROVE  UNCHANGED <<Waiting, taken>>
    BY <2>1 DEF ReceiveExpected
  <2>2. CASE OfferAccepted
    <3>1. Mailbox!Post(held.nid, held.status)
      BY <2>2 DEF OfferAccepted, Store, Mailbox!Post
    <3>2. held.nid \in Nids /\ held.status \in Statuses
      BY <2>2 DEF OfferAccepted
    <3>3. \E k \in Nids, v \in Statuses : Mailbox!Post(k, v)
      BY <3>1, <3>2 DEF Mailbox!Post
    <3>4. QED
      BY <3>3 DEF Mailbox!Next
  <2>3. CASE OfferRefused \/ Exit \/ Close
    BY <2>3 DEF OfferRefused, Exit, Close
  <2>4. CASE Drain
    <3>1. Mailbox!Post(held.nid, held.status)
      BY <2>4 DEF Drain, Mailbox!Post
    <3>2. held.nid \in Nids /\ held.status \in Statuses
      BY <2>4 DEF Drain
    <3>3. \E k \in Nids, v \in Statuses : Mailbox!Post(k, v)
      BY <3>1, <3>2 DEF Mailbox!Post
    <3>4. QED
      BY <3>3 DEF Mailbox!Next
  <2>5. CASE PushLatest
    BY <2>5 DEF PushLatest, Store
  <2>6. ASSUME NEW n \in Nids, TakeLatest(n)
        PROVE  Mailbox!TakeOut(n)
    BY <2>6 DEF TakeLatest, PushNeverBlocks, Mailbox!TakeOut
  <2>7. ASSUME NEW n \in Nids, SigSendReturns(n) \/ WorkerExits(n)
        PROVE  UNCHANGED <<Waiting, taken>>
    BY <2>7 DEF SigSendReturns, WorkerExits
  <2>8. CASE UNCHANGED senderVars
    BY <2>8 DEF senderVars
  <2>9. QED
    BY <2>1, <2>2, <2>3, <2>4, <2>5, <2>6, <2>7, <2>8
       DEF SenderNext, SenderRoutine, Worker, Ended, Mailbox!Next
<1>3. QED
  BY <1>1, <1>2, SenderInvariant, PTL
     DEF SenderSpec, ImplementsMailbox, Mailbox!Spec, Waiting

-----------------------------------------------------------------------------
(* The sender keeps to its channel *)

\* The variables of module SendChannels in a state of the sender.
OpenChannel == IF open THEN {"stream"} ELSE {}
Place == [s \in {"stream"} |-> CASE pc = "receive" -> "ready"
                                 [] pc = "exited"  -> "exited"
                                 [] OTHER          -> "busy"]

\* Offer, drain and push are inside one stay away from sendCh; the workers have no
\* part in it (service.go:222-270).
LEMMA StoringIsBusy ==
  SenderIInv /\ [SenderNext]_senderVars => [Channel!Next]_<<OpenChannel, Place>>
<1> SUFFICES ASSUME SenderIInv, [SenderNext]_senderVars
             PROVE  \/ Channel!Handover("stream") \/ Channel!Stored("stream")
                    \/ Channel!Close("stream") \/ Channel!Exit("stream")
                    \/ UNCHANGED <<OpenChannel, Place>>
  BY DEF Channel!Next, Channel!Handover, Channel!Stored, Channel!Close, Channel!Exit, Channel!Goes,
         OpenChannel, Place
<1> USE DEF SenderIInv, SenderTypeOK, OpenChannel, Place, Channel!Goes
<1>1. ASSUME NEW n \in Nids, NEW st \in Statuses, ReceiveExpected(n, st) PROVE Channel!Handover("stream")
  BY <1>1 DEF ReceiveExpected, Channel!Handover
<1>2. CASE OfferAccepted \/ PushLatest
  BY <1>2 DEF OfferAccepted, PushLatest, Store, Channel!Stored
<1>3. CASE OfferRefused \/ Drain
  BY <1>3 DEF OfferRefused, Drain
<1>4. CASE Exit
  BY <1>4 DEF Exit, Channel!Exit
<1>5. CASE Close
  BY <1>5 DEF Close, Channel!Close
<1>6. ASSUME NEW n \in Nids, Worker(n) PROVE UNCHANGED <<OpenChannel, Place>>
  BY <1>6 DEF Worker, TakeLatest, SigSendReturns, WorkerExits
<1>7. CASE Ended \/ UNCHANGED senderVars
  BY <1>7 DEF Ended, senderVars
<1> QED
  BY <1>1, <1>2, <1>3, <1>4, <1>5, <1>6, <1>7 DEF SenderNext, SenderRoutine

\* The sender's half, for any server that hands over on open channels.
THEOREM SenderKeepsToChannel == SenderSpec => KeepsToChannel
<1>1. SenderInit => OpenChannel = {"stream"} /\ Place = [s \in {"stream"} |-> "ready"]
  BY DEF SenderInit, OpenChannel, Place
<1> QED
  BY <1>1, StoringIsBusy, SenderInvariant, PTL
     DEF SenderSpec, KeepsToChannel, Channel!OpenedSpec, OpenChannel, Place

=============================================================================
