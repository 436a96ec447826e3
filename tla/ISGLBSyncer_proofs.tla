------------------------- MODULE ISGLBSyncer_proofs --------------------------
(***************************************************************************)
(* The safety invariants of the syncer, for any sessions, tracks and       *)
(* statuses.                                                               *)
(***************************************************************************)
EXTENDS ISGLBSyncer, FiniteSetTheorems, TLAPS

(* The difference of two indexes *)

Members(s) == {s[n] : n \in DOMAIN s}

Items == [key : Keys, data : Infos]
Changes == [key : Keys, old : Infos, new : Infos]

Merged(index, new, done) ==
  [k \in DOMAIN index \cup done |-> IF k \in done THEN new[k] ELSE index[k]]
ItemsOf(ks, index) == {[key |-> k, data |-> index[k]] : k \in ks}
ChangesOf(ks, index, new) == {[key |-> k, old |-> index[k], new |-> new[k]] : k \in ks}

\* What the first loop of DisorderSet.Update has found for the list new after the
\* items of some keys (set.go:68-88): they are in the index and checked, and of the
\* difference, what concerns them was returned.
FoundFor(done, acc, index, new) ==
  /\ acc = [index |-> acc.index, checked |-> acc.checked, add |-> acc.add, replace |-> acc.replace]
  /\ acc.checked = done
  /\ acc.index = Merged(index, new, done)
  /\ acc.add \in Seq(Items) /\ Members(acc.add) = ItemsOf(Added(index, new) \cap done, new)
  /\ acc.replace \in Seq(Changes)
  /\ Members(acc.replace) = ChangesOf(Replaced(index, new) \cap done, index, new)

\* Appending to a list adds one member to it (set.go:77,82).
LEMMA AppendMember ==
  ASSUME NEW S, NEW s \in Seq(S), NEW e \in S
  PROVE  Append(s, e) \in Seq(S) /\ Members(Append(s, e)) = Members(s) \cup {e}
<1>1. /\ Append(s, e) \in Seq(S) /\ Len(s) \in Nat
      /\ DOMAIN s = 1 .. Len(s) /\ DOMAIN Append(s, e) = 1 .. Len(s) + 1
      /\ \A i \in 1 .. Len(s) : Append(s, e)[i] = s[i]
      /\ Append(s, e)[Len(s) + 1] = e
  OBVIOUS
<1>2. Members(s) \cup {e} \subseteq Members(Append(s, e))
  BY <1>1 DEF Members
<1>3. Members(Append(s, e)) \subseteq Members(s) \cup {e}
  <2> SUFFICES ASSUME NEW i \in 1 .. Len(s) + 1
               PROVE  Append(s, e)[i] \in Members(s) \cup {e}
    BY <1>1 DEF Members
  <2>1. i \in 1 .. Len(s) \/ i = Len(s) + 1
    BY <1>1
  <2> QED
    BY <1>1, <2>1 DEF Members
<1> QED
  BY <1>1, <1>2, <1>3

\* A turn of the first loop finds what concerns its item, even if its key was
\* listed before (set.go:69-88).
LEMMA TurnFinds ==
  ASSUME NEW index \in Tracks, NEW new \in Tracks, NEW done \in SUBSET DOMAIN new,
         NEW key \in DOMAIN new, NEW acc, FoundFor(done, acc, index, new)
  PROVE  FoundFor(done \cup {key}, UpdateItem(acc, [key |-> key, data |-> new[key]]), index, new)
<1> DEFINE item == [key |-> key, data |-> new[key]]
           next == UpdateItem(acc, item)
<1> SUFFICES FoundFor(done \cup {key}, next, index, new)
  OBVIOUS
<1>1. /\ DOMAIN index \subseteq Keys /\ DOMAIN new \subseteq Keys
      /\ \A k \in DOMAIN index : index[k] \in Infos
      /\ \A k \in DOMAIN new : new[k] \in Infos
  BY DEF Tracks
<1>2. item.key = key /\ item.data = new[key] /\ item \in Items
  BY <1>1 DEF Items
<1>3. /\ acc = [index |-> acc.index, checked |-> acc.checked, add |-> acc.add,
                 replace |-> acc.replace]
      /\ acc.checked = done
      /\ acc.add \in Seq(Items) /\ Members(acc.add) = ItemsOf(Added(index, new) \cap done, new)
      /\ acc.replace \in Seq(Changes)
      /\ Members(acc.replace) = ChangesOf(Replaced(index, new) \cap done, index, new)
      /\ acc.index = Merged(index, new, done)
  BY DEF FoundFor
<1>4. DOMAIN acc.index = DOMAIN index \cup done
      /\ \A k \in DOMAIN acc.index : acc.index[k] = IF k \in done THEN new[k] ELSE index[k]
  BY <1>3 DEF Merged
<1>5. Put(acc.index, item) = Merged(index, new, done \cup {key})
  BY <1>2, <1>4 DEF Put, Merged
<1>6. CASE key \in DOMAIN acc.index /\ acc.index[key] = new[key]
  <2>1. next = [index |-> acc.index, checked |-> done \cup {key}, add |-> acc.add,
                replace |-> acc.replace]
    <3> HIDE DEF item
    <3> QED
      BY <1>2, <1>3, <1>6 DEF UpdateItem
  <2>2. acc.index = Merged(index, new, done \cup {key})
    BY <1>3, <1>4, <1>6 DEF Merged
  <2>3. /\ Added(index, new) \cap done = Added(index, new) \cap (done \cup {key})
        /\ Replaced(index, new) \cap done = Replaced(index, new) \cap (done \cup {key})
    BY <1>4, <1>6 DEF Added, Replaced
  <2> HIDE DEF next
  <2>4. /\ next = [index |-> next.index, checked |-> next.checked, add |-> next.add,
                   replace |-> next.replace]
        /\ next.checked = done \cup {key}
        /\ next.index = acc.index /\ next.add = acc.add /\ next.replace = acc.replace
    BY <2>1
  <2> QED
    BY <1>3, <2>2, <2>3, <2>4 DEF FoundFor
<1>7. CASE key \in DOMAIN acc.index /\ acc.index[key] # new[key]
  <2> DEFINE change == [key |-> key, old |-> acc.index[key], new |-> new[key]]
  <2>1. key \notin done /\ key \in DOMAIN index /\ acc.index[key] = index[key]
    BY <1>4, <1>7
  <2>2. change \in Changes
    BY <1>1, <2>1 DEF Changes
  <2>3. next = [index |-> Put(acc.index, item), checked |-> done \cup {key}, add |-> acc.add,
                replace |-> Append(acc.replace, change)]
    <3> HIDE DEF item
    <3> QED
      BY <1>2, <1>3, <1>7 DEF UpdateItem
  <2>4. /\ Added(index, new) \cap done = Added(index, new) \cap (done \cup {key})
        /\ Replaced(index, new) \cap (done \cup {key}) = (Replaced(index, new) \cap done) \cup {key}
    BY <1>7, <2>1 DEF Added, Replaced
  <2>5. ChangesOf(Replaced(index, new) \cap done, index, new) \cup {change}
          = ChangesOf(Replaced(index, new) \cap (done \cup {key}), index, new)
    BY <2>1, <2>4 DEF ChangesOf
  <2> HIDE DEF change, next
  <2>6. /\ Append(acc.replace, change) \in Seq(Changes)
        /\ Members(Append(acc.replace, change)) = Members(acc.replace) \cup {change}
    BY <1>3, <2>2, AppendMember
  <2>7. /\ next = [index |-> next.index, checked |-> next.checked, add |-> next.add,
                   replace |-> next.replace]
        /\ next.checked = done \cup {key}
        /\ next.index = Put(acc.index, item) /\ next.add = acc.add
        /\ next.replace = Append(acc.replace, change)
    BY <2>3
  <2> QED
    BY <1>3, <1>5, <2>4, <2>5, <2>6, <2>7 DEF FoundFor
<1>8. CASE key \notin DOMAIN acc.index
  <2>1. next = [index |-> Put(acc.index, item), checked |-> done \cup {key},
                add |-> Append(acc.add, item), replace |-> acc.replace]
    <3> HIDE DEF item
    <3> QED
      BY <1>2, <1>3, <1>8 DEF UpdateItem
  <2>2. /\ Added(index, new) \cap (done \cup {key}) = (Added(index, new) \cap done) \cup {key}
        /\ Replaced(index, new) \cap done = Replaced(index, new) \cap (done \cup {key})
    BY <1>4, <1>8 DEF Added, Replaced
  <2>3. ItemsOf(Added(index, new) \cap done, new) \cup {item}
          = ItemsOf(Added(index, new) \cap (done \cup {key}), new)
    BY <2>2 DEF ItemsOf
  <2> HIDE DEF item, next
  <2>4. /\ Append(acc.add, item) \in Seq(Items)
        /\ Members(Append(acc.add, item)) = Members(acc.add) \cup {item}
    BY <1>2, <1>3, AppendMember
  <2>5. /\ next = [index |-> next.index, checked |-> next.checked, add |-> next.add,
                   replace |-> next.replace]
        /\ next.checked = done \cup {key}
        /\ next.index = Put(acc.index, item) /\ next.add = Append(acc.add, item)
        /\ next.replace = acc.replace
    BY <2>1
  <2> QED
    BY <1>3, <1>5, <2>2, <2>3, <2>4, <2>5 DEF FoundFor
<1> QED
  BY <1>6, <1>7, <1>8

\* DisorderSet.Update turn by turn: it starts with nothing found, every turn of the
\* first loop finds what concerns its item, and when every key of the list had its
\* turn, the second loop leaves the list in the index and returns the difference
\* (set.go:65-99).
THEOREM UpdateByTurns ==
  ASSUME NEW index \in Tracks, NEW new \in Tracks
  PROVE  /\ FoundFor({}, Reset(index), index, new)
         /\ \A done \in SUBSET DOMAIN new, key \in DOMAIN new : \A acc :
              FoundFor(done, acc, index, new) =>
                FoundFor(done \cup {key}, UpdateItem(acc, [key |-> key, data |-> new[key]]),
                         index, new)
         /\ \A acc :
              FoundFor(DOMAIN new, acc, index, new) =>
                LET result == DeleteUnchecked(acc)
                IN  /\ result.index = new
                    /\ Members(result.add) = ItemsOf(Added(index, new), new)
                    /\ Members(result.replace) = ChangesOf(Replaced(index, new), index, new)
                    /\ result.del = ItemsOf(Deleted(index, new), index)
<1>1. FoundFor({}, Reset(index), index, new)
  <2>1. index = [k \in DOMAIN index |-> index[k]]
    BY DEF Tracks
  <2> QED
    BY <2>1 DEF FoundFor, Reset, Members, Merged, ItemsOf, ChangesOf
<1>2. ASSUME NEW done \in SUBSET DOMAIN new, NEW key \in DOMAIN new, NEW acc,
             FoundFor(done, acc, index, new)
      PROVE  FoundFor(done \cup {key}, UpdateItem(acc, [key |-> key, data |-> new[key]]), index, new)
  BY <1>2, TurnFinds
<1>3. ASSUME NEW acc, FoundFor(DOMAIN new, acc, index, new)
      PROVE  LET result == DeleteUnchecked(acc)
             IN  /\ result.index = new
                 /\ Members(result.add) = ItemsOf(Added(index, new), new)
                 /\ Members(result.replace) = ChangesOf(Replaced(index, new), index, new)
                 /\ result.del = ItemsOf(Deleted(index, new), index)
  <2>1. new = [k \in DOMAIN new |-> new[k]]
    BY DEF Tracks
  <2>2. /\ DOMAIN acc.index \ acc.checked = Deleted(index, new)
        /\ DOMAIN acc.index \ Deleted(index, new) = DOMAIN new
        /\ \A k \in DOMAIN new : acc.index[k] = new[k]
        /\ \A k \in Deleted(index, new) : acc.index[k] = index[k]
    BY <1>3 DEF FoundFor, Merged, Deleted
  <2>3. DeleteUnchecked(acc).index = new
    BY <2>1, <2>2 DEF DeleteUnchecked
  <2>4. DeleteUnchecked(acc).del = ItemsOf(Deleted(index, new), index)
    BY <2>2 DEF DeleteUnchecked, ItemsOf
  <2>5. /\ Added(index, new) \cap DOMAIN new = Added(index, new)
        /\ Replaced(index, new) \cap DOMAIN new = Replaced(index, new)
    BY DEF Added, Replaced
  <2>6. DeleteUnchecked(acc).add = acc.add /\ DeleteUnchecked(acc).replace = acc.replace
    BY DEF DeleteUnchecked
  <2> QED
    BY <1>3, <2>3, <2>4, <2>5, <2>6 DEF FoundFor
<1> QED
  BY <1>1, <1>2, <1>3

(* The loop over the list *)

\* Of some sets of turns one is smallest.  This stands in for an induction over
\* the turns of a loop: a loop that went wrong would go wrong for a smallest set.
LEMMA Smallest ==
  ASSUME NEW S, IsFiniteSet(S), NEW T \in SUBSET SUBSET S, T # {}
  PROVE  \E t \in T : \A u \in T : u \subseteq t => u = t
<1>1. IsWellFoundedOn(StrictSubsetOrdering(S), FiniteSubsetsOf(S))
  BY FS_StrictSubsetOrderingWellFounded
<1>2. T \subseteq FiniteSubsetsOf(S)
  BY FS_FiniteSubsetsOfFinite
<1>3. \E t \in T : \A u \in T : ~(<<u, t>> \in StrictSubsetOrdering(S))
  BY <1>1, <1>2, WFMin
<1> QED
  BY <1>3 DEF StrictSubsetOrdering

\* Some turns of a list have a last one.
LEMMA LastTurn ==
  ASSUME NEW n \in Nat, NEW s \in SUBSET (1..n), s # {}
  PROVE  Max(s) \in s /\ \A i \in s : i <= Max(s)
<1> DEFINE wrong == {t \in SUBSET (1..n) : t # {} /\ \A x \in t : \E y \in t : ~(x >= y)}
<1>1. wrong = {}
  <2> SUFFICES ASSUME wrong # {} PROVE FALSE
    OBVIOUS
  <2>1. PICK t \in wrong : \A u \in wrong : u \subseteq t => u = t
    <3> DEFINE all == 1..n
    <3>1. wrong \in SUBSET SUBSET all
      OBVIOUS
    <3>2. IsFiniteSet(all)
      BY FS_Interval
    <3> HIDE DEF wrong, all
    <3> QED
      BY <3>1, <3>2, Smallest
  <2>2. t \in SUBSET (1..n) /\ t # {} /\ \A x \in t : \E y \in t : ~(x >= y)
    BY <2>1
  <2>3. PICK x \in t : TRUE
    BY <2>2
  <2> DEFINE rest == t \ {x}
  <2>4. rest # t /\ rest \subseteq t /\ rest \in SUBSET (1..n)
    BY <2>2, <2>3
  <2>5. rest \notin wrong
    BY <2>1, <2>4
  <2>6. rest = {} \/ \E y \in rest : \A z \in rest : y >= z
    BY <2>4, <2>5
  <2>7. \A y, z \in t : y \in Int /\ z \in Int
    BY <2>2
  <2>8. CASE rest = {}
    <3>1. \A z \in t : x >= z
      BY <2>3, <2>7, <2>8
    <3> QED
      BY <2>2, <2>3, <3>1
  <2>9. CASE \E y \in rest : \A z \in rest : y >= z
    <3>1. PICK y \in rest : \A z \in rest : y >= z
      BY <2>9
    <3>2. y \in t /\ \A z \in t : z = x \/ z \in rest
      BY <2>3, <3>1
    <3>3. CASE x >= y
      <4>1. \A z \in t : x >= z
        BY <2>3, <2>7, <3>1, <3>2, <3>3
      <4> QED
        BY <2>2, <2>3, <4>1
    <3>4. CASE ~(x >= y)
      <4>1. \A z \in t : y >= z
        BY <2>3, <2>7, <3>1, <3>2, <3>4
      <4> QED
        BY <2>2, <3>2, <4>1
    <3> QED
      BY <3>3, <3>4
  <2> QED
    BY <2>6, <2>8, <2>9
<1>2. \E x \in s : \A y \in s : x >= y
  BY <1>1
<1>3. Max(s) \in s /\ \A y \in s : Max(s) >= y
  BY <1>2 DEF Max
<1> QED
  BY <1>3

\* g is what the first loop of Update (set.go:68-88) has found after any of the
\* list's turns, run in their order.
Turns(g, start, list, turns) ==
  g = [s \in SUBSET turns |->
         IF s = {} THEN start ELSE UpdateItem(g[s \ {Max(s)}], list[Max(s)])]

\* What the loop over the list has found is that, after all of them.
LEMMA LoopTurns ==
  ASSUME NEW start, NEW list
  PROVE  FoldLeft(UpdateItem, start, list)
           = (CHOOSE g : Turns(g, start, list, DOMAIN list))[DOMAIN list]
BY DEF FoldLeft, MapThenFoldSet, Turns

\* A loop has found something after any of its turns: were there turns without,
\* there would be a smallest set of them, and what was found before the last one
\* tells what is found after it.
LEMMA TurnsExist ==
  ASSUME NEW n \in Nat, NEW start, NEW list
  PROVE  \E g : Turns(g, start, list, 1..n)
<1> DEFINE wrong == {t \in SUBSET (1..n) : ~\E g : Turns(g, start, list, t)}
<1>1. wrong = {}
  <2> SUFFICES ASSUME wrong # {} PROVE FALSE
    OBVIOUS
  <2>1. PICK t \in wrong : \A u \in wrong : u \subseteq t => u = t
    <3> DEFINE all == 1..n
    <3>1. wrong \in SUBSET SUBSET all
      OBVIOUS
    <3>2. IsFiniteSet(all)
      BY FS_Interval
    <3> HIDE DEF wrong, all
    <3> QED
      BY <3>1, <3>2, Smallest
  <2>2. t \in SUBSET (1..n) /\ ~\E g : Turns(g, start, list, t)
    BY <2>1
  <2>3. t # {}
    <3>1. Turns([s \in SUBSET {} |-> start], start, list, {})
      BY DEF Turns
    <3> QED
      BY <2>2, <3>1
  <2> DEFINE last == Max(t)
             before == t \ {last}
  <2>4. last \in t /\ \A i \in t : i <= last
    BY <2>2, <2>3, LastTurn
  <2>5. before \notin wrong /\ before \in SUBSET (1..n)
    BY <2>1, <2>2, <2>4
  <2>6. PICK h : Turns(h, start, list, before)
    BY <2>5
  <2> HIDE DEF last, wrong
  <2> DEFINE g == [s \in SUBSET t |->
                     IF last \in s THEN UpdateItem(h[s \ {last}], list[last]) ELSE h[s]]
  <2>7. ASSUME NEW s \in SUBSET t
        PROVE  g[s] = IF s = {} THEN start ELSE UpdateItem(g[s \ {Max(s)}], list[Max(s)])
    <3>1. CASE s = {}
      <4>1. g[s] = h[s]
        BY <3>1
      <4> QED
        BY <2>6, <3>1, <4>1 DEF Turns
    <3>2. CASE s # {}
      <4>1. Max(s) \in s /\ s \in SUBSET (1..n) /\ \A i \in s : i <= Max(s)
        BY <2>2, <3>2, LastTurn
      <4>2. s \ {Max(s)} \in SUBSET t
        BY <4>1
      <4>3. CASE last \in s
        <5>1. Max(s) = last
          <6>1. last \in Int /\ Max(s) \in Int
            <7>1. last \in 1..n /\ Max(s) \in 1..n
              BY <2>2, <2>4, <4>1
            <7> QED
              BY <7>1
          <6>2. last <= Max(s)
            BY <4>1, <4>3
          <6>3. Max(s) <= last
            BY <2>4, <4>1
          <6> QED
            BY <6>1, <6>2, <6>3
        <5>2. g[s \ {last}] = h[s \ {last}]
          BY <4>2, <5>1
        <5> QED
          BY <3>2, <4>3, <5>1, <5>2
      <4>4. CASE last \notin s
        <5>1. s \in SUBSET before
          BY <4>4
        <5>2. h[s] = UpdateItem(h[s \ {Max(s)}], list[Max(s)])
          BY <2>6, <3>2, <5>1 DEF Turns
        <5>3. g[s] = h[s] /\ g[s \ {Max(s)}] = h[s \ {Max(s)}]
          BY <4>2, <4>4
        <5> QED
          BY <3>2, <5>2, <5>3
      <4> QED
        BY <4>3, <4>4
    <3> QED
      BY <3>1, <3>2
  <2>8. g = [s \in SUBSET t |-> g[s]]
    OBVIOUS
  <2> HIDE DEF g
  <2>9. Turns(g, start, list, t)
    BY <2>7, <2>8 DEF Turns
  <2> QED
    BY <2>2, <2>9
<1>2. 1..n \in SUBSET (1..n)
  OBVIOUS
<1> QED
  BY <1>1, <1>2

\* The lists of the items of an index, in any order; a key may come again.
Lists(list, new) ==
  /\ list \in Seq(Items)
  /\ {list[n].key : n \in DOMAIN list} = DOMAIN new
  /\ \A n \in DOMAIN list : list[n].data = new[list[n].key]

KeysOf(list, s) == {list[n].key : n \in s}

\* After any turns of such a list, in their order, the loop has found what
\* concerns their keys.
LEMMA TurnsFind ==
  ASSUME NEW index \in Tracks, NEW new \in Tracks, NEW list, Lists(list, new),
         NEW g, Turns(g, Reset(index), list, DOMAIN list)
  PROVE  FoundFor(DOMAIN new, g[DOMAIN list], index, new)
<1> DEFINE wrong == {s \in SUBSET DOMAIN list : ~FoundFor(KeysOf(list, s), g[s], index, new)}
<1>1. PICK n \in Nat : DOMAIN list = 1..n
  <2>1. list \in Seq(Items)
    BY DEF Lists
  <2> QED
    BY <2>1
<1>2. wrong = {}
  <2> SUFFICES ASSUME wrong # {} PROVE FALSE
    OBVIOUS
  <2>1. PICK s \in wrong : \A u \in wrong : u \subseteq s => u = s
    <3>1. wrong \in SUBSET SUBSET DOMAIN list
      OBVIOUS
    <3>2. IsFiniteSet(DOMAIN list)
      BY <1>1, FS_Interval
    <3> HIDE DEF wrong
    <3> QED
      BY <3>1, <3>2, Smallest
  <2>2. s \in SUBSET DOMAIN list /\ ~FoundFor(KeysOf(list, s), g[s], index, new)
    BY <2>1
  <2>3. g[s] = IF s = {} THEN Reset(index) ELSE UpdateItem(g[s \ {Max(s)}], list[Max(s)])
    BY <2>2 DEF Turns
  <2>4. s # {}
    <3>1. KeysOf(list, {}) = {}
      BY DEF KeysOf
    <3>2. FoundFor({}, Reset(index), index, new)
      BY UpdateByTurns
    <3> QED
      BY <2>2, <2>3, <3>1, <3>2
  <2> DEFINE last == Max(s)
             before == s \ {last}
             done == KeysOf(list, before)
  <2>5. last \in s
    BY <1>1, <2>2, <2>4, LastTurn
  <2>6. FoundFor(done, g[before], index, new)
    BY <2>1, <2>2, <2>5
  <2>7. /\ list[last] = [key |-> list[last].key, data |-> new[list[last].key]]
        /\ list[last].key \in DOMAIN new
        /\ done \in SUBSET DOMAIN new
    <3>1. last \in DOMAIN list /\ list[last] \in Items
      BY <2>2, <2>5 DEF Lists
    <3> QED
      BY <2>2, <3>1 DEF Lists, Items, KeysOf
  <2>8. KeysOf(list, s) = done \cup {list[last].key}
    BY <2>5 DEF KeysOf
  <2> HIDE DEF last, done, wrong
  <2>9. FoundFor(done \cup {list[last].key},
                 UpdateItem(g[before], [key |-> list[last].key, data |-> new[list[last].key]]),
                 index, new)
    BY <2>6, <2>7, TurnFinds
  <2> QED
    BY <2>2, <2>3, <2>4, <2>7, <2>8, <2>9 DEF last
<1>3. KeysOf(list, DOMAIN list) = DOMAIN new
  BY DEF Lists, KeysOf
<1>4. DOMAIN list \in SUBSET DOMAIN list
  OBVIOUS
<1> QED
  BY <1>2, <1>3, <1>4

\* DisorderSet.Update (set.go:65-99) leaves any list in the index and returns
\* exactly the difference of the two.
THEOREM UpdateFindsDifference ==
  ASSUME NEW index \in Tracks, NEW new \in Tracks, NEW list, Lists(list, new)
  PROVE  LET result == Update(index, list)
         IN  /\ result.index = new
             /\ Members(result.add) = ItemsOf(Added(index, new), new)
             /\ Members(result.replace) = ChangesOf(Replaced(index, new), index, new)
             /\ result.del = ItemsOf(Deleted(index, new), index)
<1> DEFINE g == CHOOSE h : Turns(h, Reset(index), list, DOMAIN list)
<1>1. PICK n \in Nat : DOMAIN list = 1..n
  <2>1. list \in Seq(Items)
    BY DEF Lists
  <2> QED
    BY <2>1
<1>2. \E h : Turns(h, Reset(index), list, DOMAIN list)
  BY <1>1, TurnsExist
<1>3. Turns(g, Reset(index), list, DOMAIN list)
  BY <1>2
<1>4. FoldLeft(UpdateItem, Reset(index), list) = g[DOMAIN list]
  BY LoopTurns
<1> HIDE DEF g
<1>5. FoundFor(DOMAIN new, g[DOMAIN list], index, new)
  BY <1>3, TurnsFind
<1>6. Update(index, list) = DeleteUnchecked(g[DOMAIN list])
  BY <1>4 DEF Update
<1> QED
  BY <1>5, <1>6, UpdateByTurns

\* DisorderSet.IsSame (set.go:101-122) says whether the list is in the index
\* already.
LEMMA IsSameIsEquality ==
  ASSUME NEW index \in Tracks, NEW new \in Tracks, NEW list, Lists(list, new)
  PROVE  IsSame(index, list) <=> index = new
<1>1. index = [k \in DOMAIN index |-> index[k]] /\ new = [k \in DOMAIN new |-> new[k]]
  BY DEF Tracks
<1>2. ASSUME index = new PROVE IsSame(index, list)
  BY <1>2 DEF Lists, IsSame
<1>3. ASSUME IsSame(index, list) PROVE index = new
  <2>1. DOMAIN index = DOMAIN new
    BY <1>3 DEF Lists, IsSame
  <2>2. \A k \in DOMAIN new : index[k] = new[k]
    BY <1>3 DEF Lists, IsSame
  <2> QED
    BY <1>1, <2>1, <2>2
<1> QED
  BY <1>2, <1>3

(* The routers *)

\* Whatever is stopped, replaced and started for the difference of two indexes
\* turns routers that run the old one into routers that run the new one
\* (syncer.go:141-151).
LEMMA DifferenceApplied ==
  ASSUME NEW old \in Tracks, NEW new \in Tracks
  PROVE  LET rest == Replace(Stop(old, Deleted(old, new)), Replaced(old, new), new)
         IN  Start(rest, Added(old, new), new) = new
<1> DEFINE kept == Stop(old, Deleted(old, new))
           rest == Replace(kept, Replaced(old, new), new)
           result == Start(rest, Added(old, new), new)
<1>1. new = [k \in DOMAIN new |-> new[k]]
  BY DEF Tracks
<1>2. kept = [k \in DOMAIN old \cap DOMAIN new |-> old[k]]
  <2>1. DOMAIN old \ Deleted(old, new) = DOMAIN old \cap DOMAIN new
    BY DEF Deleted
  <2> QED BY <2>1 DEF Stop
<1>3. rest = [k \in DOMAIN old \cap DOMAIN new |-> new[k]]
  <2>1. DOMAIN kept = DOMAIN old \cap DOMAIN new
    BY <1>2
  <2>2. ASSUME NEW k \in DOMAIN old \cap DOMAIN new
        PROVE  (IF k \in Replaced(old, new) THEN new[k] ELSE kept[k]) = new[k]
    BY <1>2 DEF Replaced
  <2> HIDE DEF kept
  <2> QED BY <2>1, <2>2 DEF Replace
<1>4. DOMAIN rest \cup Added(old, new) = DOMAIN new
  BY <1>3 DEF Added
<1>5. ASSUME NEW k \in DOMAIN new
      PROVE  (IF k \in Added(old, new) THEN new[k] ELSE rest[k]) = new[k]
  BY <1>3 DEF Added
<1> HIDE DEF rest
<1>6. result = [k \in DOMAIN new |-> new[k]]
  BY <1>4, <1>5 DEF Start
<1> QED BY <1>1, <1>6 DEF rest, kept

-----------------------------------------------------------------------------
(* The inductive invariant *)

LEMMA InitIInv == Init => IInv
<1> SUFFICES ASSUME Init PROVE IInv
  OBVIOUS
<1>1. TypeOK
  BY BoundsAssumption DEF Init, TypeOK, NoTracks, Tracks
<1> QED BY <1>1 DEF Init, IInv, RoutersFollow, ClientsReported, OneLiveSend, LatestReceived

\* Stuttering.
LEMMA StutterIInv == IInv /\ UNCHANGED vars => IInv'
BY DEF IInv, TypeOK, RoutersFollow, ClientsReported, OneLiveSend, LatestReceived,
       vars, sessionVars, trackVars, recvVars, sendVars

\* The fetcher and the read loop.
LEMMA ArriveIInv == IInv /\ (Arrive \/ PushStatus) => IInv'
<1> SUFFICES ASSUME IInv, Arrive \/ PushStatus PROVE IInv'
  OBVIOUS
<1> USE DEF sessionVars, trackVars, recvVars, sendVars
<1>1. ASSUME NEW e \in Event, FetchSessionEvent(e) PROVE IInv'
  <2>1. TypeOK'
    BY <1>1, BoundsAssumption DEF IInv, TypeOK, FetchSessionEvent
  <2> QED BY <1>1, <2>1 DEF IInv, FetchSessionEvent, RoutersFollow, ClientsReported,
                            OneLiveSend, LatestReceived
<1>2. ASSUME NEW st \in Expected, RecvStatus(st) PROVE IInv'
  <2>1. arriving' \in Numbered /\ arriving'.no = arrived'
    BY <1>2, BoundsAssumption DEF IInv, TypeOK, RecvStatus, Numbered
  <2>2. arriving' # None /\ statusRecvCh' = None
    BY <1>2, <2>1, NoneAssumption DEF RecvStatus
  <2>3. TypeOK'
    BY <1>2, <2>1, <2>2, BoundsAssumption DEF IInv, TypeOK, RecvStatus
  <2> QED BY <1>2, <2>1, <2>2, <2>3 DEF IInv, RecvStatus, RoutersFollow, ClientsReported,
                            OneLiveSend, LatestReceived
<1>3. CASE PushStatus
  <2>1. statusRecvCh = None /\ statusRecvCh' = arriving /\ arriving' = None
    BY <1>3 DEF IInv, PushStatus
  <2>2. TypeOK'
    BY <1>3, <2>1 DEF IInv, TypeOK, PushStatus
  <2> QED BY <1>3, <2>1, <2>2 DEF IInv, PushStatus, RoutersFollow, ClientsReported,
                            OneLiveSend, LatestReceived
<1> QED BY <1>1, <1>2, <1>3 DEF Arrive

\* Taking a status leaves the newest one with main.
LEMMA TakeKeepsLatest ==
  IInv /\ TakeStatus => LatestReceived' /\ arriving' = None /\ synced' \in 0..arrived'
BY DEF IInv, TypeOK, TakeStatus, LatestReceived

LEMMA MainIInv == IInv /\ Main => IInv'
<1> SUFFICES ASSUME IInv, Main PROVE IInv'
  OBVIOUS
<1> USE DEF sessionVars, trackVars, recvVars, sendVars
<1>1. CASE HandleSessionEvent
  <2>1. Head(sessionEventCh).session \in Sessions /\ Tail(sessionEventCh) \in Seq(Event)
    <3>1. sessionEventCh \in Seq(Event) /\ sessionEventCh # <<>>
      BY <1>1 DEF HandleSessionEvent, IInv, TypeOK
    <3>2. Head(sessionEventCh) \in Event /\ Tail(sessionEventCh) \in Seq(Event)
      BY <3>1
    <3> QED BY <3>2 DEF Event
  <2>2. clientSet' \subseteq Sessions
    BY <1>1, <2>1 DEF HandleSessionEvent, IInv, TypeOK
  <2>3. TypeOK'
    BY <1>1, <2>1, <2>2 DEF HandleSessionEvent, NotifySFUStatus, IInv, TypeOK
  <2> QED BY <1>1, <2>3 DEF HandleSessionEvent, NotifySFUStatus, IInv, RoutersFollow,
                            ClientsReported, OneLiveSend, LatestReceived
<1>2. CASE RejectStatus
  <2>1. TakeStatus
    BY <1>2 DEF RejectStatus
  <2>2. TypeOK'
    BY <1>2, <2>1, TakeKeepsLatest DEF RejectStatus, TakeStatus, NotifySFUStatus, IInv, TypeOK
  <2> QED BY <1>2, <2>1, <2>2, TakeKeepsLatest
          DEF RejectStatus, TakeStatus, NotifySFUStatus, IInv, RoutersFollow, ClientsReported,
              OneLiveSend
<1>3. CASE SyncStatus
  <2>1. TakeStatus
    BY <1>3 DEF SyncStatus
  <2>2. statusRecvCh.body \in Expected /\ statusRecvCh.body.mine
    BY <1>3, <2>1 DEF SyncStatus, ForThisNode, TakeStatus, IInv, TypeOK, Numbered
  <2>3. statusRecvCh.body.status.tracks \in Tracks
    <3>1. statusRecvCh.body \in [mine : {TRUE}, status : Statuses]
      <4>1. statusRecvCh.body # NotMine
        <5> SUFFICES ASSUME statusRecvCh.body = NotMine PROVE FALSE
          OBVIOUS
        <5>1. NotMine.mine = FALSE
          BY DEF NotMine
        <5>2. statusRecvCh.body.mine = FALSE
          BY <5>1
        <5> QED BY <2>2, <5>2
      <4> QED BY <2>2, <4>1 DEF Expected
    <3>2. statusRecvCh.body.status \in Statuses
      BY <3>1
    <3> QED BY <3>2, StatusesAssumption
  <2>4. trackSet' = statusRecvCh.body.status.tracks
    BY <1>3 DEF SyncStatus
  <2>5. routers' = trackSet'
    BY <1>3, <2>3, <2>4, DifferenceApplied DEF SyncStatus, IInv, TypeOK, RoutersFollow
  <2>6. TypeOK'
    BY <1>3, <2>1, <2>3, <2>4, <2>5, TakeKeepsLatest DEF SyncStatus, TakeStatus, IInv, TypeOK
  <2> QED BY <1>3, <2>1, <2>5, <2>6, TakeKeepsLatest
          DEF SyncStatus, TakeStatus, IInv, RoutersFollow, ClientsReported, OneLiveSend
<1>4. CASE SendLatest
  <2>1. built' = built + 1 /\ built' \in Nat /\ starting' \subseteq 1..built'
    BY <1>4 DEF SendLatest, IInv, TypeOK
  <2>2. sends' \subseteq [id : 1..built', pc : {"check", "send"}, cancelled : BOOLEAN]
    <3>1. 1..built \subseteq 1..built'
      BY <2>1 DEF IInv, TypeOK
    <3> QED BY <1>4, <3>1 DEF SendLatest, IInv, TypeOK
  <2>3. delivered' \in 0..built'
    BY <1>4, <2>1 DEF SendLatest, IInv, TypeOK
  <2>4. statusSendCh' \in BOOLEAN
    <3>1. statusSendCh' = FALSE
      BY <1>4 DEF SendLatest
    <3> QED BY <3>1
  <2>5. TypeOK'
    BY <1>4, <2>1, <2>2, <2>3, <2>4 DEF SendLatest, IInv, TypeOK
  <2> QED BY <1>4, <2>1, <2>5 DEF SendLatest, IInv, TypeOK, RoutersFollow, ClientsReported,
                            OneLiveSend, LatestReceived
<1> QED BY <1>1, <1>2, <1>3, <1>4 DEF Main

-----------------------------------------------------------------------------
(* The client *)

\* The steps of the client touch nothing but the operations: what is left to show
\* is that they are still of their type and at most one of them is live.
LEMMA SendingFrame ==
  ASSUME IInv,
         UNCHANGED <<reported, built, sessionVars, trackVars, recvVars, statusSendCh>>,
         starting' \subseteq starting,
         sends' \subseteq [id : 1..built, pc : {"check", "send"}, cancelled : BOOLEAN],
         delivered' \in 0..built,
         OneLiveSend'
  PROVE  IInv'
BY DEF IInv, TypeOK, RoutersFollow, ClientsReported, LatestReceived,
       sessionVars, trackVars, recvVars

LEMMA SendingIInv == IInv /\ Sending => IInv'
<1> SUFFICES ASSUME IInv, Sending PROVE IInv'
  OBVIOUS
<1> DEFINE Ops == [id : 1..built, pc : {"check", "send"}, cancelled : BOOLEAN]
<1>1. sends \subseteq Ops /\ OneLiveSend /\ delivered \in 0..built
  BY DEF IInv, TypeOK
<1>2. ASSUME NEW i \in starting, Do(i) PROVE IInv'
  <2>1. i \in 1..built
    BY DEF IInv, TypeOK
  <2>2. Operation(i) \in Ops
    BY <2>1 DEF Operation
  <2>3. ASSUME NEW o \in sends
        PROVE  [o EXCEPT !.cancelled = TRUE] \in Ops /\ [o EXCEPT !.cancelled = TRUE].cancelled
    BY <1>1
  <2>4. sends' \subseteq Ops
    BY <1>2, <2>2, <2>3 DEF Do
  <2>5. \A o \in sends' : ~o.cancelled => o = Operation(i)
    BY <1>2, <2>3 DEF Do
  <2>6. OneLiveSend'
    BY <2>5 DEF OneLiveSend
  <2> QED BY <1>1, <1>2, <2>4, <2>6, SendingFrame DEF Do
<1>3. ASSUME NEW o \in sends, Cancelled(o) \/ Sent(o) PROVE IInv'
  <2>1. sends' \subseteq sends /\ delivered' \in 0..built
    BY <1>1, <1>3 DEF Cancelled, Sent
  <2>2. OneLiveSend'
    BY <1>1, <2>1 DEF OneLiveSend
  <2> QED BY <1>1, <1>3, <2>1, <2>2, SendingFrame DEF Cancelled, Sent, StepOf
<1>4. ASSUME NEW o \in sends, NEW next \in {"check", "send"},
             sends' = (sends \ {o}) \cup {[o EXCEPT !.pc = next]},
             StepOf(o), UNCHANGED delivered
      PROVE  IInv'
  <2>1. [o EXCEPT !.pc = next] \in Ops /\ [o EXCEPT !.pc = next].cancelled = o.cancelled
    BY <1>1
  <2>2. sends' \subseteq Ops
    BY <1>1, <1>4, <2>1
  <2>3. OneLiveSend'
    BY <1>1, <1>4, <2>1 DEF OneLiveSend
  <2> QED BY <1>1, <1>4, <2>2, <2>3, SendingFrame DEF StepOf
<1>5. ASSUME NEW o \in sends, Proceed(o) \/ SendFails(o) PROVE IInv'
  BY <1>4, <1>5 DEF Proceed, SendFails
<1> QED BY <1>2, <1>3, <1>5 DEF Sending

LEMMA NextIInv == IInv /\ [Next]_vars => IInv'
BY StutterIInv, ArriveIInv, MainIInv, SendingIInv DEF Next, Quiet

-----------------------------------------------------------------------------
(* Theorems *)

\* The inductive invariant of the syncer (syncer.go:67-193, client.go:79-103).
THEOREM SyncerInvariant == Spec => []IInv
BY InitIInv, NextIInv, PTL DEF Spec

\* Types (the variables of syncer.go:15-34).
THEOREM SyncerTypeCorrect == Spec => []TypeOK
<1>1. IInv => TypeOK
  BY DEF IInv
<1> QED BY <1>1, SyncerInvariant, PTL

\* The routers run exactly the tracks of the sets, whatever the server sends
\* (syncer.go:121-151).
THEOREM RoutersAlwaysFollow == Spec => []RoutersFollow
<1>1. IInv => RoutersFollow
  BY DEF IInv
<1> QED BY <1>1, SyncerInvariant, PTL

\* No change of the clients is left unreported (syncer.go:156-166, 183-192).
THEOREM ClientsAlwaysReported == Spec => []ClientsReported
<1>1. IInv => ClientsReported
  BY DEF IInv
<1> QED BY <1>1, SyncerInvariant, PTL

\* Two operations of SendSFUStatus are never live together (lock.go:79-91).
THEOREM NeverTwoLiveSends == Spec => []OneLiveSend
<1>1. IInv => OneLiveSend
  BY DEF IInv
<1> QED BY <1>1, SyncerInvariant, PTL

\* The newest status from the server is never lost to an older one
\* (syncer.go:76-88).
THEOREM LatestAlwaysReceived == Spec => []LatestReceived
<1>1. IInv => LatestReceived
  BY DEF IInv
<1> QED BY <1>1, SyncerInvariant, PTL

\* Whatever the index holds, the loop of DisorderSet.Update returns the difference
\* that the routers are given, for every list of finitely many tracks.
THEOREM UpdateAlwaysDifference == Spec => []UpdateIsDifference
<1>1. TypeOK => UpdateIsDifference
  <2> SUFFICES ASSUME TypeOK, NEW new \in Tracks, NEW list \in ListsOf(new),
                      IsFiniteSet(DOMAIN new)
               PROVE  LET result == Update(trackSet, list)
                      IN  /\ result.index = new
                          /\ Members(result.add) = ItemsOf(Added(trackSet, new), new)
                          /\ Members(result.replace)
                               = ChangesOf(Replaced(trackSet, new), trackSet, new)
                          /\ result.del = ItemsOf(Deleted(trackSet, new), trackSet)
                          /\ IsSame(trackSet, list) <=> trackSet = new
    BY DEF UpdateIsDifference, Members, ItemsOf, ChangesOf
  <2>1. Cardinality(DOMAIN new) \in Nat
    BY FS_CardinalityType
  <2>2. DOMAIN new \subseteq Keys
    BY DEF Tracks
  <2>3. Lists(list, new)
    <3>1. list \in [1..Cardinality(DOMAIN new) -> [key : DOMAIN new, data : Infos]]
      BY DEF ListsOf
    <3>2. [key : DOMAIN new, data : Infos] \subseteq Items
      BY <2>2 DEF Items
    <3>3. list \in Seq(Items)
      <4> DEFINE n == Cardinality(DOMAIN new)
      <4>1. n \in Nat /\ list \in [1..n -> Items]
        BY <2>1, <3>1, <3>2
      <4> HIDE DEF n
      <4> QED
        BY <4>1
    <3> QED
      BY <3>3 DEF Lists, ListsOf
  <2>4. trackSet \in Tracks
    BY DEF TypeOK
  <2> QED
    BY <2>3, <2>4, UpdateFindsDifference, IsSameIsEquality
<1>2. QED
  BY <1>1, SyncerTypeCorrect, PTL

-----------------------------------------------------------------------------
(* OnSFUStatusRecv hands over the latest status *)

\* The mailbox of module LatestMailbox in a state of the syncer.
WaitingBox == [k \in {"main"} |-> Waiting]
TakenBox == [k \in {"main"} |-> synced]

\* A new status replaces the one that waits when OnSFUStatusRecv drains, and main
\* takes what waits (syncer.go:76-88, 167-172).
LEMMA MailboxSteps == IInv /\ [Next]_vars => [Mailbox!Next]_<<WaitingBox, TakenBox>>
<1> SUFFICES ASSUME IInv, [Next]_vars
             PROVE  \/ Mailbox!TakeOut("main")
                    \/ \E v \in 1..MaxExpected : Mailbox!Post("main", v)
                    \/ UNCHANGED <<Waiting, synced>>
  BY DEF Mailbox!Next, Mailbox!TakeOut, Mailbox!Post, WaitingBox, TakenBox
<1>1. ASSUME NEW st \in Expected, RecvStatus(st)
      PROVE  \E v \in 1..MaxExpected : Mailbox!Post("main", v)
  <2>1. arrived + 1 \in 1..MaxExpected
    BY <1>1, BoundsAssumption DEF IInv, TypeOK, RecvStatus
  <2>2. arriving' # None /\ arriving'.no = arrived + 1 /\ UNCHANGED synced
    <3>1. arriving' = [no |-> arrived + 1, body |-> st]
      BY <1>1 DEF RecvStatus
    <3>2. arriving' \in Numbered
      BY <2>1, <3>1 DEF Numbered
    <3> QED
      BY <1>1, <3>1, <3>2, NoneAssumption DEF RecvStatus
  <2>3. Waiting' = arrived + 1
    BY <2>2 DEF Waiting
  <2>4. Mailbox!Post("main", arrived + 1)
    BY <2>2, <2>3 DEF Mailbox!Post
  <2> QED
    BY <2>1, <2>4
<1>2. CASE PushStatus
  BY <1>2 DEF PushStatus, IInv, Waiting
<1>3. ASSUME TakeStatus PROVE Mailbox!TakeOut("main")
  <2>1. arriving = None /\ statusRecvCh \in Numbered
    BY <1>3 DEF TakeStatus, IInv, TypeOK
  <2>2. Waiting = statusRecvCh.no /\ Waiting # 0
    BY <1>3, <2>1 DEF TakeStatus, Waiting, Numbered
  <2>3. synced' = Waiting /\ Waiting' = 0
    BY <1>3, <2>1, <2>2 DEF TakeStatus, Waiting
  <2> QED
    BY <2>2, <2>3 DEF Mailbox!TakeOut
<1>4. CASE UNCHANGED recvVars
  BY <1>4 DEF recvVars, Waiting
<1>5. CASE Arrive
  <2>1. ASSUME NEW e \in Event, FetchSessionEvent(e) PROVE UNCHANGED recvVars
    BY <2>1 DEF FetchSessionEvent
  <2> QED
    BY <1>1, <1>4, <1>5, <2>1 DEF Arrive
<1>6. CASE Main
  <2>1. HandleSessionEvent \/ SendLatest => UNCHANGED recvVars
    BY DEF HandleSessionEvent, SendLatest
  <2>2. RejectStatus \/ SyncStatus => TakeStatus
    BY DEF RejectStatus, SyncStatus
  <2> QED
    BY <1>3, <1>4, <1>6, <2>1, <2>2 DEF Main
<1>7. CASE Sending
  <2>1. UNCHANGED recvVars
    BY <1>7 DEF Sending, Do, Cancelled, Proceed, Sent, SendFails, StepOf
  <2> QED
    BY <1>4, <2>1
<1>8. CASE Quiet \/ UNCHANGED vars
  <2>1. UNCHANGED recvVars
    BY <1>8 DEF Quiet, vars
  <2> QED
    BY <1>4, <2>1
<1> QED
  BY <1>2, <1>5, <1>6, <1>7, <1>8 DEF Next

\* Drain and push behave as one replacement of the status that waits, whatever main
\* does between them (syncer.go:76-88, 167-172).
THEOREM RefinesMailbox == Spec => ImplementsMailbox
<1>1. Init => Mailbox!Init
  BY DEF Init, Mailbox!Init, Waiting
<1> QED
  BY <1>1, MailboxSteps, SyncerInvariant, PTL
     DEF Spec, ImplementsMailbox, Mailbox!Spec, WaitingBox, TakenBox

=============================================================================
