--------------------------- MODULE DisorderSetOps ----------------------------
(***************************************************************************)
(* DisorderSet of util/set.go, loop by loop.  An index is a function from  *)
(* keys to data, a list a sequence of items [key, data], which may repeat  *)
(* a key.  The check marks of the index are a set of keys.                 *)
(***************************************************************************)
EXTENDS Sequences, SequencesExt

Put(index, item) ==
  [k \in DOMAIN index \cup {item.key} |-> IF k = item.key THEN item.data ELSE index[k]]

\* One turn of the first loop.
UpdateItem(acc, item) ==
  LET checked == acc.checked \cup {item.key}
      known   == item.key \in DOMAIN acc.index
  IN  IF known /\ acc.index[item.key] = item.data
      THEN [acc EXCEPT !.checked = checked]
      ELSE IF known
      THEN [acc EXCEPT !.checked = checked, !.index = Put(@, item),
                       !.replace = Append(@, [key |-> item.key,
                                              old |-> acc.index[item.key],
                                              new |-> item.data])]
      ELSE [acc EXCEPT !.checked = checked, !.index = Put(@, item),
                       !.add = Append(@, item)]

\* The marks are reset, nothing has been found yet.
Reset(index) == [index |-> index, checked |-> {}, add |-> <<>>, replace |-> <<>>]

\* The second loop deletes what was not checked, in map order.
DeleteUnchecked(acc) ==
  LET deleted == DOMAIN acc.index \ acc.checked
  IN  [index |-> [k \in DOMAIN acc.index \ deleted |-> acc.index[k]],
       add |-> acc.add, replace |-> acc.replace,
       del |-> {[key |-> k, data |-> acc.index[k]] : k \in deleted}]

\* Variant with a bug: what was marked before the call counts as listed.
UpdateWithoutReset(index, list) ==
  DeleteUnchecked(FoldLeft(UpdateItem, [Reset(index) EXCEPT !.checked = DOMAIN index], list))

Update(index, list) == DeleteUnchecked(FoldLeft(UpdateItem, Reset(index), list))

IsSame(index, list) ==
  /\ \A i \in DOMAIN list :
       list[i].key \in DOMAIN index /\ index[list[i].key] = list[i].data
  /\ \A k \in DOMAIN index : \E i \in DOMAIN list : list[i].key = k

=============================================================================
