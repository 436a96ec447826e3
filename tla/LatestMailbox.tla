---------------------------- MODULE LatestMailbox ----------------------------
(***************************************************************************)
(* One-place mailboxes, one per key, that keep only the latest value.      *)
(* Several goroutines of the code hand over a status this way: a channel   *)
(* of capacity 1 whose producer replaces what was not yet taken, by an     *)
(* offer, a drain and a push that its consumer may come between.           *)
(***************************************************************************)
CONSTANTS Keys, Values, Nothing

VARIABLES pending, taken

Init ==
  /\ pending = [k \in Keys |-> Nothing]
  /\ taken = [k \in Keys |-> Nothing]

\* The producer's value replaces the one that waits, if any.
Post(k, v) ==
  /\ pending' = [pending EXCEPT ![k] = v]
  /\ UNCHANGED taken

\* The consumer takes the value that waits.
TakeOut(k) ==
  /\ pending[k] # Nothing
  /\ taken' = [taken EXCEPT ![k] = pending[k]]
  /\ pending' = [pending EXCEPT ![k] = Nothing]

Next == \E k \in Keys : TakeOut(k) \/ \E v \in Values : Post(k, v)

Spec == Init /\ [][Next]_<<pending, taken>>

\* A consumer may be started with a value of its own, before it takes one.
Begin(k, v) ==
  /\ taken[k] = Nothing /\ pending[k] = Nothing
  /\ taken' = [taken EXCEPT ![k] = v]
  /\ UNCHANGED pending

StartedSpec ==
  Init /\ [][Next \/ \E k \in Keys, v \in Values : Begin(k, v)]_<<pending, taken>>

=============================================================================
