------------------------- MODULE SFUService_proofs --------------------------
(***************************************************************************)
(* Proofs about the RTC service of pkg/sfu, for any streams, uids and      *)
(* capacity of sessionEv, and any number of Joins.                         *)
(***************************************************************************)
EXTENDS SFUService, SequenceTheorems, TLAPS

\* An element of a queue after Append is an old one or the new one.
LEMMA AppendElement ==
  ASSUME NEW S, NEW s \in Seq(S), NEW e \in S
  PROVE  /\ Append(s, e) \in Seq(S)
         /\ Len(s) \in Nat
         /\ Len(Append(s, e)) = Len(s) + 1
         /\ \A i \in 1 .. Len(s) : Append(s, e)[i] = s[i]
         /\ Append(s, e)[Len(s) + 1] = e
OBVIOUS

\* An element of the rest of a queue is one of the queue, a place further on.
LEMMA TailElement ==
  ASSUME NEW S, NEW s \in Seq(S), s # <<>>
  PROVE  /\ Head(s) = s[1] /\ Head(s) \in S
         /\ Tail(s) \in Seq(S)
         /\ Len(s) \in Nat \ {0}
         /\ Len(Tail(s)) = Len(s) - 1
         /\ \A i \in 1 .. Len(s) - 1 : Tail(s)[i] = s[i + 1]
OBVIOUS

\* A stack without its top.
LEMMA PopElement ==
  ASSUME NEW S, NEW s \in Seq(S), s # <<>>
  PROVE  /\ Len(s) \in Nat \ {0} /\ s[Len(s)] \in S
         /\ SubSeq(s, 1, Len(s) - 1) \in Seq(S)
         /\ Len(SubSeq(s, 1, Len(s) - 1)) = Len(s) - 1
         /\ \A i \in 1 .. Len(s) - 1 : SubSeq(s, 1, Len(s) - 1)[i] = s[i]
<1> DEFINE n == Len(s) - 1
           t == SubSeq(s, 1, n)
<1>1. Len(s) \in Nat \ {0} /\ s[Len(s)] \in S
  OBVIOUS
<1>2. n \in Int /\ \A i \in 1 .. n : s[i] \in S
  BY <1>1
<1>3. /\ t \in Seq(S)
      /\ Len(t) = IF 1 <= n THEN n - 1 + 1 ELSE 0
      /\ \A i \in 1 .. n - 1 + 1 : t[i] = s[1 + i - 1]
  <2> HIDE DEF n
  <2> QED
    BY <1>2, SubSeqProperties
<1>4. n \in Nat /\ n - 1 + 1 = n /\ \A i \in 1 .. n : 1 + i - 1 = i
  BY <1>1
<1> QED
  BY <1>1, <1>3, <1>4

-----------------------------------------------------------------------------
(* Types *)

\* The initial state is well typed (service.go:36-45).
LEMMA InitTypeOK == Init => TypeOK
<1> SUFFICES ASSUME Init PROVE TypeOK
  OBVIOUS
<1>1. pending \in [Streams -> Seq(Uids)] /\ sessionEv \in Seq(Events)
  BY DEF Init
<1>2. joins \in 0 .. MaxJoins
  BY MaxJoinsAssumption DEF Init
<1>3. at \in [Streams -> Places] /\ joined \in [Streams -> Uids \cup {None}] /\ sigs \in [Uids -> Streams \cup {None}]
  BY DEF Init, Places
<1> QED
  BY <1>1, <1>2, <1>3 DEF Init, TypeOK

\* A loop goes to one of its places.
LEMMA LoopTypes ==
  ASSUME TypeOK, NEW h \in Streams, NEW from, NEW to \in Places, Loop(h, from, to)
  PROVE  /\ at' \in [Streams -> Places]
         /\ at[h] = from /\ at'[h] = to
         /\ \A g \in Streams : g # h => at'[g] = at[g]
BY DEF Loop, Goto, TypeOK

\* A request without a Join changes the place of the loop only (service.go:385-552).
LEMMA RequestIsReply ==
  ASSUME NEW h \in Streams, Offer(h) \/ Answer(h) \/ Trickle(h) \/ Subscription(h)
  PROVE  \E place \in {"select", "defer"} : Reply(h, place)
BY DEF Offer, Answer, Trickle, Subscription

\* A Join leads the loop to the registration or out, and joins the peer at most
\* once (service.go:168-342).
LEMMA JoinSteps ==
  ASSUME TypeOK, NEW h \in Streams, NEW uid \in Uids, NEW pub \in BOOLEAN, NEW isclient \in BOOLEAN,
         Join(h, uid, pub, isclient)
  PROVE  /\ \E place \in {"register", "defer"} : Loop(h, "select", place)
         /\ onTrack' \in [Streams -> Uids \cup {None}] /\ UNCHANGED due
         /\ \/ joined[h] = None /\ joined' = [joined EXCEPT ![h] = uid]
            \/ joined[h] # None /\ joined' = joined
         /\ publisher' \subseteq Streams
         /\ UNCHANGED <<tracks, reader, broken, sigVars, known>>
         /\ joins' \in 0 .. MaxJoins
         /\ \/ /\ sessionEv' = Append(sessionEv, Event("ADD", uid))
               /\ pending' = [pending EXCEPT ![h] = Append(@, uid)]
            \/ UNCHANGED <<sessionEv, pending>>
<1>1. joins' \in 0 .. MaxJoins
  BY MaxJoinsAssumption DEF Join, TypeOK
<1>2. \/ /\ sessionEv' = Append(sessionEv, Event("ADD", uid))
         /\ pending' = [pending EXCEPT ![h] = Append(@, uid)]
      \/ UNCHANGED <<sessionEv, pending>>
  BY DEF Join, AddClient
<1>3. AnswerJoin(h, uid) \/ Refuse(h) \/ Unanswered(h)
  BY DEF Join, PeerJoins, JoinedAlready
<1>4. /\ \E place \in {"register", "defer"} : Loop(h, "select", place)
      /\ UNCHANGED <<reader, broken, sigVars, known>>
  BY <1>3 DEF AnswerJoin, Refuse, Unanswered, TakeRequest
<1>5. onTrack' \in [Streams -> Uids \cup {None}] /\ UNCHANGED due
  BY <1>3 DEF Join, AnswerJoin, Refuse, Unanswered, TypeOK
<1>6. /\ \/ joined[h] = None /\ joined' = [joined EXCEPT ![h] = uid]
         \/ joined[h] # None /\ joined' = joined
      /\ publisher' \subseteq Streams
      /\ UNCHANGED tracks
  BY DEF Join, PeerJoins, JoinedAlready, TypeOK
<1> QED
  BY <1>1, <1>2, <1>4, <1>5, <1>6

\* Every step keeps the types (service.go:55-552, tracker.go:8-18).
LEMMA TypeStep == TypeOK /\ [Next]_vars => TypeOK'
<1> SUFFICES ASSUME TypeOK, [Next]_vars PROVE TypeOK'
  OBVIOUS
<1> USE DEF loopVars, peerVars, readVars, sigVars, eventVars
<1>1. ASSUME NEW h \in Streams, Signal(h) \/ RecvFails(h) \/ ClientGone(h) PROVE TypeOK'
  <2>1. at' \in [Streams -> Places]
    BY <1>1, LoopTypes DEF Signal, RecvFails, ClientGone, TypeOK, Places
  <2> QED
    BY <1>1, <2>1 DEF Signal, RecvFails, ClientGone, TypeOK
<1>2. ASSUME NEW h \in Streams, Offer(h) \/ Answer(h) \/ Trickle(h) \/ Subscription(h) PROVE TypeOK'
  <2>1. PICK place \in {"select", "defer"} : Reply(h, place)
    BY <1>2, RequestIsReply
  <2>2. at' \in [Streams -> Places]
    BY <2>1, LoopTypes DEF Reply, TakeRequest, Places
  <2> QED
    BY <2>1, <2>2 DEF Reply, TakeRequest, TypeOK
<1>3. ASSUME NEW h \in Streams, NEW uid \in Uids, NEW pub \in BOOLEAN, NEW isclient \in BOOLEAN,
             Join(h, uid, pub, isclient)
      PROVE  TypeOK'
  <2>1. at' \in [Streams -> Places]
    <3>1. PICK place \in {"register", "defer"} : Loop(h, "select", place)
      BY <1>3, JoinSteps
    <3> QED
      BY <3>1, LoopTypes DEF Places
  <2>2. joined' \in [Streams -> Uids \cup {None}]
    <3>1. joined' = [joined EXCEPT ![h] = uid] \/ joined' = joined
      BY <1>3, JoinSteps
    <3> QED
      BY <3>1 DEF TypeOK
  <2>3. sessionEv' \in Seq(Events) /\ pending' \in [Streams -> Seq(Uids)]
    <3>1. Event("ADD", uid) \in Events
      BY DEF Event, Events
    <3>2. pending[h] \in Seq(Uids) /\ Append(pending[h], uid) \in Seq(Uids)
      BY AppendElement DEF TypeOK
    <3>3. Append(sessionEv, Event("ADD", uid)) \in Seq(Events)
      BY <3>1, AppendElement DEF TypeOK
    <3>4. \/ /\ sessionEv' = Append(sessionEv, Event("ADD", uid))
             /\ pending' = [pending EXCEPT ![h] = Append(@, uid)]
          \/ UNCHANGED <<sessionEv, pending>>
      BY <1>3, JoinSteps
    <3> QED
      BY <3>2, <3>3, <3>4 DEF TypeOK
  <2> QED
    BY <1>3, <2>1, <2>2, <2>3, JoinSteps DEF TypeOK
<1>4. ASSUME NEW h \in Streams, TakeError(h) \/ IceFails(h) \/ ClientsRemoved(h) \/ NothingToAnnounce(h)
      PROVE  TypeOK'
  <2>1. at' \in [Streams -> Places]
    BY <1>4, LoopTypes DEF TakeError, IceFails, ClientsRemoved, NothingToAnnounce, Places
  <2> QED
    BY <1>4, <2>1 DEF TakeError, IceFails, ClientsRemoved, NothingToAnnounce, TypeOK
<1>5. ASSUME NEW h \in Streams, Register(h) \/ DeleteSig(h) PROVE TypeOK'
  <2>1. at' \in [Streams -> Places]
    BY <1>5, LoopTypes DEF Register, DeleteSig, Places
  <2>2. sigs' \in [Uids -> Streams \cup {None}]
    BY <1>5 DEF Register, DeleteSig, TypeOK
  <2> QED
    BY <1>5, <2>1, <2>2 DEF Register, DeleteSig, TypeOK
<1>6. ASSUME NEW h \in Streams, RemoveClient(h) PROVE TypeOK'
  <2>1. pending[h] \in Seq(Uids) /\ pending[h] # <<>>
    BY <1>6 DEF RemoveClient, TypeOK
  <2>2. Event("REMOVE", pending[h][Len(pending[h])]) \in Events
    BY <2>1, PopElement DEF Event, Events
  <2>3. sessionEv' \in Seq(Events)
    BY <1>6, <2>2, AppendElement DEF RemoveClient, TypeOK
  <2>4. pending' \in [Streams -> Seq(Uids)]
    <3>1. SubSeq(pending[h], 1, Len(pending[h]) - 1) \in Seq(Uids)
      BY <2>1, PopElement
    <3> QED
      BY <1>6, <3>1 DEF RemoveClient, TypeOK
  <2> QED
    BY <1>6, <2>3, <2>4 DEF RemoveClient, TypeOK
<1>7. ASSUME NEW h \in Streams, NEW uid, NEW purpose \in {"ADD", "REMOVE"},
             BeginBroadcast(h, uid, purpose)
      PROVE  /\ holder' \in {<<>>} \cup (Streams \X {"ADD", "REMOVE"})
             /\ targets' \subseteq Streams
             /\ UNCHANGED sigs
  BY <1>7 DEF BeginBroadcast, TypeOK
<1>8. ASSUME NEW h \in Streams, AnnounceRemoved(h) PROVE TypeOK'
  <2>1. at' \in [Streams -> Places]
    BY <1>8, LoopTypes DEF AnnounceRemoved, Places
  <2> QED
    BY <1>7, <1>8, <2>1 DEF AnnounceRemoved, TypeOK
<1>9. ASSUME NEW h \in Streams, NEW uid \in Uids, AnnounceAdded(h, uid) PROVE TypeOK'
  <2>1. BeginBroadcast(h, uid, "ADD")
    BY <1>9 DEF AnnounceAdded
  <2>2. /\ holder' \in {<<>>} \cup (Streams \X {"ADD", "REMOVE"})
        /\ targets' \subseteq Streams
        /\ UNCHANGED sigs
    BY <1>7, <2>1
  <2> QED
    BY <1>9, <2>2 DEF AnnounceAdded, TypeOK
<1>10. ASSUME NEW h \in Streams, OnPublisherTrack(h) \/ SendTrackEvent(h) PROVE TypeOK'
  <2>1. CASE OnPublisherTrack(h)
    <3>1. onTrack[h] \in Uids
      BY <2>1 DEF OnPublisherTrack, TypeOK
    <3>2. due' \subseteq Streams \X Uids /\ onTrack' \in [Streams -> Uids \cup {None}]
      BY <2>1, <3>1 DEF OnPublisherTrack, TypeOK
    <3> QED
      BY <2>1, <3>2 DEF OnPublisherTrack, TypeOK, loopVars, readVars, sigVars, eventVars
  <2>2. CASE SendTrackEvent(h)
    BY <2>2 DEF SendTrackEvent, TypeOK, loopVars, peerVars, readVars, eventVars
  <2> QED
    BY <1>10, <2>1, <2>2
<1>11. CASE EndBroadcast
  <2>1. at' \in [Streams -> Places]
    BY <1>11 DEF EndBroadcast, TypeOK, Places
  <2> QED
    BY <1>11, <2>1 DEF EndBroadcast, TypeOK
<1>12. CASE FetchSessionEvent
  <2>1. Head(sessionEv) \in Events /\ sessionEv' \in Seq(Events)
    BY <1>12, TailElement DEF FetchSessionEvent, TypeOK
  <2>2. Head(sessionEv).of \in Uids
    BY <2>1 DEF Events
  <2> QED
    BY <1>12, <2>1, <2>2 DEF FetchSessionEvent, TypeOK
<1>13. CASE Idle \/ UNCHANGED vars
  BY <1>13 DEF Idle, vars, TypeOK
<1> QED
  BY <1>1, <1>2, <1>3, <1>4, <1>5, <1>6, <1>8, <1>9, <1>10, <1>11, <1>12, <1>13
     DEF Next, SignalStep, Broadcast

\* The types hold always.
THEOREM TypeCorrect == Spec => []TypeOK
BY InitTypeOK, TypeStep, PTL DEF Spec

-----------------------------------------------------------------------------
(* No broadcast sends on a returned stream *)

\* The places of a loop whose stream may be in sigs: until its entry is deleted.
Listed == {"select", "register", "defer", "delete"}

\* A stream in sigs is entered under the uid of its peer, and has not deleted that
\* entry; so has none that a broadcast has yet to send to, for the deletion needs
\* the mutex that the broadcast holds (service.go:56-94).
BroadcastInv ==
  /\ \A u \in Uids : sigs[u] # None => joined[sigs[u]] = u /\ at[sigs[u]] \in Listed
  /\ \A h \in Streams : at[h] \in {"register", "delete", "announce", "broadcast"} => joined[h] # None
  /\ \A h \in targets : joined[h] # None /\ at[h] \in Listed
  /\ holder = <<>> => targets = {}
  /\ holder # <<>> => holder[2] = "ADD" \/ at[holder[1]] = "broadcast"

\* Nobody is listed and nobody broadcasts at first.
LEMMA InitBroadcast == Init => BroadcastInv
BY DEF Init, BroadcastInv

\* A loop that moves between places where its stream stays listed, and peers that
\* keep their sessions, leave the broadcasts alone.
LEMMA MoveKeepsBroadcast ==
  ASSUME TypeOK, BroadcastInv, UNCHANGED sigVars, NEW h \in Streams, NEW from, NEW to \in Places,
         Loop(h, from, to),
         from \in Listed => to \in Listed,
         from # "broadcast",
         to \in {"register", "delete", "announce", "broadcast"} => joined'[h] # None,
         \A g \in Streams : joined[g] # None => joined'[g] = joined[g]
  PROVE  BroadcastInv'
<1>1. /\ at[h] = from /\ at'[h] = to
      /\ \A g \in Streams : g # h => at'[g] = at[g]
  BY LoopTypes
<1>2. \A u \in Uids : sigs[u] # None => sigs[u] \in Streams /\ joined[sigs[u]] # None
  BY NoneAssumption DEF BroadcastInv, TypeOK
<1>3. \A u \in Uids : sigs'[u] # None => joined'[sigs'[u]] = u /\ at'[sigs'[u]] \in Listed
  BY <1>1, <1>2 DEF BroadcastInv, sigVars
<1>4. \A g \in Streams : at'[g] \in {"register", "delete", "announce", "broadcast"} => joined'[g] # None
  BY <1>1 DEF BroadcastInv
<1>5. \A g \in targets' : joined'[g] # None /\ at'[g] \in Listed
  BY <1>1 DEF BroadcastInv, sigVars, TypeOK
<1>6. holder' # <<>> => holder'[2] = "ADD" \/ at'[holder'[1]] = "broadcast"
  BY <1>1 DEF BroadcastInv, sigVars, TypeOK
<1> QED
  BY <1>3, <1>4, <1>5, <1>6 DEF BroadcastInv, sigVars

\* A broadcast begins with the streams that are listed now.
LEMMA BeginKeepsTargets ==
  ASSUME TypeOK, BroadcastInv, NEW h \in Streams, NEW uid, NEW purpose, BeginBroadcast(h, uid, purpose)
  PROVE  /\ holder' = <<h, purpose>> /\ UNCHANGED sigs
         /\ \A g \in targets' : g \in Streams /\ joined[g] # None /\ joined[g] # uid /\ at[g] \in Listed
  BY NoneAssumption DEF BeginBroadcast, BroadcastInv, TypeOK

\* Every step keeps that (service.go:55-117, 330-383).
LEMMA BroadcastStep == TypeOK /\ BroadcastInv /\ [Next]_vars => BroadcastInv'
<1> SUFFICES ASSUME TypeOK, BroadcastInv, [Next]_vars PROVE BroadcastInv'
  OBVIOUS
<1>1. ASSUME NEW h \in Streams,
             Signal(h) \/ TakeError(h) \/ IceFails(h) \/ ClientsRemoved(h) \/ NothingToAnnounce(h)
      PROVE  BroadcastInv'
  <2>1. CASE Signal(h)
    BY <2>1, MoveKeepsBroadcast DEF Signal, Listed, Places, peerVars
  <2>2. CASE TakeError(h) \/ IceFails(h)
    <3>1. Loop(h, "select", "defer") /\ UNCHANGED <<joined, sigVars>>
      BY <2>2 DEF TakeError, IceFails, peerVars
    <3> QED
      BY <3>1, MoveKeepsBroadcast DEF Listed, Places
  <2>3. CASE ClientsRemoved(h)
    <3>1. CASE joined[h] = None
      <4>1. Loop(h, "defer", "returned") /\ UNCHANGED <<joined, sigVars>>
        BY <2>3, <3>1 DEF ClientsRemoved, peerVars
      <4>2. /\ at[h] = "defer" /\ at'[h] = "returned"
            /\ \A g \in Streams : g # h => at'[g] = at[g]
        BY <4>1, LoopTypes DEF Places
      <4>3. h \notin targets /\ \A u \in Uids : sigs[u] # h
        BY <3>1, NoneAssumption DEF BroadcastInv, TypeOK
      <4> QED
        BY <4>1, <4>2, <4>3 DEF BroadcastInv, sigVars, TypeOK
    <3>2. CASE joined[h] # None
      <4>1. Loop(h, "defer", "delete") /\ UNCHANGED <<joined, sigVars>>
        BY <2>3, <3>2 DEF ClientsRemoved, peerVars
      <4> QED
        BY <3>2, <4>1, MoveKeepsBroadcast DEF Listed, Places
    <3> QED
      BY <3>1, <3>2
  <2>4. CASE NothingToAnnounce(h)
    <3>1. Loop(h, "announce", "returned") /\ UNCHANGED <<joined, sigVars>>
      BY <2>4 DEF NothingToAnnounce, peerVars
    <3> QED
      BY <3>1, MoveKeepsBroadcast DEF Listed, Places
  <2> QED
    BY <1>1, <2>1, <2>2, <2>3, <2>4
<1>2. ASSUME NEW h \in Streams, Offer(h) \/ Answer(h) \/ Trickle(h) \/ Subscription(h) PROVE BroadcastInv'
  <2>1. PICK place \in {"select", "defer"} : Reply(h, place)
    BY <1>2, RequestIsReply
  <2>2. Loop(h, "select", place) /\ UNCHANGED <<joined, sigVars>>
    BY <2>1 DEF Reply, TakeRequest, peerVars
  <2> QED
    BY <2>2, MoveKeepsBroadcast DEF Listed, Places
<1>3. ASSUME NEW h \in Streams, NEW uid \in Uids, NEW pub \in BOOLEAN, NEW isclient \in BOOLEAN,
             Join(h, uid, pub, isclient)
      PROVE  BroadcastInv'
  <2>1. PICK place \in {"register", "defer"} : Loop(h, "select", place)
    BY <1>3, JoinSteps
  <2>2. \/ joined[h] = None /\ joined' = [joined EXCEPT ![h] = uid]
        \/ joined[h] # None /\ joined' = joined
    BY <1>3, JoinSteps
  <2>3. UNCHANGED sigVars
    BY <1>3, JoinSteps
  <2>4. joined'[h] # None /\ \A g \in Streams : joined[g] # None => joined'[g] = joined[g]
    BY <2>2, NoneAssumption DEF TypeOK
  <2> QED
    BY <2>1, <2>3, <2>4, MoveKeepsBroadcast DEF Listed, Places
<1>4. ASSUME NEW h \in Streams, Register(h) PROVE BroadcastInv'
  <2>1. /\ at[h] = "register" /\ at'[h] = "select"
        /\ \A g \in Streams : g # h => at'[g] = at[g]
    BY <1>4, LoopTypes DEF Register, Places
  <2>2. joined[h] \in Uids /\ sigs' = [sigs EXCEPT ![joined[h]] = h]
    BY <1>4, <2>1 DEF Register, BroadcastInv, TypeOK
  <2>3. UNCHANGED <<joined, holder, targets>> /\ holder = <<>>
    BY <1>4 DEF Register, peerVars
  <2> QED
    BY <2>1, <2>2, <2>3 DEF BroadcastInv, TypeOK, Listed
<1>5. ASSUME NEW h \in Streams, DeleteSig(h) PROVE BroadcastInv'
  <2>1. /\ at[h] = "delete" /\ at'[h] = "announce"
        /\ \A g \in Streams : g # h => at'[g] = at[g]
    BY <1>5, LoopTypes DEF DeleteSig, Places
  <2>2. joined[h] \in Uids /\ sigs' = [sigs EXCEPT ![joined[h]] = None]
    BY <1>5, <2>1 DEF DeleteSig, BroadcastInv, TypeOK
  <2>3. UNCHANGED <<joined, holder, targets>> /\ holder = <<>> /\ targets = {}
    BY <1>5 DEF DeleteSig, peerVars, BroadcastInv
  <2>4. \A u \in Uids : sigs'[u] # None => u # joined[h] /\ sigs'[u] = sigs[u] /\ sigs[u] # h
    BY <2>2 DEF BroadcastInv, TypeOK
  <2> QED
    BY <2>1, <2>2, <2>3, <2>4 DEF BroadcastInv, TypeOK
<1>6. ASSUME NEW h \in Streams, AnnounceRemoved(h) PROVE BroadcastInv'
  <2>1. /\ at[h] = "announce" /\ at'[h] = "broadcast"
        /\ \A g \in Streams : g # h => at'[g] = at[g]
    BY <1>6, LoopTypes DEF AnnounceRemoved, Places
  <2>2. /\ holder' = <<h, "REMOVE">> /\ UNCHANGED <<sigs, joined>>
        /\ \A g \in targets' : g \in Streams /\ joined[g] # None /\ at[g] \in Listed
    BY <1>6, BeginKeepsTargets DEF AnnounceRemoved, peerVars
  <2>3. \A g \in Streams : at[g] \in Listed => at'[g] \in Listed
    BY <2>1 DEF Listed
  <2> QED
    BY <2>1, <2>2, <2>3 DEF BroadcastInv, TypeOK
<1>7. ASSUME NEW h \in Streams, NEW uid \in Uids, AnnounceAdded(h, uid) PROVE BroadcastInv'
  <2>1. /\ holder' = <<h, "ADD">> /\ UNCHANGED <<sigs, joined, at>>
        /\ \A g \in targets' : g \in Streams /\ joined[g] # None /\ at[g] \in Listed
    BY <1>7, BeginKeepsTargets DEF AnnounceAdded, loopVars
  <2> QED
    BY <2>1 DEF BroadcastInv
<1>8. CASE EndBroadcast
  <2>1. targets = {} /\ targets' = {} /\ holder # <<>> /\ holder' = <<>> /\ UNCHANGED <<sigs, joined>>
    BY <1>8 DEF EndBroadcast, peerVars
  <2>2. \A g \in Streams : at'[g] = at[g] \/ (at[g] = "broadcast" /\ at'[g] = "returned")
    BY <1>8 DEF EndBroadcast, BroadcastInv, TypeOK
  <2>3. \A g \in Streams : at[g] \in Listed => at'[g] = at[g]
    BY <2>2 DEF Listed
  <2> QED
    BY <2>1, <2>2, <2>3 DEF BroadcastInv, TypeOK
<1>9. CASE \/ \E h \in Streams : RecvFails(h) \/ ClientGone(h) \/ RemoveClient(h) \/ OnPublisherTrack(h)
                               \/ SendTrackEvent(h)
           \/ FetchSessionEvent \/ Idle \/ UNCHANGED vars
  <2>1. UNCHANGED <<at, joined, holder, sigs>> /\ targets' \subseteq targets
    BY <1>9 DEF RecvFails, ClientGone, RemoveClient, OnPublisherTrack, SendTrackEvent, FetchSessionEvent,
                Idle, vars, loopVars, peerVars, sigVars
  <2> QED
    BY <2>1 DEF BroadcastInv
<1> QED
  BY <1>1, <1>2, <1>3, <1>4, <1>5, <1>6, <1>7, <1>8, <1>9 DEF Next, SignalStep, Broadcast

\* No broadcast ever sends on the stream of a Signal that has returned
\* (service.go:55-94).
THEOREM NeverSendsOnReturned == Spec => []NoSendOnReturned
<1>1. BroadcastInv => NoSendOnReturned
  BY DEF BroadcastInv, NoSendOnReturned, Listed
<1> QED
  BY <1>1, InitBroadcast, BroadcastStep, TypeCorrect, PTL DEF Spec

-----------------------------------------------------------------------------
(* No ghost clients *)

\* The removal of a client is still to come from a stream that joined as one.
Pending(u) == \E h \in Streams : \E i \in 1 .. Len(pending[h]) : pending[h][i] = u

\* What is on its way ends with the client removed.
Cleared(u) ==
  /\ u \in known => RemovedAfter(u, 0)
  /\ \A i \in 1 .. Len(sessionEv) : sessionEv[i] = Event("ADD", u) => RemovedAfter(u, i)

\* The property says of each client that it is pending or cleared.
LEMMA GhostsByClient == NoGhostClient <=> \A u \in Uids : Pending(u) \/ Cleared(u)
BY DEF NoGhostClient, Pending, Cleared

\* What is removed after a place still is when an event is sent (service.go:528-540).
LEMMA RemovedAfterSend ==
  ASSUME sessionEv \in Seq(Events), NEW e \in Events, sessionEv' = Append(sessionEv, e), NEW u \in Uids
  PROVE  /\ Len(sessionEv) \in Nat /\ Len(sessionEv') = Len(sessionEv) + 1
         /\ \A i \in 1 .. Len(sessionEv) : sessionEv'[i] = sessionEv[i]
         /\ sessionEv'[Len(sessionEv) + 1] = e
         /\ \A i \in 0 .. Len(sessionEv) :
              RemovedAfter(u, i) \/ e = Event("REMOVE", u) => RemovedAfter(u, i)'
<1>1. /\ Len(sessionEv) \in Nat /\ Len(sessionEv') = Len(sessionEv) + 1
      /\ \A i \in 1 .. Len(sessionEv) : sessionEv'[i] = sessionEv[i]
      /\ sessionEv'[Len(sessionEv) + 1] = e
  BY AppendElement
<1>2. ASSUME NEW i \in 0 .. Len(sessionEv), RemovedAfter(u, i) PROVE RemovedAfter(u, i)'
  <2>1. PICK j \in i + 1 .. Len(sessionEv) : sessionEv[j] = Event("REMOVE", u)
    BY <1>2 DEF RemovedAfter
  <2>2. j \in i + 1 .. Len(sessionEv') /\ sessionEv'[j] = Event("REMOVE", u)
    BY <1>1, <2>1
  <2> QED
    BY <2>2 DEF RemovedAfter, Event
<1>3. ASSUME NEW i \in 0 .. Len(sessionEv), e = Event("REMOVE", u) PROVE RemovedAfter(u, i)'
  <2>1. /\ Len(sessionEv) + 1 \in i + 1 .. Len(sessionEv')
        /\ sessionEv'[Len(sessionEv) + 1] = Event("REMOVE", u)
    BY <1>1, <1>3
  <2> QED
    BY <2>1 DEF RemovedAfter, Event
<1> QED
  BY <1>1, <1>2, <1>3

\* A client stays cleared when another's event, or its own removal, is sent; its
\* own removal clears it.
LEMMA ClearedAfterSend ==
  ASSUME sessionEv \in Seq(Events), NEW e \in Events, sessionEv' = Append(sessionEv, e),
         UNCHANGED known, NEW u \in Uids,
         \/ e = Event("REMOVE", u)
         \/ Cleared(u) /\ e # Event("ADD", u)
  PROVE  Cleared(u)'
<1>1. /\ Len(sessionEv) \in Nat /\ Len(sessionEv') = Len(sessionEv) + 1
      /\ \A i \in 1 .. Len(sessionEv) : sessionEv'[i] = sessionEv[i]
      /\ sessionEv'[Len(sessionEv) + 1] = e
      /\ \A i \in 0 .. Len(sessionEv) :
           RemovedAfter(u, i) \/ e = Event("REMOVE", u) => RemovedAfter(u, i)'
  BY RemovedAfterSend
<1>2. e # Event("ADD", u)
  BY DEF Event
<1>3. u \in known' => RemovedAfter(u, 0)'
  BY <1>1 DEF Cleared
<1>4. ASSUME NEW i \in 1 .. Len(sessionEv'), sessionEv'[i] = Event("ADD", u) PROVE RemovedAfter(u, i)'
  <2>1. i \in 1 .. Len(sessionEv) /\ sessionEv[i] = Event("ADD", u)
    BY <1>1, <1>2, <1>4
  <2> QED
    BY <1>1, <2>1 DEF Cleared
<1> QED
  BY <1>3, <1>4 DEF Cleared, Event

\* The syncer takes an event: a cleared client stays so (syncer.go:83-129).
LEMMA ClearedAfterTake ==
  ASSUME TypeOK, FetchSessionEvent, NEW u \in Uids, Cleared(u)
  PROVE  Cleared(u)'
<1>1. /\ Head(sessionEv) = sessionEv[1] /\ Head(sessionEv) \in Events
      /\ Len(sessionEv) \in Nat \ {0}
      /\ sessionEv' = Tail(sessionEv)
      /\ Len(sessionEv') = Len(sessionEv) - 1
      /\ \A i \in 1 .. Len(sessionEv) - 1 : sessionEv'[i] = sessionEv[i + 1]
  BY TailElement DEF FetchSessionEvent, TypeOK
<1>2. ASSUME NEW i \in 1 .. Len(sessionEv), RemovedAfter(u, i) PROVE RemovedAfter(u, i - 1)'
  <2>1. PICK j \in i + 1 .. Len(sessionEv) : sessionEv[j] = Event("REMOVE", u)
    BY <1>2 DEF RemovedAfter
  <2>2. /\ j - 1 \in (i - 1) + 1 .. Len(sessionEv')
        /\ j - 1 \in 1 .. Len(sessionEv) - 1 /\ (j - 1) + 1 = j
    BY <1>1, <2>1
  <2>3. sessionEv'[j - 1] = Event("REMOVE", u)
    BY <1>1, <2>1, <2>2
  <2> QED
    BY <2>2, <2>3 DEF RemovedAfter, Event
<1>3. ASSUME u \in known' PROVE RemovedAfter(u, 0)'
  <2>1. CASE sessionEv[1] = Event("ADD", u)
    <3>1. 1 \in 1 .. Len(sessionEv) /\ 1 - 1 = 0
      BY <1>1
    <3>2. RemovedAfter(u, 1)
      BY <2>1, <3>1 DEF Cleared
    <3>3. RemovedAfter(u, 1 - 1)'
      BY <1>2, <3>1, <3>2
    <3> QED
      BY <3>1, <3>3 DEF RemovedAfter
  <2>2. CASE sessionEv[1] # Event("ADD", u)
    <3>1. u \in known /\ sessionEv[1] # Event("REMOVE", u)
      BY <1>1, <1>3, <2>2 DEF FetchSessionEvent, Events, Event
    <3>2. PICK j \in 0 + 1 .. Len(sessionEv) : sessionEv[j] = Event("REMOVE", u)
      BY <3>1 DEF Cleared, RemovedAfter
    <3>3. /\ j - 1 \in 0 + 1 .. Len(sessionEv')
          /\ j - 1 \in 1 .. Len(sessionEv) - 1 /\ (j - 1) + 1 = j
      BY <1>1, <3>1, <3>2
    <3>4. sessionEv'[j - 1] = Event("REMOVE", u)
      BY <1>1, <3>2, <3>3
    <3> QED
      BY <3>3, <3>4 DEF RemovedAfter, Event
  <2> QED
    BY <2>1, <2>2
<1>4. ASSUME NEW i \in 1 .. Len(sessionEv'), sessionEv'[i] = Event("ADD", u) PROVE RemovedAfter(u, i)'
  <2>1. i + 1 \in 1 .. Len(sessionEv) /\ i \in 1 .. Len(sessionEv) - 1 /\ (i + 1) - 1 = i
    BY <1>1
  <2>2. sessionEv[i + 1] = Event("ADD", u)
    BY <1>1, <1>4, <2>1
  <2>3. RemovedAfter(u, i + 1)
    BY <2>1, <2>2 DEF Cleared
  <2>4. RemovedAfter(u, (i + 1) - 1)'
    BY <1>2, <2>1, <2>3
  <2> QED
    BY <2>1, <2>4 DEF RemovedAfter
<1> QED
  BY <1>3, <1>4 DEF Cleared, Event

\* Nobody is known at first, and no event is on its way.
LEMMA InitGhost == Init => NoGhostClient
BY DEF Init, NoGhostClient, RemovedAfter

\* A step that reports nobody leaves the clients alone.
LEMMA GhostUntouched ==
  ASSUME NoGhostClient, UNCHANGED <<pending, sessionEv, known>>
  PROVE  NoGhostClient'
BY DEF NoGhostClient, RemovedAfter, Event

\* Every step keeps each client pending or cleared (service.go:96-112, 528-552).
LEMMA GhostStep == TypeOK /\ NoGhostClient /\ [Next]_vars => NoGhostClient'
<1> SUFFICES ASSUME TypeOK, NoGhostClient, [Next]_vars PROVE NoGhostClient'
  OBVIOUS
<1>1. \A u \in Uids : Pending(u) \/ Cleared(u)
  BY GhostsByClient
<1>2. (\A u \in Uids : (Pending(u) \/ Cleared(u))') => NoGhostClient'
  BY DEF NoGhostClient, Pending, Cleared, RemovedAfter, Event
<1>3. ASSUME NEW h \in Streams, NEW uid \in Uids, NEW pub \in BOOLEAN, NEW isclient \in BOOLEAN,
             Join(h, uid, pub, isclient)
      PROVE  NoGhostClient'
  <2>1. CASE UNCHANGED <<sessionEv, pending>>
    BY <1>3, <2>1, JoinSteps, GhostUntouched
  <2>2. CASE /\ sessionEv' = Append(sessionEv, Event("ADD", uid))
             /\ pending' = [pending EXCEPT ![h] = Append(@, uid)]
    <3>1. /\ pending[h] \in Seq(Uids) /\ UNCHANGED known
          /\ sessionEv \in Seq(Events) /\ Event("ADD", uid) \in Events
      BY <1>3, JoinSteps DEF TypeOK, Event, Events
    <3>2. /\ Len(pending'[h]) = Len(pending[h]) + 1 /\ Len(pending[h]) \in Nat
          /\ \A i \in 1 .. Len(pending[h]) : pending'[h][i] = pending[h][i]
          /\ pending'[h][Len(pending[h]) + 1] = uid
          /\ \A g \in Streams : g # h => pending'[g] = pending[g]
      <4>1. pending'[h] = Append(pending[h], uid) /\ \A g \in Streams : g # h => pending'[g] = pending[g]
        BY <2>2 DEF TypeOK
      <4> QED
        BY <3>1, <4>1, AppendElement
    <3>3. Pending(uid)'
      BY <3>2 DEF Pending
    <3>4. ASSUME NEW u \in Uids, u # uid PROVE (Pending(u) \/ Cleared(u))'
      <4>1. CASE Pending(u)
        <5>1. PICK g \in Streams : \E i \in 1 .. Len(pending[g]) : pending[g][i] = u
          BY <4>1 DEF Pending
        <5>2. PICK i \in 1 .. Len(pending[g]) : pending[g][i] = u
          BY <5>1
        <5>3. i \in 1 .. Len(pending'[g]) /\ pending'[g][i] = u
          BY <3>2, <5>2
        <5> QED
          BY <5>3 DEF Pending
      <4>2. CASE Cleared(u)
        <5>1. Event("ADD", uid) # Event("ADD", u)
          BY <3>4 DEF Event
        <5> QED
          BY <2>2, <3>1, <4>2, <5>1, ClearedAfterSend
      <4> QED
        BY <1>1, <4>1, <4>2
    <3> QED
      BY <1>2, <3>3, <3>4
  <2> QED
    BY <1>3, <2>1, <2>2, JoinSteps
<1>4. ASSUME NEW h \in Streams, RemoveClient(h) PROVE NoGhostClient'
  <2>1. pending[h] \in Seq(Uids) /\ pending[h] # <<>>
    BY <1>4 DEF RemoveClient, TypeOK
  <2>2. PICK n \in Nat \ {0} : n = Len(pending[h])
    BY <2>1, PopElement
  <2>3. PICK last \in Uids : last = pending[h][n]
    BY <2>1, <2>2, PopElement
  <2>4. /\ pending[h] \in Seq(Uids) /\ pending[h] # <<>> /\ UNCHANGED known
        /\ sessionEv' = Append(sessionEv, Event("REMOVE", last))
        /\ pending' = [pending EXCEPT ![h] = SubSeq(@, 1, n - 1)]
    BY <1>4, <2>1, <2>2, <2>3 DEF RemoveClient
  <2>5. /\ n \in Nat \ {0} /\ last \in Uids
        /\ Len(pending'[h]) = n - 1
        /\ \A i \in 1 .. n - 1 : pending'[h][i] = pending[h][i]
        /\ \A g \in Streams : g # h => pending'[g] = pending[g]
    <3>1. pending'[h] = SubSeq(pending[h], 1, n - 1) /\ \A g \in Streams : g # h => pending'[g] = pending[g]
      BY <2>4 DEF TypeOK
    <3> QED
      BY <2>1, <2>2, <3>1, PopElement
  <2>6. sessionEv \in Seq(Events) /\ Event("REMOVE", last) \in Events
    BY <2>5 DEF TypeOK, Event, Events
  <2>7. Cleared(last)'
    BY <2>4, <2>5, <2>6, ClearedAfterSend
  <2>8. ASSUME NEW u \in Uids, u # last PROVE (Pending(u) \/ Cleared(u))'
    <3>1. CASE Pending(u)
      <4>1. PICK g \in Streams : \E i \in 1 .. Len(pending[g]) : pending[g][i] = u
        BY <3>1 DEF Pending
      <4>2. PICK i \in 1 .. Len(pending[g]) : pending[g][i] = u
        BY <4>1
      <4>3. g = h => i # n
        BY <2>8, <2>3, <4>2
      <4>4. i \in 1 .. Len(pending'[g]) /\ pending'[g][i] = u
        BY <2>5, <2>2, <4>2, <4>3
      <4> QED
        BY <4>4 DEF Pending
    <3>2. CASE Cleared(u)
      <4>1. Event("REMOVE", last) # Event("ADD", u)
        BY DEF Event
      <4> QED
        BY <2>4, <2>6, <3>2, <4>1, ClearedAfterSend
    <3> QED
      BY <1>1, <3>1, <3>2
  <2> QED
    BY <1>2, <2>7, <2>8
<1>5. CASE FetchSessionEvent
  <2>1. ASSUME NEW u \in Uids PROVE (Pending(u) \/ Cleared(u))'
    <3>1. Pending(u) => Pending(u)'
      BY <1>5 DEF FetchSessionEvent, Pending, loopVars
    <3>2. Cleared(u) => Cleared(u)'
      BY <1>5, ClearedAfterTake
    <3> QED
      BY <1>1, <3>1, <3>2
  <2> QED
    BY <1>2, <2>1
<1>6. ASSUME NEW h \in Streams, Offer(h) \/ Answer(h) \/ Trickle(h) \/ Subscription(h) PROVE NoGhostClient'
  <2>1. PICK place \in {"select", "defer"} : Reply(h, place)
    BY <1>6, RequestIsReply
  <2> QED
    BY <2>1, GhostUntouched DEF Reply, TakeRequest
<1>7. CASE \/ \E h \in Streams :
                \/ Signal(h) \/ ClientGone(h) \/ RecvFails(h) \/ IceFails(h)
                \/ TakeError(h) \/ Register(h) \/ ClientsRemoved(h) \/ DeleteSig(h)
                \/ NothingToAnnounce(h) \/ AnnounceRemoved(h) \/ OnPublisherTrack(h)
                \/ SendTrackEvent(h) \/ \E uid \in Uids : AnnounceAdded(h, uid)
           \/ EndBroadcast \/ Idle \/ UNCHANGED vars
  <2>1. UNCHANGED <<pending, sessionEv, known>>
    BY <1>7 DEF Signal, ClientGone, RecvFails, IceFails, TakeError, Register, ClientsRemoved, DeleteSig,
                NothingToAnnounce, AnnounceRemoved, OnPublisherTrack, AnnounceAdded, SendTrackEvent,
                EndBroadcast, Idle, vars, loopVars, eventVars
  <2> QED
    BY <2>1, GhostUntouched
<1> QED
  BY <1>3, <1>4, <1>5, <1>6, <1>7 DEF Next, SignalStep, Broadcast

\* Whatever fails in a Join, the syncer never keeps a client all of whose streams
\* have done with it (service.go:96-112, 528-552).
THEOREM NeverGhostClient == Spec => []NoGhostClient
BY InitGhost, GhostStep, TypeCorrect, PTL DEF Spec
=============================================================================
