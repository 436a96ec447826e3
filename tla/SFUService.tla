----------------------------- MODULE SFUService -----------------------------
(***************************************************************************)
(* The RTC service of pkg/sfu/service.go and pkg/sfu/tracker.go: one       *)
(* Signal per stream, which joins its peer to a session of the SFU library *)
(* and tells the others of its tracks.  The clients among the streams are  *)
(* reported to the syncer through sessionEv.                               *)
(*                                                                         *)
(* The goroutines are, per stream, the loop of Signal with its deferred    *)
(* calls, the reader that calls Recv, and the debounced callback that      *)
(* broadcasts new tracks; besides, the syncer that fetches the events.     *)
(* The SFU library accepts or refuses what it is asked.                    *)
(***************************************************************************)
EXTENDS Naturals, Sequences

CONSTANTS
  Streams,      \* streams that are opened
  Uids,
  None,
  Cap,          \* capacity of sessionEv, 16 in the code
  MaxJoins      \* bound: Joins of all streams

ASSUME CapAssumption == Cap \in Nat \ {0}
ASSUME NoneAssumption == None \notin Streams \cup Uids
ASSUME MaxJoinsAssumption == MaxJoins \in Nat

VARIABLES
  at,         \* the loop of Signal
  pending,    \* its deferred removals: uids of clients
  joined,     \* peer.ID() once the peer has a session, or None
  publisher,  \* peers with a publisher
  tracks,     \* those with a non-empty tracksInfo
  reader,     \* "off", "recv", "err" (blocked on errch), "gone"
  joins,      \* how many Joins there were
  broken,     \* streams whose client is gone
  onTrack,    \* uid that the publisher's next track will be announced under, or None
  due,        \* <<stream, uid>> of announcements that wait for the mutex
  holder,     \* who holds the mutex in a broadcast: <<>>, or stream and purpose
  targets,    \* streams it has yet to send to
  sigs,       \* by uid
  sessionEv, known   \* the channel; the clients the syncer has by what it fetched

loopVars == <<at, pending>>
peerVars == <<joined, publisher, tracks, onTrack, due>>
readVars == <<reader, joins>>
sigVars == <<holder, targets, sigs>>
eventVars == <<sessionEv, known>>
vars == <<loopVars, peerVars, readVars, broken, sigVars, eventVars>>

Places == {"off", "select", "register", "defer", "delete", "announce", "broadcast", "returned"}

Event(state, u) == [state |-> state, of |-> u]

Init ==
  /\ at = [h \in Streams |-> "off"]
  /\ pending = [h \in Streams |-> <<>>]
  /\ joined = [h \in Streams |-> None] /\ publisher = {} /\ tracks = {}
  /\ onTrack = [h \in Streams |-> None] /\ due = {}
  /\ reader = [h \in Streams |-> "off"] /\ joins = 0
  /\ broken = {}
  /\ holder = <<>> /\ targets = {} /\ sigs = [u \in Uids |-> None]
  /\ sessionEv = <<>> /\ known = {}

Goto(h, place) == at' = [at EXCEPT ![h] = place]
Loop(h, from, to) == at[h] = from /\ Goto(h, to)

-----------------------------------------------------------------------------
(* Streams and their readers *)

Signal(h) ==
  /\ Loop(h, "off", "select")
  /\ reader' = [reader EXCEPT ![h] = "recv"]
  /\ UNCHANGED <<pending, peerVars, joins, broken, sigVars, eventVars>>

\* Recv fails when the client is gone or Signal has returned; if Signal has left
\* its loop, nobody reads errch any more.
RecvFails(h) ==
  /\ reader[h] = "recv" /\ (h \in broken \/ at[h] = "returned")
  /\ reader' = [reader EXCEPT ![h] = "err"]
  /\ UNCHANGED <<loopVars, peerVars, joins, broken, sigVars, eventVars>>

ClientGone(h) ==
  /\ at[h] # "off" /\ h \notin broken
  /\ broken' = broken \cup {h}
  /\ UNCHANGED <<loopVars, peerVars, readVars, sigVars, eventVars>>

-----------------------------------------------------------------------------
(* The loop *)

\* A request that Recv has returned may find its client gone.
TakeRequest(h, place) ==
  /\ reader[h] = "recv"
  /\ Loop(h, "select", place)
  /\ UNCHANGED <<reader, broken, sigVars, known>>

Reply(h, place) ==
  /\ TakeRequest(h, place)
  /\ UNCHANGED <<pending, peerVars, joins, sessionEv>>

\* An offer needs a publisher that takes it, and a client that takes the answer.
Offer(h) ==
  \/ h \in publisher /\ h \notin broken /\ Reply(h, "select")
  \/ Reply(h, "defer")

\* Answers and candidates before the Join get an error reply, which must go out;
\* the library may refuse those that come after it.
Answer(h) ==
  IF joined[h] # None THEN \E place \in {"select", "defer"} : Reply(h, place)
  ELSE Reply(h, IF h \in broken THEN "defer" ELSE "select")

Trickle(h) ==
  IF joined[h] # None THEN \E place \in {"select", "defer"} : Reply(h, place)
  ELSE Reply(h, IF h \in broken THEN "defer" ELSE "select")

\* Down tracks are the library's; the reply is sent whether or not it gets through.
Subscription(h) == Reply(h, "select")

\* The peer is closed.
TakeError(h) ==
  /\ reader[h] = "err"
  /\ Loop(h, "select", "defer")
  /\ reader' = [reader EXCEPT ![h] = "gone"]
  /\ UNCHANGED <<pending, peerVars, joins, broken, sigVars, eventVars>>

\* The peer's connection fails: the loop ends, and with it the stream.
IceFails(h) ==
  /\ joined[h] # None
  /\ Loop(h, "select", "defer")
  /\ broken' = broken \cup {h}
  /\ UNCHANGED <<pending, peerVars, readVars, sigVars, eventVars>>

\* Variant with a bug: only the first Join of a stream defers a removal.
AddFirstClient(h, uid) ==
  /\ Len(sessionEv) < Cap
  /\ sessionEv' = Append(sessionEv, Event("ADD", uid))
  /\ pending' = IF joined[h] = None THEN [pending EXCEPT ![h] = Append(@, uid)] ELSE pending

\* addClient waits for room in the channel; removeClient is deferred.
AddClient(h, uid) ==
  /\ Len(sessionEv) < Cap
  /\ sessionEv' = Append(sessionEv, Event("ADD", uid))
  /\ pending' = [pending EXCEPT ![h] = Append(@, uid)]

\* The offer of a Join is answered, and the publisher's next track will be announced
\* under the uid of this Join, no more under that of an earlier one.
AnswerJoin(h, uid) ==
  /\ TakeRequest(h, "register")
  /\ onTrack' = [onTrack EXCEPT ![h] = uid]

\* The library refuses the Join or its offer; the peer has its session all the same.
Refuse(h) ==
  /\ TakeRequest(h, "defer")
  /\ UNCHANGED onTrack

Unanswered(h) ==
  /\ TakeRequest(h, "register")
  /\ UNCHANGED onTrack

PeerJoins(h, uid, pub) ==
  /\ joined[h] = None
  /\ joined' = [joined EXCEPT ![h] = uid]
  /\ publisher' = IF pub THEN publisher \cup {h} ELSE publisher
  /\ Refuse(h) \/ IF pub THEN AnswerJoin(h, uid) ELSE Unanswered(h)

\* A second Join gets a failed reply, and its description is answered all the same.
JoinedAlready(h, uid) ==
  /\ joined[h] # None
  /\ UNCHANGED <<joined, publisher>>
  /\ IF h \in broken THEN Refuse(h)
     ELSE IF h \in publisher THEN AnswerJoin(h, uid) \/ Refuse(h) ELSE Unanswered(h)

\* Only clients are reported, before the peer is asked to join.
Join(h, uid, pub, isclient) ==
  /\ joins < MaxJoins
  /\ joins' = joins + 1
  /\ IF isclient THEN AddClient(h, uid) ELSE UNCHANGED <<sessionEv, pending>>
  /\ PeerJoins(h, uid, pub) \/ JoinedAlready(h, uid)
  /\ UNCHANGED <<tracks, due>>

\* The peer was told of the tracks of the others, and is now among those who will
\* be told; another stream of this uid is no more.
Register(h) ==
  /\ holder = <<>>
  /\ Loop(h, "register", "select")
  /\ sigs' = [sigs EXCEPT ![joined[h]] = h]
  /\ UNCHANGED <<pending, peerVars, readVars, broken, holder, targets, eventVars>>

-----------------------------------------------------------------------------
(* The deferred calls *)

RemoveClient(h) ==
  /\ at[h] = "defer" /\ pending[h] # <<>>
  /\ Len(sessionEv) < Cap
  /\ LET last == Len(pending[h])
     IN /\ sessionEv' = Append(sessionEv, Event("REMOVE", pending[h][last]))
        /\ pending' = [pending EXCEPT ![h] = SubSeq(@, 1, last - 1)]
  /\ UNCHANGED <<at, peerVars, readVars, broken, sigVars, known>>

ClientsRemoved(h) ==
  /\ pending[h] = <<>>
  /\ Loop(h, "defer", IF joined[h] = None THEN "returned" ELSE "delete")
  /\ UNCHANGED <<pending, peerVars, readVars, broken, sigVars, eventVars>>

\* Variant with a bug: the entry is deleted without the mutex.
DeleteSigUnlocked(h) ==
  /\ Loop(h, "delete", "announce")
  /\ sigs' = [sigs EXCEPT ![joined[h]] = None]
  /\ UNCHANGED <<pending, peerVars, readVars, broken, holder, targets, eventVars>>

\* The entry of the uid goes, whosever stream it is.
DeleteSig(h) ==
  /\ holder = <<>>
  /\ Loop(h, "delete", "announce")
  /\ sigs' = [sigs EXCEPT ![joined[h]] = None]
  /\ UNCHANGED <<pending, peerVars, readVars, broken, holder, targets, eventVars>>

NothingToAnnounce(h) ==
  /\ h \notin tracks
  /\ Loop(h, "announce", "returned")
  /\ UNCHANGED <<pending, peerVars, readVars, broken, sigVars, eventVars>>

-----------------------------------------------------------------------------
(* BroadcastTrackEvent *)

\* The mutex is taken, for every send that follows.  All streams but that of the uid
\* are told.
BeginBroadcast(h, uid, purpose) ==
  /\ holder = <<>>
  /\ holder' = <<h, purpose>>
  /\ targets' = {sigs[u] : u \in Uids \ {uid}} \ {None}
  /\ UNCHANGED sigs

AnnounceRemoved(h) ==
  /\ h \in tracks
  /\ Loop(h, "announce", "broadcast")
  /\ BeginBroadcast(h, joined[h], "REMOVE")
  /\ UNCHANGED <<pending, peerVars, readVars, broken, eventVars>>

\* 800 ms after the first track of a publisher that was answered, whatever became
\* of it since; two announcements of one stream and uid that both wait are one.
OnPublisherTrack(h) ==
  /\ onTrack[h] # None
  /\ tracks' = tracks \cup {h}
  /\ onTrack' = [onTrack EXCEPT ![h] = None]
  /\ due' = due \cup {<<h, onTrack[h]>>}
  /\ UNCHANGED <<loopVars, joined, publisher, readVars, broken, sigVars, eventVars>>

\* The uid is that of the Join, and may be another one than the peer's.
AnnounceAdded(h, uid) ==
  /\ <<h, uid>> \in due
  /\ due' = due \ {<<h, uid>>}
  /\ BeginBroadcast(h, uid, "ADD")
  /\ UNCHANGED <<loopVars, joined, publisher, tracks, onTrack, readVars, broken, eventVars>>

\* An error is logged.
SendTrackEvent(t) ==
  /\ t \in targets
  /\ targets' = targets \ {t}
  /\ UNCHANGED <<loopVars, peerVars, readVars, broken, holder, sigs, eventVars>>

\* Variant with a bug: the mutex stays locked when a send has failed.
EndBroadcastOnSuccess ==
  /\ holder # <<>> /\ targets = {}
  /\ holder' = IF broken = {} THEN <<>> ELSE holder
  /\ at' = IF holder[2] = "REMOVE" THEN [at EXCEPT ![holder[1]] = "returned"] ELSE at
  /\ UNCHANGED <<pending, peerVars, readVars, broken, targets, sigs, eventVars>>

EndBroadcast ==
  /\ holder # <<>> /\ targets = {}
  /\ holder' = <<>>
  /\ at' = IF holder[2] = "REMOVE" THEN [at EXCEPT ![holder[1]] = "returned"] ELSE at
  /\ UNCHANGED <<pending, peerVars, readVars, broken, targets, sigs, eventVars>>

-----------------------------------------------------------------------------
FetchSessionEvent ==
  /\ sessionEv # <<>>
  /\ LET e == Head(sessionEv)
     IN known' = IF e.state = "ADD" THEN known \cup {e.of} ELSE known \ {e.of}
  /\ sessionEv' = Tail(sessionEv)
  /\ UNCHANGED <<loopVars, peerVars, readVars, broken, sigVars>>

SignalStep(h) ==
  \/ \E uid \in Uids, pub, isclient \in BOOLEAN : Join(h, uid, pub, isclient)
  \/ Offer(h) \/ Answer(h) \/ Trickle(h) \/ Subscription(h)
  \/ TakeError(h) \/ Register(h)
  \/ RemoveClient(h) \/ ClientsRemoved(h) \/ DeleteSig(h) \/ NothingToAnnounce(h) \/ AnnounceRemoved(h)

Broadcast ==
  \/ \E h \in Streams : SendTrackEvent(h) \/ \E uid \in Uids : AnnounceAdded(h, uid)
  \/ EndBroadcast

\* All streams have been opened: there may be nothing more to do.
Idle == (\A h \in Streams : at[h] # "off") /\ UNCHANGED vars

Next ==
  \/ \E h \in Streams :
       Signal(h) \/ ClientGone(h) \/ RecvFails(h) \/ IceFails(h) \/ SignalStep(h)
         \/ OnPublisherTrack(h)
  \/ Broadcast \/ FetchSessionEvent \/ Idle

\* The loops and broadcasts go on: a Send ends, be it in error.  The syncer fetches.
Fairness ==
  /\ WF_vars((\E h \in Streams : SignalStep(h)) \/ Broadcast \/ FetchSessionEvent)
  /\ WF_vars(\E h \in Streams : RecvFails(h))

Spec == Init /\ [][Next]_vars /\ Fairness

-----------------------------------------------------------------------------
Events == [state : {"ADD", "REMOVE"}, of : Uids]

TypeOK ==
  /\ at \in [Streams -> Places]
  /\ pending \in [Streams -> Seq(Uids)]
  /\ joined \in [Streams -> Uids \cup {None}]
  /\ publisher \subseteq Streams /\ tracks \subseteq Streams
  /\ reader \in [Streams -> {"off", "recv", "err", "gone"}]
  /\ joins \in 0 .. MaxJoins
  /\ broken \subseteq Streams
  /\ onTrack \in [Streams -> Uids \cup {None}] /\ due \subseteq Streams \X Uids
  /\ holder \in {<<>>} \cup (Streams \X {"ADD", "REMOVE"})
  /\ targets \subseteq Streams /\ sigs \in [Uids -> Streams \cup {None}]
  /\ sessionEv \in Seq(Events) /\ known \subseteq Uids

RemovedAfter(u, i) == \E j \in i + 1 .. Len(sessionEv) : sessionEv[j] = Event("REMOVE", u)

\* A client none of whose streams has its removal to come is not known to the
\* syncer, or will be removed by what is on its way: whatever fails in a Join.
NoGhostClient ==
  \A u \in Uids :
    (\A h \in Streams : \A i \in 1 .. Len(pending[h]) : pending[h][i] # u) =>
      /\ u \in known => RemovedAfter(u, 0)
      /\ \A i \in 1 .. Len(sessionEv) : sessionEv[i] = Event("ADD", u) => RemovedAfter(u, i)

\* A broadcast never sends on the stream of a Signal that has returned.
NoSendOnReturned ==
  \A h \in targets : at[h] # "returned"

\* The Signal of a client that is gone returns, whoever broadcasts meanwhile.
SignalReturns ==
  []<>(\A h \in broken : at[h] = "returned")

=============================================================================
