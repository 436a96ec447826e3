------------------------------ MODULE SFUClient ------------------------------
(***************************************************************************)
(* Publisher and Subscriber of pkg/sfu over the StreamClient: every new    *)
(* stream gets a peer connection, a message handler and a Join of its own, *)
(* and whatever fails asks for another stream.                             *)
(*                                                                         *)
(* The goroutines are the read loop, the owner (Switch, Connect, Close),   *)
(* the one reconnection that refresh may run, one sender of a Join per     *)
(* peer connection, and the ICE callbacks of the WebRTC library.  A peer   *)
(* connection has the name of the stream it was made for.  The server is   *)
(* what a client may see of SFUService (module SFUService).                *)
(***************************************************************************)
EXTENDS StreamClient, Sequences

CONSTANTS
  Roles,      \* "publisher", "subscriber"
  MaxEvents   \* bound: calls of Switch, lost connections, failing dials and calls
              \* of the WebRTC library, what the server pushes, ICE candidates

Reader == <<"reader", 0>>
Owner == <<"owner", 0>>
Refresher == <<"refresh", 0>>
Trickler == <<"trickle", 0>>
Joiner(k) == <<"join", k>>
PCs == 1 .. MaxTimes

ASSUME MaxEventsAssumption == MaxEvents \in Nat

ASSUME UsersAssumption ==
  Users = {Reader, Owner, Refresher, Trickler} \cup {Joiner(k) : k \in PCs}

VARIABLES
  role,
  wanted, dialed,      \* versions of what Switch stored: newest, last dialled with
  reading,             \* the read loop has been started
  pc, made,            \* lastPeerConnection; the one the callback has just made
  openPCs,             \* peer connections that were not closed
  handler,             \* peer connection that onMsgRecv is bound to
  remote, cands,       \* those with a remote description; candidates kept for later
  spawned,             \* Join goroutines that have not ended
  served,              \* Joins the server got on the open stream
  inbox,               \* replies on the open stream
  msg, by, answering,  \* what the read loop handles, with which handler
  refreshes, dropped,  \* refresh goroutines not yet at the token; one found it taken
  events               \* how many of the bounded events have happened

NoMsg == [kind |-> "none", pc |-> 0]
Message == [kind : {"none", "answer", "rejected", "offer", "trickle", "error"}, pc : 0 .. MaxTimes]

switchVars == <<wanted, dialed>>
pcVars == <<pc, made, openPCs, handler>>
sdpVars == <<remote, cands>>
joinVars == <<spawned, served>>
readVars == <<reading, inbox, msg, by, answering>>
refreshVars == <<refreshes, dropped>>
envVars == <<role, events>>
vars == <<clientVars, switchVars, pcVars, sdpVars, joinVars, readVars, refreshVars, envVars>>

Init ==
  /\ ClientInit
  /\ role \in Roles
  /\ wanted = 0 /\ dialed = 0
  /\ reading = FALSE
  /\ pc = 0 /\ made = 0 /\ openPCs = {} /\ handler = 0
  /\ remote = {} /\ cands = [k \in PCs |-> 0]
  /\ spawned = {} /\ served = {}
  /\ inbox = <<>> /\ msg = NoMsg /\ by = 0 /\ answering = FALSE
  /\ refreshes = 0 /\ dropped = FALSE
  /\ events = 0

Event == events < MaxEvents /\ events' = events + 1
NoEvent == UNCHANGED events

\* refresh: reconnectExec.Do starts a goroutine that tries for the token.
Refresh == refreshes' = refreshes + 1 /\ UNCHANGED dropped
NoRefresh == UNCHANGED refreshVars

-----------------------------------------------------------------------------
(* Reconnections *)

KeepClientSide == UNCHANGED <<switchVars, pcVars, sdpVars, spawned, reading, msg, by, answering,
                              refreshVars, role>>

\* Replies and Joins of a stream are gone with it.  No refresh is missed any more.
BeginReconnect(u) ==
  /\ Begin(u)
  /\ inbox' = <<>> /\ served' = {} /\ dropped' = FALSE
  /\ UNCHANGED <<switchVars, pcVars, sdpVars, spawned, reading, msg, by, answering, refreshes, envVars>>

\* NewClientStream reads the parameters of the last Switch, and the read loop is
\* started unless it runs.
Dial(u) ==
  /\ dialed' = wanted
  /\ \/ DialSucceeds(u) /\ NoEvent /\ reading' = TRUE
     \/ DialFails(u) /\ UNCHANGED reading
        /\ IF closed THEN NoEvent ELSE Event
  /\ UNCHANGED <<wanted, pcVars, sdpVars, joinVars, inbox, msg, by, answering, refreshVars,
                 role>>

\* OnReconnect: the last peer connection is closed, a new one is made; if that
\* fails, the handler of the last one stays.
NewPeerConnection(u) ==
  /\ at[u] = "callback" /\ made = 0
  /\ \/ /\ made' = stream
        /\ openPCs' = (openPCs \ {pc}) \cup {stream}
        /\ NoEvent /\ NoRefresh /\ UNCHANGED clientVars
     \/ /\ openPCs' = openPCs \ {pc}
        /\ UNCHANGED made
        /\ Event /\ Refresh /\ CallbackReturns(u)
  /\ UNCHANGED <<switchVars, pc, handler, sdpVars, joinVars, readVars, role>>

\* Variant with a bug: the Join is sent by the callback itself.  On a dead stream
\* it would reconnect, that is, wait for the reconnection it is part of.
BindHandlerAndSend(u) ==
  /\ at[u] = "callback" /\ made # 0
  /\ IF open = stream
     THEN /\ handler' = made /\ pc' = made /\ made' = 0
          /\ served' = served \cup {made}
          /\ CallbackReturns(u)
     ELSE UNCHANGED <<handler, pc, made, served, clientVars>>
  /\ UNCHANGED <<switchVars, openPCs, sdpVars, spawned, readVars, refreshVars, envVars>>

\* Variant with a bug: messages go to the new handler only after the Join.
JoinThenBind(u) ==
  /\ at[u] = "callback" /\ made # 0
  /\ IF made \in spawned
     THEN handler' = made /\ pc' = made /\ made' = 0 /\ CallbackReturns(u) /\ UNCHANGED spawned
     ELSE spawned' = spawned \cup {made} /\ UNCHANGED <<handler, pc, made, clientVars>>
  /\ UNCHANGED <<switchVars, openPCs, sdpVars, served, readVars, refreshVars, envVars>>

\* The Join is left to a goroutine and the peer connection becomes the last one.
JoinLater == pc' = made /\ spawned' = spawned \cup {made} /\ NoEvent /\ NoRefresh

\* The new peer connection is not the last one yet: nobody will close it.
NeedTrackFails == role = "publisher" /\ Event /\ Refresh /\ UNCHANGED <<pc, spawned>>

BindHandler(u) ==
  /\ at[u] = "callback" /\ made # 0
  /\ handler' = made /\ made' = 0
  /\ JoinLater \/ NeedTrackFails
  /\ CallbackReturns(u)
  /\ UNCHANGED <<switchVars, openPCs, sdpVars, served, readVars, role>>

StepReconnect(u) ==
  \/ (Enter(u) \/ Wake(u)) /\ KeepClientSide /\ UNCHANGED <<served, inbox, events>>
  \/ BeginReconnect(u) \/ Dial(u) \/ NewPeerConnection(u) \/ BindHandler(u)

-----------------------------------------------------------------------------
(* The Join goroutine of a peer connection *)

JoinEnds(k) == spawned' = spawned \ {k}

\* A publisher makes an offer first; a closed peer connection refuses.
OfferFails(k) ==
  /\ role = "publisher"
  /\ k \in spawned /\ at[Joiner(k)] = "idle"
  /\ IF k \in openPCs THEN Event ELSE NoEvent
  /\ JoinEnds(k) /\ Refresh
  /\ UNCHANGED <<clientVars, switchVars, pcVars, sdpVars, served, readVars, role>>

\* The offer may be older than the end of the peer connection.
SendJoin(k) ==
  /\ k \in spawned
  /\ DoWithClient(Joiner(k))
  /\ KeepClientSide /\ UNCHANGED <<served, inbox, events>>

\* The Join goes out on the stream the goroutine found, which may be a later one
\* than that of its peer connection; a second Join of one stream is rejected, and
\* its offer is answered all the same.
JoinSent(k) ==
  /\ on[Joiner(k)] = open
  /\ UseDone(Joiner(k))
  /\ JoinEnds(k)
  /\ served' = served \cup {k}
  /\ LET told == IF served = {} THEN inbox ELSE Append(inbox, [kind |-> "rejected", pc |-> k])
     IN inbox' = IF role = "publisher" THEN Append(told, [kind |-> "answer", pc |-> k]) ELSE told
  /\ UNCHANGED <<switchVars, pcVars, sdpVars, reading, msg, by, answering, refreshVars, envVars>>

\* Send returned an error, after the stream was replaced.
JoinNotSent(k) ==
  /\ CallReturns(Joiner(k))
  /\ JoinEnds(k) /\ Refresh
  /\ UNCHANGED <<switchVars, pcVars, sdpVars, served, readVars, envVars>>

StepJoin(k) ==
  \/ OfferFails(k) \/ SendJoin(k) \/ JoinSent(k) \/ JoinNotSent(k)
  \/ UseFails(Joiner(k)) /\ KeepClientSide /\ UNCHANGED <<served, inbox, events>>

-----------------------------------------------------------------------------
(* The read loop and its handlers *)

replyVars == <<reading, inbox, answering>>

Recv ==
  /\ reading /\ ~answering /\ ~closed
  /\ DoWithClient(Reader)
  /\ KeepClientSide /\ UNCHANGED <<served, inbox, events>>

ReaderExits ==
  /\ reading /\ closed /\ at[Reader] = "idle" /\ ~answering
  /\ reading' = FALSE
  /\ UNCHANGED <<clientVars, switchVars, pcVars, sdpVars, joinVars, inbox, msg, by, answering,
                 refreshVars, envVars>>

Receive ==
  /\ at[Reader] = "using" /\ msg = NoMsg /\ ~answering
  /\ on[Reader] = open /\ inbox # <<>>
  /\ msg' = Head(inbox) /\ inbox' = Tail(inbox)
  /\ by' = handler
  /\ UNCHANGED <<clientVars, switchVars, pcVars, sdpVars, joinVars, reading, answering,
                 refreshVars, envVars>>

\* The handler returned, and with it the operation of the read loop.
Handled == UseDone(Reader) /\ msg' = NoMsg /\ by' = 0

\* Variant with a bug: the candidates that came first are forgotten.
DescribeOnly(k) == remote' = remote \cup {k} /\ UNCHANGED cands

\* negotiate: the description is set and the candidates kept so far are added.
Describe(k) == remote' = remote \cup {k} /\ cands' = [cands EXCEPT ![k] = 0]

\* A closed peer connection refuses the description, and so does one that has its
\* answer; the answer to another one's offer is refused or not.
NegotiationFails ==
  /\ IF by \in openPCs /\ (msg.kind = "answer" => by \notin remote /\ msg.pc = by)
     THEN Event ELSE NoEvent
  /\ Handled /\ Refresh
  /\ UNCHANGED sdpVars

HandleAnswer ==
  /\ msg.kind = "answer"
  /\ \/ by \in openPCs \ remote /\ Describe(by) /\ NoEvent /\ Handled /\ NoRefresh
     \/ NegotiationFails
  /\ UNCHANGED <<switchVars, pcVars, joinVars, replyVars, role>>

\* A subscriber answers through the client, inside the operation of the loop.
HandleOffer ==
  /\ msg.kind = "offer"
  /\ \/ by \in openPCs /\ Describe(by) /\ NoEvent /\ Handled /\ NoRefresh /\ answering' = TRUE
     \/ NegotiationFails /\ UNCHANGED answering
  /\ UNCHANGED <<switchVars, pcVars, joinVars, reading, inbox, role>>

\* A candidate that comes before the description is kept.
Trickled(k) == cands' = IF k \in remote THEN cands ELSE [cands EXCEPT ![k] = @ + 1]

HandleTrickle ==
  /\ msg.kind = "trickle"
  /\ Trickled(by)
  /\ Handled
  /\ UNCHANGED <<switchVars, pcVars, remote, joinVars, replyVars, refreshVars, envVars>>

\* Variant with a bug: a Join that failed is logged only.
LogRejected ==
  /\ msg.kind = "rejected"
  /\ Handled
  /\ UNCHANGED <<switchVars, pcVars, sdpVars, joinVars, replyVars, refreshVars, envVars>>

HandleRejected ==
  /\ msg.kind = "rejected"
  /\ Handled /\ Refresh
  /\ UNCHANGED <<switchVars, pcVars, sdpVars, joinVars, replyVars, envVars>>

HandleError ==
  /\ msg.kind = "error"
  /\ Handled /\ Refresh
  /\ UNCHANGED <<switchVars, pcVars, sdpVars, joinVars, replyVars, envVars>>

SendAnswer ==
  /\ answering
  /\ DoWithClient(Reader)
  /\ KeepClientSide /\ UNCHANGED <<served, inbox, events>>

AnswerSent ==
  /\ answering
  /\ on[Reader] = open
  /\ UseDone(Reader)
  /\ answering' = FALSE
  /\ UNCHANGED <<switchVars, pcVars, sdpVars, joinVars, reading, inbox, msg, by, refreshVars, envVars>>

\* The loop goes on with the new stream; a failed answer asks for one more.
ReaderReturns ==
  /\ CallReturns(Reader)
  /\ answering' = FALSE
  /\ IF answering THEN Refresh ELSE NoRefresh
  /\ UNCHANGED <<switchVars, pcVars, sdpVars, joinVars, reading, inbox, msg, by, envVars>>

StepReader ==
  \/ Recv \/ ReaderExits \/ Receive \/ HandleAnswer \/ HandleOffer \/ HandleTrickle
  \/ HandleRejected \/ HandleError
  \/ SendAnswer \/ AnswerSent \/ ReaderReturns
  \/ msg = NoMsg /\ UseFails(Reader) /\ KeepClientSide /\ UNCHANGED <<served, inbox, events>>

-----------------------------------------------------------------------------
(* Owner, refresh, ICE callbacks *)

\* The session and the node of the next stream.
StoreParameters == wanted' = wanted + 1

\* The first call comes before any other: a Join reads the session.
Switch ==
  /\ ~closed /\ Event
  /\ StoreParameters
  /\ StartReconnect(Owner)
  /\ UNCHANGED <<dialed, pcVars, sdpVars, joinVars, readVars, refreshVars, role>>

OwnerReturns ==
  /\ ReconnectReturns(Owner)
  /\ KeepClientSide /\ UNCHANGED <<served, inbox, events>>

Connect ==
  /\ wanted > 0 /\ at[Owner] = "idle" /\ ~reading /\ ~closed
  /\ reading' = TRUE
  /\ UNCHANGED <<clientVars, switchVars, pcVars, sdpVars, joinVars, inbox, msg, by, answering,
                 refreshVars, envVars>>

Close ==
  /\ wanted > 0 /\ at[Owner] = "idle"
  /\ CloseClient
  /\ inbox' = <<>> /\ served' = {}
  /\ KeepClientSide /\ NoEvent

\* A refresh goroutine takes the token, or finds it taken and gives up.
RefreshRuns ==
  /\ refreshes > 0
  /\ refreshes' = refreshes - 1
  /\ IF at[Refresher] = "idle" THEN StartReconnect(Refresher) /\ UNCHANGED dropped
     ELSE dropped' = TRUE /\ UNCHANGED clientVars
  /\ UNCHANGED <<switchVars, pcVars, sdpVars, joinVars, readVars, envVars>>

RefreshReturns ==
  /\ ReconnectReturns(Refresher)
  /\ KeepClientSide /\ UNCHANGED <<served, inbox, events>>

SendTrickle ==
  /\ openPCs # {}
  /\ Event
  /\ DoWithClient(Trickler)
  /\ UNCHANGED <<switchVars, pcVars, sdpVars, joinVars, readVars, refreshVars, role>>

\* A server that has no Join on this stream answers with an error.
TrickleSent ==
  /\ on[Trickler] = open
  /\ UseDone(Trickler)
  /\ inbox' = IF served = {} THEN Append(inbox, [kind |-> "error", pc |-> 0]) ELSE inbox
  /\ UNCHANGED <<switchVars, pcVars, sdpVars, joinVars, reading, msg, by, answering,
                 refreshVars, envVars>>

TrickleReturns ==
  /\ CallReturns(Trickler) \/ UseFails(Trickler)
  /\ KeepClientSide /\ UNCHANGED <<served, inbox, events>>

-----------------------------------------------------------------------------
(* Network and server *)

ConnectionLost ==
  /\ Event
  /\ Break
  /\ inbox' = <<>> /\ served' = {}
  /\ KeepClientSide

ServerPushes ==
  /\ served # {}
  /\ Event
  /\ \E kind \in IF role = "subscriber" THEN {"offer", "trickle"} ELSE {"trickle"} :
        inbox' = Append(inbox, [kind |-> kind, pc |-> 0])
  /\ UNCHANGED <<clientVars, switchVars, pcVars, sdpVars, joinVars, reading, msg, by, answering,
                 refreshVars, role>>

\* The bound on reconnections is reached.
Exhausted == times = MaxTimes /\ UNCHANGED vars

\* Nothing left to do until somebody calls.
Quiet ==
  /\ refreshes = 0 /\ spawned = {}
  /\ \A u \in Users \ {Reader} : at[u] = "idle"
  /\ at[Reader] = "idle" \/ on[Reader] = open
  /\ UNCHANGED vars

Program ==
  \/ \E u \in Users : StepReconnect(u)
  \/ \E k \in PCs : StepJoin(k)
  \/ StepReader \/ OwnerReturns \/ RefreshRuns \/ RefreshReturns \/ TrickleSent \/ TrickleReturns

Environment ==
  Switch \/ Connect \/ Close \/ SendTrickle \/ ConnectionLost \/ ServerPushes

Next == (times < MaxTimes /\ (Program \/ Environment)) \/ Exhausted \/ Quiet

\* As long as some goroutine can go on, one of them does.  No two of them can keep
\* each other busy without a reconnection, so that none need be favoured.
Fairness == WF_vars(Program)

Spec == Init /\ [][Next]_vars /\ Fairness

-----------------------------------------------------------------------------
TypeOK ==
  /\ ClientTypeOK
  /\ role \in Roles
  /\ wanted \in Nat /\ dialed \in 0 .. wanted /\ events \in 0 .. MaxEvents
  /\ pc \in Streams /\ made \in Streams /\ handler \in Streams
  /\ openPCs \subseteq PCs /\ spawned \subseteq PCs /\ served \subseteq PCs /\ remote \subseteq PCs
  /\ cands \in [PCs -> Nat]
  /\ inbox \in Seq(Message) /\ msg \in Message /\ by \in Streams
  /\ reading \in BOOLEAN /\ answering \in BOOLEAN /\ dropped \in BOOLEAN
  /\ refreshes \in Nat

\* When Switch has returned, the server was dialled with what it stored, or a
\* reconnection that will do so is under way, even if the call only waited for
\* reconnections that others had started before it.
SwitchTakesEffect ==
  at[Owner] = "idle" /\ ~closed => dialed = wanted \/ \E u \in Users : at[u] = "dial"

\* The answer to a Join never reaches the handler of an earlier peer connection.
AnswerNotForOlder ==
  msg.kind = "answer" => msg.pc <= by

\* No candidate is left in the list of a peer connection that has its
\* description: nothing would add it any more.
NoCandidateLeft ==
  \A k \in remote : cands[k] = 0

-----------------------------------------------------------------------------
(* What the invariants rest on *)

Nobody(place) == \A u \in Users : at[u] # place

\* The parameters of the last Switch were not dialled with, nor are they being.
Pending == dialed # wanted /\ Nobody("dial")

\* While they are not, the call of Switch goes on.  In its first round it remembers
\* the count of reconnections, which has not changed; when it finds that out, no
\* reconnection is past its dial, so that the second round makes one, or waits for
\* one that has not begun.
SwitchGoesOn ==
  /\ before[Owner] <= times
  /\ ~closed /\ Pending =>
       /\ at[Owner] # "idle"
       /\ before[Owner] >= 0 =>
            /\ times = before[Owner]
            /\ at[Owner] = "waiting" => wait[Owner] >= times
            /\ at[Owner] = "returned" => Nobody("callback")
       /\ before[Owner] < 0 =>
            \/ at[Owner] = "failed" /\ Nobody("callback")
            \/ at[Owner] = "begin"
            \/ at[Owner] = "waiting" /\ wait[Owner] = times + 1 /\ ~Nobody("begin")

\* A peer connection belongs to the stream it was made for, and the callback that
\* made it has yet to hand messages over to it.
MadeForStream ==
  /\ handler <= stream
  /\ made # 0 => made = stream /\ ~Nobody("callback")

\* A Join goroutine that calls the client has not ended.
JoinersSpawned == \A k \in PCs : at[Joiner(k)] # "idle" => k \in spawned

\* The Joins on their way and their answers are of the peer connection that handles
\* messages, or of an earlier one.
NoneNewer ==
  /\ \A k \in spawned : k <= handler
  /\ \A i \in 1 .. Len(inbox) : inbox[i].kind = "answer" => inbox[i].pc <= handler

HandlerIsNewest == MadeForStream /\ JoinersSpawned /\ NoneNewer

IInv ==
  /\ TypeOK /\ OneReconnection /\ StreamsNumbered
  /\ SwitchGoesOn /\ HandlerIsNewest /\ AnswerNotForOlder /\ NoCandidateLeft

-----------------------------------------------------------------------------
(* Liveness *)

\* Nobody waits for itself or for a reconnection that has ended: again and again
\* all calls of the client have returned, or use a stream.
CallsReturn ==
  []<>(times = MaxTimes \/ \A u \in Users : at[u] \in {"idle", "using"})

\* The Join of the open stream is that of the peer connection made for it, whose
\* offer has its answer.
Joined ==
  /\ open # 0 /\ served = {open}
  /\ role = "publisher" => open \in remote

\* After whatever failed, be it that a late Join took the stream of another peer
\* connection, the client comes back to a stream it has joined, unless a refresh
\* goroutine gave up because the token was not back yet.
ComesBack ==
  []<>(times = MaxTimes \/ closed \/ ~reading \/ dropped \/ Joined)

=============================================================================
