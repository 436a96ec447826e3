-------------------------- MODULE SFUClient_proofs --------------------------
(***************************************************************************)
(* Proofs about the SFU client, its reconnections and the goroutines that  *)
(* share its stream, for any number of reconnections, peer connections and *)
(* events.  First that the program is one that uses the client, then the   *)
(* parameters of Switch, then the handlers of pkg/sfu.                     *)
(***************************************************************************)
EXTENDS SFUClient, StreamClient_proofs, SequenceTheorems

\* An element of a queue after Append is an old one or the new one.
LEMMA AppendElement ==
  ASSUME NEW S, NEW s \in Seq(S), NEW e \in S
  PROVE  /\ Append(s, e) \in Seq(S)
         /\ Len(Append(s, e)) = Len(s) + 1
         /\ \A i \in 1 .. Len(s) : Append(s, e)[i] = s[i]
         /\ Append(s, e)[Len(s) + 1] = e
OBVIOUS

\* An element of the rest of a queue is one of the queue, a place further on.
LEMMA TailElement ==
  ASSUME NEW S, NEW s \in Seq(S), s # <<>>
  PROVE  /\ Head(s) = s[1] /\ Head(s) \in S
         /\ Tail(s) \in Seq(S)
         /\ Len(s) \in Nat \ {0}
         /\ Len(Tail(s)) = Len(s) - 1
         /\ \A i \in 1 .. Len(s) - 1 : Tail(s)[i] = s[i + 1]
OBVIOUS

-----------------------------------------------------------------------------
(* The program uses the client *)

\* The goroutines have names of their own (client.go, publisher.go, subscriber.go).
LEMMA UsersDiffer ==
  /\ Reader \in Users /\ Owner \in Users /\ Refresher \in Users /\ Trickler \in Users
  /\ Owner # Reader /\ Owner # Refresher /\ Owner # Trickler
  /\ \A k \in PCs : /\ Joiner(k) \in Users
                    /\ Joiner(k) # Owner /\ Joiner(k) # Reader
                    /\ Joiner(k) # Refresher /\ Joiner(k) # Trickler
  /\ \A k, l \in PCs : Joiner(k) = Joiner(l) => k = l
BY UsersAssumption DEF Reader, Owner, Refresher, Trickler, Joiner

\* Whatever the program does, it changes the client by one step of one call, or
\* by Close, or by a lost connection (client.go:58-167).
LEMMA ClientSteps == [Next]_vars => [ClientNext]_clientVars
<1> SUFFICES ASSUME [Next]_vars
             PROVE  \/ \E u \in Users : UserStep(u)
                    \/ CloseClient \/ Break
                    \/ UNCHANGED clientVars
  BY DEF ClientNext
<1> USE UsersDiffer
<1>1. ASSUME NEW u \in Users, StepReconnect(u) PROVE UserStep(u) \/ UNCHANGED clientVars
  BY <1>1 DEF UserStep, StepReconnect, BeginReconnect, Dial, NewPeerConnection, BindHandler
<1>2. ASSUME NEW k \in PCs, StepJoin(k) PROVE (\E u \in Users : UserStep(u)) \/ UNCHANGED clientVars
  <2>1. UserStep(Joiner(k)) \/ UNCHANGED clientVars
    BY <1>2 DEF UserStep, StepJoin, OfferFails, SendJoin, JoinSent, JoinNotSent
  <2> QED
    BY <2>1
<1>3. CASE StepReader
  <2>1. UserStep(Reader) \/ UNCHANGED clientVars
    BY <1>3 DEF UserStep, StepReader, Recv, ReaderExits, Receive, HandleAnswer, HandleOffer,
                HandleTrickle, HandleRejected, HandleError, Handled, NegotiationFails, SendAnswer,
                AnswerSent, ReaderReturns
  <2> QED
    BY <2>1
<1>4. CASE OwnerReturns \/ RefreshRuns \/ RefreshReturns \/ TrickleSent \/ TrickleReturns
  <2>1. UserStep(Owner) \/ UserStep(Refresher) \/ UserStep(Trickler) \/ UNCHANGED clientVars
    BY <1>4 DEF UserStep, OwnerReturns, RefreshRuns, RefreshReturns, TrickleSent, TrickleReturns
  <2> QED
    BY <2>1
<1>5. CASE Environment
  <2>1. UserStep(Owner) \/ UserStep(Trickler) \/ CloseClient \/ Break \/ UNCHANGED clientVars
    BY <1>5 DEF UserStep, Environment, Switch, Connect, Close, SendTrickle, ConnectionLost,
                ServerPushes
  <2> QED
    BY <2>1
<1>6. CASE UNCHANGED vars \/ Exhausted \/ Quiet
  BY <1>6 DEF Exhausted, Quiet, vars
<1> QED
  BY <1>1, <1>2, <1>3, <1>4, <1>5, <1>6 DEF Next, Program

\* The program is one that uses the client: what is proved of every such program
\* (StreamClient_proofs) holds of it (client.go:42-167).
THEOREM ImplementsClient == Spec => ClientSpec /\ []StreamsInOrder /\ GoneForGood
<1>1. Init => ClientInit
  BY DEF Init
<1>2. Spec => ClientSpec
  BY <1>1, ClientSteps, PTL DEF Spec, ClientSpec
<1> QED
  BY <1>2, StreamsAlwaysInOrder, StreamsGoneForGood, PTL

-----------------------------------------------------------------------------
(* What Switch stores is dialled with *)

\* The steps of a call that neither begin a reconnection nor end a dial.
QuietCall(u) ==
  \/ DoWithClient(u) \/ UseFails(u) \/ UseDone(u) \/ Enter(u) \/ Wake(u)
  \/ CallbackReturns(u) \/ StartReconnect(u) \/ ReconnectReturns(u) \/ CallReturns(u)

OwnerCall == Enter(Owner) \/ Wake(Owner) \/ CallbackReturns(Owner) \/ ReconnectReturns(Owner)

\* What a step may change of a Switch and of what it waits for.
SwitchMay ==
  \/ UNCHANGED <<closed, times, at, wait, before, switchVars>>
  \/ closed' /\ UNCHANGED <<times, before>>
  \/ dialed' = wanted /\ UNCHANGED <<wanted, times, before>>
  \/ Switch
  \/ /\ UNCHANGED switchVars
     /\ \/ \E u \in Users : Begin(u)
        \/ \E u \in Users \ {Owner} : QuietCall(u)
        \/ OwnerCall

\* Only a dial reads the parameters, only Switch stores them, and the owner of the
\* client only calls Reconnect (publisher.go:104-107, subscriber.go:87-90,
\* pkg/sfu/client.go:108-111).
LEMMA SwitchSteps == [Next]_vars => SwitchMay
<1> SUFFICES ASSUME [Next]_vars PROVE SwitchMay
  OBVIOUS
<1> USE UsersDiffer DEF SwitchMay
<1>1. ASSUME NEW u \in Users, StepReconnect(u) PROVE SwitchMay
  <2>1. CASE BeginReconnect(u)
    BY <2>1 DEF BeginReconnect, KeepClientSide
  <2>2. CASE Dial(u)
    BY <2>2 DEF Dial, DialSucceeds, DialFails
  <2>3. CASE (Enter(u) \/ Wake(u)) /\ KeepClientSide
    BY <2>3 DEF KeepClientSide, QuietCall, OwnerCall
  <2>4. CASE NewPeerConnection(u) \/ BindHandler(u)
    BY <2>4 DEF NewPeerConnection, BindHandler, QuietCall, OwnerCall, clientVars
  <2> QED
    BY <1>1, <2>1, <2>2, <2>3, <2>4 DEF StepReconnect
<1>2. ASSUME NEW k \in PCs, StepJoin(k) PROVE SwitchMay
  <2>1. /\ QuietCall(Joiner(k)) \/ UNCHANGED clientVars
        /\ UNCHANGED switchVars
    BY <1>2 DEF QuietCall, StepJoin, OfferFails, SendJoin, JoinSent, JoinNotSent, KeepClientSide
  <2> QED
    BY <2>1 DEF clientVars
<1>3. CASE StepReader
  <2>1. /\ QuietCall(Reader) \/ UNCHANGED clientVars
        /\ UNCHANGED switchVars
    BY <1>3 DEF QuietCall, StepReader, Recv, ReaderExits, Receive, HandleAnswer, HandleOffer,
                HandleTrickle, HandleRejected, HandleError, Handled, NegotiationFails, SendAnswer,
                AnswerSent, ReaderReturns, KeepClientSide
  <2> QED
    BY <2>1 DEF clientVars
<1>4. CASE OwnerReturns
  BY <1>4 DEF OwnerReturns, OwnerCall, KeepClientSide
<1>5. CASE RefreshRuns \/ RefreshReturns
  <2>1. /\ QuietCall(Refresher) \/ UNCHANGED clientVars
        /\ UNCHANGED switchVars
    BY <1>5 DEF RefreshRuns, RefreshReturns, QuietCall, KeepClientSide
  <2> QED
    BY <2>1 DEF clientVars
<1>6. CASE TrickleSent \/ TrickleReturns \/ SendTrickle
  <2>1. QuietCall(Trickler) /\ UNCHANGED switchVars
    BY <1>6 DEF TrickleSent, TrickleReturns, SendTrickle, QuietCall, KeepClientSide
  <2> QED
    BY <2>1
<1>7. CASE Connect \/ ConnectionLost \/ ServerPushes
  BY <1>7 DEF Connect, ConnectionLost, ServerPushes, Break, KeepClientSide, clientVars
<1>8. CASE Close
  BY <1>8 DEF Close, CloseClient
<1>9. CASE UNCHANGED vars \/ Exhausted \/ Quiet
  BY <1>9 DEF Exhausted, Quiet, vars, clientVars
<1> QED
  BY <1>1, <1>2, <1>3, <1>4, <1>5, <1>6, <1>7, <1>8, <1>9 DEF Next, Program, Environment

\* A goroutine other than the owner leaves the owner's call alone, and comes
\* neither to a dial nor to a callback without one of the steps above.
LEMMA OtherMoves ==
  ASSUME ClientTypeOK, NEW u \in Users, u # Owner, QuietCall(u)
  PROVE  /\ UNCHANGED <<closed, times>>
         /\ \A v \in Users : v # u => at'[v] = at[v]
         /\ at[u] # "begin" /\ at[u] # "dial" /\ at'[u] # "dial" /\ at'[u] # "callback"
         /\ wait'[Owner] = wait[Owner] /\ before'[Owner] = before[Owner]
<1> USE UsersDiffer DEF ClientTypeOK, Goto
<1>1. CASE DoWithClient(u) \/ UseFails(u) \/ UseDone(u)
  BY <1>1 DEF DoWithClient, UseFails, UseDone
<1>2. CASE Enter(u) \/ Wake(u) \/ CallbackReturns(u)
  BY <1>2 DEF Enter, Wake, CallbackReturns
<1>3. CASE StartReconnect(u) \/ ReconnectReturns(u) \/ CallReturns(u)
  BY <1>3 DEF StartReconnect, ReconnectReturns, CallReturns
<1> QED
  BY <1>1, <1>2, <1>3 DEF QuietCall

\* Nobody has called Switch yet: what is dialled with is what is stored.
LEMMA InitSwitch == Init => SwitchGoesOn
BY UsersDiffer DEF Init, ClientInit, SwitchGoesOn, Pending

\* The owner's own steps keep its call going (client.go:155-163, lock.go:24-46).
LEMMA OwnerGoesOn ==
  ASSUME ClientTypeOK, OneReconnection, SwitchGoesOn, OwnerCall, UNCHANGED switchVars
  PROVE  SwitchGoesOn'
<1> USE UsersDiffer DEF ClientTypeOK, Goto, switchVars
<1>1. before'[Owner] <= times'
  BY DEF SwitchGoesOn, OwnerCall, Enter, Wake, CallbackReturns, ReconnectReturns, Streams
<1>2. SUFFICES ASSUME ~closed', Pending' PROVE SwitchGoesOn'
  BY <1>1 DEF SwitchGoesOn
<1>3. ~closed /\ UNCHANGED times /\ times \in Nat /\ before[Owner] \in Int /\ wait[Owner] \in Int
  BY <1>2, MaxTimesAssumption DEF OwnerCall, Enter, Wake, CallbackReturns, ReconnectReturns, Streams
<1>4. Nobody("dial")
  BY <1>2 DEF Pending, Nobody, OwnerCall, Enter, Wake, CallbackReturns, ReconnectReturns
<1>5. Pending
  BY <1>2, <1>4 DEF Pending
<1>6. \A u \in Users : u # Owner => at'[u] = at[u]
  BY DEF OwnerCall, Enter, Wake, CallbackReturns, ReconnectReturns
<1>7. CASE Enter(Owner)
  <2>1. /\ before[Owner] >= 0 => times = before[Owner]
        /\ before[Owner] < 0 => Nobody("callback")
    BY <1>3, <1>5, <1>7 DEF SwitchGoesOn, Enter
  <2>2. CASE Busy
    <3>1. at'[Owner] = "waiting" /\ wait'[Owner] = Running /\ UNCHANGED before
      BY <1>3, <1>7, <2>2 DEF Enter
    <3>2. Nobody("callback") => Running = times + 1 /\ ~Nobody("begin")
      BY <1>4, <2>2 DEF Busy, Reconnecting, Nobody, Running
    <3>3. at[Owner] # "begin"
      BY <1>7 DEF Enter
    <3>4. ~Nobody("begin") => ~Nobody("begin")'
      BY <1>6, <3>3 DEF Nobody
    <3>5. Running >= times
      BY <1>3 DEF Running
    <3> QED
      BY <1>1, <1>3, <2>1, <3>1, <3>2, <3>4, <3>5 DEF SwitchGoesOn
  <2>3. CASE ~Busy
    <3>1. at'[Owner] = "begin" /\ UNCHANGED before
      BY <1>7, <2>3 DEF Enter
    <3> QED
      BY <1>1, <1>3, <2>1, <3>1 DEF SwitchGoesOn
  <2> QED
    BY <2>2, <2>3
<1>8. CASE Wake(Owner)
  <2>1. /\ at[Owner] = "waiting" /\ at'[Owner] = "returned" /\ UNCHANGED before
        /\ ~Busy \/ Running > wait[Owner]
    BY <1>3, <1>8 DEF Wake
  <2>2. CASE before[Owner] >= 0
    <3>1. times = before[Owner] /\ wait[Owner] >= times
      BY <1>3, <1>5, <2>1, <2>2 DEF SwitchGoesOn
    <3>2. ~Busy \/ \E u \in Users : at[u] = "begin"
      BY <1>3, <2>1, <3>1 DEF Running
    <3>3. Nobody("callback")
      BY <1>3, <3>2 DEF Busy, Nobody, OneReconnection, Reconnecting
    <3>4. Nobody("callback")'
      BY <1>6, <2>1, <3>3 DEF Nobody
    <3> QED
      BY <1>1, <1>3, <2>1, <2>2, <3>1, <3>4 DEF SwitchGoesOn
  <2>3. CASE before[Owner] < 0
    <3>1. wait[Owner] = times + 1 /\ ~Nobody("begin")
      BY <1>3, <1>5, <2>1, <2>3 DEF SwitchGoesOn
    <3>2. Busy /\ ~(Running > wait[Owner])
      BY <1>3, <3>1 DEF Nobody, Busy, Reconnecting, Running
    <3> QED
      BY <2>1, <3>2
  <2> QED
    BY <1>3, <2>2, <2>3
<1>9. CASE CallbackReturns(Owner)
  <2>1. at[Owner] = "callback" /\ at'[Owner] = "returned" /\ UNCHANGED before
    BY <1>9 DEF CallbackReturns
  <2>2. before[Owner] >= 0 /\ times = before[Owner]
    BY <1>3, <1>5, <2>1 DEF SwitchGoesOn, Nobody
  <2>3. Nobody("callback")'
    BY <1>6, <2>1 DEF Nobody, OneReconnection
  <2> QED
    BY <1>1, <1>3, <2>1, <2>2, <2>3 DEF SwitchGoesOn
<1>10. CASE ReconnectReturns(Owner)
  <2>1. at[Owner] = "returned" /\ before'[Owner] = -1
    BY <1>10 DEF ReconnectReturns
  <2>2. before[Owner] >= 0 /\ times = before[Owner] /\ Nobody("callback")
    BY <1>3, <1>5, <2>1 DEF SwitchGoesOn
  <2>3. at'[Owner] = "failed"
    BY <1>3, <1>10, <2>2 DEF ReconnectReturns
  <2>4. Nobody("callback")'
    BY <1>6, <2>2, <2>3 DEF Nobody
  <2> QED
    BY <1>1, <1>3, <2>1, <2>3, <2>4 DEF SwitchGoesOn
<1> QED
  BY <1>7, <1>8, <1>9, <1>10 DEF OwnerCall

\* As long as what Switch stored is not dialled with, the call of Switch goes on
\* (client.go:104-163).
LEMMA SwitchStep ==
  ClientTypeOK /\ OneReconnection /\ SwitchGoesOn /\ [Next]_vars => SwitchGoesOn'
<1> SUFFICES ASSUME ClientTypeOK, OneReconnection, SwitchGoesOn, [Next]_vars PROVE SwitchGoesOn'
  OBVIOUS
<1> USE UsersDiffer DEF switchVars
<1>0. times \in Nat /\ before[Owner] \in Int /\ wait[Owner] \in Int
  BY MaxTimesAssumption DEF ClientTypeOK, Streams
<1>1. CASE UNCHANGED <<closed, times, at, wait, before, switchVars>>
  BY <1>1 DEF SwitchGoesOn, Pending, Nobody
<1>2. CASE closed' /\ UNCHANGED <<times, before>>
  BY <1>2 DEF SwitchGoesOn
<1>3. CASE dialed' = wanted /\ UNCHANGED <<wanted, times, before>>
  BY <1>3 DEF SwitchGoesOn, Pending
<1>4. CASE Switch
  <2>1. at'[Owner] = "failed" /\ before'[Owner] = times /\ UNCHANGED times
    BY <1>4 DEF Switch, StartReconnect, Goto, ClientTypeOK
  <2> QED
    BY <1>0, <2>1 DEF SwitchGoesOn
<1>5. ASSUME NEW u \in Users, Begin(u) PROVE SwitchGoesOn'
  <2>1. at'[u] = "dial" /\ times' = times + 1 /\ UNCHANGED before
    BY <1>5 DEF Begin, Goto, ClientTypeOK
  <2>2. ~Pending'
    BY <2>1 DEF Pending, Nobody
  <2> QED
    BY <1>0, <2>1, <2>2 DEF SwitchGoesOn
<1>6. ASSUME NEW u \in Users, u # Owner, QuietCall(u), UNCHANGED switchVars PROVE SwitchGoesOn'
  <2>1. /\ UNCHANGED <<closed, times>>
        /\ \A v \in Users : v # u => at'[v] = at[v]
        /\ at[u] # "begin" /\ at[u] # "dial" /\ at'[u] # "dial" /\ at'[u] # "callback"
        /\ wait'[Owner] = wait[Owner] /\ before'[Owner] = before[Owner]
    BY <1>6, OtherMoves
  <2>2. Pending' => Pending
    BY <1>6, <2>1 DEF Pending, Nobody
  <2>3. Nobody("callback") => Nobody("callback")'
    BY <2>1 DEF Nobody
  <2>4. ~Nobody("begin") => ~Nobody("begin")'
    BY <2>1 DEF Nobody
  <2>5. at'[Owner] = at[Owner]
    BY <1>6, <2>1
  <2> QED
    BY <2>1, <2>2, <2>3, <2>4, <2>5 DEF SwitchGoesOn
<1>7. CASE OwnerCall /\ UNCHANGED switchVars
  BY <1>7, OwnerGoesOn
<1> QED
  BY <1>1, <1>2, <1>3, <1>4, <1>5, <1>6, <1>7, SwitchSteps DEF SwitchMay

-----------------------------------------------------------------------------
(* Types *)

\* The types of what the program adds to the client: its flags, and the rest.
FlagTypes == reading \in BOOLEAN /\ answering \in BOOLEAN /\ dropped \in BOOLEAN

DataTypes ==
  /\ role \in Roles
  /\ wanted \in Nat /\ dialed \in 0 .. wanted /\ events \in 0 .. MaxEvents
  /\ pc \in Streams /\ made \in Streams /\ handler \in Streams
  /\ openPCs \subseteq PCs /\ spawned \subseteq PCs /\ served \subseteq PCs /\ remote \subseteq PCs
  /\ cands \in [PCs -> Nat]
  /\ inbox \in Seq(Message) /\ msg \in Message /\ by \in Streams
  /\ refreshes \in Nat

\* The types are these and the client's.
LEMMA TypeParts == TypeOK <=> ClientTypeOK /\ DataTypes /\ FlagTypes
BY DEF TypeOK, DataTypes, FlagTypes

\* Nothing is kept for any peer connection at first (pkg/sfu/client.go:73-82).
LEMMA InitTypeOK == Init => TypeOK
<1> SUFFICES ASSUME Init PROVE TypeOK
  OBVIOUS
<1>1. ClientTypeOK
  BY InitClient DEF Init
<1>2. 0 \in Streams /\ wanted \in Nat /\ dialed \in 0 .. wanted /\ events \in 0 .. MaxEvents
  BY MaxTimesAssumption, MaxEventsAssumption DEF Init, Streams
<1>3. inbox \in Seq(Message) /\ msg \in Message
  BY MaxTimesAssumption DEF Init, Message, NoMsg
<1>4. reading \in BOOLEAN /\ answering \in BOOLEAN /\ dropped \in BOOLEAN
  BY DEF Init
<1>5. cands \in [PCs -> Nat]
  BY DEF Init
<1> QED
  BY <1>1, <1>2, <1>3, <1>4, <1>5, TypeParts DEF Init, DataTypes, FlagTypes

\* The read loop is started or ends, owes an answer or has sent it, and a refresh
\* goroutine has given up or not (client.go:83-102, lock.go:61-72).
LEMMA FlagStep == FlagTypes /\ [Next]_vars => FlagTypes'
<1> SUFFICES ASSUME FlagTypes, [Next]_vars PROVE FlagTypes'
  OBVIOUS
<1> USE DEF FlagTypes, KeepClientSide, readVars, replyVars, refreshVars, Refresh, NoRefresh
<1>1. ASSUME NEW u \in Users, StepReconnect(u) PROVE FlagTypes'
  BY <1>1 DEF StepReconnect, BeginReconnect, Dial, NewPeerConnection, BindHandler, JoinLater,
              NeedTrackFails
<1>2. ASSUME NEW k \in PCs, StepJoin(k) PROVE FlagTypes'
  BY <1>2 DEF StepJoin, OfferFails, SendJoin, JoinSent, JoinNotSent
<1>3. CASE Recv \/ ReaderExits \/ SendAnswer \/ AnswerSent \/ ReaderReturns \/ Receive
  BY <1>3 DEF Recv, ReaderExits, SendAnswer, AnswerSent, ReaderReturns, Receive
<1>4. CASE HandleAnswer \/ HandleOffer
  BY <1>4 DEF HandleAnswer, HandleOffer, NegotiationFails
<1>5. CASE HandleTrickle \/ HandleRejected \/ HandleError
  BY <1>5 DEF HandleTrickle, HandleRejected, HandleError
<1>6. CASE OwnerReturns \/ RefreshRuns \/ RefreshReturns \/ TrickleSent \/ TrickleReturns
  BY <1>6 DEF OwnerReturns, RefreshRuns, RefreshReturns, TrickleSent, TrickleReturns
<1>7. CASE Environment
  BY <1>7 DEF Environment, Switch, Connect, Close, SendTrickle, ConnectionLost, ServerPushes
<1>8. CASE KeepClientSide \/ UNCHANGED vars \/ Exhausted \/ Quiet
  BY <1>8 DEF Exhausted, Quiet, vars
<1> QED
  BY <1>1, <1>2, <1>3, <1>4, <1>5, <1>6, <1>7, <1>8 DEF Next, Program, StepReader

\* The steps of a reconnection make peer connections of streams only
\* (publisher.go:52-92, subscriber.go:53-75).
LEMMA ReconnectTypes ==
  ASSUME ClientTypeOK, DataTypes, StreamsNumbered, NEW u \in Users, StepReconnect(u)
  PROVE  DataTypes'
<1> USE MaxTimesAssumption, MaxEventsAssumption
    DEF DataTypes, KeepClientSide, switchVars, pcVars, sdpVars, joinVars, readVars, refreshVars, envVars,
        Event, NoEvent, Refresh, NoRefresh
<1>1. CASE (Enter(u) \/ Wake(u)) /\ KeepClientSide /\ UNCHANGED <<served, inbox, events>>
  BY <1>1
<1>2. CASE BeginReconnect(u)
  BY <1>2 DEF BeginReconnect
<1>3. CASE Dial(u)
  BY <1>3 DEF Dial
<1>4. CASE NewPeerConnection(u)
  <2>1. stream \in PCs /\ stream \in Streams
    BY <1>4 DEF NewPeerConnection, StreamsNumbered, ClientTypeOK, Streams, PCs
  <2>2. made' \in Streams /\ openPCs' \subseteq PCs
    BY <1>4, <2>1 DEF NewPeerConnection
  <2>3. events' \in 0 .. MaxEvents /\ refreshes' \in Nat
    BY <1>4 DEF NewPeerConnection
  <2>4. UNCHANGED <<switchVars, pc, handler, sdpVars, joinVars, readVars, role>>
    BY <1>4 DEF NewPeerConnection
  <2> QED
    BY <2>2, <2>3, <2>4
<1>5. CASE BindHandler(u)
  <2>1. made \in PCs /\ 0 \in Streams
    BY <1>5 DEF BindHandler, Streams, PCs
  <2> QED
    BY <1>5, <2>1 DEF BindHandler, JoinLater, NeedTrackFails
<1> QED
  BY <1>1, <1>2, <1>3, <1>4, <1>5 DEF StepReconnect

\* The replies a Join may get are messages (service.go:71-130).
LEMMA JoinTypes ==
  ASSUME DataTypes, NEW k \in PCs, StepJoin(k)
  PROVE  DataTypes'
<1> USE MaxTimesAssumption, MaxEventsAssumption
    DEF DataTypes, KeepClientSide, switchVars, pcVars, sdpVars, joinVars, readVars, refreshVars, envVars,
        Event, NoEvent, Refresh, NoRefresh, JoinEnds
<1>1. CASE OfferFails(k)
  BY <1>1 DEF OfferFails
<1>2. CASE JoinSent(k)
  <2>1. /\ [kind |-> "rejected", pc |-> k] \in Message
        /\ [kind |-> "answer", pc |-> k] \in Message
    BY DEF Message, PCs
  <2>2. inbox' \in Seq(Message)
    <3> DEFINE told == IF served = {} THEN inbox ELSE Append(inbox, [kind |-> "rejected", pc |-> k])
    <3>1. told \in Seq(Message)
      BY <2>1, AppendElement
    <3>2. Append(told, [kind |-> "answer", pc |-> k]) \in Seq(Message)
      BY <2>1, <3>1, AppendElement
    <3> QED
      BY <1>2, <3>1, <3>2 DEF JoinSent
  <2> QED
    BY <1>2, <2>2 DEF JoinSent
<1>3. CASE SendJoin(k)
  BY <1>3 DEF SendJoin
<1>4. CASE JoinNotSent(k)
  BY <1>4 DEF JoinNotSent
<1>5. CASE KeepClientSide /\ UNCHANGED <<served, inbox, events>>
  BY <1>5
<1> QED
  BY <1>1, <1>2, <1>3, <1>4, <1>5 DEF StepJoin

\* The handlers keep candidates of peer connections (publisher.go:118-155,
\* subscriber.go:92-147, trickle.go:15-49).
LEMMA ReaderTypes == DataTypes /\ StepReader => DataTypes'
<1> SUFFICES ASSUME DataTypes, StepReader PROVE DataTypes'
  OBVIOUS
<1> USE MaxTimesAssumption, MaxEventsAssumption
    DEF DataTypes, KeepClientSide, switchVars, pcVars, sdpVars, joinVars, readVars, refreshVars, envVars,
        replyVars, Event, NoEvent, Refresh, NoRefresh
<1>0. NoMsg \in Message /\ 0 \in Streams
  BY DEF NoMsg, Message, Streams
<1>1. CASE Recv \/ ReaderExits \/ SendAnswer \/ AnswerSent \/ ReaderReturns
  BY <1>1 DEF Recv, ReaderExits, SendAnswer, AnswerSent, ReaderReturns
<1>2. CASE Receive
  <2>1. Head(inbox) \in Message /\ Tail(inbox) \in Seq(Message)
    BY <1>2, TailElement DEF Receive
  <2> QED
    BY <1>2, <2>1 DEF Receive
<1>3. CASE HandleAnswer \/ HandleOffer
  <2>1. msg' \in Message /\ by' \in Streams
    BY <1>0, <1>3 DEF HandleAnswer, HandleOffer, NegotiationFails, Handled
  <2>2. remote' \subseteq PCs /\ cands' \in [PCs -> Nat]
    BY <1>3 DEF HandleAnswer, HandleOffer, NegotiationFails, Describe
  <2>3. refreshes' \in Nat /\ events' \in 0 .. MaxEvents
    BY <1>3 DEF HandleAnswer, HandleOffer, NegotiationFails
  <2>4. UNCHANGED <<switchVars, pcVars, joinVars, reading, inbox, role>>
    BY <1>3 DEF HandleAnswer, HandleOffer
  <2> QED
    BY <2>1, <2>2, <2>3, <2>4
<1>4. CASE HandleTrickle
  <2>1. cands' \in [PCs -> Nat]
    <3>1. cands' \in {cands, [cands EXCEPT ![by] = @ + 1]}
      BY <1>4 DEF HandleTrickle, Trickled
    <3>2. CASE by \in PCs
      BY <3>1, <3>2
    <3>3. CASE by \notin PCs
      BY <3>1, <3>3
    <3> QED
      BY <3>2, <3>3
  <2> QED
    BY <1>0, <1>4, <2>1 DEF HandleTrickle, Handled
<1>5. CASE HandleRejected \/ HandleError
  BY <1>0, <1>5 DEF HandleRejected, HandleError, Handled
<1>6. CASE KeepClientSide /\ UNCHANGED <<served, inbox, events>>
  BY <1>6
<1> QED
  BY <1>1, <1>2, <1>3, <1>4, <1>5, <1>6 DEF StepReader

\* Every step keeps the types.
LEMMA DataStep == ClientTypeOK /\ DataTypes /\ StreamsNumbered /\ [Next]_vars => DataTypes'
<1> SUFFICES ASSUME ClientTypeOK, DataTypes, StreamsNumbered, [Next]_vars PROVE DataTypes'
  OBVIOUS
<1> USE MaxTimesAssumption, MaxEventsAssumption
    DEF KeepClientSide, switchVars, pcVars, sdpVars, joinVars, readVars, refreshVars, envVars, Event, NoEvent
<1>1. CASE OwnerReturns \/ RefreshRuns \/ RefreshReturns \/ TrickleReturns
  BY <1>1 DEF OwnerReturns, RefreshRuns, RefreshReturns, TrickleReturns, DataTypes
<1>2. CASE TrickleSent
  <2>1. [kind |-> "error", pc |-> 0] \in Message
    BY DEF Message
  <2>2. inbox' \in Seq(Message)
    BY <1>2, <2>1, AppendElement DEF TrickleSent, DataTypes
  <2> QED
    BY <1>2, <2>2 DEF TrickleSent, DataTypes
<1>3. CASE Switch
  BY <1>3 DEF Switch, StoreParameters, DataTypes
<1>4. CASE Connect \/ SendTrickle
  BY <1>4 DEF Connect, SendTrickle, DataTypes
<1>5. CASE Close \/ ConnectionLost
  <2>1. <<>> \in Seq(Message) /\ events' \in 0 .. MaxEvents
    BY <1>5 DEF Close, ConnectionLost, DataTypes
  <2>2. inbox' = <<>> /\ served' = {} /\ KeepClientSide
    BY <1>5 DEF Close, ConnectionLost
  <2> QED
    BY <2>1, <2>2 DEF DataTypes
<1>6. CASE ServerPushes
  <2>1. \A kind \in {"offer", "trickle"} : [kind |-> kind, pc |-> 0] \in Message
    BY DEF Message
  <2>2. inbox' \in Seq(Message)
    BY <1>6, <2>1, AppendElement DEF ServerPushes, DataTypes
  <2> QED
    BY <1>6, <2>2 DEF ServerPushes, DataTypes
<1>7. CASE UNCHANGED vars \/ Exhausted \/ Quiet
  BY <1>7 DEF Exhausted, Quiet, vars, DataTypes
<1> QED
  BY <1>1, <1>2, <1>3, <1>4, <1>5, <1>6, <1>7, ReconnectTypes, JoinTypes, ReaderTypes
     DEF Next, Program, Environment

\* Every step keeps the types (pkg/sfu, util/client.go).
LEMMA TypeStep == TypeOK /\ StreamsNumbered /\ [Next]_vars => TypeOK'
<1> SUFFICES ASSUME TypeOK, StreamsNumbered, [Next]_vars PROVE TypeOK'
  OBVIOUS
<1>1. ClientTypeOK /\ DataTypes /\ FlagTypes
  BY TypeParts
<1>2. ClientTypeOK' /\ DataTypes' /\ FlagTypes'
  BY <1>1, ClientSteps, ClientTypes, DataStep, FlagStep
<1> QED
  BY <1>2 DEF TypeOK, DataTypes, FlagTypes

-----------------------------------------------------------------------------
(* Handlers, Joins and answers *)

\* The steps of a call that neither store a stream nor return from the callback.
PlainCall(u) ==
  \/ DoWithClient(u) \/ UseFails(u) \/ UseDone(u) \/ Enter(u) \/ Wake(u)
  \/ Begin(u) \/ DialFails(u)
  \/ StartReconnect(u) \/ ReconnectReturns(u) \/ CallReturns(u)

\* They leave the stream alone, and who is in the callback (client.go:58-167).
LEMMA PlainCalls ==
  ASSUME ClientTypeOK, NEW u \in Users, PlainCall(u)
  PROVE  /\ UNCHANGED stream
         /\ \A v \in Users : at[v] = "callback" => at'[v] = "callback"
<1> USE DEF ClientTypeOK, Goto
<1>1. CASE DoWithClient(u) \/ UseFails(u) \/ UseDone(u)
  BY <1>1 DEF DoWithClient, UseFails, UseDone
<1>2. CASE Enter(u) \/ Wake(u)
  BY <1>2 DEF Enter, Wake
<1>3. CASE Begin(u) \/ DialFails(u)
  BY <1>3 DEF Begin, DialFails
<1>4. CASE StartReconnect(u) \/ ReconnectReturns(u) \/ CallReturns(u)
  BY <1>4 DEF StartReconnect, ReconnectReturns, CallReturns
<1> QED
  BY <1>1, <1>2, <1>3, <1>4 DEF PlainCall

\* What a step may change of the handler and of the peer connection being made.
MadeMay ==
  \/ \E u \in Users : NewPeerConnection(u) \/ BindHandler(u)
  \/ /\ UNCHANGED <<handler, made>>
     /\ \/ \E u \in Users : PlainCall(u) \/ DialSucceeds(u)
        \/ UNCHANGED <<stream, at>>

\* Only the callback makes peer connections and binds handlers
\* (publisher.go:52-92, subscriber.go:53-75).
LEMMA MadeSteps == [Next]_vars => MadeMay
<1> SUFFICES ASSUME [Next]_vars PROVE MadeMay
  OBVIOUS
<1> USE UsersDiffer DEF MadeMay, KeepClientSide, pcVars
<1>1. ASSUME NEW u \in Users, StepReconnect(u) PROVE MadeMay
  BY <1>1 DEF StepReconnect, BeginReconnect, Dial, PlainCall
<1>2. ASSUME NEW k \in PCs, StepJoin(k) PROVE MadeMay
  <2>1. /\ PlainCall(Joiner(k)) \/ UNCHANGED clientVars
        /\ UNCHANGED <<handler, made>>
    BY <1>2 DEF PlainCall, StepJoin, OfferFails, SendJoin, JoinSent, JoinNotSent
  <2> QED
    BY <2>1 DEF clientVars
<1>3. CASE StepReader
  <2>1. /\ PlainCall(Reader) \/ UNCHANGED clientVars
        /\ UNCHANGED <<handler, made>>
    BY <1>3 DEF PlainCall, StepReader, Recv, ReaderExits, Receive, HandleAnswer, HandleOffer,
                HandleTrickle, HandleRejected, HandleError, Handled, NegotiationFails, SendAnswer,
                AnswerSent, ReaderReturns
  <2> QED
    BY <2>1 DEF clientVars
<1>4. CASE OwnerReturns \/ RefreshRuns \/ RefreshReturns \/ TrickleSent \/ TrickleReturns
  <2>1. /\ PlainCall(Owner) \/ PlainCall(Refresher) \/ PlainCall(Trickler) \/ UNCHANGED clientVars
        /\ UNCHANGED <<handler, made>>
    BY <1>4 DEF PlainCall, OwnerReturns, RefreshRuns, RefreshReturns, TrickleSent, TrickleReturns
  <2> QED
    BY <2>1 DEF clientVars
<1>5. CASE Environment
  <2>1. /\ PlainCall(Owner) \/ PlainCall(Trickler) \/ UNCHANGED <<stream, at>>
        /\ UNCHANGED <<handler, made>>
    BY <1>5 DEF PlainCall, Environment, Switch, Connect, Close, CloseClient, SendTrickle,
                ConnectionLost, Break, ServerPushes, clientVars
  <2> QED
    BY <2>1
<1>6. CASE UNCHANGED vars \/ Exhausted \/ Quiet
  BY <1>6 DEF Exhausted, Quiet, vars, clientVars
<1> QED
  BY <1>1, <1>2, <1>3, <1>4, <1>5, <1>6 DEF Next, Program

\* No new stream replaces one whose peer connection is being made: there is one
\* reconnection at a time (client.go:104-130).
LEMMA MadeStep ==
  TypeOK /\ OneReconnection /\ StreamsNumbered /\ MadeForStream /\ [Next]_vars => MadeForStream'
<1> SUFFICES ASSUME TypeOK, OneReconnection, StreamsNumbered, MadeForStream, [Next]_vars
             PROVE  MadeForStream'
  OBVIOUS
<1>1. ClientTypeOK /\ handler \in Int /\ stream \in Int /\ times \in Int
  BY MaxTimesAssumption DEF TypeOK, ClientTypeOK, Streams
<1>2. ASSUME NEW u \in Users, NewPeerConnection(u) PROVE MadeForStream'
  <2>1. at[u] = "callback" /\ made = 0 /\ UNCHANGED handler
    BY <1>2 DEF NewPeerConnection
  <2>2. CASE made' = stream /\ UNCHANGED clientVars
    BY <2>1, <2>2 DEF MadeForStream, Nobody, clientVars
  <2>3. CASE UNCHANGED made /\ CallbackReturns(u)
    BY <2>1, <2>3 DEF MadeForStream, CallbackReturns
  <2> QED
    BY <1>2, <2>2, <2>3 DEF NewPeerConnection
<1>3. ASSUME NEW u \in Users, BindHandler(u) PROVE MadeForStream'
  BY <1>1, <1>3 DEF BindHandler, MadeForStream, CallbackReturns
<1>4. ASSUME NEW u \in Users, PlainCall(u), UNCHANGED <<handler, made>> PROVE MadeForStream'
  <2>1. UNCHANGED stream /\ \A v \in Users : at[v] = "callback" => at'[v] = "callback"
    BY <1>1, <1>4, PlainCalls
  <2> QED
    BY <1>4, <2>1 DEF MadeForStream, Nobody
<1>5. ASSUME NEW u \in Users, DialSucceeds(u), UNCHANGED <<handler, made>> PROVE MadeForStream'
  <2>1. at[u] = "dial" /\ ~closed /\ stream' = times
    BY <1>5 DEF DialSucceeds
  <2>2. Nobody("callback")
    BY <2>1 DEF Nobody, OneReconnection, Reconnecting
  <2> QED
    BY <1>1, <1>5, <2>1, <2>2 DEF MadeForStream, StreamsNumbered
<1>6. CASE UNCHANGED <<handler, made, stream, at>>
  BY <1>6 DEF MadeForStream, Nobody
<1> QED
  BY <1>2, <1>3, <1>4, <1>5, <1>6, MadeSteps DEF MadeMay

\* A Join goroutine calls the client only while it has its Join to send, and ends
\* when the call has returned (publisher.go:68-89, subscriber.go:60-72).
LEMMA JoinersStep == ClientTypeOK /\ JoinersSpawned /\ [Next]_vars => JoinersSpawned'
<1> SUFFICES ASSUME ClientTypeOK, JoinersSpawned, [Next]_vars PROVE JoinersSpawned'
  OBVIOUS
<1> USE UsersDiffer DEF JoinersSpawned, KeepClientSide, joinVars
<1>1. ASSUME NEW u \in Users, UserStep(u), at[u] # "idle", spawned \subseteq spawned'
      PROVE  JoinersSpawned'
  <2>1. \A v \in Users : v # u => at'[v] = at[v]
    BY <1>1, OneMoves
  <2> QED
    BY <1>1, <2>1
<1>2. ASSUME NEW u \in Users, UserStep(u), \A k \in PCs : u # Joiner(k), UNCHANGED spawned
      PROVE  JoinersSpawned'
  <2>1. \A v \in Users : v # u => at'[v] = at[v]
    BY <1>2, OneMoves
  <2> QED
    BY <1>2, <2>1
<1>3. CASE UNCHANGED <<at, spawned>>
  BY <1>3
<1>4. ASSUME NEW u \in Users, StepReconnect(u) PROVE JoinersSpawned'
  <2>1. /\ (UserStep(u) /\ at[u] # "idle") \/ UNCHANGED at
        /\ spawned \subseteq spawned'
    BY <1>4 DEF StepReconnect, BeginReconnect, Dial, NewPeerConnection, BindHandler, JoinLater,
                NeedTrackFails, UserStep, Enter, Wake, Begin, DialSucceeds, DialFails,
                CallbackReturns, clientVars
  <2> QED
    BY <1>1, <2>1
<1>5. ASSUME NEW k \in PCs, StepJoin(k) PROVE JoinersSpawned'
  <2>1. CASE OfferFails(k)
    BY <2>1 DEF OfferFails, JoinEnds, clientVars
  <2>2. CASE SendJoin(k)
    <3>1. UserStep(Joiner(k)) /\ k \in spawned /\ UNCHANGED spawned
      BY <2>2 DEF SendJoin, UserStep
    <3>2. \A v \in Users : v # Joiner(k) => at'[v] = at[v]
      BY <3>1, OneMoves
    <3> QED
      BY <3>1, <3>2
  <2>3. CASE JoinSent(k) \/ JoinNotSent(k)
    <3>1. spawned' = spawned \ {k} /\ at' = [at EXCEPT ![Joiner(k)] = "idle"]
      BY <2>3 DEF JoinSent, JoinNotSent, JoinEnds, UseDone, CallReturns, Goto
    <3> QED
      BY <3>1 DEF ClientTypeOK
  <2>4. CASE UseFails(Joiner(k)) /\ KeepClientSide
    BY <1>1, <2>4 DEF UserStep, UseFails
  <2> QED
    BY <1>5, <2>1, <2>2, <2>3, <2>4 DEF StepJoin
<1>6. CASE StepReader
  <2>1. /\ UserStep(Reader) \/ UNCHANGED at
        /\ UNCHANGED spawned
    BY <1>6 DEF UserStep, StepReader, Recv, ReaderExits, Receive, HandleAnswer, HandleOffer,
                HandleTrickle, HandleRejected, HandleError, Handled, NegotiationFails, SendAnswer,
                AnswerSent, ReaderReturns, clientVars
  <2> QED
    BY <1>2, <1>3, <2>1
<1>7. CASE OwnerReturns \/ RefreshRuns \/ RefreshReturns \/ TrickleSent \/ TrickleReturns
  <2>1. /\ UserStep(Owner) \/ UserStep(Refresher) \/ UserStep(Trickler) \/ UNCHANGED at
        /\ UNCHANGED spawned
    BY <1>7 DEF UserStep, OwnerReturns, RefreshRuns, RefreshReturns, TrickleSent, TrickleReturns,
                clientVars
  <2> QED
    BY <1>2, <1>3, <2>1
<1>8. CASE Environment
  <2>1. /\ UserStep(Owner) \/ UserStep(Trickler) \/ UNCHANGED at
        /\ UNCHANGED spawned
    BY <1>8 DEF UserStep, Environment, Switch, Connect, Close, CloseClient, SendTrickle,
                ConnectionLost, Break, ServerPushes, clientVars
  <2> QED
    BY <1>2, <1>3, <2>1
<1>9. CASE UNCHANGED vars \/ Exhausted \/ Quiet
  BY <1>3, <1>9 DEF Exhausted, Quiet, vars, clientVars
<1> QED
  BY <1>4, <1>5, <1>6, <1>7, <1>8, <1>9 DEF Next, Program

\* What a step may do to the replies that are queued: forget them, take one, or
\* queue one more, the answer to a Join that was on its way if it is an answer; a
\* rejection may come before it.
InboxMay ==
  \/ UNCHANGED inbox
  \/ inbox' = <<>>
  \/ inbox # <<>> /\ inbox' = Tail(inbox)
  \/ \E m \in Message : inbox' = Append(inbox, m) /\ (m.kind = "answer" => m.pc \in spawned)
  \/ \E m, n \in Message :
       /\ inbox' = Append(Append(inbox, m), n)
       /\ m.kind # "answer" /\ (n.kind = "answer" => n.pc \in spawned)

\* Only the callback binds a handler and spawns a Join; the server answers the
\* Joins it gets (publisher.go:52-92, service.go:71-130).
LEMMA InboxSteps ==
  JoinersSpawned /\ [Next]_vars =>
    \/ \E u \in Users : BindHandler(u)
    \/ UNCHANGED handler /\ spawned' \subseteq spawned /\ InboxMay
<1> SUFFICES ASSUME JoinersSpawned, [Next]_vars, ~\E u \in Users : BindHandler(u)
             PROVE  UNCHANGED handler /\ spawned' \subseteq spawned /\ InboxMay
  OBVIOUS
<1> DEFINE Goal == UNCHANGED handler /\ spawned' \subseteq spawned /\ InboxMay
<1> USE DEF InboxMay, KeepClientSide, pcVars, joinVars, readVars
<1>1. ASSUME NEW u \in Users, StepReconnect(u) PROVE Goal
  BY <1>1 DEF StepReconnect, BeginReconnect, Dial, NewPeerConnection
<1>2. ASSUME NEW k \in PCs, JoinSent(k) PROVE Goal
  <2>1. k \in spawned
    BY <1>2, UsersDiffer DEF JoinSent, UseDone, JoinersSpawned
  <2>2. UNCHANGED handler /\ spawned' \subseteq spawned
    BY <1>2 DEF JoinSent, JoinEnds
  <2>3. [kind |-> "rejected", pc |-> k] \in Message /\ [kind |-> "answer", pc |-> k] \in Message
    BY DEF Message, PCs
  <2>4. CASE served # {} /\ role = "publisher"
    <3>1. inbox' = Append(Append(inbox, [kind |-> "rejected", pc |-> k]), [kind |-> "answer", pc |-> k])
      BY <1>2, <2>4 DEF JoinSent
    <3> QED
      BY <2>1, <2>2, <2>3, <3>1
  <2>5. CASE served = {} \/ role # "publisher"
    <3>1. \/ UNCHANGED inbox
          \/ inbox' = Append(inbox, [kind |-> "rejected", pc |-> k])
          \/ inbox' = Append(inbox, [kind |-> "answer", pc |-> k])
      BY <1>2, <2>5 DEF JoinSent
    <3> QED
      BY <2>1, <2>2, <2>3, <3>1
  <2> QED
    BY <2>4, <2>5
<1>3. ASSUME NEW k \in PCs, StepJoin(k), ~JoinSent(k) PROVE Goal
  BY <1>3 DEF StepJoin, OfferFails, SendJoin, JoinNotSent, JoinEnds
<1>4. CASE StepReader
  BY <1>4 DEF StepReader, Recv, ReaderExits, Receive, HandleAnswer, HandleOffer, HandleTrickle,
              HandleRejected, HandleError, SendAnswer, AnswerSent, ReaderReturns, replyVars
<1>5. CASE OwnerReturns \/ RefreshRuns \/ RefreshReturns \/ TrickleReturns
  BY <1>5 DEF OwnerReturns, RefreshRuns, RefreshReturns, TrickleReturns
<1>6. CASE TrickleSent
  <2>1. [kind |-> "error", pc |-> 0] \in Message
    BY MaxTimesAssumption DEF Message
  <2> QED
    BY <1>6, <2>1 DEF TrickleSent
<1>7. CASE ServerPushes
  <2>1. \A kind \in {"offer", "trickle"} : [kind |-> kind, pc |-> 0] \in Message
    BY MaxTimesAssumption DEF Message
  <2> QED
    BY <1>7, <2>1 DEF ServerPushes
<1>8. CASE Switch \/ Connect \/ Close \/ SendTrickle \/ ConnectionLost
  BY <1>8 DEF Switch, Connect, Close, SendTrickle, ConnectionLost
<1>9. CASE UNCHANGED vars \/ Exhausted \/ Quiet
  BY <1>9 DEF Exhausted, Quiet, vars
<1> QED
  BY <1>1, <1>2, <1>3, <1>4, <1>5, <1>6, <1>7, <1>8, <1>9 DEF Next, Program, Environment

\* The Joins on their way and their answers are of no later peer connection than
\* the one that handles messages (publisher.go:52-92, client.go:91-98).
LEMMA NoneNewerStep ==
  TypeOK /\ MadeForStream /\ JoinersSpawned /\ NoneNewer /\ [Next]_vars => NoneNewer'
<1> SUFFICES ASSUME TypeOK, MadeForStream, JoinersSpawned, NoneNewer, [Next]_vars PROVE NoneNewer'
  OBVIOUS
<1>1. handler \in Int /\ made \in Int /\ inbox \in Seq(Message) /\ spawned \subseteq Int
  BY MaxTimesAssumption DEF TypeOK, Streams, PCs
<1>2. ASSUME NEW u \in Users, BindHandler(u) PROVE NoneNewer'
  <2>1. /\ handler' = made /\ handler <= made /\ UNCHANGED inbox
        /\ spawned' \subseteq spawned \cup {made}
    BY <1>2 DEF BindHandler, JoinLater, NeedTrackFails, MadeForStream, readVars
  <2>2. \A k \in spawned' : k <= handler'
    <3> SUFFICES ASSUME NEW k \in spawned' PROVE k <= made
      BY <2>1
    <3>1. CASE k \in spawned
      <4>1. k \in Int /\ k <= handler
        BY <1>1, <3>1 DEF NoneNewer
      <4> QED
        BY <1>1, <2>1, <4>1
    <3>2. CASE k = made
      BY <1>1, <3>2
    <3> QED
      BY <2>1, <3>1, <3>2
  <2>3. \A i \in 1 .. Len(inbox) : inbox[i].kind = "answer" => inbox[i].pc <= handler'
    <3>1. \A i \in 1 .. Len(inbox) : inbox[i] \in Message
      BY <1>1
    <3>2. \A i \in 1 .. Len(inbox) : inbox[i].pc \in Int
      BY <3>1 DEF Message
    <3> QED
      BY <1>1, <2>1, <3>2 DEF NoneNewer
  <2> QED
    BY <2>1, <2>2, <2>3 DEF NoneNewer
<1>3. CASE UNCHANGED handler /\ spawned' \subseteq spawned /\ InboxMay
  <2>1. CASE UNCHANGED inbox
    BY <1>3, <2>1 DEF NoneNewer
  <2>2. CASE inbox' = <<>>
    BY <1>3, <2>2 DEF NoneNewer
  <2>3. CASE inbox # <<>> /\ inbox' = Tail(inbox)
    <3>1. /\ Len(inbox) \in Nat \ {0} /\ Len(inbox') = Len(inbox) - 1
          /\ \A i \in 1 .. Len(inbox) - 1 : inbox'[i] = inbox[i + 1]
      BY <1>1, <2>3, TailElement
    <3>2. \A i \in 1 .. Len(inbox') : i + 1 \in 1 .. Len(inbox) /\ inbox'[i] = inbox[i + 1]
      BY <3>1
    <3> QED
      BY <1>3, <3>2 DEF NoneNewer
  <2> DEFINE Fit(q) == \A i \in 1 .. Len(q) : q[i].kind = "answer" => q[i].pc <= handler
  <2>4. ASSUME NEW q \in Seq(Message), Fit(q), NEW m \in Message, m.kind = "answer" => m.pc \in spawned
        PROVE  Append(q, m) \in Seq(Message) /\ Fit(Append(q, m))
    <3>1. /\ Append(q, m) \in Seq(Message)
          /\ Len(q) \in Nat /\ Len(Append(q, m)) = Len(q) + 1
          /\ \A i \in 1 .. Len(q) : Append(q, m)[i] = q[i]
          /\ Append(q, m)[Len(q) + 1] = m
      BY AppendElement
    <3>2. \A i \in 1 .. Len(Append(q, m)) : i \in 1 .. Len(q) \/ i = Len(q) + 1
      BY <3>1
    <3>3. m.kind = "answer" => m.pc <= handler
      BY <2>4 DEF NoneNewer
    <3> QED
      BY <2>4, <3>1, <3>2, <3>3
  <2>5. Fit(inbox)
    BY DEF NoneNewer
  <2>6. Fit(inbox') => NoneNewer'
    BY <1>3 DEF NoneNewer
  <2>7. CASE \E m \in Message : inbox' = Append(inbox, m) /\ (m.kind = "answer" => m.pc \in spawned)
    BY <1>1, <2>4, <2>5, <2>6, <2>7
  <2>8. CASE \E m, n \in Message :
               /\ inbox' = Append(Append(inbox, m), n)
               /\ m.kind # "answer" /\ (n.kind = "answer" => n.pc \in spawned)
    <3>1. PICK m \in Message, n \in Message :
                 /\ inbox' = Append(Append(inbox, m), n)
                 /\ m.kind # "answer" /\ (n.kind = "answer" => n.pc \in spawned)
      BY <2>8
    <3>2. Append(inbox, m) \in Seq(Message) /\ Fit(Append(inbox, m))
      BY <1>1, <2>4, <2>5, <3>1
    <3>3. Fit(Append(Append(inbox, m), n))
      BY <2>4, <3>1, <3>2
    <3> QED
      BY <2>6, <3>1, <3>3
  <2> QED
    BY <1>3, <2>1, <2>2, <2>3, <2>7, <2>8 DEF InboxMay
<1> QED
  BY <1>2, <1>3, InboxSteps

-----------------------------------------------------------------------------
(* What the read loop handles, and the candidates *)

\* The read loop takes a reply with the handler of that moment, and keeps both
\* until the handler returns (client.go:91-101).
LEMMA ReadSteps == [Next]_vars => Receive \/ msg' = NoMsg \/ UNCHANGED <<msg, by>>
<1> SUFFICES ASSUME [Next]_vars PROVE Receive \/ msg' = NoMsg \/ UNCHANGED <<msg, by>>
  OBVIOUS
<1> USE DEF KeepClientSide, readVars
<1>1. ASSUME NEW u \in Users, StepReconnect(u) PROVE UNCHANGED <<msg, by>>
  BY <1>1 DEF StepReconnect, BeginReconnect, Dial, NewPeerConnection, BindHandler
<1>2. ASSUME NEW k \in PCs, StepJoin(k) PROVE UNCHANGED <<msg, by>>
  BY <1>2 DEF StepJoin, OfferFails, SendJoin, JoinSent, JoinNotSent
<1>3. CASE StepReader
  BY <1>3 DEF StepReader, Recv, ReaderExits, HandleAnswer, HandleOffer, HandleTrickle,
              HandleRejected, HandleError, NegotiationFails, Handled, SendAnswer, AnswerSent,
              ReaderReturns
<1>4. CASE OwnerReturns \/ RefreshRuns \/ RefreshReturns \/ TrickleSent \/ TrickleReturns
  BY <1>4 DEF OwnerReturns, RefreshRuns, RefreshReturns, TrickleSent, TrickleReturns
<1>5. CASE Environment
  BY <1>5 DEF Environment, Switch, Connect, Close, SendTrickle, ConnectionLost, ServerPushes
<1>6. CASE UNCHANGED vars \/ Exhausted \/ Quiet
  BY <1>6 DEF Exhausted, Quiet, vars
<1> QED
  BY <1>1, <1>2, <1>3, <1>4, <1>5, <1>6 DEF Next, Program

\* The answer to a Join finds its own handler, or a later one (publisher.go:118-155).
LEMMA AnswerStep == TypeOK /\ NoneNewer /\ AnswerNotForOlder /\ [Next]_vars => AnswerNotForOlder'
<1> SUFFICES ASSUME TypeOK, NoneNewer, AnswerNotForOlder, [Next]_vars PROVE AnswerNotForOlder'
  OBVIOUS
<1>1. CASE Receive
  <2>1. inbox \in Seq(Message) /\ inbox # <<>> /\ msg' = Head(inbox) /\ by' = handler
    BY <1>1 DEF Receive, TypeOK
  <2>2. msg' = inbox[1] /\ 1 \in 1 .. Len(inbox)
    BY <2>1, TailElement
  <2> QED
    BY <2>1, <2>2 DEF NoneNewer, AnswerNotForOlder
<1>2. CASE msg' = NoMsg
  BY <1>2 DEF AnswerNotForOlder, NoMsg
<1>3. CASE UNCHANGED <<msg, by>>
  BY <1>3 DEF AnswerNotForOlder
<1> QED
  BY <1>1, <1>2, <1>3, ReadSteps

\* Descriptions and candidates change in three handlers (negotiate.go:9-69,
\* trickle.go:15-49).
LEMMA SdpSteps ==
  TypeOK /\ [Next]_vars =>
    \/ UNCHANGED sdpVars
    \/ by \in PCs /\ Describe(by)
    \/ UNCHANGED remote /\ Trickled(by)
<1> DEFINE Goal == UNCHANGED sdpVars \/ (by \in PCs /\ Describe(by)) \/ (UNCHANGED remote /\ Trickled(by))
<1> SUFFICES ASSUME TypeOK, [Next]_vars PROVE Goal
  OBVIOUS
<1> USE DEF KeepClientSide
<1>1. ASSUME NEW u \in Users, StepReconnect(u) PROVE Goal
  BY <1>1 DEF StepReconnect, BeginReconnect, Dial, NewPeerConnection, BindHandler
<1>2. ASSUME NEW k \in PCs, StepJoin(k) PROVE Goal
  BY <1>2 DEF StepJoin, OfferFails, SendJoin, JoinSent, JoinNotSent
<1>3. CASE HandleAnswer \/ HandleOffer
  <2>1. openPCs \subseteq PCs
    BY DEF TypeOK
  <2> QED
    BY <1>3, <2>1 DEF HandleAnswer, HandleOffer, NegotiationFails
<1>4. CASE StepReader /\ ~HandleAnswer /\ ~HandleOffer
  BY <1>4 DEF StepReader, Recv, ReaderExits, Receive, HandleTrickle, HandleRejected, HandleError,
              SendAnswer, AnswerSent, ReaderReturns
<1>5. CASE OwnerReturns \/ RefreshRuns \/ RefreshReturns \/ TrickleSent \/ TrickleReturns
  BY <1>5 DEF OwnerReturns, RefreshRuns, RefreshReturns, TrickleSent, TrickleReturns
<1>6. CASE Environment
  BY <1>6 DEF Environment, Switch, Connect, Close, SendTrickle, ConnectionLost, ServerPushes
<1>7. CASE UNCHANGED vars \/ Exhausted \/ Quiet
  BY <1>7 DEF Exhausted, Quiet, vars
<1> QED
  BY <1>1, <1>2, <1>3, <1>4, <1>5, <1>6, <1>7 DEF Next, Program

\* A description takes the kept candidates with it, and none is kept after it
\* (negotiate.go:48-69, trickle.go:33-49).
LEMMA CandidateStep == TypeOK /\ NoCandidateLeft /\ [Next]_vars => NoCandidateLeft'
<1> SUFFICES ASSUME TypeOK, NoCandidateLeft, [Next]_vars PROVE NoCandidateLeft'
  OBVIOUS
<1> USE DEF NoCandidateLeft
<1>1. cands \in [PCs -> Nat] /\ remote \subseteq PCs
  BY DEF TypeOK
<1>2. CASE UNCHANGED sdpVars
  BY <1>2 DEF sdpVars
<1>3. CASE by \in PCs /\ Describe(by)
  BY <1>1, <1>3 DEF Describe
<1>4. CASE UNCHANGED remote /\ Trickled(by)
  BY <1>1, <1>4 DEF Trickled
<1> QED
  BY <1>2, <1>3, <1>4, SdpSteps

-----------------------------------------------------------------------------
(* The invariant and what follows from it *)

\* The inductive invariant of the client holds always: types, one reconnection at a
\* time, streams and handlers in their order, and a Switch that goes on until the
\* server is dialled (util/client.go, util/lock.go, pkg/sfu).
THEOREM ClientInvariant == Spec => []IInv
<1>1. Init => IInv
  <2> SUFFICES ASSUME Init PROVE IInv
    OBVIOUS
  <2>1. TypeOK /\ OneReconnection /\ StreamsNumbered /\ SwitchGoesOn
    BY InitTypeOK, InitClient, InitSwitch DEF Init
  <2>2. MadeForStream
    BY DEF Init, ClientInit, MadeForStream
  <2>3. JoinersSpawned
    BY UsersDiffer DEF Init, ClientInit, JoinersSpawned
  <2>4. NoneNewer
    BY DEF Init, NoneNewer
  <2>5. AnswerNotForOlder /\ NoCandidateLeft
    BY DEF Init, AnswerNotForOlder, NoCandidateLeft, NoMsg
  <2> QED
    BY <2>1, <2>2, <2>3, <2>4, <2>5 DEF IInv, HandlerIsNewest
<1>2. IInv /\ [Next]_vars => IInv'
  <2> SUFFICES ASSUME IInv, [Next]_vars PROVE IInv'
    OBVIOUS
  <2> USE DEF IInv, HandlerIsNewest
  <2>1. ClientTypeOK
    BY TypeParts
  <2>2. TypeOK' /\ OneReconnection' /\ StreamsNumbered'
    BY <2>1, TypeStep, ClientSteps, OneReconnectionStep, StreamsNumberedStep
  <2>3. SwitchGoesOn'
    BY <2>1, SwitchStep
  <2>4. MadeForStream' /\ JoinersSpawned' /\ NoneNewer'
    BY <2>1, MadeStep, JoinersStep, NoneNewerStep
  <2>5. AnswerNotForOlder' /\ NoCandidateLeft'
    BY AnswerStep, CandidateStep
  <2> QED
    BY <2>2, <2>3, <2>4, <2>5
<1> QED
  BY <1>1, <1>2, PTL DEF Spec

\* When Switch has returned, the server was dialled with what it stored, or a
\* reconnection that will do so is under way (client.go:155-163,
\* pkg/sfu/client.go:38-60,108-111).
THEOREM SwitchAlwaysTakesEffect == Spec => []SwitchTakesEffect
<1>1. IInv => SwitchTakesEffect
  BY DEF IInv, SwitchGoesOn, SwitchTakesEffect, Pending, Nobody
<1> QED
  BY <1>1, ClientInvariant, PTL

\* The answer to a Join never reaches the handler of an earlier peer connection
\* (publisher.go:52-92, client.go:91-98).
THEOREM AnswerNeverForOlder == Spec => []AnswerNotForOlder
<1>1. IInv => AnswerNotForOlder
  BY DEF IInv
<1> QED
  BY <1>1, ClientInvariant, PTL

\* No candidate is left in the list of a peer connection that has its description
\* (negotiate.go:48-69, trickle.go:15-49).
THEOREM NoCandidateEverLeft == Spec => []NoCandidateLeft
<1>1. IInv => NoCandidateLeft
  BY DEF IInv
<1> QED
  BY <1>1, ClientInvariant, PTL

\* Until the client is closed there is one reconnection at a time, and OnReconnect
\* never runs twice at once (lock.go:24-46, client.go:104-130).
THEOREM OneReconnectionAtATime == Spec => []OneReconnection
<1>1. IInv => OneReconnection
  BY DEF IInv
<1> QED
  BY <1>1, ClientInvariant, PTL

=============================================================================
