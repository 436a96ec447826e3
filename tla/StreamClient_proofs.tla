------------------------ MODULE StreamClient_proofs --------------------------
(***************************************************************************)
(* Proofs about the reconnecting client in any program that uses it, for   *)
(* any goroutines and any number of reconnections.  SFUClient_proofs and   *)
(* RoomService_proofs show that the programs of pkg/sfu and pkg/sxu/room   *)
(* are such programs.                                                      *)
(***************************************************************************)
EXTENDS StreamClient, TLAPS

\* Nothing has happened to the client at first (client.go:42-56).
LEMMA InitClient == ClientInit => ClientTypeOK /\ OneReconnection /\ StreamsNumbered
<1> SUFFICES ASSUME ClientInit PROVE ClientTypeOK /\ OneReconnection /\ StreamsNumbered
  OBVIOUS
<1> USE MaxTimesAssumption DEF ClientInit
<1>1. 0 \in Streams /\ 0 \in 0 .. MaxTimes + 1 /\ -1 \in -1 .. MaxTimes
  BY DEF Streams
<1>2. "idle" \in Places
  BY DEF Places
<1>3. closed \in BOOLEAN
  OBVIOUS
<1>4. times \in Streams /\ stream \in Streams /\ open \in Streams
  BY <1>1
<1>5. OneReconnection /\ StreamsNumbered
  BY DEF OneReconnection, StreamsNumbered, Reconnecting
<1> QED
  BY <1>1, <1>2, <1>3, <1>4, <1>5 DEF ClientTypeOK

\* The steps of the client keep its types (client.go:58-167).
LEMMA ClientTypes == ClientTypeOK /\ [ClientNext]_clientVars => ClientTypeOK'
<1> SUFFICES ASSUME ClientTypeOK, [ClientNext]_clientVars PROVE ClientTypeOK'
  OBVIOUS
<1> USE MaxTimesAssumption DEF ClientTypeOK, Streams
<1>1. ASSUME NEW u \in Users, UserStep(u) PROVE ClientTypeOK'
  <2> USE DEF Places, Reconnecting
  <2>1. Running \in 0 .. MaxTimes + 1
    BY DEF Running
  <2>2. CASE DoWithClient(u) \/ UseFails(u) \/ UseDone(u)
    BY <2>2 DEF DoWithClient, UseFails, UseDone, Goto
  <2>3. CASE Enter(u) \/ Wake(u)
    BY <2>1, <2>3 DEF Enter, Wake, Goto
  <2>4. CASE Begin(u) \/ DialSucceeds(u) \/ DialFails(u) \/ DialRegardless(u) \/ CallbackReturns(u)
    BY <2>4 DEF Begin, DialSucceeds, DialFails, DialRegardless, CallbackReturns, Goto
  <2>5. CASE StartReconnect(u) \/ ReconnectNotVerify(u) \/ ReconnectReturns(u) \/ CallReturns(u)
    BY <2>5 DEF StartReconnect, ReconnectNotVerify, ReconnectReturns, CallReturns, Goto
  <2> QED
    BY <1>1, <2>2, <2>3, <2>4, <2>5 DEF UserStep
<1>2. CASE CloseClient \/ Break
  <2>1. closed' \in BOOLEAN /\ open' = 0 /\ UNCHANGED <<times, stream, at, on, wait, before>>
    BY <1>2 DEF CloseClient, Break
  <2> QED
    BY <2>1
<1>3. CASE UNCHANGED clientVars
  BY <1>3 DEF clientVars
<1> QED
  BY <1>1, <1>2, <1>3 DEF ClientNext

\* Of a call, one goroutine moves.  It starts a reconnection if there is none, or
\* the client is closed, and calls back only after a dial of the open client
\* (lock.go:24-46, client.go:104-130).
LEMMA OneMoves ==
  ASSUME ClientTypeOK, NEW u \in Users, UserStep(u)
  PROVE  /\ closed' = closed
         /\ \A v \in Users : v # u => at'[v] = at[v]
         /\ at'[u] \in Reconnecting => at[u] \in Reconnecting \/ ~Busy \/ closed
         /\ at'[u] = "callback" => at[u] = "dial" /\ ~closed
<1> USE DEF ClientTypeOK, Goto, Reconnecting
<1>1. CASE DoWithClient(u) \/ UseFails(u) \/ UseDone(u)
  BY <1>1 DEF DoWithClient, UseFails, UseDone
<1>2. CASE Enter(u) \/ Wake(u)
  BY <1>2 DEF Enter, Wake
<1>3. CASE Begin(u) \/ DialSucceeds(u) \/ DialFails(u) \/ DialRegardless(u) \/ CallbackReturns(u)
  BY <1>3 DEF Begin, DialSucceeds, DialFails, DialRegardless, CallbackReturns
<1>4. CASE StartReconnect(u) \/ ReconnectNotVerify(u) \/ ReconnectReturns(u) \/ CallReturns(u)
  BY <1>4 DEF StartReconnect, ReconnectNotVerify, ReconnectReturns, CallReturns
<1> QED
  BY <1>1, <1>2, <1>3, <1>4 DEF UserStep

\* One reconnection at a time (lock.go:24-46).
LEMMA OneReconnectionStep == ClientTypeOK /\ OneReconnection /\ [ClientNext]_clientVars => OneReconnection'
<1> SUFFICES ASSUME ClientTypeOK, OneReconnection, [ClientNext]_clientVars PROVE OneReconnection'
  OBVIOUS
<1>1. ASSUME NEW u \in Users, UserStep(u) PROVE OneReconnection'
  <2>1. ASSUME NEW v \in Users, NEW w \in Users, v # w, ~closed',
               at'[v] \in Reconnecting, at'[w] \in Reconnecting
        PROVE  FALSE
    <3>1. PICK a \in Users, b \in Users : a # b /\ (v = u \/ w = u => a = u) /\ b # u
                                         /\ at'[a] \in Reconnecting /\ at'[b] \in Reconnecting
      BY <2>1
    <3>2. ~closed /\ at[b] \in Reconnecting
      BY <1>1, <2>1, <3>1, OneMoves
    <3>3. Busy
      BY <3>2 DEF Busy
    <3>4. at[a] \in Reconnecting
      BY <1>1, <3>1, <3>2, <3>3, OneMoves
    <3> QED
      BY <3>1, <3>2, <3>4 DEF OneReconnection
  <2>2. ASSUME NEW v \in Users, NEW w \in Users, v # w, at'[v] = "callback", at'[w] = "callback"
        PROVE  FALSE
    <3>1. CASE closed'
      <4>1. at[v] = "callback" /\ at[w] = "callback"
        BY <1>1, <2>2, <3>1, OneMoves
      <4> QED
        BY <2>2, <4>1 DEF OneReconnection
    <3>2. CASE ~closed'
      BY <2>1, <2>2, <3>2 DEF Reconnecting
    <3> QED
      BY <3>1, <3>2
  <2> QED
    BY <2>1, <2>2 DEF OneReconnection
<1>2. CASE CloseClient \/ Break \/ UNCHANGED clientVars
  BY <1>2 DEF CloseClient, Break, clientVars, OneReconnection
<1> QED
  BY <1>1, <1>2 DEF ClientNext

\* Streams are numbered by reconnections that have begun (client.go:104-130).
LEMMA StreamsNumberedStep == ClientTypeOK /\ StreamsNumbered /\ [ClientNext]_clientVars => StreamsNumbered'
<1> SUFFICES ASSUME ClientTypeOK, StreamsNumbered, [ClientNext]_clientVars PROVE StreamsNumbered'
  OBVIOUS
<1> USE MaxTimesAssumption DEF ClientTypeOK, StreamsNumbered, Streams
<1>1. ASSUME NEW u \in Users, UserStep(u) PROVE StreamsNumbered'
  <2>1. CASE DoWithClient(u) \/ UseFails(u) \/ UseDone(u)
    BY <2>1 DEF DoWithClient, UseFails, UseDone, Goto
  <2>2. CASE Enter(u) \/ Wake(u)
    BY <2>2 DEF Enter, Wake, Goto
  <2>3. CASE Begin(u) \/ DialSucceeds(u) \/ DialFails(u) \/ DialRegardless(u) \/ CallbackReturns(u)
    BY <2>3 DEF Begin, DialSucceeds, DialFails, DialRegardless, CallbackReturns, Goto
  <2>4. CASE StartReconnect(u) \/ ReconnectNotVerify(u) \/ ReconnectReturns(u) \/ CallReturns(u)
    BY <2>4 DEF StartReconnect, ReconnectNotVerify, ReconnectReturns, CallReturns, Goto
  <2> QED
    BY <1>1, <2>1, <2>2, <2>3, <2>4 DEF UserStep
<1>2. CASE CloseClient \/ Break \/ UNCHANGED clientVars
  BY <1>2 DEF CloseClient, Break, clientVars
<1> QED
  BY <1>1, <1>2 DEF ClientNext

\* The types of the client hold always (client.go:58-167).
THEOREM ClientTypeCorrect == ClientSpec => []ClientTypeOK
BY InitClient, ClientTypes, PTL DEF ClientSpec

\* Until the client is closed there is one reconnection at a time, and OnReconnect
\* never runs twice at once, whoever calls (lock.go:24-46, client.go:104-130).
THEOREM NeverTwoReconnections == ClientSpec => []OneReconnection
BY InitClient, OneReconnectionStep, ClientTypeCorrect, PTL DEF ClientSpec

\* A stream has the number of a reconnection that has begun (client.go:104-130).
THEOREM StreamsAlwaysNumbered == ClientSpec => []StreamsNumbered
BY InitClient, StreamsNumberedStep, ClientTypeCorrect, PTL DEF ClientSpec

\* Whoever runs its operation has a stream, and what is dialled for is newer than
\* it, until the client is closed and no stream works any more (client.go:70,
\* 104-122).
StreamsInOrder ==
  /\ closed => open = 0
  /\ ~closed => \A u \in Users : at[u] = "dial" => stream < times
  /\ \A u \in Users : on[u] <= stream /\ (at[u] = "using" => on[u] # 0)

\* Every step of the client keeps that.
LEMMA StreamsInOrderStep ==
  ClientTypeOK /\ OneReconnection /\ StreamsNumbered /\ StreamsInOrder /\ [ClientNext]_clientVars
    => StreamsInOrder'
<1> SUFFICES ASSUME ClientTypeOK, OneReconnection, StreamsNumbered, StreamsInOrder,
                    [ClientNext]_clientVars
             PROVE  StreamsInOrder'
  OBVIOUS
<1> USE MaxTimesAssumption DEF ClientTypeOK, StreamsInOrder, Streams, Goto
<1>1. ASSUME NEW u \in Users, UserStep(u) PROVE StreamsInOrder'
  <2>1. CASE DoWithClient(u) \/ UseFails(u) \/ UseDone(u)
    BY <2>1 DEF DoWithClient, UseFails, UseDone
  <2>2. CASE Enter(u) \/ Wake(u)
    BY <2>2 DEF Enter, Wake
  <2>3. CASE Begin(u)
    <3>1. stream <= times
      BY DEF StreamsNumbered
    <3> QED
      BY <2>3, <3>1 DEF Begin
  <2>4. CASE DialSucceeds(u) \/ DialRegardless(u)
    <3>1. /\ at[u] = "dial" /\ stream' = times /\ closed' = closed
          /\ closed => open' = 0
          /\ UNCHANGED <<on, times>>
      BY <2>4 DEF DialSucceeds, DialRegardless
    <3>2. \A v \in Users : on'[v] <= stream' /\ (at'[v] = "using" => on'[v] # 0)
      BY <2>4, <3>1 DEF StreamsNumbered, DialSucceeds, DialRegardless
    <3>3. ASSUME ~closed, NEW v \in Users PROVE at'[v] # "dial"
      <4>1. at'[u] # "dial" /\ (v # u => at'[v] = at[v])
        BY <2>4 DEF DialSucceeds, DialRegardless
      <4>2. v # u => at[v] # "dial"
        BY <3>1, <3>3 DEF OneReconnection, Reconnecting
      <4> QED
        BY <4>1, <4>2
    <3> QED
      BY <3>1, <3>2, <3>3
  <2>5. CASE DialFails(u) \/ CallbackReturns(u)
    BY <2>5 DEF DialFails, CallbackReturns
  <2>6. CASE StartReconnect(u) \/ ReconnectNotVerify(u) \/ ReconnectReturns(u) \/ CallReturns(u)
    BY <2>6 DEF StartReconnect, ReconnectNotVerify, ReconnectReturns, CallReturns
  <2> QED
    BY <1>1, <2>1, <2>2, <2>3, <2>4, <2>5, <2>6 DEF UserStep
<1>2. CASE CloseClient \/ Break \/ UNCHANGED clientVars
  BY <1>2 DEF CloseClient, Break, clientVars
<1> QED
  BY <1>1, <1>2 DEF ClientNext

\* The streams keep their order, whoever calls (client.go:70, 104-122).
THEOREM StreamsAlwaysInOrder == ClientSpec => []StreamsInOrder
<1>1. ClientInit => StreamsInOrder
  BY DEF ClientInit, StreamsInOrder
<1> QED
  BY <1>1, StreamsInOrderStep, ClientTypeCorrect, NeverTwoReconnections, StreamsAlwaysNumbered, PTL
     DEF ClientSpec

\* No step takes a later stream for one that does not work any more.
LEMMA GoneStep ==
  ASSUME ClientTypeOK, StreamsInOrder, [ClientNext]_clientVars, NEW u \in Users,
         on[u] # 0, on[u] # open, on'[u] = on[u]
  PROVE  on'[u] # open'
<1>1. open' = open \/ open' = 0 \/ (open' = times /\ \E v \in Users : at[v] = "dial" /\ ~closed)
  BY DEF ClientNext, UserStep, clientVars, DoWithClient, UseFails, UseDone, Enter, Wake,
         Begin, DialSucceeds, DialRegardless, DialFails, CallbackReturns, StartReconnect,
         ReconnectNotVerify, ReconnectReturns, CallReturns, CloseClient, Break
<1>2. on[u] \in Int /\ stream \in Int /\ times \in Int
  BY MaxTimesAssumption DEF ClientTypeOK, Streams
<1>3. (\E v \in Users : at[v] = "dial" /\ ~closed) => on[u] < times
  BY <1>2 DEF StreamsInOrder
<1> QED
  BY <1>1, <1>2, <1>3

\* A stream that does not work any more is never taken for a later one, whoever
\* calls (client.go:70-79, 104-122).
THEOREM StreamsGoneForGood == ClientSpec => GoneForGood
<1>1. ClientTypeOK /\ StreamsInOrder /\ [ClientNext]_clientVars
        => [\A u \in Users :
              on[u] # 0 /\ on[u] # open /\ on'[u] = on[u] => on'[u] # open']_clientVars
  BY GoneStep
<1> QED
  BY <1>1, ClientTypeCorrect, StreamsAlwaysInOrder, PTL DEF ClientSpec, GoneForGood

=============================================================================
