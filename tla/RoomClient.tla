------------------------------ MODULE RoomClient ------------------------------
(***************************************************************************)
(* room.Client of pkg/sxu/room/client.go together with the room service:   *)
(* keepAlive repeats ClientHealth for the session of the last              *)
(* UpdateSession, in a goroutine per round, and reconnects on failures,    *)
(* time-outs and demand.                                                   *)
(*                                                                         *)
(* doWithClient and reconnect are those of util.Client but for the dial,   *)
(* so that module StreamClient has their steps: a connection is named by   *)
(* the reconnection that made it.  A call is the client's goroutine and    *)
(* the handler in the service, which goes on when the client is gone.      *)
(***************************************************************************)
EXTENDS StreamClient, RoomService

CONSTANTS
  MaxEvents   \* bound: UpdateSession, RefreshConn, lost connections,
              \* selectors without a node, late rounds and refreshes

ASSUME MaxEventsAssumption == MaxEvents \in Nat

Keeper == <<"keepAlive">>
ASSUME UsersAssumption == Users = Calls \cup {Keeper} /\ Keeper \notin Calls

VARIABLES
  keeper,   \* keepAlive: "off", "loop", "await", "rest", "reconnect", "gone"
  round,    \* the call keepAlive waits for, or none
  ended,    \* how that call ended: "no", "failed", "ok"
  sent,     \* calls that sent their request
  manual,   \* manualReconnect has an element
  session,  \* the stored pair, or NoPair
  events

keeperVars == <<keeper, round, ended>>
ownerVars == <<manual, session, events>>
vars == <<clientVars, serviceVars, keeperVars, sent, ownerVars>>

NoRound == <<>>

Init ==
  /\ ClientInit /\ ServiceInit
  /\ keeper = "off" /\ round = NoRound /\ ended = "no"
  /\ sent = {}
  /\ manual = FALSE /\ session = NoPair /\ events = 0

Happens == events < MaxEvents /\ events' = events + 1
NoEvent == UNCHANGED events

-----------------------------------------------------------------------------
(* keepAlive *)

Connect ==
  /\ keeper = "off"
  /\ keeper' = "loop"
  /\ UNCHANGED <<clientVars, serviceVars, round, ended, sent, ownerVars>>

KeeperExits ==
  /\ keeper = "loop" /\ closed
  /\ keeper' = "gone"
  /\ UNCHANGED <<clientVars, serviceVars, round, ended, sent, ownerVars>>

\* keepAlive calls reconnect itself.
KeeperReconnects ==
  /\ keeper' = "reconnect"
  /\ ReconnectNotVerify(Keeper)
  /\ UNCHANGED <<serviceVars, round, ended, sent, session>>

\* Of a closed client the select may take this case as well.
ManualReconnect ==
  /\ keeper = "loop" /\ manual
  /\ manual' = FALSE
  /\ KeeperReconnects /\ NoEvent

KeeperReconnected ==
  /\ keeper = "reconnect"
  /\ CallReturns(Keeper)
  /\ keeper' = "loop" /\ round' = NoRound
  /\ UNCHANGED <<serviceVars, ended, sent, ownerVars>>

StartRound(c) ==
  /\ keeper = "loop" /\ ~manual /\ ~closed
  /\ health[c] = "none"
  /\ keeper' = "await" /\ round' = c /\ ended' = "no"
  /\ DoWithClient(c)
  /\ UNCHANGED <<serviceVars, sent, ownerVars>>

\* ClientSessionLifeCycle is over before the call; the call may have got no
\* connection, so that it never cancels its context.  That the service or a goroutine
\* took so long is an event.
TimeOut ==
  /\ keeper = "await"
  /\ IF ended = "no" /\ \A c \in Calls : at[c] \in {"idle", "dial"}
     THEN NoEvent ELSE Happens
  /\ KeeperReconnects
  /\ UNCHANGED manual

RoundEnds ==
  /\ keeper = "await" /\ ended # "no"
  /\ keeper' = "rest"
  /\ UNCHANGED <<clientVars, serviceVars, round, ended, sent, ownerVars>>

\* The rest of ClientSessionLifeCycle; goroutines are late only as an event.
NextRound ==
  /\ keeper = "rest"
  /\ IF \A c \in Calls : at[c] \in {"idle", "dial", "waiting"} THEN NoEvent ELSE Happens
  /\ keeper' = "loop" /\ round' = NoRound /\ ended' = "no"
  /\ UNCHANGED <<clientVars, serviceVars, sent, manual, session>>

KeeperStep ==
  \/ KeeperExits \/ ManualReconnect \/ KeeperReconnected \/ TimeOut \/ RoundEnds \/ NextRound
  \/ \E c \in Calls : StartRound(c)

-----------------------------------------------------------------------------
(* One call of ClientHealth, through doWithClient *)

Cancels(c, how) == ended' = IF round = c /\ keeper = "await" THEN how ELSE ended

\* Without a session there is nothing to keep alive.
NoSession(c) ==
  /\ session = NoPair /\ c \notin sent
  /\ UseDone(c)
  /\ Cancels(c, "ok")
  /\ UNCHANGED <<serviceVars, keeper, round, sent, ownerVars>>

SendHealth(c) ==
  /\ at[c] = "using" /\ on[c] = open /\ c \notin sent
  /\ session # NoPair
  /\ ClientHealth(c, session)
  /\ sent' = sent \cup {c}
  /\ UNCHANGED <<clientVars, keeperVars, ownerVars>>

HealthReply(c) ==
  /\ c \in sent /\ on[c] = open
  /\ UseDone(c)
  /\ Return(c)
  /\ sent' = sent \ {c}
  /\ Cancels(c, "ok")
  /\ UNCHANGED <<keeper, round, ownerVars>>

\* Variant with a bug: doWithClient gives up instead of reconnecting.
HealthFailsOnly(c) ==
  /\ UseFailsOnly(c)
  /\ sent' = sent \ {c}
  /\ Cancels(c, "failed")
  /\ UNCHANGED <<serviceVars, keeper, round, ownerVars>>

HealthFails(c) ==
  /\ UseFails(c)
  /\ sent' = sent \ {c}
  /\ Cancels(c, "failed")
  /\ UNCHANGED <<serviceVars, keeper, round, ownerVars>>

\* The reply of a handler whose client is gone.
ReplyLost(c) ==
  /\ ~(c \in sent /\ on[c] = open)
  /\ Return(c)
  /\ UNCHANGED <<clientVars, keeperVars, sent, ownerVars>>

CallEnds(c) ==
  /\ CallReturns(c)
  /\ UNCHANGED <<serviceVars, keeperVars, sent, ownerVars>>

CallStep(c) ==
  NoSession(c) \/ SendHealth(c) \/ HealthReply(c) \/ HealthFails(c) \/ ReplyLost(c) \/ CallEnds(c)

-----------------------------------------------------------------------------
(* reconnect *)

\* NewClient returns nil when there is no node to select, and the closed connection
\* stays.
NewClient(u) ==
  /\ \/ DialRegardless(u) /\ NoEvent
     \/ DialFails(u) /\ Happens
  /\ UNCHANGED <<manual, session>>

ReconnectStep(u) ==
  /\ \/ (Enter(u) \/ Wake(u) \/ Begin(u)) /\ UNCHANGED ownerVars
     \/ NewClient(u)
  /\ UNCHANGED <<serviceVars, keeperVars, sent>>

-----------------------------------------------------------------------------
(* The owner and the network *)

UpdateSession(p) ==
  /\ Happens
  /\ session' = p
  /\ UNCHANGED <<clientVars, serviceVars, keeperVars, sent, manual>>

RefreshConn ==
  /\ Happens
  /\ manual' = TRUE
  /\ UNCHANGED <<clientVars, serviceVars, keeperVars, sent, session>>

Close ==
  /\ CloseClient
  /\ UNCHANGED <<serviceVars, keeperVars, sent, ownerVars>>

ConnectionLost ==
  /\ Happens
  /\ Break
  /\ UNCHANGED <<serviceVars, keeperVars, sent, manual, session>>

ClientStep ==
  \/ KeeperStep
  \/ \E c \in Calls : CallStep(c)
  \/ \E u \in Users : ReconnectStep(u)

OnService(A) == A /\ UNCHANGED <<clientVars, keeperVars, sent, ownerVars>>

\* A session is not repeated in time: the client has left it, or was too long in
\* coming back, which is an event.
Expire(p) ==
  /\ TimerFires(p)
  /\ IF closed \/ session # p THEN NoEvent ELSE Happens
  /\ UNCHANGED <<clientVars, keeperVars, sent, manual, session>>

Owner == Connect \/ RefreshConn \/ Close \/ \E p \in Pairs : UpdateSession(p)

Exhausted == times = MaxTimes /\ UNCHANGED vars

\* The client is closed and all is done.
Quiet ==
  /\ closed /\ keeper \in {"off", "gone"} /\ waiting = {} /\ eventCh = <<>>
  /\ UNCHANGED vars

Next ==
  \/ Owner \/ ConnectionLost \/ ClientStep \/ OnService(ServiceStep)
  \/ \E p \in Pairs : Expire(p)
  \/ Exhausted \/ Quiet

\* The client's and the service's goroutines run; a timer that nobody resets any
\* more fires.
Fairness ==
  /\ WF_vars(ClientStep)
  /\ WF_vars(OnService(ServiceStep))
  /\ WF_vars(closed /\ \E p \in Pairs : Expire(p))

Spec == Init /\ [][Next]_vars /\ Fairness

-----------------------------------------------------------------------------
TypeOK ==
  /\ ClientTypeOK /\ ServiceTypeOK
  /\ keeper \in {"off", "loop", "await", "rest", "reconnect", "gone"}
  /\ round \in Calls \cup {NoRound} /\ ended \in {"no", "failed", "ok"}
  /\ sent \subseteq Calls
  /\ manual \in BOOLEAN /\ session \in Pairs \cup {NoPair} /\ events \in 0 .. MaxEvents

\* keepAlive is in a call of its own exactly while it reconnects, and what waits
\* for a call knows which (client.go:69-106).
KeeperCalls ==
  /\ keeper = "reconnect" <=> at[Keeper] # "idle"
  /\ at[Keeper] # "using"
  /\ keeper \in {"await", "rest"} => round \in Calls

\* A request on a connection that still works has its handler, whose reply will end
\* the call, and no handler is left of an earlier one when a request is sent
\* (client.go:46-67, 81-96).
RequestsHandled ==
  \A c \in Calls :
    /\ c \in sent => at[c] = "using"
    /\ c \in sent /\ on[c] = open => health[c] # "none"
    /\ at[c] = "using" /\ c \notin sent => health[c] = "none"

\* Whatever fails on the way, the session the client wants is again and again one
\* that the syncer knows.
SessionServed ==
  []<>(times = MaxTimes \/ closed \/ keeper = "off" \/ session = NoPair \/ session \in known)

\* When the client is gone, its sessions leave the map.
GoneIsRemoved ==
  []<>(~closed \/ times = MaxTimes \/ entries = {})

=============================================================================
