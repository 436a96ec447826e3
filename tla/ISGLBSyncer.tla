----------------------------- MODULE ISGLBSyncer -----------------------------
(***************************************************************************)
(* The ISGLBSyncer of pkg/sxu/syncer/syncer.go, which keeps one SXU node   *)
(* in step with the ISGLB server, with the track routers of pkg/sxu it     *)
(* calls and the SendSFUStatus of pkg/isglb/client.go it is called by.     *)
(*                                                                         *)
(* The goroutines: main, which alone touches the three sets; the session   *)
(* fetcher; the client's read loop, which calls OnSFUStatusRecv (variable  *)
(* arriving); one goroutine per status to send, until it has called Do of  *)
(* the SingleLatestExec (variable starting), which starts another one that *)
(* sends it (variable sends).                                              *)
(*                                                                         *)
(* A DisorderSet of tracks is a function from keys to the rest of the      *)
(* track; forward and proceed tracks have disjoint keys, so one function   *)
(* holds both sets.  A received list of tracks is such a function too: it  *)
(* repeats no key, as pbimpl.go:41 and 70 demand.                          *)
(***************************************************************************)
EXTENDS Naturals, Sequences, FiniteSets, DisorderSetOps

CONSTANTS
  Sessions,     \* client sessions, ClientNeededSession messages
  ForwardKeys,  \* keys of forward tracks: node and remote session
  ProceedKeys,  \* keys of proceed tracks: destination session
  Infos,        \* what else a track carries
  Statuses,     \* what the server asks of this node: clients and tracks
  None,
  MaxEvents,    \* bound: session events
  MaxExpected   \* bound: statuses that arrive from the server

Keys == ForwardKeys \cup ProceedKeys
Tracks == UNION {[ks -> Infos] : ks \in SUBSET Keys}

\* What the server can send: a status for this node, or one for another node,
\* of which nothing else is looked at.
NotMine == [mine |-> FALSE]
Expected == [mine : {TRUE}, status : Statuses] \cup {NotMine}

\* A status that has arrived carries its number, a history.
Numbered == [no : 1..MaxExpected, body : Expected]

Event == [session : Sessions, state : {"add", "remove"}]

ASSUME KeysAssumption == ForwardKeys \cap ProceedKeys = {}
ASSUME StatusesAssumption == Statuses \subseteq [clients : SUBSET Sessions, tracks : Tracks]
ASSUME NoneAssumption == None \notin Numbered
ASSUME BoundsAssumption == MaxEvents \in Nat /\ MaxExpected \in Nat

VARIABLES
  sessionEventCh,
  events,        \* how many session events were fetched
  clientSet,
  trackSet,      \* forwardTrackSet and proceedTrackSet
  routers,       \* forwardings and proceedings: the newest parameter of each key
  statusRecvCh,  \* channel of capacity 1
  arriving,      \* the status OnSFUStatusRecv holds between drain and push
  arrived,       \* how many statuses have arrived
  synced,        \* history: the number of the last status syncStatus was called with
  statusSendCh,  \* channel of capacity 1: whether the token is in it
  reported,      \* history: the clients in the last status main has built
  built,         \* history: how many statuses main has built, which numbers them
  starting,      \* the numbers of the statuses whose Do has not run
  sends,         \* the running operations of sendSFUStatusExec
  delivered      \* history: the number of the last status sent on the stream

sessionVars == <<sessionEventCh, events, clientSet>>
trackVars == <<trackSet, routers>>
recvVars == <<statusRecvCh, arriving, arrived, synced>>
sendVars == <<reported, built, starting, sends, delivered>>
vars == <<sessionVars, trackVars, recvVars, statusSendCh, sendVars>>

NoTracks == [k \in {} |-> None]

Init ==
  /\ sessionEventCh = <<>>
  /\ events = 0
  /\ clientSet = {}
  /\ trackSet = NoTracks
  /\ routers = NoTracks
  /\ statusRecvCh = None
  /\ arriving = None
  /\ arrived = 0
  /\ synced = 0
  /\ statusSendCh = TRUE
  /\ reported = {}
  /\ built = 0
  /\ starting = {}
  /\ sends = {}
  /\ delivered = 0

-----------------------------------------------------------------------------
(* Other goroutines hand over to main *)

\* The channel of 1024 events is never full under the bound.
FetchSessionEvent(e) ==
  /\ events < MaxEvents
  /\ events' = events + 1
  /\ sessionEventCh' = Append(sessionEventCh, e)
  /\ UNCHANGED <<clientSet, trackVars, recvVars, statusSendCh, sendVars>>

\* Variant with a bug: what waits stays, and the new status is dropped.
RecvStatusWithoutDrain(st) ==
  /\ arriving = None
  /\ arrived < MaxExpected
  /\ arrived' = arrived + 1
  /\ arriving' = [no |-> arrived', body |-> st]
  /\ UNCHANGED <<statusRecvCh, synced, sessionVars, trackVars, statusSendCh, sendVars>>

\* OnSFUStatusRecv takes out what main has not taken, then pushes.
RecvStatus(st) ==
  /\ arriving = None
  /\ arrived < MaxExpected
  /\ arrived' = arrived + 1
  /\ arriving' = [no |-> arrived', body |-> st]
  /\ statusRecvCh' = None
  /\ UNCHANGED <<synced, sessionVars, trackVars, statusSendCh, sendVars>>

PushStatus ==
  /\ arriving # None
  /\ statusRecvCh' = IF statusRecvCh = None THEN arriving ELSE statusRecvCh
  /\ arriving' = None
  /\ UNCHANGED <<arrived, synced, sessionVars, trackVars, statusSendCh, sendVars>>

-----------------------------------------------------------------------------
(* main *)

\* A token that is still in the channel is enough.
NotifySFUStatus == statusSendCh' = TRUE

\* Variant with a bug: a removed session is not reported.
HandleSessionEventSilently ==
  /\ sessionEventCh # <<>>
  /\ sessionEventCh' = Tail(sessionEventCh)
  /\ LET e == Head(sessionEventCh)
     IN  /\ clientSet' = IF e.state = "add" THEN clientSet \cup {e.session}
                         ELSE clientSet \ {e.session}
         /\ statusSendCh' = (statusSendCh \/ e.state = "add")
  /\ UNCHANGED <<events, trackVars, recvVars, sendVars>>

HandleSessionEvent ==
  /\ sessionEventCh # <<>>
  /\ sessionEventCh' = Tail(sessionEventCh)
  /\ LET e == Head(sessionEventCh)
     IN  clientSet' = IF e.state = "add" THEN clientSet \cup {e.session}
                      ELSE clientSet \ {e.session}
  /\ NotifySFUStatus
  /\ UNCHANGED <<events, trackVars, recvVars, sendVars>>

TakeStatus ==
  /\ statusRecvCh # None
  /\ synced' = statusRecvCh.no
  /\ statusRecvCh' = None
  /\ UNCHANGED <<arriving, arrived, sessionVars, sendVars>>

ForThisNode(st) == st.mine /\ st.status.clients = clientSet

\* A status for another node, or for other clients, is dropped and answered
\* with the node's own.
RejectStatus ==
  /\ TakeStatus
  /\ ~ForThisNode(statusRecvCh.body)
  /\ NotifySFUStatus
  /\ UNCHANGED trackVars

(* What DisorderSet.Update returns for the index old and the list new *)
Deleted(old, new)  == DOMAIN old \ DOMAIN new
Added(old, new)    == DOMAIN new \ DOMAIN old
Replaced(old, new) == {k \in DOMAIN old \cap DOMAIN new : old[k] # new[k]}

(* The routers' methods, for a set of keys: r is the map of watchdogs *)

Stop(r, ks) == [k \in DOMAIN r \ ks |-> r[k]]

\* Variant with a bug: only the watchdog in a copy of the map's entry learns of
\* the new track.
ReplaceCopy(r, ks, new) == r

\* A key without a watchdog is ignored.
Replace(r, ks, new) == [k \in DOMAIN r |-> IF k \in ks THEN new[k] ELSE r[k]]

\* A key that has a watchdog already is a replacement.
Start(r, ks, new) == [k \in DOMAIN r \cup ks |-> IF k \in ks THEN new[k] ELSE r[k]]

SyncStatus ==
  /\ TakeStatus
  /\ ForThisNode(statusRecvCh.body)
  /\ LET old  == trackSet
         new  == statusRecvCh.body.status.tracks
         rest == Replace(Stop(routers, Deleted(old, new)), Replaced(old, new), new)
     IN  /\ trackSet' = new
         /\ routers' = Start(rest, Added(old, new), new)
  /\ UNCHANGED statusSendCh

\* The status is built from the sets, and sent by a goroutine of its own.
SendLatest ==
  /\ statusSendCh
  /\ statusSendCh' = FALSE
  /\ reported' = clientSet
  /\ built' = built + 1
  /\ starting' = starting \cup {built'}
  /\ UNCHANGED <<sends, delivered, sessionVars, trackVars, recvVars>>

-----------------------------------------------------------------------------
(* Client.SendSFUStatus *)

Operation(i) == [id |-> i, pc |-> "check", cancelled |-> FALSE]

\* Variant with a bug: the last operation is not cancelled.
DoWithoutCancel(i) ==
  /\ i \in starting
  /\ starting' = starting \ {i}
  /\ sends' = sends \cup {Operation(i)}
  /\ UNCHANGED <<reported, built, delivered, sessionVars, trackVars, recvVars, statusSendCh>>

\* SingleLatestExec.Do, under its mutex: cancel the last operation, start the
\* new one.
Do(i) ==
  /\ i \in starting
  /\ starting' = starting \ {i}
  /\ sends' = {[o EXCEPT !.cancelled = TRUE] : o \in sends} \cup {Operation(i)}
  /\ UNCHANGED <<reported, built, delivered, sessionVars, trackVars, recvVars, statusSendCh>>

StepOf(o) ==
  /\ o \in sends
  /\ UNCHANGED <<reported, built, starting, sessionVars, trackVars, recvVars, statusSendCh>>

\* The operation looks at its context, and stops or goes on to the stream.
Cancelled(o) ==
  /\ StepOf(o)
  /\ o.pc = "check" /\ o.cancelled
  /\ sends' = sends \ {o}
  /\ UNCHANGED delivered

Proceed(o) ==
  /\ StepOf(o)
  /\ o.pc = "check" /\ ~o.cancelled
  /\ sends' = (sends \ {o}) \cup {[o EXCEPT !.pc = "send"]}
  /\ UNCHANGED delivered

Sent(o) ==
  /\ StepOf(o)
  /\ o.pc = "send"
  /\ sends' = sends \ {o}
  /\ delivered' = o.id

\* Variant with a bug: a failed status is given up.
SendFailsForGood(o) ==
  /\ StepOf(o)
  /\ o.pc = "send"
  /\ sends' = sends \ {o}
  /\ UNCHANGED delivered

\* There is no stream, or its Send fails: reconnect, then look again.
SendFails(o) ==
  /\ StepOf(o)
  /\ o.pc = "send"
  /\ sends' = (sends \ {o}) \cup {[o EXCEPT !.pc = "check"]}
  /\ UNCHANGED delivered

-----------------------------------------------------------------------------
Arrive == (\E e \in Event : FetchSessionEvent(e)) \/ (\E st \in Expected : RecvStatus(st))

Main == HandleSessionEvent \/ RejectStatus \/ SyncStatus \/ SendLatest

Sending ==
  \/ \E i \in starting : Do(i)
  \/ \E o \in sends : Cancelled(o) \/ Proceed(o) \/ Sent(o) \/ SendFails(o)

\* Every goroutine waits: main in its select, the others for the environment.
Quiet ==
  /\ sessionEventCh = <<>> /\ statusRecvCh = None /\ ~statusSendCh
  /\ arriving = None /\ starting = {} /\ sends = {}
  /\ UNCHANGED vars

Next == Arrive \/ PushStatus \/ Main \/ Sending \/ Quiet

Spec == Init /\ [][Next]_vars

\* The goroutines that send run, and a stream that is used again and again works
\* at last.
FairSpec ==
  /\ Spec
  /\ WF_vars(Sending)
  /\ SF_vars(\E o \in sends : Sent(o))

-----------------------------------------------------------------------------
(* Properties *)

\* The type invariant.
TypeOK ==
  /\ sessionEventCh \in Seq(Event)
  /\ events \in 0..MaxEvents
  /\ clientSet \subseteq Sessions
  /\ trackSet \in Tracks
  /\ routers \in Tracks
  /\ {statusRecvCh, arriving} \subseteq Numbered \cup {None}
  /\ arrived \in 0..MaxExpected
  /\ synced \in 0..arrived
  /\ statusSendCh \in BOOLEAN
  /\ reported \subseteq Sessions
  /\ built \in Nat
  /\ starting \subseteq 1..built
  /\ sends \subseteq [id : 1..built, pc : {"check", "send"}, cancelled : BOOLEAN]
  /\ delivered \in 0..built

\* Whatever statuses arrive, the routers run what the sets say: a watchdog for
\* each key of the index, with the index's track as its newest parameter
\* (syncer.go:121-151, forward.go:52-89, proceed.go:32-68).
RoutersFollow == routers = trackSet

\* A change of the clients is never forgotten, although many changes share one
\* token: when no status is due, the last one built has the present clients
\* (syncer.go:75, 92-98, 156-166, 183-192).
ClientsReported ==
  ~statusSendCh => built > 0 /\ reported = clientSet

\* Whatever the order in which the goroutines call Do, at most one operation of
\* SendSFUStatus is not cancelled (lock.go:79-91).
OneLiveSend ==
  \A o1, o2 \in sends : ~o1.cancelled /\ ~o2.cancelled => o1 = o2

\* The newest status that has arrived is never lost to an older one: it is on its
\* way to main, or main has had it (syncer.go:76-88, 167-172).
LatestReceived ==
  arrived = IF arriving # None THEN arriving.no
            ELSE IF statusRecvCh # None THEN statusRecvCh.no
            ELSE synced

\* The number of what waits for main: OnSFUStatusRecv has drained for it, or it is in
\* the channel.
Waiting ==
  IF arriving # None THEN arriving.no ELSE IF statusRecvCh # None THEN statusRecvCh.no ELSE 0

Mailbox == INSTANCE LatestMailbox WITH
  Keys <- {"main"}, Values <- 1..MaxExpected, Nothing <- 0,
  pending <- [k \in {"main"} |-> Waiting], taken <- [k \in {"main"} |-> synced]

\* Drain and push behave as one atomic replacement of the status that waits, and
\* main handles each status it takes once (syncer.go:76-88, 167-172).
ImplementsMailbox == Mailbox!Spec

\* The lists without repeated keys, in any order, up to all the keys.
ListsOf(tracks) ==
  {list \in [1..Cardinality(DOMAIN tracks) -> [key : DOMAIN tracks, data : Infos]] :
     /\ {list[n].key : n \in DOMAIN list} = DOMAIN tracks
     /\ \A n \in DOMAIN list : list[n].data = tracks[list[n].key]}

\* The loop of DisorderSet.Update (set.go:65-99), run on the present index and
\* any list, leaves the list in the index and returns exactly the difference
\* that SyncStatus hands to the routers; IsSame says whether there is one.
UpdateIsDifference ==
  \A new \in Tracks : IsFiniteSet(DOMAIN new) => \A list \in ListsOf(new) :
    LET result == Update(trackSet, list)
    IN  /\ result.index = new
        /\ {result.add[n] : n \in DOMAIN result.add}
             = {[key |-> k, data |-> new[k]] : k \in Added(trackSet, new)}
        /\ {result.replace[n] : n \in DOMAIN result.replace}
             = {[key |-> k, old |-> trackSet[k], new |-> new[k]] : k \in Replaced(trackSet, new)}
        /\ result.del
             = {[key |-> k, data |-> trackSet[k]] : k \in Deleted(trackSet, new)}
        /\ IsSame(trackSet, list) <=> trackSet = new

\* The inductive invariant: what is drained for a new status stays drained until
\* it is pushed (syncer.go:76-88).
IInv ==
  /\ TypeOK
  /\ RoutersFollow
  /\ ClientsReported
  /\ OneLiveSend
  /\ LatestReceived
  /\ arriving # None => statusRecvCh = None

Live(i) == \E o \in sends : o.id = i /\ ~o.cancelled

\* A status whose operation runs is sent in the end, however often the stream
\* fails, unless a later call of Do cancels it (client.go:79-103).
SentUnlessCancelled ==
  \A i \in 1..(1 + MaxEvents + MaxExpected) :
    Live(i) ~> delivered = i \/ \E o \in sends : o.id = i /\ o.cancelled

\* syncer.go:93, "Only send latest status": when nothing is left to send, the
\* last status that was sent is the last one built.
LatestSentLast ==
  starting = {} /\ sends = {} => delivered = built

=============================================================================
