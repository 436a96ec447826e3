--------------------------- MODULE SFUStatusSender ---------------------------
(***************************************************************************)
(* routineSFUStatusSend of pkg/isglb/service.go, for one stream.           *)
(*                                                                         *)
(* The routine takes each expected status from the unbuffered sendCh and   *)
(* puts it in a channel of capacity 1 that belongs to the status's nid; a  *)
(* worker goroutine per nid takes it from there and calls sig.Send, which  *)
(* may take any time or fail.  The routine must come back to sendCh        *)
(* whatever the workers do, because the server's receive routine waits for *)
(* it with sendChsMu locked (module ISGLBService, actions SendExpected and *)
(* SenderStored).                                                          *)
(***************************************************************************)
EXTENDS SFUStatus

CONSTANT None

ASSUME NoneAssumption == None \notin Statuses /\ None \notin Nids

VARIABLES
  open,     \* sendCh is not closed
  pc,       \* where the routine is
  held,     \* the message the routine holds: a nid and a status
  box,      \* latestStatusChs: what each channel of capacity 1 holds
  worker,   \* where the worker of each nid is
  taken,    \* the last status each worker took, and passed to sig.Send
  last      \* history: the last status received from sendCh for each nid

senderVars == <<open, pc, held, box, worker, taken, last>>

Nothing == [nid |-> None, status |-> None]

SenderInit ==
  /\ open = TRUE
  /\ pc = "receive"
  /\ held = Nothing
  /\ box = [n \in Nids |-> None]
  /\ worker = [n \in Nids |-> "none"]
  /\ taken = [n \in Nids |-> None]
  /\ last = [n \in Nids |-> None]

-----------------------------------------------------------------------------
(* The routine *)

\* The rendezvous on sendCh; the first message of a nid creates its channel and
\* its worker.
ReceiveExpected(n, st) ==
  /\ pc = "receive" /\ open
  /\ held' = [nid |-> n, status |-> st]
  /\ last' = [last EXCEPT ![n] = st]
  /\ worker' = [worker EXCEPT ![n] = IF @ = "none" THEN "wait" ELSE @]
  /\ pc' = "offer"
  /\ UNCHANGED <<open, box, taken>>

\* The message is in the channel: the routine goes back to sendCh.
Store ==
  /\ box[held.nid] = None
  /\ box' = [box EXCEPT ![held.nid] = held.status]
  /\ held' = Nothing
  /\ pc' = "receive"
  /\ UNCHANGED <<open, worker, taken, last>>

OfferAccepted == pc = "offer" /\ Store

\* Variant with a bug: a refused status is dropped.
OfferDropped ==
  /\ pc = "offer"
  /\ box[held.nid] # None
  /\ held' = Nothing
  /\ pc' = "receive"
  /\ UNCHANGED <<open, box, worker, taken, last>>

OfferRefused ==
  /\ pc = "offer"
  /\ box[held.nid] # None
  /\ pc' = "drain"
  /\ UNCHANGED <<open, held, box, worker, taken, last>>

\* Variants with a bug: nothing is taken out; nothing is put in its place.
DrainNothing ==
  /\ pc = "drain"
  /\ pc' = "push"
  /\ UNCHANGED <<open, held, box, worker, taken, last>>

DrainOnly ==
  /\ pc = "drain"
  /\ box' = [box EXCEPT ![held.nid] = None]
  /\ held' = Nothing
  /\ pc' = "receive"
  /\ UNCHANGED <<open, worker, taken, last>>

\* Non-blocking receive: the worker may have emptied the channel meanwhile.
Drain ==
  /\ pc = "drain"
  /\ box' = [box EXCEPT ![held.nid] = None]
  /\ pc' = "push"
  /\ UNCHANGED <<open, held, worker, taken, last>>

\* The blocking "latestStatusCh <- msg".
PushLatest == pc = "push" /\ Store

\* sendCh is closed: the deferred loop closes the channels and the workers
\* finish what is in them.
Exit ==
  /\ pc = "receive" /\ ~open
  /\ pc' = "exited"
  /\ UNCHANGED <<open, held, box, worker, taken, last>>

\* The SyncSFU handler closes sendCh.
Close ==
  /\ open
  /\ open' = FALSE
  /\ UNCHANGED <<pc, held, box, worker, taken, last>>

-----------------------------------------------------------------------------
(* The worker of nid n *)

TakeLatest(n) ==
  /\ worker[n] = "wait"
  /\ box[n] # None
  /\ taken' = [taken EXCEPT ![n] = box[n]]
  /\ box' = [box EXCEPT ![n] = None]
  /\ worker' = [worker EXCEPT ![n] = "send"]
  /\ UNCHANGED <<open, pc, held, last>>

\* sig.Send succeeds, or fails in a way that is only logged.
SigSendReturns(n) ==
  /\ worker[n] = "send"
  /\ worker' = [worker EXCEPT ![n] = "wait"]
  /\ UNCHANGED <<open, pc, held, box, taken, last>>

\* sig.Send fails with EOF or Canceled, or the channel is closed and empty.
WorkerExits(n) ==
  /\ \/ worker[n] = "send"
     \/ worker[n] = "wait" /\ pc = "exited" /\ box[n] = None
  /\ worker' = [worker EXCEPT ![n] = "exited"]
  /\ UNCHANGED <<open, pc, held, box, taken, last>>

\* The stream has ended and every goroutine of it that ever ran has exited.
Ended ==
  /\ pc = "exited"
  /\ \A n \in Nids : worker[n] \in {"none", "exited"}
  /\ UNCHANGED senderVars

-----------------------------------------------------------------------------
SenderRoutine ==
  \/ \E n \in Nids, st \in Statuses : ReceiveExpected(n, st)
  \/ OfferAccepted \/ OfferRefused \/ Drain \/ PushLatest
  \/ Exit

Worker(n) == TakeLatest(n) \/ SigSendReturns(n) \/ WorkerExits(n)

SenderNext == SenderRoutine \/ Close \/ (\E n \in Nids : Worker(n)) \/ Ended

SenderSpec == SenderInit /\ [][SenderNext]_senderVars

\* Only the routine itself is sure to run: a worker may stay in sig.Send.
RoutineFairness ==
  WF_senderVars(OfferAccepted \/ OfferRefused \/ Drain \/ PushLatest \/ Exit)

StuckSpec == SenderSpec /\ RoutineFairness

\* Where every call of sig.Send returns too.  The worker's receive is strongly
\* fair: Go hands a value to the goroutine that waits for it on the channel, so
\* the routine cannot drain and refill the channel before it for ever.
WorkerFairness ==
  \A n \in Nids : /\ SF_senderVars(TakeLatest(n))
                  /\ WF_senderVars(SigSendReturns(n) \/ WorkerExits(n))

-----------------------------------------------------------------------------
(* Properties *)

\* The type invariant.
SenderTypeOK ==
  /\ open \in BOOLEAN
  /\ pc \in {"receive", "offer", "drain", "push", "exited"}
  /\ IF pc \in {"offer", "drain", "push"}
     THEN held \in [nid : Nids, status : Statuses] ELSE held = Nothing
  /\ box \in [Nids -> Statuses \cup {None}]
  /\ worker \in [Nids -> {"none", "wait", "send", "exited"}]
  /\ taken \in [Nids -> Statuses \cup {None}]
  /\ last \in [Nids -> Statuses \cup {None}]

\* The blocking push finds room whatever the worker did between the refused
\* offer and the drain (service.go:258-267): no one else fills the channel.
PushNeverBlocks == pc = "push" => box[held.nid] = None

\* The newest status of a nid is where it can still be sent from, or was the
\* last one passed to sig.Send: an older one never takes its place.
Newest(n) ==
  IF held.nid = n THEN held.status
  ELSE IF box[n] # None THEN box[n] ELSE taken[n]

LatestSurvives == \A n \in Nids : last[n] = Newest(n)

\* The routine always comes back to sendCh, even if no call of sig.Send ever
\* returns.
ComesBack == pc \in {"offer", "drain", "push"} ~> pc = "receive"

\* If calls of sig.Send return, each status is passed to sig.Send unless a newer
\* one of the nid replaces it or the worker exits on a broken stream.
LatestIsSent ==
  WorkerFairness =>
    \A n \in Nids, st \in Statuses :
      last[n] = st ~> taken[n] = st \/ last[n] # st \/ worker[n] = "exited"

\* Once the refused offer is followed by the drain, the held message is what
\* the mailbox holds.
Mailbox == INSTANCE LatestMailbox WITH
  Keys <- Nids, Values <- Statuses, Nothing <- None,
  pending <- [n \in Nids |-> IF pc = "push" /\ held.nid = n THEN held.status ELSE box[n]]

\* Offer, drain and push behave as one atomic replacement of the waiting value,
\* although the worker may take that value at any moment in between.
ImplementsMailbox == Mailbox!Spec

Channel == INSTANCE SendChannels WITH
  Sigs <- {"stream"}, open <- IF open THEN {"stream"} ELSE {},
  sender <- [s \in {"stream"} |-> CASE pc = "receive" -> "ready"
                                    [] pc = "exited"  -> "exited"
                                    [] OTHER          -> "busy"]

\* The sender that the server reckons with: whatever sig.Send does, it takes one
\* status at a time, and leaves only after its channel was closed
\* (service.go:222-270).
KeepsToChannel == Channel!OpenedSpec

=============================================================================
