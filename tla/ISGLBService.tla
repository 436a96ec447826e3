---------------------------- MODULE ISGLBService -----------------------------
(***************************************************************************)
(* The ISGLB server of pkg/isglb/service.go.                               *)
(*                                                                         *)
(* Three kinds of goroutine share state:                                   *)
(*   - one SyncSFU handler per gRPC stream (variable handler), which       *)
(*     pushes what it receives to recvCh and, when the stream breaks,      *)
(*     closes its send channel and pushes a deletion;                      *)
(*   - the one routineSFUStatusRecv (variable routine), which drains       *)
(*     recvCh in batches, calls the algorithm and sends to each node the   *)
(*     status the algorithm expects of it;                                 *)
(*   - one routineSFUStatusSend per stream (variable sender), which takes  *)
(*     from an unbuffered channel.  Here it is only ready or busy; what it *)
(*     does while busy is module SFUStatusSender.                          *)
(*                                                                         *)
(* A stream (sig) is a pointer, so it is never used again after its        *)
(* handler returns: a client that reconnects is another member of Sigs,    *)
(* and may report the same nid.                                            *)
(***************************************************************************)
EXTENDS SFUStatus, SetMapOps, Naturals, Sequences

CONSTANTS
  Sigs,         \* streams, the *pb.ISGLB_SyncSFUServer pointers
  Reports,      \* QualityReport messages
  RecvCap,      \* capacity of recvCh, 4096 in the code
  MaxRequests   \* bound: requests that all clients together send

ASSUME RecvCapAssumption == RecvCap \in Nat \ {0}
ASSUME MaxRequestsAssumption == MaxRequests \in Nat

VARIABLES
  handler,      \* where each SyncSFU call is
  requests,     \* how many requests the streams have delivered
  sendChs,      \* streams with an entry in sendChs: their channel is open
  recvCh,
  routine,      \* where routineSFUStatusRecv is
  WhereToSend,  \* nid <-> sig
  latestStatus, \* nid -> SFUStatus, as known or as last sent
  counted,      \* recvCount > 0
  savedReports,
  expected,     \* the part of expectedStatusDict not yet looked at
  sending,      \* the blocking send at service.go:208, when routine = "sending"
  sender        \* where each routineSFUStatusSend is

handlerVars == <<handler, requests, sendChs>>
batchVars == <<WhereToSend, latestStatus, counted, savedReports>>
vars == <<handlerVars, recvCh, routine, batchVars, expected, sending, sender>>

StatusMsg(s, n, st) == [type |-> "status", sig |-> s, nid |-> n, status |-> st]
ReportMsg(s, r)     == [type |-> "report", sig |-> s, report |-> r]
DeletedMsg(s)       == [type |-> "deleted", sig |-> s]

Message ==
  {StatusMsg(s, n, st) : s \in Sigs, n \in Nids, st \in Statuses}
    \cup {ReportMsg(s, r) : s \in Sigs, r \in Reports}
    \cup {DeletedMsg(s) : s \in Sigs}

NoStatus == [n \in {} |-> {}]

Save(map, n, st) == [k \in DOMAIN map \cup {n} |-> IF k = n THEN st ELSE map[k]]
Without(map, ns) == [k \in DOMAIN map \ ns |-> map[k]]

\* sendChsMu: the receive routine holds the read lock while it sends; every
\* write-locked section is one action.
ReadLocked == routine = "sending"

Init ==
  /\ handler = [s \in Sigs |-> "idle"]
  /\ requests = 0
  /\ sendChs = {}
  /\ recvCh = <<>>
  /\ routine = "off"
  /\ WhereToSend = NewSetMapaMteS
  /\ latestStatus = NoStatus
  /\ counted = FALSE
  /\ savedReports = {}
  /\ expected = NoStatus
  /\ sending = {}
  /\ sender = [s \in Sigs |-> "off"]

-----------------------------------------------------------------------------
(* SyncSFU, one handler per stream *)

Open(s) ==
  /\ handler[s] = "idle"
  /\ ~ReadLocked
  /\ handler' = [handler EXCEPT ![s] = "recv"]
  /\ sendChs' = sendChs \cup {s}
  /\ sender' = [sender EXCEPT ![s] = "ready"]
  /\ UNCHANGED <<requests, recvCh, routine, batchVars, expected, sending>>

\* sig.Recv returns a request and the handler pushes it; a full recvCh blocks.
Push(msg) == Len(recvCh) < RecvCap /\ recvCh' = Append(recvCh, msg)

RecvRequest(s) ==
  /\ handler[s] = "recv"
  /\ requests < MaxRequests
  /\ requests' = requests + 1
  /\ \/ \E n \in Nids, st \in Statuses : Push(StatusMsg(s, n, st))
     \/ \E r \in Reports : Push(ReportMsg(s, r))
  /\ UNCHANGED <<handler, sendChs, routine, batchVars, expected, sending, sender>>

\* sig.Recv returns an error: EOF, Canceled or another one.
RecvError(s) ==
  /\ handler[s] = "recv"
  /\ handler' = [handler EXCEPT ![s] = "closing"]
  /\ UNCHANGED <<requests, sendChs, recvCh, routine, batchVars, expected, sending, sender>>

\* Variant with a bug: the channel is closed without the write lock.
CloseUnlocked(s) ==
  /\ handler[s] = "closing"
  /\ handler' = [handler EXCEPT ![s] = "deleting"]
  /\ sendChs' = sendChs \ {s}
  /\ UNCHANGED <<requests, recvCh, routine, batchVars, expected, sending, sender>>

\* The deferred calls run last-in first-out: first the channel is closed and
\* taken out of sendChs under the write lock, then the deletion is pushed.
CloseSendCh(s) ==
  /\ handler[s] = "closing"
  /\ ~ReadLocked
  /\ handler' = [handler EXCEPT ![s] = "deleting"]
  /\ sendChs' = sendChs \ {s}
  /\ UNCHANGED <<requests, recvCh, routine, batchVars, expected, sending, sender>>

\* Variant with a bug: the deletion is dropped when recvCh is full.
PushDeletedOrDrop(s) ==
  /\ handler[s] = "deleting"
  /\ \/ Push(DeletedMsg(s))
     \/ Len(recvCh) = RecvCap /\ UNCHANGED recvCh
  /\ handler' = [handler EXCEPT ![s] = "done"]
  /\ UNCHANGED <<requests, sendChs, routine, batchVars, expected, sending, sender>>

PushDeleted(s) ==
  /\ handler[s] = "deleting"
  /\ Push(DeletedMsg(s))
  /\ handler' = [handler EXCEPT ![s] = "done"]
  /\ UNCHANGED <<requests, sendChs, routine, batchVars, expected, sending, sender>>

-----------------------------------------------------------------------------
(* routineSFUStatusRecv *)

\* recvChMu.Do in each handler: the first call to take the token runs the
\* routine, which never returns because nothing closes recvCh.
StartRoutine ==
  /\ routine = "off"
  /\ \E s \in Sigs : handler[s] # "idle"
  /\ routine' = "batch"
  /\ UNCHANGED <<handlerVars, recvCh, batchVars, expected, sending, sender>>

Receive(type) ==
  /\ routine = "batch"
  /\ recvCh # <<>>
  /\ Head(recvCh).type = type
  /\ recvCh' = Tail(recvCh)
  /\ UNCHANGED <<handlerVars, routine, expected, sending, sender>>

\* Variants with a bug: the status of a node without streams stays; the node
\* leaves although others report it.
ReceiveDeletedKeepsStatus ==
  LET sig    == Head(recvCh).sig
      unique == GetUniqueKeys(WhereToSend, sig)
  IN  /\ Receive("deleted")
      /\ WhereToSend' = RemoveValue(RemoveKeys(WhereToSend, unique), sig)
      /\ counted' = (counted \/ unique # {})
      /\ UNCHANGED <<latestStatus, savedReports>>

ReceiveDeletedForAll ==
  LET sig  == Head(recvCh).sig
      keys == GetKeys(WhereToSend, sig)
  IN  /\ Receive("deleted")
      /\ WhereToSend' = RemoveValue(RemoveKeys(WhereToSend, keys), sig)
      /\ latestStatus' = Without(latestStatus, keys)
      /\ counted' = (counted \/ keys \cap DOMAIN latestStatus # {})
      /\ UNCHANGED savedReports

ReceiveDeleted ==
  LET sig    == Head(recvCh).sig
      unique == GetUniqueKeys(WhereToSend, sig)
  IN  /\ Receive("deleted")
      /\ WhereToSend' = RemoveValue(RemoveKeys(WhereToSend, unique), sig)
      /\ latestStatus' = Without(latestStatus, unique)
      /\ counted' = (counted \/ unique \cap DOMAIN latestStatus # {})
      /\ UNCHANGED savedReports

\* Variant with a bug: a report does not count.
ReceiveReportUncounted ==
  /\ Receive("report")
  /\ savedReports' = savedReports \cup {Head(recvCh).report}
  /\ UNCHANGED <<WhereToSend, latestStatus, counted>>

ReceiveReport ==
  LET report == Head(recvCh).report
  IN  /\ Receive("report")
      /\ savedReports' = savedReports \cup {report}
      /\ counted' = (counted \/ report \notin savedReports)
      /\ UNCHANGED <<WhereToSend, latestStatus>>

Unchanged(n, st) == n \in DOMAIN latestStatus /\ latestStatus[n] = st

ReceiveStatus ==
  LET msg == Head(recvCh)
  IN  /\ Receive("status")
      /\ WhereToSend' = Add(WhereToSend, msg.nid, msg.sig)
      /\ IF Unchanged(msg.nid, msg.status)
         THEN UNCHANGED <<latestStatus, counted>>
         ELSE /\ latestStatus' = Save(latestStatus, msg.nid, msg.status)
              /\ counted' = TRUE
      /\ UNCHANGED savedReports

\* The batch ends when something counted and recvCh is empty.  The algorithm
\* is an interface: it may expect any status of any nodes.
UpdateSFUStatus ==
  /\ routine = "batch"
  /\ counted
  /\ recvCh = <<>>
  /\ \E ns \in SUBSET Nids : \E exp \in [ns -> Statuses] : expected' = exp
  /\ routine' = "dispatch"
  /\ UNCHANGED <<handlerVars, recvCh, batchVars, sending, sender>>

\* One turn of the loop over expectedStatusDict, in map order.
Take(n) ==
  /\ routine = "dispatch"
  /\ n \in DOMAIN expected
  /\ expected' = Without(expected, {n})
  /\ UNCHANGED <<handlerVars, recvCh, batchVars, sender>>

SkipUnchanged(n) ==
  /\ Take(n)
  /\ Unchanged(n, expected[n])
  /\ UNCHANGED <<routine, sending>>

SkipNoSig(n) ==
  /\ Take(n)
  /\ ~Unchanged(n, expected[n])
  /\ GetSet(WhereToSend.fwd, n) = {}
  /\ UNCHANGED <<routine, sending>>

\* sigs[0] of a Go map's keys is any stream bound to the node.
FirstSig(n, s) ==
  /\ Take(n)
  /\ ~Unchanged(n, expected[n])
  /\ s \in GetSet(WhereToSend.fwd, n)

SkipNoSendCh(n, s) ==
  /\ FirstSig(n, s)
  /\ s \notin sendChs
  /\ UNCHANGED <<routine, sending>>

BeginSend(n, s) ==
  /\ FirstSig(n, s)
  /\ s \in sendChs
  /\ routine' = "sending"
  /\ sending' = [nid |-> n, sig |-> s, status |-> expected[n]]

Dispatch(n) ==
  \/ SkipUnchanged(n)
  \/ SkipNoSig(n)
  \/ \E s \in Sigs : SkipNoSendCh(n, s) \/ BeginSend(n, s)

\* The unbuffered channel: the send completes when the sender takes it.
SendExpected ==
  /\ routine = "sending"
  /\ sender[sending.sig] = "ready"
  /\ sender' = [sender EXCEPT ![sending.sig] = "busy"]
  /\ latestStatus' = Save(latestStatus, sending.nid, sending.status)
  /\ routine' = "dispatch"
  /\ sending' = {}
  /\ UNCHANGED <<handlerVars, recvCh, WhereToSend, counted, savedReports, expected>>

EndDispatch ==
  /\ routine = "dispatch"
  /\ DOMAIN expected = {}
  /\ routine' = "batch"
  /\ counted' = FALSE
  /\ savedReports' = {}
  /\ UNCHANGED <<handlerVars, recvCh, WhereToSend, latestStatus, expected, sending, sender>>

-----------------------------------------------------------------------------
(* routineSFUStatusSend, one per stream *)

SenderStored(s) ==
  /\ sender[s] = "busy"
  /\ sender' = [sender EXCEPT ![s] = "ready"]
  /\ UNCHANGED <<handlerVars, recvCh, routine, batchVars, expected, sending>>

\* Variant with a bug: the sender leaves when sig.Send fails.
SenderExitsOnError(s) ==
  /\ sender[s] \in {"ready", "busy"}
  /\ s \notin sendChs \/ sender[s] = "busy"
  /\ sender' = [sender EXCEPT ![s] = "exited"]
  /\ UNCHANGED <<handlerVars, recvCh, routine, batchVars, expected, sending>>

SenderExit(s) ==
  /\ sender[s] = "ready"
  /\ s \notin sendChs
  /\ sender' = [sender EXCEPT ![s] = "exited"]
  /\ UNCHANGED <<handlerVars, recvCh, routine, batchVars, expected, sending>>

\* Every stream is gone and the routine waits for a message that never comes.
Quiet ==
  /\ \A s \in Sigs : handler[s] = "done" /\ sender[s] = "exited"
  /\ routine = "batch" /\ recvCh = <<>> /\ ~counted
  /\ UNCHANGED vars

-----------------------------------------------------------------------------
Handler(s) ==
  Open(s) \/ RecvRequest(s) \/ RecvError(s) \/ CloseSendCh(s) \/ PushDeleted(s)

Routine ==
  \/ StartRoutine
  \/ ReceiveDeleted \/ ReceiveReport \/ ReceiveStatus
  \/ UpdateSFUStatus
  \/ \E n \in Nids : Dispatch(n)
  \/ SendExpected
  \/ EndDispatch

Sender(s) == SenderStored(s) \/ SenderExit(s)

Next == (\E s \in Sigs : Handler(s) \/ Sender(s)) \/ Routine \/ Quiet

Spec == Init /\ [][Next]_vars

\* Goroutines run; clients need not connect, send or break their stream.
Fairness ==
  /\ WF_vars(Routine)
  /\ \A s \in Sigs : WF_vars(CloseSendCh(s) \/ PushDeleted(s)) /\ WF_vars(Sender(s))

FairSpec == Spec /\ Fairness

-----------------------------------------------------------------------------
(* Properties *)

\* The type invariant.
TypeOK ==
  /\ handler \in [Sigs -> {"idle", "recv", "closing", "deleting", "done"}]
  /\ requests \in 0..MaxRequests
  /\ sendChs \subseteq Sigs
  /\ recvCh \in Seq(Message)
  /\ Len(recvCh) <= RecvCap
  /\ routine \in {"off", "batch", "dispatch", "sending"}
  /\ IsSetMapaMteS(WhereToSend, Nids, Sigs)
  /\ DOMAIN latestStatus \subseteq Nids
  /\ latestStatus \in [DOMAIN latestStatus -> Statuses]
  /\ counted \in BOOLEAN
  /\ savedReports \subseteq Reports
  /\ DOMAIN expected \subseteq Nids
  /\ expected \in [DOMAIN expected -> Statuses]
  /\ IF routine = "sending"
     THEN sending \in [nid : Nids, sig : Sigs, status : Statuses]
     ELSE sending = {}
  /\ sender \in [Sigs -> {"off", "ready", "busy", "exited"}]

\* While the routine is blocked in "sendCh <- expectedStatus" (service.go:208)
\* the channel stays open and its stream's sender is still there to take it,
\* whatever handlers exit meanwhile: no send on a closed channel, and no wait
\* for a goroutine that has left.
NoSendOnClosedChannel ==
  routine = "sending" =>
    /\ sending.sig \in sendChs
    /\ sender[sending.sig] \in {"ready", "busy"}

DeletePending(s) == \E i \in 1..Len(recvCh) : recvCh[i] = DeletedMsg(s)

\* A handler that has returned leaves no trace once its deletion is processed:
\* no request of that stream is behind the deletion in recvCh to bind the dead
\* stream to a node again (service.go:59-64, 129-141, 159).
DeletedForgotten ==
  \A s \in Sigs :
    handler[s] = "done" /\ ~DeletePending(s) =>
      /\ s \notin DOMAIN WhereToSend.reverse
      /\ \A i \in 1..Len(recvCh) : recvCh[i].sig # s

\* The algorithm is told of exactly the nodes that some stream stands for:
\* a node leaves latestStatus when, and only when, its last stream leaves
\* WhereToSend (service.go:130-140, 159-166, 209).
NoGhostNode ==
  /\ WellFormed(WhereToSend, Nids, Sigs)
  /\ DOMAIN latestStatus = DOMAIN WhereToSend.fwd

Channels == INSTANCE SendChannels WITH open <- sendChs

\* Towards the senders the server keeps to module SendChannels: it hands a status
\* over on open channels only, and closes each channel once (service.go:66-73, 192-215).
KeepsToChannels == Channels!Spec

-----------------------------------------------------------------------------
(* The inductive invariant: what the properties above rest on *)

\* A channel is in sendChs from the registration (service.go:67) to the deferred
\* close (service.go:72-73), and its sender lives at least as long.
OpenChannels ==
  /\ sendChs = {s \in Sigs : handler[s] \in {"recv", "closing"}}
  /\ \A s \in sendChs : sender[s] \in {"ready", "busy"}

\* The stream being sent to still stands for the node it was looked up for
\* (service.go:201): the routine itself is the only one to unbind it.
SendingBound ==
  routine = "sending" => Exists(WhereToSend.fwd, sending.nid, sending.sig)

\* A deletion in recvCh is the last message of its stream.
DeletionIsLast ==
  \A i \in 1..Len(recvCh) :
    recvCh[i].type = "deleted" =>
      /\ handler[recvCh[i].sig] = "done"
      /\ \A j \in i+1..Len(recvCh) : recvCh[j].sig # recvCh[i].sig

\* Everything the routine and the handlers rely on of each other (RWMutex,
\* deferred calls and the order of recvCh), as one inductive invariant.
IInv ==
  /\ TypeOK
  /\ NoSendOnClosedChannel
  /\ DeletedForgotten
  /\ NoGhostNode
  /\ OpenChannels
  /\ SendingBound
  /\ DeletionIsLast

-----------------------------------------------------------------------------
(* What a step may never do, and what must happen *)

\* A stream stops being a way to reach a node only after its own handler has
\* returned: the deletion of one stream takes nothing from another stream that
\* reported the same node (service.go:130-140).
OnlyDeadStreamsUnbound ==
  [][\A n \in Nids, s \in Sigs :
       Exists(WhereToSend.fwd, n, s) /\ ~Exists(WhereToSend'.fwd, n, s)
         => handler[s] = "done"]_vars

\* A broken stream is eventually forgotten, even while the routine is sending
\* and recvCh is full.
BrokenStreamForgotten ==
  \A s \in Sigs :
    handler[s] = "closing" ~>
      handler[s] = "done" /\ s \notin DOMAIN WhereToSend.reverse

\* The routine never stays in a send: it comes back to receive.
SendReturns == routine = "sending" ~> routine = "batch"

\* A report that was saved is passed to the algorithm, with the batch it came
\* in (service.go:148-153, 183-189).
ReportReachesAlgorithm ==
  \A r \in Reports :
    r \in savedReports ~> routine = "dispatch" /\ r \in savedReports

\* proto/isglb.proto:13, "When forward path should change, send expected
\* SFUStatus from ISGLB to client": when the routine takes up a status that
\* differs from the known one and an open stream stands for that node, it sends
\* the status.
ExpectedSentWhenReachable ==
  [][\A n \in DOMAIN expected :
       /\ n \notin DOMAIN expected'
       /\ ~Unchanged(n, expected[n])
       /\ GetSet(WhereToSend.fwd, n) \cap sendChs # {}
       => routine' = "sending" /\ sending'.nid = n]_vars

=============================================================================
