# TLA+ models of dion

dion connects edge SFU nodes ("SXU") into a forwarding network.  A central
server, the ISGLB, collects the status of every SXU node, asks an algorithm what
each node should forward and process, and sends each node the status that is
expected of it.  Each SXU node compares the expected status with its own and
starts, changes and stops *forwardings* (pull a session from another node) and
*proceedings* (process local sessions into a new one).  Watchdogs keep those
running through failures.

The hard part of the program is not data but concurrency: goroutines that meet at
small channels, channels that keep only the latest value, streams that break and
come back, calls that run into each other without a lock.  The models keep that
control completely and reduce the data: a node id, a stream, a status or a track
list is a member of a small set.

## Inventory

| Component | State | Operations | What is hard | What makes it correct |
|---|---|---|---|---|
| `util/setmap.go` SetMapaMteS | a relation in two Go maps, forward and reverse | Add, Remove, RemoveKey, RemoveValue; GetUniqueKeys, GetUniqueValues | two maps updated one after the other in every method | the maps mirror each other, no empty sets, unique sets exact |
| `pkg/isglb/service.go` server | recvCh (4096), sendChs under an RWMutex, WhereToSend, latestStatus | SyncSFU per stream; one receive routine | the routine blocks in a send under the read lock while handlers close that channel; broken streams and their reconnections report one node | no send on a closed channel, no dead stream or ghost node stays, everything blocked is released |
| `pkg/isglb/service.go` per-stream sender | one channel of capacity 1 and one worker per nid | take from sendCh, replace the waiting status, sig.Send | non-blocking offer, drain and blocking push against a worker that takes at any time | always returns to sendCh; the newest status is never lost |
| `util/blockeddoor.go`, `pkg/sxu/signaller/signaller.go` | updateCh and retryCh (capacity 1), the door's track, cancel and r | Watch, Update, Leave; routine; BLock, Update, Remove | updates, retries and restarts compete; Update and Remove run while BLock sets the fields they read | the newest parameter reaches the door; Remove ends BLock |
| `util/watchdog.go`, `pkg/sxu/bridge/` | brokenCh shared by all doors, updateCh; the bridge's publisher, processor and entrances | Watch, Update, Leave; Lock, Repair, Update, Remove | late OnBroken of an old door; Lock repeated on a locked door; nested watchdogs | one publisher per bridge, one entrance per source session, the newest parameter comes in force, no dog runs on after Leave |
| `pkg/sxu/syncer/syncer.go` | three DisorderSets, statusRecvCh, statusSendCh, sessionEventCh | syncStatus, handleSessionEvent, the send goroutines, Stop | a goroutine per sent status; channels closed while used | the routers follow the sets; the last status sent is the newest |
| `pkg/sxu/forward.go`, `proceed.go` | map from key to watchdog | Start, Stop, Replace | the watchdog of a stopped forwarding goes on | one watchdog per key |
| `util/set.go` and keys in `pbimpl.go`, `nodeimpl.go` | index with check marks | Add, Del, Update, IsSame, Sort | lists with repeated keys | add, del and replace are exactly the difference |
| `util/client.go`, `pkg/isglb/client.go`, `util/lock.go` | current stream, reconnect count, running operation | DoWithClient, reconnect, SendSFUStatus, Close | failures of a stale stream; one reconnection shared by many callers | one stream at a time, the latest status reaches the server after a reconnection |
| `util/timer.go`, `pkg/sxu/room/` | a timer per (user, session), event channel (64); the client's connection and session | ClientHealth, expiry, FetchSessionEvent; keepAlive, reconnect | a timer that fires while it is reset; a handler that blocks the runner | every session in the map has one expiry and is reported; the wanted session comes back, a gone one goes |
| `pkg/sfu/service.go`, `tracker.go` | streams by peer id under a mutex, session events (16) | Signal: join, messages, deferred calls; the broadcasts of tracks | goroutines left behind; a broadcast that sends under the lock; the same user twice | each added client is removed, nothing is sent on a returned stream, Signal returns |
| `pkg/sfu` clients | the peer connection of the present stream, its handler, early candidates | Switch, refresh, Connect, Close; Join, negotiation, trickle | callbacks and goroutines of a peer connection that was replaced | the client comes back to a stream whose one Join is that of its own peer connection; no answer reaches the handler of an earlier one; no candidate is left over |
| `pkg/sxu/rtc` | local peer, remote stream, a mutex around Send | Run, Update; OnIceCandidate | three goroutines on one stream; cancellation | Join goes first; a cancelled Run returns; what is asked for is handed over |
| `pkg/islb`, `pkg/sxu/connpool.go` | neighbour nodes, connections by id | discovery callbacks, GetConn | a map shared without its lock, stale connections | a returned connection belongs to a live node (not modelled) |
| `algorithms`, `config`, `cmd`, `pkg/stupid`, generated code | | | | not modelled: interfaces, wiring, generated |

How they interact: an SXU node runs the syncer, whose client holds one stream to
the ISGLB server.  Room and SFU services feed session events to the syncer.  The
syncer's main loop calls the routers, which own one watchdog each per forwarding
or proceeding; the watchdogs build doors (Signaller, Bridge) and call them from
their own goroutines.

`PROJECT.json` lists the hazards of this code one by one, with the line where each
bites and the properties that cover it.

## Modules

| Module | Models | State and actions |
|---|---|---|
| `SetMapOps` | operators of `util/setmap.go` | a Go map is a function whose DOMAIN is the keys present; each operator updates both copies the way the method does and repairs nothing |
| `SetMapaMteS` | the type as a machine | one action per mutating method |
| `ManyToMany` | abstract | the relation the type promises |
| `ISGLBService` | `pkg/isglb/service.go`, `SingleExec` of `util/lock.go` | per stream: Open, RecvRequest, RecvError, CloseSendCh, PushDeleted (the deferred calls, last-in first-out); the routine: one action per message kind, UpdateSFUStatus, then one turn of the dispatch loop per action with the blocking send split in BeginSend and SendExpected; the sender as ready or busy |
| `SFUStatusSender` | `routineSFUStatusSend` | the routine's offer, drain and push are three actions; the worker takes, sends and exits in between |
| `SFUStatus` | constants | the nodes and statuses that the server and its senders both speak of |
| `LatestMailbox` | abstract | one-place mailbox whose producer replaces what was not taken: what the sender of the server, both watchdogs and the syncer implement with a channel of capacity 1 |
| `SendChannels` | abstract | the unbuffered sendCh of each stream and the goroutine at its end: what the server and the sender of one stream rely on of each other |
| `ForwardWatchDog` | `util/blockeddoor.go` with `signaller.go` as its door | owner (Watch, Update in three steps, Leave), the watchdog's routine, and BLock step by step up to each field it sets |
| `ForwardRTC` | `pkg/sxu/rtc` inside that door; extends `ForwardWatchDog` | Run: local join, mutex, Join to the remote server, then its loop (offers, candidates, tracks); the ICE callback, which takes the same mutex; Update (same track list, or Subscribe). Each step is one of `ForwardWatchDog` (`OnDog`) or leaves its variables alone |
| `BridgeWatchDog` | `util/watchdog.go`, twice: the dog of a `Bridge` (`pkg/sxu/bridge`) and the dogs of its entrances; the owner is the ProceedRouter of `proceed.go` | the owner's Start, Replace (Update: drain, push) and Stop; per dog: NewDoor, Lock, the select of updates, reports and Leave; Bridge.Lock and Update start, update and stop entrances; a report of a broken door may come from any door sold so far |
| `StreamClient` | `Client` of `util/client.go`, `SingleWaitExec` of `util/lock.go` | the steps of one call: load the stream, use it, fail, wait for or become the reconnection (dial, callback), try again. A stream has the number of the reconnection that made it. `ClientSpec` is any program that takes these steps |
| `SFUClient` | publisher and subscriber of `pkg/sfu`; extends `StreamClient` | reader, owner (Switch, Connect, Close), refresh, one Join goroutine per peer connection, the ICE callback; OnReconnect and its three outcomes; the server as an inbox of replies |
| `RoomService` | `pkg/sxu/room/service.go`, `util/timer.go` | a call of ClientHealth in its stages; the runner (updates, deletions, onDeleted, which blocks it); a goroutine per timer; the syncer's fetch |
| `RoomClient` | `pkg/sxu/room/client.go` with `RoomService`; extends `StreamClient` and `RoomService` | keepAlive round by round, its time-out, reconnect (from failures, time-outs, RefreshConn), a call as the client's goroutine and the handler it started |
| `SFUService` | `pkg/sfu/service.go`, `tracker.go` | per stream: the loop of Signal with one action per request, its deferred calls in their order, the reader; the debounced announcement of tracks; BroadcastTrackEvent as begin (lock), one action per send, and end |
| `ISGLBSyncer` | `pkg/sxu/syncer/syncer.go`, the methods of `pkg/sxu/forward.go` and `proceed.go`, SendSFUStatus of `pkg/isglb/client.go`, SingleLatestExec of `util/lock.go` | main's select: HandleSessionEvent, RejectStatus or SyncStatus, SendLatest; OnSFUStatusRecv as drain (RecvStatus) and push (PushStatus); a status on its way to `Do`; one record per running operation, which looks at its context, uses the stream, and repeats when that fails |
| `DisorderSetOps` | Update and IsSame of `util/set.go` | folds over the list, with the check marks as a set |
| `MC*` | instances for TLC | |
| `*_proofs` | theorems | |

Compositions: `ForwardRTC` is the watchdog, its Signaller and the RTC in one;
`BridgeWatchDog` the dogs of a bridge and of its entrances; `SFUClient` and
`RoomClient` the reconnecting client under its two users, the latter with the server
too.

Every mutex-protected section is one action, except where something blocks inside:
the read-locked send of `ISGLBService` (the predicate `ReadLocked`), the broadcasts of
`SFUService` (`holder`), the Sends of `ForwardRTC` (`mutex`).  An operation on a channel
is one action.  What a goroutine does between two operations on shared state is part
of the action before it.  Each module also defines a few variants of its actions,
marked "Variant with a bug": the properties must fail when a variant takes the place of
the definition that follows it.

In `ISGLBSyncer` a DisorderSet of tracks and the routers' map of watchdogs are
functions from keys to what a track carries; forward and proceed tracks have
disjoint keys, so one function holds both.  SyncStatus is one action: main alone
touches the sets and the routers, and no other goroutine sees the calls in between.
It uses the difference of the two indexes; that the loop of `DisorderSet.Update`
returns this difference is `UpdateIsDifference`.  A status is numbered when it
arrives and when it is built; the numbers are histories for the properties.

`ISGLBService` sees a sender as "busy" from the moment it takes a status until it is
back at sendCh.  That it always comes back (the fairness of `Sender`) is what
`ComesBack` shows of `SFUStatusSender`, with no assumption on sig.Send.

In `RoomService` a timer and the goroutine that waits for it are one: after a Reset of
a timer whose goroutine has gone nothing more can be seen of it.  In `RoomClient` a
round of ClientHealth is a slot of `Calls`; the handler in the server keeps the slot
until it replies, whatever becomes of the client's goroutine.

## Runs

| Run | Question | Instance |
|---|---|---|
| `setmap` | do any calls keep the two maps consistent and implement one relation? does RemoveKeys equal the loop it stands for? | 3 keys and 3 values: sharing, last values, keys unique to one value and not to another |
| `isglb` | safety and liveness of the server | 2 streams, 2 nodes, 2 statuses, 1 report, 3 requests, recvCh of 1: a client and its reconnection, a stream with two nodes, every push waiting for the routine |
| `isglb_reconnect` | is an expected status sent whenever the node can be reached? No | 2 streams, 1 node |
| `sender` | does the sender always come back, and never lose the newest status? | 2 nids, 3 statuses: an old, a waiting and a new one |
| `dog` | does the newest parameter reach the door and its RTC, is the Join first, does a cancelled BLock return? | 3 updates over 2 sessions and 1 track list: one in the door, one waiting, one that replaces it; 1 candidate per offer, so that the callback may hold the mutex when anything else wants it |
| `dog_remove` | does Remove end BLock? No | 1 update to another session |
| `bridge` | is there one exit and the right entrances at any time, does the newest track come in force, do all dogs stop after Leave? | 2 tracks with one destination, of one and of two source sessions; 2 updates, 3 bridges, 1 fault: a bridge, the one that replaces it, and one more after a failure or a late report |
| `client` | does a Switch take effect, does no answer reach the handler of an earlier peer connection, is no candidate left over, do all calls return, does the client come back to a stream with its own Join? | a publisher or a subscriber; 3 reconnections, 3 events of the environment: a stream, its successor, and one that a stale user asks for |
| `room` | has every session of the map its expiry and its report, is the wanted session served again and again, is a gone one removed? | 1 user with 2 sessions, 2 calls at a time, channels of 1, 4 reconnections (the first connection is always replaced), 2 events |
| `sfu` | does the syncer never keep a ghost, is nothing sent on a returned stream, does Signal return? | 2 streams, 2 uids, 2 Joins (two streams of one uid, one stream twice, one of each), sessionEv of 1 |
| `syncer` | do the routers follow the sets, is every change of the clients reported, is the newest status kept, is a status sent in the end? | 1 session, 1 forward and 1 proceed track that are started, replaced and stopped; 2 session events and 2 statuses, so that 5 statuses are sent at most and every pair of goroutines meets; lists for Update: every list without repeated keys over 2 keys |
| `syncer_latest` | is the last status sent the latest? No | 1 session event: two statuses |

The bounds are enough because each actor of a scenario is there once with something
to disturb it: a second stream for the same node, a second node on a stream, a full
channel, a value older and one newer than the one in transit, a reconnection while
another is under way.  More of the same kind only repeats these scenarios, and the
safety properties of the modules with theorems are proved for all values anyway.

All the bounds stop the environment, never the program: `MaxRequests` (requests of the
clients), `MaxUpdates` (calls of Update), `MaxCandidates` (ICE candidates per offer),
`MaxFaults` and `MaxEvents` (failing calls, lost connections, calls of the owner, late
goroutines), `MaxExpected` (statuses of the server), `MaxJoins`.  Two count what the
program does itself, because nothing else limits it: `MaxTimes` (reconnections) and
`MaxDoors` (bridges); where they are reached the run ends, and the liveness properties
say so ("or times = MaxTimes").  `Cap` and `RecvCap` are capacities of channels, small
so that they are full.

### What fails, and why

* `isglb_reconnect`: the client of a node reconnects while its old stream is
  closed but its deletion is still in recvCh.  Both streams stand for the node;
  `sigs[0]` (service.go:207) may be the closed one, and the expected status is
  dropped.  Nothing repeats it: when the deletion arrives the node has another
  stream, so the message does not count (service.go:130-136).
* `dog_remove`: `Signaller.Update` for another session calls `Remove`
  (signaller.go:118), which does nothing until BLock has set `s.cancel`
  (signaller.go:74, 129).  Update returns nil, the watchdog does not retry, and BLock
  runs on with the old session.
* `syncer_latest`: main starts a goroutine for each status (syncer.go:193).  The two
  may reach `SingleLatestExec.Do` in the other order: the older status cancels the
  newer one (lock.go:83-85) and is the last one sent.  Nothing sends the newer one
  again until something else changes.

### What holds, but may surprise

The models have these behaviours of the code; the properties hold in spite of them.

* The watchdog of a forwarding cannot be stopped: Watch stores the new context in a
  copy (value receiver, blockeddoor.go:55), so that Leave (blockeddoor.go:76) cancels the
  first one, which was cancelled from the start.  The routine of a stopped forwarding
  goes on, although watchdog.go:16 says that Leave lets the dog stop, and a forwarding that
  is started again has two.  `ForwardWatchDog` gives Leave no effect on the routine.
* The loop of the other watchdog locks its door again after an accepted Update
  (watchdog.go:104): the exit has joined already and refuses, and the whole bridge is
  removed and rebuilt.  Repair always fails for the same reason.  Bridge methods have
  value receivers, so that the check of the destination never fires; a NewDoor whose
  processor fails leaves its publisher open (`leaked`).
* A refresh of the SFU client that comes before the previous one has given its token
  back is dropped; until the next reconnection the client may then stay connected
  without a Join (`dropped` in `ComesBack`).  The Join of a peer connection that was
  replaced may go out on the next stream (publisher.go:68-89): its answer is then given
  to the newer peer connection, whose own Join is rejected as the second one of the
  stream, and one more reconnection puts that right.  `AnswerNotForOlder` says nothing
  of this, for the answer is not handled by an older one; `ComesBack` does.  A peer
  connection whose tracks cannot be made is not closed, nor is the last one by Close.
  Users of a stale stream that fail after a reconnection start another.
* The room client throws its first connection away at once, and may reconnect once more
  after Close, for its select has both cases ready (room/client.go:71-75).  A session that
  is renewed just after its timer fired is removed all the same, and comes back with the
  next ClientHealth.  A handler that is held up for longer than the expiry before its ADD
  (room/service.go:37-41) queues it after the REMOVE: the syncer then keeps a session that
  the map has no more.  `GoneIsRemoved` speaks of the map only.
* In the SFU service an error inside the loop returns without closing the peer; the
  reader stays blocked on errch or msgch for ever; the ADD of a client's tracks may be
  announced after their REMOVE, and under another uid: that of the Join whose offer was
  answered (service.go:171, 333), while the REMOVE has that of the peer; the entry of a
  uid is removed by whichever of its streams ends.

## Fairness

* Goroutines that can run do run: weak fairness of the routine, the senders, and
  the steps of a handler after its stream broke.  Clients need not connect, send,
  or break.
* `sender`: only the routine is fair in the specification (a worker may stay in
  sig.Send for ever).  `LatestIsSent` adds, as its hypothesis, that calls of
  sig.Send return; the worker's receive is strongly fair there, because Go hands a
  value to a goroutine that waits on the channel.
* `syncer`: the goroutines that send run, and a stream that is used again and again
  works at last (strong fairness of `Sent`, for all operations together).  Main and the
  read loop need no fairness: what is said of them is safety.
* `dog`: the branches of a select are strongly fair (Go chooses among ready cases at
  random), and so is Run's look at its cancelled context; GetConn and client.Signal
  return; a Run that is not cancelled may last for ever; and a peer that starts accepts
  an update that is retried often enough.
* `bridge`: the dogs run, all entrances together (none keeps another from running);
  a report of a broken door and a failing call are never owed.
* `client`: as long as some goroutine of the program can go on, one of them does (one
  weak fairness for all of them).  The environment owes nothing: no call of Switch, no
  reply.
* `room`: the goroutines of the client, and those of the service, run; once the client
  is closed timers fire.  While it is not, a timer that fires is an event (the expiry is
  five seconds, the life cycle one: config/proto.go).
* `sfu`: some loop, broadcast or fetch goes on (a Send ends, be it in error), and Recv
  fails when the client is gone.

## Proofs

Checked by TLAPS for every value of the constants, under the named assumptions of
each module (the constants of bounds are natural numbers, capacities are positive,
`None` and `NoPair` are no values of the program; a parameter of a bridge names a
destination; the goroutines that may use an SFU client are the ones listed).

* `ISGLBService_proofs`, first section (the map): each method keeps `WellFormed` (types,
  mirror, no empty set); hence the invariants, the exactness of the unique sets, and the
  refinement of `ManyToMany`.  `LoopRemovesKeys`: the loop of RemoveKey over any finite set
  of keys, in any order, is `RemoveKeys`.  `RemoveKeysByTurns` is its turn: it takes
  `RemoveKeys` of the keys so far to that of one key more.
* `ISGLBService_proofs`, second section (the server): `IInv` is inductive.  `NoSendOnClosedChannel` needs to know
  which channels are open (`OpenChannels`: from registration to the deferred close,
  which the read lock keeps out of a send); `DeletedForgotten` needs that a deletion
  is the last message of its stream (`DeletionIsLast`); `NoGhostNode` needs that the
  stream being sent to is still bound to its node (`SendingBound`), and the lemmas of
  the map about GetUniqueKeys and the two removals.
  `OnlyDeadStreamsUnbound` follows from `IInv` and the step.  The sender has its own
  section: types, room for the push and survival of the newest status are inductive
  together (`SenderIInv`); with them each step is a step of `LatestMailbox` or a stutter.
  `ServerKeepsToChannels` and `SenderKeepsToChannel` are the two halves of what server and
  sender promise each other (`SendChannels`): the first needs `IInv`, for the send comes
  on an open channel only, the second that offer, drain and push are one stay away from
  sendCh.  So what `ISGLBService` assumes of "ready" and "busy" is what `SFUStatusSender` does.
* `ForwardWatchDog_proofs`: `IInv` is inductive; `NothingForgotten` is its consequence.
  `ImplementsWatchDog` shows that `ForwardRTC` refines `ForwardWatchDog` (each step is one
  of it or leaves its variables alone), so that all of this holds with the RTC inside.
  `JoinAlwaysFirst` needs `NothingBeforeJoin`: until the Join there is no candidate, no
  track, and Run is not in its loop.  `RefinesMailbox`: Update's offer, drain and push are one
  replacement in a `LatestMailbox` whose consumer starts with the parameter of Watch.
* `BridgeWatchDog_proofs`: `IInv` is inductive.  `EntrancesOfThisDoor` and `OneExit` need
  to know which bridge is in use (`DoorInUse`: the dog has a door exactly between its
  NewDoor and its Remove, and has joined to a destination once Lock returned) and that
  an entrance whose door is not sold yet has never run (`FreshEntrances`).  A corollary is
  `GoneLeavesNothing`: when the dog has returned, all its entrances were told to leave,
  and no exit is open but those a failed Lock abandoned.  `RefinesMailbox` as for the other
  watchdog, with `UpdateInv`: Update pushes into an empty channel.
* `StreamClient_proofs`: of any program that uses the client (`ClientSpec`), with any
  goroutines.  `OneReconnection` is what SingleWaitExec
  gives: until Close, at most one call dials or runs the callback, and never two run the
  callback.  Close cancels the context its wait is made of, after which nobody waits:
  the first half ends there, while the second holds because no stream is made of a
  cancelled context.  `StreamsNumbered`: a stream's number is that of a reconnection
  that has begun.  `StreamsInOrder`: no call has a stream newer than the stored one, what is
  being dialled is newer than it, and after Close none works.  `GoneForGood` needs all three: a stream that was lost or replaced never
  counts as the open one again.
* `SFUClient_proofs`: each step is one of `ClientSpec` (`ImplementsClient`).  `IInv` is
  inductive.  `SwitchTakesEffect` needs `SwitchGoesOn`: while a newer session has
  not been joined, the owner's call is still under way, in its first attempt with no
  reconnection since it began, or in its second about to reconnect or waiting for a
  reconnection that has not read the session yet.  `AnswerNotForOlder` and
  `NoCandidateLeft` need `HandlerIsNewest`: a peer connection belongs to the stream it
  was made for, each Join goroutine to a peer connection that exists, and nobody but the
  callback still under way holds a newer one than the handler.
* `ISGLBSyncer_proofs`: `IInv` is inductive.  `RoutersFollow` rests on the lemma
  `DifferenceApplied`: stopping, replacing and starting the difference of two indexes
  turns the old one into the new one.  `LatestReceived` needs that a drained channel
  stays empty until the push, so that the push never drops a status; with it
  OnSFUStatusRecv implements `LatestMailbox` too.  `UpdateFindsDifference`: Update, run on
  any index with any listing of another, leaves that one and returns the difference.
  `UpdateByTurns` is its loop invariant (`FoundFor`: after the keys of `done`
  the check marks and the two lists are those of the items seen so far), from the
  reset of the marks to the deletion of what was not found.  The theorem lets keys come
  repeatedly, if with one and the same track; the run has the lists without repetition.
* `RoomService_proofs`: of the service with any callers (`ServiceSpec`).
  `ExpiryOnItsWay` is inductive with the types.  `KnownOrOnItsWay` needs that the session
  whose end is being reported is not in the map (`RemovingIsGone`: the runner reports
  before it takes the next update).  Queues are reasoned about by position (`AppendElement`,
  `TailElement`).  `ImplementsService` shows that the composition with the client,
  `RoomClient`, is one of those services, `ImplementsClient` that it is a `ClientSpec`.
  Of both together `RoomInv` is inductive: keepAlive is in a call of its own exactly while
  it reconnects (`KeeperCalls`), and a request on a connection that works has its handler
  (`RequestsHandled`), which needs that a connection once gone stays gone.
* `SFUService_proofs`: `NoSendOnReturned` follows from `BroadcastInv` (a stream among the
  targets of a broadcast has a session and has not deleted its entry, since that needs the
  lock of the broadcast).  `NoGhostClient` is inductive with the types: each client has a
  deferred removal to come (`Pending`), or what is on its way ends with a removal
  (`Cleared`).

The loops of the code over data (RemoveKeys, Update) are folds in the models.  That a fold
computes what it should for every input would be an induction, whose theorems in the
library the provers cannot instantiate; the proofs take instead a smallest set of turns
for which the claim fails, and show by the lemma about one turn that it fails for a
smaller one.

Only model-checked: every liveness property (fairness and ENABLED are out of the
prover's reach), and the properties of the violation runs, which do not hold.  Every
invariant that a run checks is a theorem.  The type invariants are proved as parts of the
inductive invariants and no longer checked in a run, but for that of `ForwardRTC`, which is
documentation.  `KeeperCalls`, `RequestsHandled`, `GoneForGood`, `KeepsToChannels`,
`KeepsToChannel` and the mailboxes of the watchdogs and of the syncer are theorems only; to
have TLC check one too, name it in the configuration of the module's run.

## Not modelled

* ISLB node, registry and connection pool (`pkg/islb`, `pkg/sxu/connpool.go`): the
  protocol is that of the ion discovery and NATS RPC libraries.  To the rest, GetConn
  returns a connection or an error, and a dead connection is a call that fails.
* Algorithms and processors (`algorithms`): interfaces with test implementations; the
  server of `ISGLBService` lets the algorithm expect anything.
* Programs, configuration, test tools (`cmd`, `config`, `pkg/stupid`, `pkg/sxu/sxu.go`):
  sequential wiring.  `pkg/sxu/sxu.go` does not start the room package; `RoomService` is
  modelled from the package itself.
* Generated code (`proto`).

In the modelled parts: wording of logs; panics of messages without an SFU field, of a
publisher that is connected before its session is set, and of subscriptions to a peer
without a publisher; what concurrent Sends do to one gRPC stream (a Send is one action
where no lock keeps others out); the data races on `Signaller`'s fields, which are
modelled as reads that see the last write.  Of the syncer: `Stop`, which closes channels
that may still be sent on (only SXU.Close calls it, as the process ends); the quality
reports, which are passed on without state; the order `Sort` gives a
list.  A session event whose state is neither ADD nor REMOVE changes nothing and is left
out, as is a list that repeats a key (pbimpl.go:41 and 70 forbid it).  Of WebRTC and
ion-sfu: whether a call succeeds, and which callbacks come; not descriptions, tracks
and simulcast layers, nor the tracks that a bridge's processor makes.

## What could come next

One composition of the server with its senders, of which the proofs have the two halves,
and with one syncer; the syncer's routers with `ForwardWatchDog`, where two routines of one
key may run.
