--------------------------- MODULE BridgeWatchDog ---------------------------
(***************************************************************************)
(* WatchDogWithUnblockedDoor of util/watchdog.go and the door it has in    *)
(* this program: the Bridge of pkg/sxu/bridge, which takes the tracks of   *)
(* source sessions through a processor into one destination session.       *)
(*                                                                         *)
(* A bridge has an exit (a Publisher that joined the destination) and one  *)
(* entrance per source session; each entrance is kept by a watchdog of its *)
(* own, of the same code.  So the dogs here are the one of the bridge and  *)
(* those of the entrances of every bridge the house has sold: Entrance(k,  *)
(* s) serves session s for the k-th door.  Peers, peer connections and the *)
(* processor are libraries: their calls succeed or fail, their callbacks   *)
(* may report the door broken, early, late or never.                       *)
(***************************************************************************)
EXTENDS Naturals

CONSTANTS
  SIDs,        \* source sessions
  Tracks,      \* what the owner may ask for: [dst, srcs \subseteq SIDs]
  None,
  MaxUpdates,  \* bound: calls of Update by the owner
  MaxDoors,    \* bound: bridges the house sells
  MaxFaults    \* bound: calls that fail and reports of a broken door

\* None stands for the destination of an exit that has not joined.
ASSUME TracksAssumption == \A t \in Tracks : t.srcs \subseteq SIDs /\ t.dst # None
ASSUME NoneAssumption == None \notin Tracks
ASSUME BoundsAssumption == MaxUpdates \in Nat /\ MaxDoors \in Nat /\ MaxFaults \in Nat

Doors == 1 .. MaxDoors
Bridge == <<0, None>>
Entrance(k, s) == <<k, s>>
Entrances == Doors \X SIDs
Dogs == {Bridge} \cup Entrances

VARIABLES
  owner,      \* "new", "idle", inside Update ("drain", "push"), or "left"
  updating,   \* the owner's parameter between drain and push
  updates,
  latest,     \* history: the parameter of the owner's last call
  updateCh,   \* channel of capacity 1 of the bridge's dog
  param,      \* w.param of the bridge's dog
  at,         \* each dog: "off", "newdoor", "lock", "select", "gone"
  left,       \* each dog: its context is cancelled
  broken,     \* each dog: brokenCh holds an error; all its doors share brokenCh
  hadDoor,    \* each dog: some door of it may call OnBroken
  doors,      \* bridges sold
  door,       \* the one the dog has, 0 for nil
  dst,        \* the session its exit has joined
  procedure,  \* what its processor was told last
  entrances,  \* keys of its map of entrances
  exits,      \* publishers that were not closed
  leaked,     \* those nobody can close: NewProcessor failed after them
  faults

ownerVars == <<owner, updating, updates, latest>>
dogVars == <<at, left, broken, hadDoor>>
bridgeVars == <<doors, door, dst, procedure, entrances, exits, leaked>>
vars == <<ownerVars, updateCh, param, dogVars, bridgeVars, faults>>

Init ==
  /\ owner = "new" /\ updating = None /\ updates = 0 /\ latest = None
  /\ updateCh = None /\ param = None
  /\ at = [d \in Dogs |-> "off"]
  /\ left = [d \in Dogs |-> FALSE]
  /\ broken = [d \in Dogs |-> FALSE]
  /\ hadDoor = [d \in Dogs |-> FALSE]
  /\ doors = 0 /\ door = 0 /\ dst = None /\ procedure = None
  /\ entrances = {} /\ exits = {} /\ leaked = {}
  /\ faults = 0

Fault == faults < MaxFaults /\ faults' = faults + 1
NoFault == UNCHANGED faults

-----------------------------------------------------------------------------
(* The owner of the bridge's dog: ProceedRouter, which keys its dogs by dst *)

Watch(t) ==
  /\ owner = "new"
  /\ owner' = "idle" /\ latest' = t
  /\ param' = t
  /\ at' = [at EXCEPT ![Bridge] = "newdoor"]
  /\ UNCHANGED <<updating, updates, updateCh, left, broken, hadDoor, bridgeVars, faults>>

UpdateOffer(t) ==
  /\ owner = "idle" /\ updates < MaxUpdates
  /\ updates' = updates + 1 /\ latest' = t
  /\ IF updateCh = None
     THEN updateCh' = t /\ UNCHANGED <<owner, updating>>
     ELSE owner' = "drain" /\ updating' = t /\ UNCHANGED updateCh
  /\ UNCHANGED <<param, dogVars, bridgeVars, faults>>

UpdateDrain ==
  /\ owner = "drain"
  /\ owner' = "push" /\ updateCh' = None
  /\ UNCHANGED <<updating, updates, latest, param, dogVars, bridgeVars, faults>>

UpdatePush ==
  /\ owner = "push"
  /\ owner' = "idle" /\ updating' = None
  /\ updateCh' = IF updateCh = None THEN updating ELSE updateCh
  /\ UNCHANGED <<updates, latest, param, dogVars, bridgeVars, faults>>

Leave ==
  /\ owner = "idle"
  /\ owner' = "left"
  /\ left' = [left EXCEPT ![Bridge] = TRUE]
  /\ UNCHANGED <<updating, updates, latest, updateCh, param, at, broken, hadDoor, bridgeVars, faults>>

\* A track whose key, its destination, is another one is not this dog's.
ReplaceProceedTrack(t) == t.dst = latest.dst /\ UpdateOffer(t)

\* To start a proceeding that there is already is to replace it.
StartProceedTrack(t) == Watch(t) \/ (owner # "new" /\ ReplaceProceedTrack(t))

StopProceedTrack == Leave

-----------------------------------------------------------------------------
(* The bridge as a door *)

Running(d) == at[d] \notin {"off", "gone"}

\* Variant with a bug: the entrances are forgotten, not left.
ForgetDoor(place) ==
  /\ at' = [at EXCEPT ![Bridge] = place]
  /\ exits' = exits \ {door}
  /\ entrances' = {} /\ door' = 0 /\ dst' = None /\ procedure' = None
  /\ UNCHANGED left

\* Bridge.Remove: every entrance is left, the exit closed; the dog goes on at place.
RemoveDoor(place) ==
  /\ at' = [at EXCEPT ![Bridge] = place]
  /\ left' = [d \in Dogs |-> left[d] \/ \E s \in entrances : d = Entrance(door, s)]
  /\ exits' = exits \ {door}
  /\ entrances' = {} /\ door' = 0 /\ dst' = None /\ procedure' = None

\* The loop looks at its context after a failure of NewDoor or Lock only.
AfterFailure(d) == IF left[d] THEN "gone" ELSE "newdoor"

\* Bridge.Update on success, the dog going on at place: the processor is told,
\* missing entrances are made and watched, deprecated ones left.
Apply(t, place) ==
  /\ procedure' = t
  /\ entrances' = t.srcs
  /\ at' = [d \in Dogs |-> IF d = Bridge THEN place
                           ELSE IF \E s \in t.srcs \ entrances : d = Entrance(door, s) THEN "newdoor"
                           ELSE at[d]]
  /\ left' = [d \in Dogs |-> left[d] \/ \E s \in entrances \ t.srcs : d = Entrance(door, s)]

BridgeNewDoor ==
  /\ at[Bridge] = "newdoor"
  /\ doors < MaxDoors
  /\ doors' = doors + 1 /\ door' = doors + 1
  /\ exits' = exits \cup {doors + 1}
  /\ at' = [at EXCEPT ![Bridge] = "lock"]
  /\ hadDoor' = [hadDoor EXCEPT ![Bridge] = TRUE]
  /\ UNCHANGED <<ownerVars, updateCh, param, left, broken, dst, procedure, entrances, leaked, faults>>

\* NewProcessor fails when the publisher is made already: NewDoor returns nil,
\* and there is nothing to call Remove on.
BridgeNewDoorFails ==
  /\ at[Bridge] = "newdoor"
  /\ doors < MaxDoors
  /\ Fault
  /\ \/ UNCHANGED <<doors, exits, leaked>>
     \/ doors' = doors + 1 /\ exits' = exits \cup {doors + 1} /\ leaked' = leaked \cup {doors + 1}
  /\ at' = [at EXCEPT ![Bridge] = AfterFailure(Bridge)]
  /\ UNCHANGED <<ownerVars, updateCh, param, left, broken, hadDoor, door, dst, procedure, entrances>>

\* Lock of a new bridge: the exit joins, the processor is initialised, and the
\* parameter is applied.
BridgeLock ==
  /\ at[Bridge] = "lock" /\ dst = None
  /\ dst' = param.dst
  /\ Apply(param, "select")
  /\ UNCHANGED <<ownerVars, updateCh, param, broken, hadDoor, doors, door, exits, leaked, faults>>

\* Variant with a bug: the bad door is not removed.
BridgeLockFailsOnly ==
  /\ at[Bridge] = "lock"
  /\ IF dst = None THEN Fault ELSE NoFault
  /\ at' = [at EXCEPT ![Bridge] = AfterFailure(Bridge)]
  /\ door' = 0 /\ entrances' = {} /\ dst' = None /\ procedure' = None
  /\ UNCHANGED <<ownerVars, updateCh, param, left, broken, hadDoor, doors, exits, leaked>>

\* A peer joins once: the Lock that follows every accepted Update fails, and a new
\* door is bought for the updated parameter.
BridgeLockFails ==
  /\ at[Bridge] = "lock"
  /\ IF dst = None THEN Fault ELSE NoFault
  /\ RemoveDoor(AfterFailure(Bridge))
  /\ UNCHANGED <<ownerVars, updateCh, param, broken, hadDoor, doors, leaked>>

\* Variant with a bug: the parameter is not kept for the next door.
BridgeUpdateOnce ==
  /\ at[Bridge] = "select" /\ updateCh # None
  /\ updateCh' = None
  /\ \/ Apply(updateCh, "lock") /\ NoFault /\ UNCHANGED <<door, dst, exits>>
     \/ Fault /\ RemoveDoor("newdoor")
  /\ UNCHANGED <<ownerVars, param, broken, hadDoor, doors, leaked>>

BridgeUpdate ==
  /\ at[Bridge] = "select" /\ updateCh # None
  /\ param' = updateCh /\ updateCh' = None
  /\ \/ Apply(updateCh, "lock") /\ NoFault /\ UNCHANGED <<door, dst, exits>>
     \/ Fault /\ RemoveDoor("newdoor")
  /\ UNCHANGED <<ownerVars, broken, hadDoor, doors, leaked>>

\* Repair always fails.
BridgeBroken ==
  /\ at[Bridge] = "select" /\ broken[Bridge]
  /\ broken' = [broken EXCEPT ![Bridge] = FALSE]
  /\ RemoveDoor("newdoor")
  /\ UNCHANGED <<ownerVars, updateCh, param, hadDoor, doors, leaked, faults>>

\* Variant with a bug: the dog returns without removing its door.
BridgeDoneOnly ==
  /\ at[Bridge] = "select" /\ left[Bridge]
  /\ at' = [at EXCEPT ![Bridge] = "gone"]
  /\ UNCHANGED <<ownerVars, updateCh, param, left, broken, hadDoor, bridgeVars, faults>>

BridgeDone ==
  /\ at[Bridge] = "select" /\ left[Bridge]
  /\ RemoveDoor("gone")
  /\ UNCHANGED <<ownerVars, updateCh, param, broken, hadDoor, doors, leaked, faults>>

-----------------------------------------------------------------------------
(* The dogs of the entrances *)

EntranceGoes(e, from, to) ==
  /\ at[e] = from
  /\ at' = [at EXCEPT ![e] = to]
  /\ UNCHANGED <<ownerVars, updateCh, param, left, bridgeVars>>

EntranceNewDoor(e) ==
  /\ EntranceGoes(e, "newdoor", "lock")
  /\ hadDoor' = [hadDoor EXCEPT ![e] = TRUE]
  /\ UNCHANGED <<broken, faults>>

\* Lock has its tracks put into the processor and joins the source session.
EntranceLock(e) ==
  /\ EntranceGoes(e, "lock", "select")
  /\ UNCHANGED <<broken, hadDoor, faults>>

EntranceFails(e) ==
  /\ \E place \in {"newdoor", "lock"} : EntranceGoes(e, place, AfterFailure(e))
  /\ Fault
  /\ UNCHANGED <<broken, hadDoor>>

EntranceBroken(e) ==
  /\ broken[e]
  /\ EntranceGoes(e, "select", "newdoor")
  /\ broken' = [broken EXCEPT ![e] = FALSE]
  /\ UNCHANGED <<hadDoor, faults>>

EntranceDone(e) ==
  /\ left[e]
  /\ EntranceGoes(e, "select", "gone")
  /\ UNCHANGED <<broken, hadDoor, faults>>

-----------------------------------------------------------------------------
(* Callbacks of the libraries, of the present door or one that was removed *)

\* A second report finds the channel full.
OnBroken(d) ==
  /\ Running(d) /\ hadDoor[d] /\ ~broken[d]
  /\ Fault
  /\ broken' = [broken EXCEPT ![d] = TRUE]
  /\ UNCHANGED <<ownerVars, updateCh, param, at, left, hadDoor, bridgeVars>>

\* A candidate that one end of a local connection refuses.
CandidateRefused(d) == OnBroken(d)

\* The exit's negotiation, after the processor added or removed a track, or the
\* processor itself.
NegotiationFails == OnBroken(Bridge)

\* An entrance's session offers, and some step of the answer fails.
OfferRefused(e) == OnBroken(e)

\* The processor does not take the track that came in.
InTrackRefused(e) == OnBroken(e)

BridgeStep ==
  \/ BridgeNewDoor \/ BridgeNewDoorFails \/ BridgeLock \/ BridgeLockFails
  \/ BridgeUpdate \/ BridgeBroken \/ BridgeDone

EntranceStep(e) ==
  \/ EntranceNewDoor(e) \/ EntranceLock(e) \/ EntranceFails(e) \/ EntranceBroken(e) \/ EntranceDone(e)

Report ==
  \/ NegotiationFails
  \/ \E d \in Dogs : CandidateRefused(d)
  \/ \E e \in Entrances : OfferRefused(e) \/ InTrackRefused(e)

Owner == (\E t \in Tracks : StartProceedTrack(t)) \/ UpdateDrain \/ UpdatePush \/ StopProceedTrack

\* Every dog waits in its select, is gone, or has no more doors to buy.
Quiet ==
  /\ \A e \in Entrances : at[e] \in {"off", "select", "gone"} /\ ~(at[e] = "select" /\ left[e])
  /\ at[Bridge] \in {"select", "gone"} \/ doors = MaxDoors
  /\ UNCHANGED vars

Next ==
  \/ Owner \/ BridgeStep \/ Report \/ Quiet
  \/ \E e \in Entrances : EntranceStep(e)

\* Every dog's goroutine runs; an Update that has begun ends.
Fairness ==
  /\ WF_vars(BridgeStep)
  /\ WF_vars(\E e \in Entrances : EntranceStep(e))
  /\ WF_vars(UpdateDrain \/ UpdatePush)

Spec == Init /\ [][Next]_vars /\ Fairness

-----------------------------------------------------------------------------
Places == {"off", "newdoor", "lock", "select", "gone"}

TypeOK ==
  /\ owner \in {"new", "idle", "drain", "push", "left"}
  /\ updating \in Tracks \cup {None} /\ latest \in Tracks \cup {None}
  /\ updates \in 0 .. MaxUpdates /\ faults \in 0 .. MaxFaults
  /\ updateCh \in Tracks \cup {None} /\ param \in Tracks \cup {None}
  /\ procedure \in Tracks \cup {None}
  /\ at \in [Dogs -> Places]
  /\ left \in [Dogs -> BOOLEAN] /\ broken \in [Dogs -> BOOLEAN] /\ hadDoor \in [Dogs -> BOOLEAN]
  /\ doors \in 0 .. MaxDoors /\ door \in 0 .. doors
  /\ entrances \subseteq SIDs
  /\ exits \subseteq 1 .. doors /\ leaked \subseteq exits

\* A dog that was not told to leave serves an entrance of the bridge there is: no
\* removed bridge goes on pulling tracks, and no entrance of this one is missing.
EntrancesOfThisDoor ==
  /\ \A k \in Doors, s \in SIDs :
       Running(Entrance(k, s)) /\ ~left[Entrance(k, s)] => k = door /\ s \in entrances
  /\ \A s \in entrances : Running(Entrance(door, s)) /\ ~left[Entrance(door, s)]

\* Of all the publishers made, only that of the present bridge is open, besides
\* those whose NewDoor failed half-way.
OneExit == exits \ leaked = IF door = 0 THEN {} ELSE {door}

\* A dog that has returned leaves nothing behind that nobody will end: no open
\* publisher but those whose NewDoor failed half-way, no entrance that was not left.
GoneLeavesNothing ==
  at[Bridge] = "gone" =>
    /\ exits = leaked
    /\ \A e \in Entrances : Running(e) => left[e]

\* What Update has drained for is as good as in the channel.
Mailbox == INSTANCE LatestMailbox WITH
  Keys <- {Bridge}, Values <- Tracks, Nothing <- None,
  pending <- [d \in {Bridge} |-> IF owner = "push" THEN updating ELSE updateCh],
  taken <- [d \in {Bridge} |-> param]

\* Update is one atomic replacement of the parameter that waits, and the dog,
\* started with Watch's, keeps each one it takes for all the doors it buys until
\* it takes the next (watchdog.go:73-155).
ImplementsMailbox == Mailbox!StartedSpec

-----------------------------------------------------------------------------
(* What the invariants rest on *)

\* The dog has a door from NewDoor to Remove, and its exit joins with Lock.
DoorInUse ==
  /\ owner = "new" <=> at[Bridge] = "off"
  /\ at[Bridge] # "off" => param \in Tracks
  /\ door # 0 <=> at[Bridge] \in {"lock", "select"}
  /\ door = 0 => entrances = {} /\ dst = None
  /\ at[Bridge] = "select" => dst # None

Fresh(e) == at[e] = "off" /\ ~left[e]

\* A door that is not sold or not locked yet has no entrances.  A locked one may
\* get more by one Update at most: the Lock after it fails.  So the dog of an
\* entrance is never used for a session that comes back.
FreshEntrances ==
  /\ \A k \in Doors, s \in SIDs : k > doors => Fresh(Entrance(k, s))
  /\ at[Bridge] = "lock" /\ dst = None =>
       entrances = {} /\ \A s \in SIDs : Fresh(Entrance(door, s))
  /\ at[Bridge] = "select" => \A s \in SIDs \ entrances : Fresh(Entrance(door, s))

IInv == TypeOK /\ DoorInUse /\ FreshEntrances /\ EntrancesOfThisDoor /\ OneExit

-----------------------------------------------------------------------------
(* Liveness *)

\* The newest parameter is in force: its destination, procedure and sources.
InForce ==
  /\ at[Bridge] = "select" /\ updateCh = None /\ owner = "idle"
  /\ dst = latest.dst /\ procedure = latest /\ entrances = latest.srcs
  /\ \A s \in latest.srcs : at[Entrance(door, s)] = "select"

\* Whatever fails on the way, the bridge comes back to the newest parameter.
ComesInForce ==
  []<>(InForce \/ owner \in {"new", "left"} \/ doors = MaxDoors)

\* After Leave every dog stops in the end: that of the bridge and those of its
\* entrances.  (An exit that a failed NewDoor left open is not a dog; see leaked.)
LeaveEndsAll ==
  []<>(owner # "left" \/ doors = MaxDoors \/ \A d \in Dogs : ~Running(d))

=============================================================================
