--------------------------- MODULE ForwardWatchDog ---------------------------
(***************************************************************************)
(* WatchDogWithBlockedDoor of util/blockeddoor.go, watching the door it    *)
(* has in this program: the Signaller of pkg/sxu/signaller/signaller.go,   *)
(* which pulls one remote session into one local session.                  *)
(*                                                                         *)
(* Three goroutines: the owner (ForwardRouter, variable owner), which      *)
(* calls Watch, Update and Leave one after the other; the watchdog's       *)
(* routine; and door.BLock (variable bl), started anew for each door.  The *)
(* routine calls Signaller.Update and Remove while BLock runs; the fields  *)
(* they share with it (track, cancel, r) have no lock.                     *)
(***************************************************************************)
EXTENDS Naturals

CONSTANTS
  Sessions,    \* local sessions that a ForwardTrack can name (TrackSame)
  TrackLists,  \* what else a ForwardTrack carries: the tracks to subscribe
  None,
  MaxUpdates   \* bound: calls of Update by the owner

ASSUME NoneAssumption == None \notin [session : Sessions, tracks : TrackLists]
ASSUME MaxUpdatesAssumption == MaxUpdates \in Nat

Params == [session : Sessions, tracks : TrackLists]

VARIABLES
  owner,      \* "new", "idle", inside Update ("drain", "push"), or "left"
  updating,   \* the owner's parameter between drain and push
  updates,    \* calls of Update so far
  latest,     \* history: the parameter of the owner's last call
  updateCh,   \* channel of capacity 1
  routine,    \* "off", "newdoor", "select", or inside door.Update ("update")
  param,
  retryCh,    \* channel of capacity 1, made anew for each door
  oldTrack,   \* Signaller.Update's local copy of s.track
  bl,         \* where door.BLock is
  lock,       \* the parameter BLock was called with
  door,       \* s.track, whether s.cancel and s.r are set, and the ctx's state
  accepted    \* history: the last parameter this door's Update returned nil for

ownerVars == <<owner, updating, updates, latest>>
doorVars == <<bl, lock, door>>
vars == <<ownerVars, updateCh, routine, param, retryCh, oldTrack, doorVars, accepted>>

FreshDoor == [track |-> None, cancel |-> FALSE, r |-> FALSE, cancelled |-> FALSE,
              removed |-> FALSE]

Init ==
  /\ owner = "new"
  /\ updating = None
  /\ updates = 0
  /\ latest = None
  /\ updateCh = None
  /\ routine = "off"
  /\ param = None
  /\ retryCh = None
  /\ oldTrack = None
  /\ bl = "none"
  /\ lock = None
  /\ door = FreshDoor
  /\ accepted = None

-----------------------------------------------------------------------------
(* The owner *)

\* Watch has a value receiver: it stores the new context and its cancel
\* function in a copy of the watchdog and starts the routine with that context.
\* Nothing holds the cancel function afterwards, so the routine's ctx.Done
\* branches never run and have no action here.
Watch(p) ==
  /\ owner = "new"
  /\ owner' = "idle"
  /\ latest' = p
  /\ routine' = "newdoor"
  /\ param' = p
  /\ UNCHANGED <<updating, updates, updateCh, retryCh, oldTrack, doorVars, accepted>>

UpdateOffer(p) ==
  /\ owner = "idle"
  /\ updates < MaxUpdates
  /\ updates' = updates + 1
  /\ latest' = p
  /\ IF updateCh = None
     THEN updateCh' = p /\ UNCHANGED <<owner, updating>>
     ELSE owner' = "drain" /\ updating' = p /\ UNCHANGED updateCh
  /\ UNCHANGED <<routine, param, retryCh, oldTrack, doorVars, accepted>>

\* Variant with a bug: the old update is not taken out of the channel.
UpdateDrainNothing ==
  /\ owner = "drain"
  /\ owner' = "push"
  /\ UNCHANGED <<updating, updates, latest, updateCh, routine, param, retryCh, oldTrack,
                 doorVars, accepted>>

UpdateDrain ==
  /\ owner = "drain"
  /\ owner' = "push"
  /\ updateCh' = None
  /\ UNCHANGED <<updating, updates, latest, routine, param, retryCh, oldTrack,
                 doorVars, accepted>>

\* The second offer is dropped if the channel is full again.
UpdatePush ==
  /\ owner = "push"
  /\ owner' = "idle"
  /\ updateCh' = IF updateCh = None THEN updating ELSE updateCh
  /\ updating' = None
  /\ UNCHANGED <<updates, latest, routine, param, retryCh, oldTrack, doorVars, accepted>>

\* Leave cancels the context that New made and cancelled already.
Leave ==
  /\ owner = "idle"
  /\ owner' = "left"
  /\ UNCHANGED <<updating, updates, latest, updateCh, routine, param, retryCh,
                 oldTrack, doorVars, accepted>>

-----------------------------------------------------------------------------
(* The routine *)

\* Variant with a bug: a restarted door gets the parameter of the first one.
NewDoorWithFirst ==
  /\ routine = "newdoor"
  /\ routine' = "select"
  /\ bl' = "begin"
  /\ lock' = IF lock = None THEN param ELSE lock
  /\ door' = FreshDoor
  /\ retryCh' = None
  /\ accepted' = None
  /\ UNCHANGED <<ownerVars, updateCh, param, oldTrack>>

\* NewDoor of the SignallerFactory never fails.
NewDoor ==
  /\ routine = "newdoor"
  /\ routine' = "select"
  /\ bl' = "begin"
  /\ lock' = param
  /\ door' = FreshDoor
  /\ retryCh' = None
  /\ accepted' = None
  /\ UNCHANGED <<ownerVars, updateCh, param, oldTrack>>

\* BLock has returned and its error is in errCh.
DoorExited ==
  /\ routine = "select"
  /\ bl = "exited"
  /\ routine' = "newdoor"
  /\ UNCHANGED <<ownerVars, updateCh, param, retryCh, oldTrack, doorVars, accepted>>

\* From the select, or from the second look at updateCh after a retry was taken
\* out: in both cases the update replaces the retry.
TakeUpdate ==
  /\ routine = "select"
  /\ updateCh # None
  /\ param' = updateCh
  /\ retryCh' = updateCh
  /\ updateCh' = None
  /\ UNCHANGED <<ownerVars, routine, oldTrack, doorVars, accepted>>

\* A retry with nothing newer: door.Update is called and reads s.track.
CallUpdate ==
  /\ routine = "select"
  /\ retryCh # None
  /\ updateCh = None
  /\ param' = retryCh
  /\ retryCh' = None
  /\ oldTrack' = door.track
  /\ routine' = "update"
  /\ UNCHANGED <<ownerVars, updateCh, doorVars, accepted>>

TrackSame(p, q) == None \notin {p, q} => p.session = q.session

ReturnToSelect == routine' = "select" /\ oldTrack' = None

\* Another session: Remove calls s.cancel, if BLock has set it, and Update
\* returns nil.
UpdateRestarts ==
  /\ routine = "update"
  /\ ~TrackSame(oldTrack, param)
  /\ door' = [door EXCEPT !.cancelled = @ \/ door.cancel, !.removed = TRUE]
  /\ accepted' = param
  /\ ReturnToSelect
  /\ UNCHANGED <<ownerVars, updateCh, param, retryCh, bl, lock>>

\* Variant with a bug: an update that failed is not retried.
UpdateFailsOnce ==
  /\ routine = "update"
  /\ TrackSame(oldTrack, param)
  /\ ReturnToSelect
  /\ UNCHANGED <<ownerVars, updateCh, param, retryCh, doorVars, accepted>>

\* The peer has not started, or r.Update fails: the parameter is retried.
UpdateFails ==
  /\ routine = "update"
  /\ TrackSame(oldTrack, param)
  /\ retryCh' = param
  /\ ReturnToSelect
  /\ UNCHANGED <<ownerVars, updateCh, param, doorVars, accepted>>

UpdateSucceeds ==
  /\ routine = "update"
  /\ TrackSame(oldTrack, param)
  /\ door.r
  /\ accepted' = param
  /\ ReturnToSelect
  /\ UNCHANGED <<ownerVars, updateCh, param, retryCh, doorVars>>

-----------------------------------------------------------------------------
(* Signaller.BLock *)

BLockSet(from, to, newDoor) ==
  /\ bl = from
  /\ bl' = to
  /\ door' = newDoor
  /\ UNCHANGED <<ownerVars, updateCh, routine, param, retryCh, oldTrack, lock, accepted>>

SetTrack == BLockSet("begin", "conn", [door EXCEPT !.track = lock])

\* GetConn returns a connection; then the context is made and s.cancel set.
GotConn == BLockSet("conn", "signal", [door EXCEPT !.cancel = TRUE])

\* client.Signal returns a stream; then the peer is made and s.r set.
Signalled == BLockSet("signal", "run", [door EXCEPT !.r = TRUE])

\* GetConn, client.Signal or Run returns an error.
BLockFails == \E pc \in {"conn", "signal", "run"} : BLockSet(pc, "exited", door)

\* The cancelled context makes client.Signal or Run return.
BLockCancelled ==
  door.cancelled /\ \E pc \in {"signal", "run"} : BLockSet(pc, "exited", door)

-----------------------------------------------------------------------------
Owner ==
  \/ \E p \in Params : Watch(p) \/ UpdateOffer(p)
  \/ UpdateDrain \/ UpdatePush \/ Leave

DoorUpdate == UpdateRestarts \/ UpdateFails \/ UpdateSucceeds

Routine == NewDoor \/ DoorExited \/ TakeUpdate \/ CallUpdate \/ DoorUpdate

BLock == SetTrack \/ GotConn \/ Signalled \/ BLockFails \/ BLockCancelled

Next == Owner \/ Routine \/ BLock

Spec == Init /\ [][Next]_vars

\* Goroutines run, GetConn and client.Signal return; a Run that is not cancelled
\* may last for ever.  Go's select chooses at random, so no ready case is passed
\* over for ever; a peer that starts accepts an update that is retried.
FairSpec ==
  /\ Spec
  /\ WF_vars(UpdateDrain \/ UpdatePush)
  /\ WF_vars(NewDoor) /\ WF_vars(DoorUpdate)
  /\ SF_vars(DoorExited) /\ SF_vars(TakeUpdate) /\ SF_vars(CallUpdate)
  /\ SF_vars(UpdateSucceeds)
  /\ WF_vars(SetTrack \/ GotConn \/ Signalled) /\ WF_vars(BLockCancelled)

-----------------------------------------------------------------------------
(* Properties *)

\* The type invariant.
TypeOK ==
  /\ owner \in {"new", "idle", "drain", "push", "left"}
  /\ updates \in 0..MaxUpdates
  /\ IF owner \in {"drain", "push"} THEN updating \in Params ELSE updating = None
  /\ latest \in Params \cup {None}
  /\ updateCh \in Params \cup {None}
  /\ routine \in {"off", "newdoor", "select", "update"}
  /\ IF routine = "off" THEN param = None ELSE param \in Params
  /\ retryCh \in Params \cup {None}
  /\ oldTrack \in Params \cup {None}
  /\ bl \in {"none", "begin", "conn", "signal", "run", "exited"}
  /\ lock \in Params \cup {None}
  /\ door \in [track : Params \cup {None}, cancel : BOOLEAN, r : BOOLEAN,
               cancelled : BOOLEAN, removed : BOOLEAN]
  /\ accepted \in Params \cup {None}

\* The owner's newest parameter is never overtaken or dropped on its way to the
\* routine: it is in the call of Update, else in updateCh, else the routine
\* works with it (blockeddoor.go:61-74, 109-142).
NewestOnItsWay ==
  /\ latest = IF owner \in {"drain", "push"} THEN updating
              ELSE IF updateCh # None THEN updateCh ELSE param
  /\ retryCh \in {None, param}

\* The routine has nothing left to hand to the door.
Settled ==
  /\ owner \in {"idle", "left"} /\ routine = "select"
  /\ updateCh = None /\ retryCh = None

\* When nothing is left to hand over, the door has the newest parameter: BLock
\* was called with it, or the door's Update accepted it.
NothingForgotten == Settled => latest \in {lock, accepted}

\* What Update has drained for is as good as in the channel.
Mailbox == INSTANCE LatestMailbox WITH
  Keys <- {"watchdog"}, Values <- Params, Nothing <- None,
  pending <- [k \in {"watchdog"} |-> IF owner = "push" THEN updating ELSE updateCh],
  taken <- [k \in {"watchdog"} |-> param]

\* Update, which the routine may interrupt anywhere, is one atomic replacement of
\* the parameter that waits, and the routine, started with Watch's, works with each
\* one it takes once (blockeddoor.go:55-74, 109-142).
ImplementsMailbox == Mailbox!StartedSpec

\* The inductive invariant: Watch comes first, the owner pushes into an empty channel, and the
\* routine waits without a retry only for a door that has its parameter.
IInv ==
  /\ TypeOK
  /\ NewestOnItsWay
  /\ owner = "new" <=> routine = "off"
  /\ owner = "new" => updateCh = None /\ retryCh = None
  /\ owner = "push" => updateCh = None
  /\ routine = "select" /\ retryCh = None => param \in {lock, accepted}

\* A parameter is handed over unless a newer one replaces it: a failing update
\* is retried, through any number of restarts of the door.
HandedOver ==
  \A p \in Params :
    latest = p ~> (Settled /\ latest \in {lock, accepted}) \/ latest # p

\* blockeddoor.go:27, "!!! when Remove called, BLock should exit !!!".
RemoveEndsBLock == door.removed ~> bl = "exited"

=============================================================================
