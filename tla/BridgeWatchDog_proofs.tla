------------------------- MODULE BridgeWatchDog_proofs -------------------------
(***************************************************************************)
(* Safety of the bridge's watchdog, of its bridges and of the watchdogs of *)
(* their entrances, for every set of sessions and tracks and any number of *)
(* updates, bridges and failures.                                          *)
(***************************************************************************)
EXTENDS BridgeWatchDog, TLAPS

-----------------------------------------------------------------------------
(* The dogs *)

\* The dog of the bridge is none of an entrance, and the dogs of two doors or of
\* two sessions differ: every Entrance has a watchdog of its own (bridge.go:89).
LEMMA DogsDiffer ==
  /\ Bridge \in Dogs
  /\ \A k \in Doors, s \in SIDs : Entrance(k, s) \in Entrances /\ Entrance(k, s) # Bridge
  /\ \A k, j \in Doors, s, r \in SIDs : Entrance(k, s) = Entrance(j, r) => k = j /\ s = r
  /\ Entrances \subseteq Dogs /\ Bridge \notin Entrances
  /\ \A e \in Entrances : \E k \in Doors, s \in SIDs : e = Entrance(k, s)
  /\ \A d \in Dogs : d = Bridge \/ d \in Entrances
BY BoundsAssumption DEF Bridge, Entrance, Entrances, Dogs, Doors

\* What TypeOK says of the door.
LEMMA DoorTypes ==
  ASSUME TypeOK
  PROVE  /\ doors \in 0 .. MaxDoors /\ door \in 0 .. doors
         /\ door # 0 => door \in Doors
         /\ entrances \subseteq SIDs
         /\ exits \subseteq 1 .. doors /\ leaked \subseteq exits
         /\ at \in [Dogs -> Places] /\ left \in [Dogs -> BOOLEAN]
BY BoundsAssumption DEF TypeOK, Doors

\* Bridge.Remove (bridge.go:161-168) leaves the entrances of this door, and no other.
LEMMA RemoveDoorEffect ==
  ASSUME TypeOK, NEW place \in Places, RemoveDoor(place)
  PROVE  /\ at' \in [Dogs -> Places] /\ left' \in [Dogs -> BOOLEAN]
         /\ at'[Bridge] = place
         /\ \A e \in Entrances : at'[e] = at[e] /\ (left[e] => left'[e])
         /\ \A k \in Doors, s \in SIDs :
              left'[Entrance(k, s)] <=>
                left[Entrance(k, s)] \/ (k = door /\ s \in entrances)
<1>1. at' \in [Dogs -> Places] /\ at'[Bridge] = place
  BY DogsDiffer, DoorTypes DEF RemoveDoor
<1>2. \A e \in Entrances : at'[e] = at[e]
  BY DogsDiffer, DoorTypes DEF RemoveDoor
<1>3. left' \in [Dogs -> BOOLEAN]
  BY DoorTypes DEF RemoveDoor
<1>4. \A e \in Entrances : left[e] => left'[e]
  BY DogsDiffer, DoorTypes DEF RemoveDoor
<1>5. ASSUME NEW k \in Doors, NEW s \in SIDs
      PROVE  left'[Entrance(k, s)] <=>
               left[Entrance(k, s)] \/ (k = door /\ s \in entrances)
  <2>1. left'[Entrance(k, s)] =
          (left[Entrance(k, s)] \/ \E r \in entrances : Entrance(k, s) = Entrance(door, r))
    BY DogsDiffer DEF RemoveDoor
  <2>2. ASSUME NEW r \in entrances, Entrance(k, s) = Entrance(door, r)
        PROVE  k = door /\ s = r
    BY <2>2 DEF Entrance
  <2>3. QED
    BY <2>1, <2>2
<1>6. QED
  BY <1>1, <1>2, <1>3, <1>4, <1>5

\* Bridge.Update (bridge.go:69-108) watches the entrances that are missing and
\* leaves those that are not wanted any more.
LEMMA ApplyEffect ==
  ASSUME TypeOK, NEW t \in Tracks, NEW place \in Places, Apply(t, place)
  PROVE  /\ at' \in [Dogs -> Places] /\ left' \in [Dogs -> BOOLEAN]
         /\ at'[Bridge] = place
         /\ entrances' = t.srcs /\ t.srcs \subseteq SIDs /\ procedure' = t
         /\ \A k \in Doors, s \in SIDs :
              /\ at'[Entrance(k, s)] = IF k = door /\ s \in t.srcs \ entrances
                                       THEN "newdoor" ELSE at[Entrance(k, s)]
              /\ left'[Entrance(k, s)] <=>
                   left[Entrance(k, s)] \/ (k = door /\ s \in entrances \ t.srcs)
<1>1. t.srcs \subseteq SIDs
  BY TracksAssumption
<1>2. "newdoor" \in Places
  BY DEF Places
<1>3. at' \in [Dogs -> Places] /\ left' \in [Dogs -> BOOLEAN] /\ at'[Bridge] = place
  BY <1>2, DogsDiffer, DoorTypes DEF Apply
<1>4. ASSUME NEW k \in Doors, NEW s \in SIDs
      PROVE  /\ at'[Entrance(k, s)] = IF k = door /\ s \in t.srcs \ entrances
                                      THEN "newdoor" ELSE at[Entrance(k, s)]
             /\ left'[Entrance(k, s)] <=>
                  left[Entrance(k, s)] \/ (k = door /\ s \in entrances \ t.srcs)
  <2>1. Entrance(k, s) \in Dogs /\ Entrance(k, s) # Bridge
    BY DogsDiffer
  <2>2. \A S : (\E r \in S : Entrance(k, s) = Entrance(door, r)) <=> (k = door /\ s \in S)
    BY DEF Entrance
  <2>3. at'[Entrance(k, s)] =
          IF \E r \in t.srcs \ entrances : Entrance(k, s) = Entrance(door, r)
          THEN "newdoor" ELSE at[Entrance(k, s)]
    BY <2>1 DEF Apply
  <2>4. left'[Entrance(k, s)] =
          (left[Entrance(k, s)] \/ \E r \in entrances \ t.srcs : Entrance(k, s) = Entrance(door, r))
    BY <2>1 DEF Apply
  <2>5. QED
    BY <2>2, <2>3, <2>4
<1>5. QED
  BY <1>1, <1>3, <1>4 DEF Apply

-----------------------------------------------------------------------------
(* The inductive invariant *)

\* The parts of the invariant about doors and entrances.
DoorInv == DoorInUse /\ FreshEntrances /\ EntrancesOfThisDoor /\ OneExit

LEMMA InitInv == Init => IInv
<1> SUFFICES ASSUME Init PROVE IInv
  OBVIOUS
<1>1. TypeOK
  BY BoundsAssumption DEF Init, TypeOK, Places
<1>2. DoorInUse /\ OneExit
  BY DogsDiffer DEF Init, DoorInUse, OneExit
<1>3. FreshEntrances /\ EntrancesOfThisDoor
  BY DogsDiffer DEF Init, FreshEntrances, Fresh, EntrancesOfThisDoor, Running
<1>4. QED
  BY <1>1, <1>2, <1>3 DEF IInv

\* A removed door leaves no entrance of its own and closes its exit, wherever the
\* dog goes on (watchdog.go:106, 117, 123, 130).
LEMMA RemovedInv ==
  ASSUME IInv, NEW place \in {"newdoor", "gone"}, RemoveDoor(place), door # 0,
         param' \in Tracks, UNCHANGED <<owner, doors, leaked>>
  PROVE  DoorInv' /\ exits' \subseteq 1 .. doors /\ leaked \subseteq exits'
<1>1. TypeOK /\ place \in Places
  BY DEF IInv, Places
<1>2. /\ door' = 0 /\ entrances' = {} /\ dst' = None /\ exits' = exits \ {door}
      /\ owner # "new" /\ exits \ leaked = {door}
  BY DEF RemoveDoor, IInv, OneExit, DoorInUse
<1>3. DoorInUse'
  BY <1>1, <1>2, RemoveDoorEffect DEF DoorInUse
<1>4. FreshEntrances'
  <2>1. ASSUME NEW k \in Doors, NEW s \in SIDs, k > doors
        PROVE  Fresh(Entrance(k, s))'
    <3>1. Fresh(Entrance(k, s)) /\ k # door
      BY <2>1, DoorTypes, <1>1 DEF IInv, FreshEntrances, Doors
    <3>2. QED
      BY <3>1, <1>1, RemoveDoorEffect, DogsDiffer DEF Fresh, Entrance
  <2>2. QED
    BY <2>1, <1>1, RemoveDoorEffect DEF FreshEntrances
<1>5. EntrancesOfThisDoor'
  <2>1. ASSUME NEW k \in Doors, NEW s \in SIDs, Running(Entrance(k, s))'
        PROVE  left'[Entrance(k, s)]
    <3>1. Running(Entrance(k, s))
      BY <2>1, <1>1, RemoveDoorEffect, DogsDiffer DEF Running, Entrance
    <3>2. left[Entrance(k, s)] \/ (k = door /\ s \in entrances)
      BY <3>1 DEF IInv, EntrancesOfThisDoor
    <3>3. QED
      BY <3>2, <1>1, RemoveDoorEffect
  <2>2. QED
    BY <2>1, <1>2 DEF EntrancesOfThisDoor, Entrance
<1>6. OneExit' /\ exits' \subseteq 1 .. doors /\ leaked \subseteq exits'
  BY <1>1, <1>2, DoorTypes DEF OneExit
<1>7. QED
  BY <1>3, <1>4, <1>5, <1>6 DEF DoorInv

\* A parameter that is applied starts exactly the entrances that are missing; none
\* of them was used before (bridge.go:86-105).
LEMMA AppliedInv ==
  ASSUME IInv, NEW t \in Tracks, NEW place \in {"lock", "select"}, Apply(t, place),
         param' \in Tracks, UNCHANGED <<owner, doors, door, exits, leaked>>,
         \/ at[Bridge] = "lock" /\ dst = None /\ place = "select" /\ dst' # None
         \/ at[Bridge] = "select" /\ place = "lock" /\ dst' = dst
  PROVE  DoorInv'
<1>1. TypeOK /\ place \in Places
  BY DEF IInv, Places
<1>2. door \in Doors /\ door # 0 /\ owner # "new" /\ (at[Bridge] = "select" => dst # None)
  BY <1>1, DoorTypes DEF IInv, DoorInUse
<1>3. /\ at'[Bridge] = place
      /\ entrances' = t.srcs /\ t.srcs \subseteq SIDs
      /\ \A k \in Doors, s \in SIDs :
           /\ at'[Entrance(k, s)] = IF k = door /\ s \in t.srcs \ entrances
                                    THEN "newdoor" ELSE at[Entrance(k, s)]
           /\ left'[Entrance(k, s)] <=>
                left[Entrance(k, s)] \/ (k = door /\ s \in entrances \ t.srcs)
  BY <1>1, ApplyEffect
<1>4. \A s \in SIDs \ entrances : Fresh(Entrance(door, s))
  BY DEF IInv, FreshEntrances
<1>5. DoorInUse'
  BY <1>2, <1>3 DEF DoorInUse
<1>6. FreshEntrances'
  <2>1. ASSUME NEW k \in Doors, NEW s \in SIDs, k > doors
        PROVE  Fresh(Entrance(k, s))'
    <3>1. Fresh(Entrance(k, s)) /\ k # door
      BY <2>1, DoorTypes, <1>1 DEF IInv, FreshEntrances, Doors
    <3>2. QED
      BY <3>1, <1>3 DEF Fresh, Entrance
  <2>2. ASSUME NEW s \in SIDs \ t.srcs, place = "select"
        PROVE  Fresh(Entrance(door, s))'
    <3>1. s \notin entrances
      BY <2>2 DEF IInv, FreshEntrances
    <3>2. QED
      BY <3>1, <1>2, <1>3, <1>4 DEF Fresh, Entrance
  <2>3. place = "lock" => dst' # None
    BY <1>2
  <2>4. QED
    BY <2>1, <2>2, <2>3, <1>3 DEF FreshEntrances, Fresh, Entrance
<1>7. EntrancesOfThisDoor'
  <2>1. ASSUME NEW k \in Doors, NEW s \in SIDs,
               Running(Entrance(k, s))', ~left'[Entrance(k, s)]
        PROVE  k = door /\ s \in t.srcs
    BY <2>1, <1>3 DEF IInv, EntrancesOfThisDoor, Running, Entrance
  <2>2. ASSUME NEW s \in t.srcs
        PROVE  Running(Entrance(door, s))' /\ ~left'[Entrance(door, s)]
    <3>1. CASE s \in entrances
      BY <3>1, <1>2, <1>3 DEF IInv, EntrancesOfThisDoor, Running, Entrance
    <3>2. CASE s \notin entrances
      BY <3>2, <1>2, <1>3, <1>4 DEF Fresh, Running, Entrance
    <3>3. QED
      BY <3>1, <3>2
  <2>3. QED
    BY <2>1, <2>2, <1>3 DEF EntrancesOfThisDoor, Entrance
<1>8. OneExit'
  BY DEF IInv, OneExit
<1>9. QED
  BY <1>5, <1>6, <1>7, <1>8 DEF DoorInv

\* A step that leaves the doors and the dogs alone.
LEMMA SameDoor ==
  ASSUME IInv, UNCHANGED <<at, left, param, bridgeVars>>, owner' = "new" <=> owner = "new"
  PROVE  DoorInv'
BY DEF IInv, DoorInv, DoorInUse, FreshEntrances, Fresh, EntrancesOfThisDoor, Running,
       Entrance, OneExit, bridgeVars

\* The owner: it starts the dog once, and then only puts parameters in its channel
\* or cancels it (watchdog.go:73-76, 137-154).
LEMMA OwnerInv == IInv /\ Owner => IInv'
<1> SUFFICES ASSUME IInv, Owner PROVE IInv'
  OBVIOUS
<1> USE DEF IInv, bridgeVars, dogVars
<1>1. ASSUME NEW t \in Tracks, Watch(t) PROVE IInv'
  <2>1. TypeOK'
    BY <1>1 DEF Watch, TypeOK, Places
  <2>2. /\ at' \in [Dogs -> Places] /\ at'[Bridge] = "newdoor" /\ at[Bridge] = "off"
        /\ \A e \in Entrances : at'[e] = at[e]
        /\ UNCHANGED <<left, bridgeVars>> /\ param' = t /\ owner' = "idle"
    BY <1>1, DogsDiffer DEF Watch, TypeOK, Places, DoorInUse
  <2>3. DoorInUse' /\ OneExit'
    BY <2>2 DEF DoorInUse, OneExit
  <2>4. FreshEntrances' /\ EntrancesOfThisDoor'
    <3>1. door = 0 /\ entrances = {}
      BY <2>2 DEF DoorInUse
    <3>2. QED
      BY <2>2, <3>1, DogsDiffer DEF FreshEntrances, Fresh, EntrancesOfThisDoor, Running, Entrance
  <2>5. QED
    BY <2>1, <2>3, <2>4
<1>2. ASSUME NEW t \in Tracks, UpdateOffer(t) PROVE IInv'
  <2>1. TypeOK'
    BY <1>2, BoundsAssumption DEF UpdateOffer, TypeOK
  <2>2. DoorInv'
    BY <1>2, SameDoor DEF UpdateOffer
  <2>3. QED
    BY <2>1, <2>2 DEF DoorInv
<1>3. CASE UpdateDrain \/ UpdatePush
  <2>1. TypeOK'
    BY <1>3 DEF UpdateDrain, UpdatePush, TypeOK
  <2>2. DoorInv'
    BY <1>3, SameDoor DEF UpdateDrain, UpdatePush
  <2>3. QED
    BY <2>1, <2>2 DEF DoorInv
<1>4. CASE Leave
  <2>1. TypeOK'
    BY <1>4 DEF Leave, TypeOK
  <2>2. \A e \in Entrances : left'[e] = left[e]
    BY <1>4, DogsDiffer DEF Leave, TypeOK
  <2>3. DoorInUse' /\ OneExit'
    BY <1>4 DEF Leave, DoorInUse, OneExit
  <2>4. FreshEntrances' /\ EntrancesOfThisDoor'
    <3>1. \A k \in Doors, s \in SIDs : left'[Entrance(k, s)] = left[Entrance(k, s)]
      BY <2>2, DogsDiffer
    <3>2. door # 0 => door \in Doors
      BY DoorTypes
    <3>3. (door = 0 => entrances = {}) /\ (at[Bridge] \in {"lock", "select"} => door # 0)
      BY DEF DoorInUse
    <3>4. entrances \subseteq SIDs
      BY DoorTypes
    <3>5. UNCHANGED <<at, bridgeVars>>
      BY <1>4 DEF Leave
    <3>6. FreshEntrances'
      BY <3>1, <3>2, <3>3, <3>5 DEF FreshEntrances, Fresh, Entrance
    <3>7. EntrancesOfThisDoor'
      BY <3>1, <3>2, <3>3, <3>4, <3>5 DEF EntrancesOfThisDoor, Running, Entrance
    <3>8. QED
      BY <3>6, <3>7
  <2>5. QED
    BY <2>1, <2>3, <2>4
<1>5. QED
  BY <1>1, <1>2, <1>3, <1>4 DEF Owner, StartProceedTrack, ReplaceProceedTrack, StopProceedTrack

\* A bridge is bought, or is not; then the dog has no door (watchdog.go:88-103).
LEMMA NewDoorInv == IInv /\ (BridgeNewDoor \/ BridgeNewDoorFails) => IInv'
<1> SUFFICES ASSUME IInv, BridgeNewDoor \/ BridgeNewDoorFails PROVE IInv'
  OBVIOUS
<1> USE DEF IInv, ownerVars, dogVars, bridgeVars
<1>1. /\ at[Bridge] = "newdoor" /\ door = 0 /\ entrances = {} /\ dst = None
      /\ owner # "new" /\ param \in Tracks /\ exits = leaked
      /\ doors \in 0 .. MaxDoors /\ MaxDoors \in Nat /\ exits \subseteq 1 .. doors
  BY BoundsAssumption, DoorTypes DEF BridgeNewDoor, BridgeNewDoorFails, DoorInUse, OneExit
<1>2. CASE BridgeNewDoor
  <2>1. /\ at' \in [Dogs -> Places] /\ at'[Bridge] = "lock"
        /\ \A e \in Entrances : at'[e] = at[e]
    BY <1>2, DogsDiffer DEF BridgeNewDoor, TypeOK, Places
  <2>2. /\ doors' = doors + 1 /\ door' = doors + 1 /\ doors' \in Doors
        /\ exits' = exits \cup {doors + 1}
    BY <1>1, <1>2 DEF BridgeNewDoor, Doors
  <2>3. TypeOK'
    <3>1. doors' \in 0 .. MaxDoors /\ door' \in 0 .. doors' /\ exits' \subseteq 1 .. doors'
      BY <1>1, <2>2 DEF Doors
    <3>2. QED
      BY <1>2, <2>1, <2>2, <3>1 DEF BridgeNewDoor, TypeOK
  <2>4. DoorInUse' /\ OneExit'
    <3>1. doors + 1 \notin exits
      BY <1>1
    <3>2. QED
      BY <1>1, <1>2, <2>1, <2>2, <3>1 DEF BridgeNewDoor, DoorInUse, OneExit
  <2>5. FreshEntrances'
    <3>1. \A k \in Doors : k > doors' \/ k = doors' => k > doors
      BY <1>1, <2>2 DEF Doors
    <3>2. \A k \in Doors, s \in SIDs : k > doors => Fresh(Entrance(k, s))'
      BY <1>2, <2>1, DogsDiffer DEF BridgeNewDoor, FreshEntrances, Fresh, Entrance
    <3>3. entrances' = {}
      BY <1>1, <1>2 DEF BridgeNewDoor
    <3>4. QED
      BY <2>1, <2>2, <3>1, <3>2, <3>3 DEF FreshEntrances, Fresh, Entrance
  <2>6. EntrancesOfThisDoor'
    BY <1>1, <1>2, <2>1, DogsDiffer DEF BridgeNewDoor, EntrancesOfThisDoor, Running, Entrance, Doors
  <2>7. QED
    BY <2>3, <2>4, <2>5, <2>6
<1>3. CASE BridgeNewDoorFails
  <2>1. /\ at' \in [Dogs -> Places] /\ at'[Bridge] \in {"gone", "newdoor"}
        /\ \A e \in Entrances : at'[e] = at[e]
    BY <1>3, DogsDiffer DEF BridgeNewDoorFails, AfterFailure, TypeOK, Places
  <2>2. /\ doors' \in {doors, doors + 1} /\ doors' \in 0 .. MaxDoors
        /\ exits' = leaked' /\ exits' \subseteq 1 .. doors'
    <3>1. /\ doors < MaxDoors
          /\ \/ UNCHANGED <<doors, exits, leaked>>
             \/ doors' = doors + 1 /\ exits' = exits \cup {doors + 1}
                /\ leaked' = leaked \cup {doors + 1}
      BY <1>3 DEF BridgeNewDoorFails
    <3>2. CASE UNCHANGED <<doors, exits, leaked>>
      BY <1>1, <3>2
    <3>3. CASE /\ doors' = doors + 1 /\ exits' = exits \cup {doors + 1}
               /\ leaked' = leaked \cup {doors + 1}
      <4>1. doors' \in {doors, doors + 1} /\ doors' \in 0 .. MaxDoors
        BY <1>1, <3>1, <3>3
      <4>2. exits' = leaked'
        BY <1>1, <3>3
      <4>3. \A x \in exits' : x \in 1 .. doors'
        BY <1>1, <3>3
      <4>4. QED
        BY <4>1, <4>2, <4>3
    <3>4. QED
      BY <3>1, <3>2, <3>3
  <2>3. TypeOK'
    <3>1. door' \in 0 .. doors' /\ leaked' \subseteq exits'
      BY <1>1, <1>3, <2>2 DEF BridgeNewDoorFails
    <3>2. faults' \in 0 .. MaxFaults
      BY <1>3, BoundsAssumption DEF BridgeNewDoorFails, Fault, TypeOK
    <3>3. QED
      BY <1>3, <2>1, <2>2, <3>1, <3>2 DEF BridgeNewDoorFails, TypeOK
  <2>4. DoorInUse' /\ OneExit'
    BY <1>1, <1>3, <2>1, <2>2 DEF BridgeNewDoorFails, DoorInUse, OneExit
  <2>5. FreshEntrances'
    <3>1. \A k \in Doors : k > doors' => k > doors
      BY <1>1, <2>2 DEF Doors
    <3>2. \A k \in Doors, s \in SIDs : k > doors => Fresh(Entrance(k, s))'
      BY <1>3, <2>1, DogsDiffer DEF BridgeNewDoorFails, FreshEntrances, Fresh, Entrance
    <3>3. QED
      BY <2>1, <3>1, <3>2 DEF FreshEntrances, Fresh, Entrance
  <2>6. EntrancesOfThisDoor'
    BY <1>1, <1>3, <2>1, DogsDiffer DEF BridgeNewDoorFails, EntrancesOfThisDoor, Running, Entrance
  <2>7. QED
    BY <2>3, <2>4, <2>5, <2>6
<1>4. QED
  BY <1>2, <1>3

\* Lock of the present door (bridge.go:110-155), and what follows when it fails.
LEMMA LockInv == IInv /\ (BridgeLock \/ BridgeLockFails) => IInv'
<1> SUFFICES ASSUME IInv, BridgeLock \/ BridgeLockFails PROVE IInv'
  OBVIOUS
<1>1. /\ TypeOK /\ at[Bridge] = "lock" /\ door # 0 /\ param \in Tracks
  BY DEF IInv, DoorInUse, BridgeLock, BridgeLockFails
<1>2. CASE BridgeLock
  <2>1. /\ Apply(param, "select") /\ dst = None /\ dst' # None
        /\ UNCHANGED <<ownerVars, updateCh, param, broken, hadDoor, doors, door, exits,
                       leaked, faults>>
    BY <1>1, <1>2, TracksAssumption DEF BridgeLock
  <2>2. DoorInv'
    BY <1>1, <2>1, AppliedInv DEF ownerVars
  <2>3. /\ at' \in [Dogs -> Places] /\ left' \in [Dogs -> BOOLEAN]
        /\ entrances' \subseteq SIDs /\ procedure' = param
    BY <1>1, <2>1, ApplyEffect DEF Places
  <2>4. TypeOK'
    BY <1>1, <2>1, <2>3 DEF TypeOK, ownerVars
  <2>5. QED
    BY <2>2, <2>4 DEF IInv, DoorInv
<1>3. CASE BridgeLockFails
  <2> DEFINE place == AfterFailure(Bridge)
  <2>1. /\ RemoveDoor(place) /\ place \in {"newdoor", "gone"} /\ place \in Places
        /\ UNCHANGED <<ownerVars, updateCh, param, broken, hadDoor, doors, leaked>>
    BY <1>3 DEF BridgeLockFails, AfterFailure, Places
  <2>2. DoorInv' /\ exits' \subseteq 1 .. doors /\ leaked \subseteq exits'
    BY <1>1, <2>1, RemovedInv DEF ownerVars
  <2>3. at' \in [Dogs -> Places] /\ left' \in [Dogs -> BOOLEAN]
    BY <1>1, <2>1, RemoveDoorEffect
  <2>4. door' = 0 /\ entrances' = {} /\ procedure' = None
    BY <2>1 DEF RemoveDoor
  <2>5. faults' \in 0 .. MaxFaults
    BY <1>1, <1>3, BoundsAssumption DEF BridgeLockFails, Fault, NoFault, TypeOK
  <2>6. TypeOK'
    BY <1>1, <2>1, <2>2, <2>3, <2>4, <2>5, BoundsAssumption DEF TypeOK, ownerVars
  <2>7. QED
    BY <2>2, <2>6 DEF IInv, DoorInv
<1>4. QED
  BY <1>2, <1>3

\* The select of the loop (watchdog.go:115-133): an update, a report, the end.
LEMMA SelectInv == IInv /\ (BridgeUpdate \/ BridgeBroken \/ BridgeDone) => IInv'
<1> SUFFICES ASSUME IInv, BridgeUpdate \/ BridgeBroken \/ BridgeDone PROVE IInv'
  OBVIOUS
<1>1. TypeOK /\ at[Bridge] = "select" /\ door # 0 /\ param \in Tracks /\ dst # None
  BY DEF IInv, DoorInUse, BridgeUpdate, BridgeBroken, BridgeDone
<1>2. CASE BridgeUpdate /\ Apply(updateCh, "lock")
  <2>1. /\ updateCh \in Tracks /\ param' = updateCh /\ updateCh' = None
        /\ UNCHANGED <<ownerVars, broken, hadDoor, doors, leaked>>
    BY <1>1, <1>2 DEF BridgeUpdate, TypeOK
  <2>2. CASE NoFault /\ UNCHANGED <<door, dst, exits>>
    <3>1. DoorInv'
      BY <1>1, <1>2, <2>1, <2>2, AppliedInv DEF ownerVars
    <3>2. /\ at' \in [Dogs -> Places] /\ left' \in [Dogs -> BOOLEAN]
          /\ entrances' \subseteq SIDs /\ procedure' = updateCh
      BY <1>1, <1>2, <2>1, ApplyEffect DEF Places
    <3>3. TypeOK'
      BY <1>1, <2>1, <2>2, <3>2 DEF TypeOK, ownerVars, NoFault
    <3>4. QED
      BY <3>1, <3>3 DEF IInv, DoorInv
  <2>3. CASE Fault /\ RemoveDoor("newdoor")
    BY <1>1, <1>2, <2>3, RemoveDoorEffect, ApplyEffect, <2>1 DEF Places
  <2>4. QED
    BY <1>2, <2>2, <2>3 DEF BridgeUpdate
<1>3. ASSUME NEW place \in {"newdoor", "gone"}, RemoveDoor(place), param' \in Tracks,
             UNCHANGED <<ownerVars, hadDoor, doors, leaked>>,
             updateCh' \in {None, updateCh}, broken' \in [Dogs -> BOOLEAN],
             faults' \in 0 .. MaxFaults
      PROVE  IInv'
  <2>1. DoorInv' /\ exits' \subseteq 1 .. doors /\ leaked \subseteq exits'
    BY <1>1, <1>3, RemovedInv DEF ownerVars
  <2>2. place \in Places /\ at' \in [Dogs -> Places] /\ left' \in [Dogs -> BOOLEAN]
    BY <1>1, <1>3, RemoveDoorEffect DEF Places
  <2>3. door' = 0 /\ entrances' = {} /\ procedure' = None
    BY <1>3 DEF RemoveDoor
  <2>4. TypeOK'
    BY <1>1, <1>3, <2>1, <2>2, <2>3, BoundsAssumption DEF TypeOK, ownerVars
  <2>5. QED
    BY <2>1, <2>4 DEF IInv, DoorInv
<1>4. CASE BridgeUpdate /\ ~Apply(updateCh, "lock")
  <2>1. /\ RemoveDoor("newdoor") /\ param' = updateCh /\ updateCh' = None /\ updateCh \in Tracks
        /\ UNCHANGED <<ownerVars, broken, hadDoor, doors, leaked>>
    BY <1>1, <1>4 DEF BridgeUpdate, TypeOK
  <2>2. faults' \in 0 .. MaxFaults
    BY <1>1, <1>4, BoundsAssumption DEF BridgeUpdate, Fault, TypeOK
  <2>3. broken' \in [Dogs -> BOOLEAN]
    BY <1>1, <2>1 DEF TypeOK
  <2>4. QED
    BY <1>3, <2>1, <2>2, <2>3
<1>5. CASE BridgeBroken
  <2>1. /\ RemoveDoor("newdoor") /\ broken' = [broken EXCEPT ![Bridge] = FALSE]
        /\ UNCHANGED <<ownerVars, updateCh, param, hadDoor, doors, leaked, faults>>
    BY <1>5 DEF BridgeBroken
  <2>2. broken' \in [Dogs -> BOOLEAN] /\ faults \in 0 .. MaxFaults
    BY <1>1, <2>1 DEF TypeOK
  <2>3. QED
    BY <1>1, <1>3, <2>1, <2>2
<1>6. CASE BridgeDone
  <2>1. /\ RemoveDoor("gone")
        /\ UNCHANGED <<ownerVars, updateCh, param, broken, hadDoor, doors, leaked, faults>>
    BY <1>6 DEF BridgeDone
  <2>2. broken \in [Dogs -> BOOLEAN] /\ faults \in 0 .. MaxFaults
    BY <1>1 DEF TypeOK
  <2>3. QED
    BY <1>1, <1>3, <2>1, <2>2
<1>7. QED
  BY <1>2, <1>4, <1>5, <1>6

\* The watchdog of an entrance goes on, or returns if it was left.
LEMMA EntranceInv == ASSUME IInv, NEW e \in Entrances, EntranceStep(e) PROVE IInv'
<1>1. PICK to \in Places :
        /\ at' = [at EXCEPT ![e] = to]
        /\ at[e] \notin {"off", "gone"}
        /\ to \in {"off", "gone"} => left[e]
  BY DEF EntranceStep, EntranceNewDoor, EntranceLock, EntranceFails, EntranceBroken,
         EntranceDone, EntranceGoes, AfterFailure, Places
<1>2. UNCHANGED <<ownerVars, updateCh, param, left, bridgeVars>>
  BY DEF EntranceStep, EntranceNewDoor, EntranceLock, EntranceFails, EntranceBroken,
         EntranceDone, EntranceGoes
<1>3. /\ hadDoor' \in [Dogs -> BOOLEAN] /\ broken' \in [Dogs -> BOOLEAN]
      /\ faults' \in 0 .. MaxFaults
  <2>1. /\ hadDoor \in [Dogs -> BOOLEAN] /\ broken \in [Dogs -> BOOLEAN]
        /\ faults \in 0 .. MaxFaults
    BY DEF IInv, TypeOK
  <2>2. hadDoor' \in {hadDoor, [hadDoor EXCEPT ![e] = TRUE]}
    BY DEF EntranceStep, EntranceNewDoor, EntranceLock, EntranceFails, EntranceBroken, EntranceDone
  <2>3. broken' \in {broken, [broken EXCEPT ![e] = FALSE]}
    BY DEF EntranceStep, EntranceNewDoor, EntranceLock, EntranceFails, EntranceBroken, EntranceDone
  <2>4. faults' = faults \/ Fault
    BY DEF EntranceStep, EntranceNewDoor, EntranceLock, EntranceFails, EntranceBroken, EntranceDone
  <2>5. faults' \in 0 .. MaxFaults
    BY <2>1, <2>4, BoundsAssumption DEF Fault
  <2>6. QED
    BY <2>1, <2>2, <2>3, <2>5
<1>4. /\ at' \in [Dogs -> Places] /\ at'[Bridge] = at[Bridge]
      /\ \A d \in Entrances : at'[d] = IF d = e THEN to ELSE at[d]
  BY <1>1, DogsDiffer DEF IInv, TypeOK
<1>5. TypeOK'
  BY <1>2, <1>3, <1>4 DEF IInv, TypeOK, ownerVars, bridgeVars
<1>6. DoorInUse' /\ OneExit'
  BY <1>2, <1>4 DEF IInv, DoorInUse, OneExit, ownerVars, bridgeVars
<1>7. \A d \in Entrances : /\ Fresh(d) => at'[d] = at[d]
                           /\ at'[d] \notin {"off", "gone"} => at[d] \notin {"off", "gone"}
                           /\ at'[d] \in {"off", "gone"} /\ at'[d] # at[d] => left[d]
  BY <1>1, <1>4 DEF Fresh
<1>8. UNCHANGED <<left, doors, door, dst, entrances>> /\ entrances \subseteq SIDs
  BY <1>2, DoorTypes DEF bridgeVars, IInv
<1>9. at[Bridge] \in {"lock", "select"} => door \in Doors
  BY DoorTypes DEF IInv, DoorInUse
<1>10. FreshEntrances'
  BY <1>4, <1>7, <1>8, <1>9, DogsDiffer DEF IInv, FreshEntrances, Fresh, Entrance
<1>11. EntrancesOfThisDoor'
  <2>1. entrances # {} => door \in Doors
    BY DoorTypes DEF IInv, DoorInUse
  <2>2. QED
    BY <1>7, <1>8, <2>1, DogsDiffer DEF IInv, EntrancesOfThisDoor, Running, Entrance
<1>12. QED
  BY <1>5, <1>6, <1>10, <1>11 DEF IInv

\* A report only fills the channel of a dog (watchdog.go:80-85).
LEMMA ReportInv == IInv /\ Report => IInv'
<1> SUFFICES ASSUME IInv, Report PROVE IInv'
  OBVIOUS
<1>1. PICK d \in Dogs : OnBroken(d)
  BY DogsDiffer DEF Report, NegotiationFails, CandidateRefused, OfferRefused, InTrackRefused
<1>2. TypeOK'
  BY <1>1, BoundsAssumption DEF OnBroken, Fault, IInv, TypeOK, ownerVars, bridgeVars
<1>3. DoorInv'
  BY <1>1, SameDoor DEF OnBroken, ownerVars
<1>4. QED
  BY <1>2, <1>3 DEF IInv, DoorInv

\* Every step keeps the invariant.
LEMMA StepInv == IInv /\ [Next]_vars => IInv'
<1> SUFFICES ASSUME IInv, [Next]_vars PROVE IInv'
  OBVIOUS
<1>1. CASE UNCHANGED vars
  <2>1. DoorInv'
    BY <1>1, SameDoor DEF vars, ownerVars, dogVars
  <2>2. TypeOK'
    BY <1>1 DEF vars, ownerVars, dogVars, bridgeVars, IInv, TypeOK
  <2>3. QED
    BY <2>1, <2>2 DEF IInv, DoorInv
<1>2. CASE Next
  BY <1>1, <1>2, OwnerInv, NewDoorInv, LockInv, SelectInv, EntranceInv, ReportInv
     DEF Next, BridgeStep, Quiet
<1>3. QED
  BY <1>1, <1>2

-----------------------------------------------------------------------------
(* Theorems *)

\* The inductive invariant of the bridge's dog, of its bridges and entrances.
THEOREM BridgeInvariant == Spec => []IInv
BY InitInv, StepInv, PTL DEF Spec

\* No removed bridge goes on pulling tracks, and the present one has all its
\* entrances, however updates, failures and late reports interleave.
THEOREM EntrancesAlwaysOfThisDoor == Spec => []EntrancesOfThisDoor
<1>1. IInv => EntrancesOfThisDoor
  BY DEF IInv
<1>2. QED
  BY <1>1, BridgeInvariant, PTL

\* There is never a second publisher that could still be closed.
THEOREM AlwaysOneExit == Spec => []OneExit
<1>1. IInv => OneExit
  BY DEF IInv
<1>2. QED
  BY <1>1, BridgeInvariant, PTL

\* When the dog returns, its bridge has been taken down.
THEOREM GoneAlwaysLeavesNothing == Spec => []GoneLeavesNothing
<1>1. IInv => GoneLeavesNothing
  <2> SUFFICES ASSUME IInv, at[Bridge] = "gone" PROVE GoneLeavesNothing
    BY DEF GoneLeavesNothing
  <2>1. door = 0 /\ entrances = {} /\ exits = leaked
    BY DoorTypes DEF IInv, DoorInUse, OneExit
  <2>2. ASSUME NEW e \in Entrances, Running(e) PROVE left[e]
    <3>1. PICK k \in Doors : \E s \in SIDs : e = Entrance(k, s)
      BY DogsDiffer
    <3>2. QED
      BY <2>1, <2>2, <3>1 DEF IInv, EntrancesOfThisDoor
  <2>3. QED
    BY <2>1, <2>2 DEF GoneLeavesNothing
<1>2. QED
  BY <1>1, BridgeInvariant, PTL

-----------------------------------------------------------------------------
(* Update is atomic *)

\* Watch comes first, and Update pushes into an empty channel.
UpdateInv ==
  /\ owner = "new" => updateCh = None /\ param = None
  /\ owner \in {"drain", "push"} => updating \in Tracks
  /\ owner = "push" => updateCh = None

\* What waits in the mailbox of module LatestMailbox.
Waiting == [d \in {Bridge} |-> IF owner = "push" THEN updating ELSE updateCh]

\* The parameter that the dog works with.
Working == [d \in {Bridge} |-> param]

\* Drain is where the waiting parameter is replaced, push shows nothing, and of the
\* dog's steps only its Update takes one (watchdog.go:73-155).
LEMMA MailboxSteps ==
  IInv /\ UpdateInv /\ [Next]_vars =>
    /\ UpdateInv'
    /\ [Mailbox!Next \/ \E k \in {Bridge}, v \in Tracks : Mailbox!Begin(k, v)]_<<Waiting, Working>>
<1> SUFFICES ASSUME IInv, UpdateInv, [Next]_vars
             PROVE  /\ UpdateInv'
                    /\ \/ Mailbox!TakeOut(Bridge)
                       \/ \E v \in Tracks : Mailbox!Post(Bridge, v) \/ Mailbox!Begin(Bridge, v)
                       \/ UNCHANGED <<Waiting, Working>>
  BY DEF Mailbox!Next, Mailbox!TakeOut, Mailbox!Post, Mailbox!Begin, Waiting, Working
<1> USE NoneAssumption DEF UpdateInv, Waiting, Working, ownerVars
<1>1. owner = "new" <=> at[Bridge] = "off"
  BY DEF IInv, DoorInUse
<1>2. ASSUME NEW t \in Tracks, Watch(t) PROVE UpdateInv' /\ Mailbox!Begin(Bridge, t)
  BY <1>2 DEF Watch, Mailbox!Begin
<1>3. ASSUME NEW t \in Tracks, UpdateOffer(t)
      PROVE  UpdateInv' /\ (Mailbox!Post(Bridge, t) \/ UNCHANGED <<Waiting, Working>>)
  <2>1. CASE updateCh = None
    BY <1>3, <2>1 DEF UpdateOffer, Mailbox!Post
  <2>2. CASE updateCh # None
    BY <1>3, <2>2 DEF UpdateOffer
  <2> QED
    BY <2>1, <2>2
<1>4. CASE UpdateDrain
  <2>1. updating \in Tracks
    BY <1>4 DEF UpdateDrain
  <2>2. UpdateInv' /\ Mailbox!Post(Bridge, updating)
    BY <1>4 DEF UpdateDrain, Mailbox!Post
  <2> QED
    BY <2>1, <2>2
<1>5. CASE UpdatePush \/ Leave
  BY <1>5 DEF UpdatePush, Leave
<1>6. CASE BridgeUpdate
  <2>1. owner # "new"
    BY <1>1, <1>6 DEF BridgeUpdate
  <2>2. UpdateInv'
    BY <1>6, <2>1 DEF BridgeUpdate
  <2>3. Mailbox!TakeOut(Bridge)
    BY <1>6 DEF BridgeUpdate, Mailbox!TakeOut
  <2> QED
    BY <2>2, <2>3
<1>7. CASE UNCHANGED <<ownerVars, updateCh, param>>
  BY <1>7
<1>8. CASE Owner
  BY <1>2, <1>3, <1>4, <1>5, <1>8 DEF Owner, StartProceedTrack, ReplaceProceedTrack, StopProceedTrack
<1>9. CASE BridgeStep
  BY <1>6, <1>7, <1>9 DEF BridgeStep, BridgeNewDoor, BridgeNewDoorFails, BridgeLock, BridgeLockFails,
                          BridgeBroken, BridgeDone
<1>10. ASSUME NEW e \in Entrances, EntranceStep(e) PROVE UNCHANGED <<ownerVars, updateCh, param>>
  BY <1>10 DEF EntranceStep, EntranceNewDoor, EntranceLock, EntranceFails, EntranceBroken, EntranceDone,
               EntranceGoes
<1>11. CASE Report
  BY <1>7, <1>11 DEF Report, NegotiationFails, CandidateRefused, OfferRefused, InTrackRefused, OnBroken
<1>12. CASE Quiet \/ UNCHANGED vars
  BY <1>7, <1>12 DEF Quiet, vars
<1> QED
  BY <1>7, <1>8, <1>9, <1>10, <1>11, <1>12 DEF Next

\* Whatever comes between the drain and the push, Update replaces the parameter
\* that waits in one step, and each that the dog takes it takes once.
THEOREM RefinesMailbox == Spec => ImplementsMailbox
<1>1. Init => Mailbox!Init /\ UpdateInv
  BY DEF Init, Mailbox!Init, UpdateInv
<1> QED
  BY <1>1, MailboxSteps, BridgeInvariant, PTL
     DEF Spec, ImplementsMailbox, Mailbox!StartedSpec, Waiting, Working

=============================================================================
