----------------------- MODULE ForwardWatchDog_proofs ------------------------
(***************************************************************************)
(* No update of a blocked watchdog is lost, for every set of parameters    *)
(* and every number of updates; with the RTC in its door, it is still that *)
(* watchdog, and its requests begin with the Join.                         *)
(***************************************************************************)
EXTENDS ForwardRTC, TLAPS

LEMMA InitInv == Init => IInv
BY MaxUpdatesAssumption DEF Init, IInv, TypeOK, NewestOnItsWay, FreshDoor

\* The owner's calls keep the newest parameter on its way.
LEMMA OwnerInv == IInv /\ Owner => IInv'
<1> SUFFICES ASSUME IInv, Owner PROVE IInv'
  OBVIOUS
<1> USE NoneAssumption, MaxUpdatesAssumption
    DEF IInv, NewestOnItsWay, ownerVars, doorVars, Params
<1>1. ASSUME NEW p \in Params, Watch(p) PROVE IInv'
  BY <1>1 DEF TypeOK, Watch
<1>2. ASSUME NEW p \in Params, UpdateOffer(p) PROVE IInv'
  <2>1. CASE updateCh = None
    BY <1>2, <2>1 DEF TypeOK, UpdateOffer
  <2>2. CASE updateCh # None
    BY <1>2, <2>2 DEF TypeOK, UpdateOffer
  <2>3. QED
    BY <2>1, <2>2
<1>3. CASE UpdateDrain
  BY <1>3 DEF TypeOK, UpdateDrain
<1>4. CASE UpdatePush
  BY <1>4 DEF TypeOK, UpdatePush
<1>5. CASE Leave
  BY <1>5 DEF TypeOK, Leave
<1>6. QED
  BY <1>1, <1>2, <1>3, <1>4, <1>5 DEF Owner

\* So do the routine's steps, whatever the door returns.
LEMMA RoutineInv == IInv /\ Routine => IInv'
<1> SUFFICES ASSUME IInv, Routine PROVE IInv'
  OBVIOUS
<1> USE NoneAssumption DEF IInv, NewestOnItsWay, ownerVars, doorVars
<1>1. CASE NewDoor
  BY <1>1 DEF TypeOK, NewDoor, FreshDoor
<1>2. CASE DoorExited
  BY <1>2 DEF TypeOK, DoorExited
<1>3. CASE TakeUpdate
  BY <1>3 DEF TypeOK, TakeUpdate
<1>4. CASE CallUpdate
  BY <1>4 DEF TypeOK, CallUpdate
<1>5. CASE UpdateRestarts
  <2>1. door.cancelled \/ door.cancel \in BOOLEAN
    BY DEF TypeOK
  <2>2. TypeOK'
    BY <1>5, <2>1 DEF TypeOK, UpdateRestarts, ReturnToSelect
  <2>3. QED
    BY <1>5, <2>2 DEF TypeOK, UpdateRestarts, ReturnToSelect
<1>6. CASE UpdateFails
  <2>1. param \in Params /\ retryCh' = param /\ param # None
    BY <1>6 DEF TypeOK, UpdateFails, Params
  <2>2. QED
    BY <1>6, <2>1 DEF TypeOK, UpdateFails, ReturnToSelect
<1>7. CASE UpdateSucceeds
  BY <1>7 DEF TypeOK, UpdateSucceeds, ReturnToSelect
<1>8. QED
  BY <1>1, <1>2, <1>3, <1>4, <1>5, <1>6, <1>7 DEF Routine, DoorUpdate

\* BLock shares only the door's fields with the routine.
LEMMA BLockInv == IInv /\ BLock => IInv'
<1> SUFFICES ASSUME IInv, BLock PROVE IInv'
  OBVIOUS
<1> USE DEF IInv, NewestOnItsWay, ownerVars, BLockSet
<1>1. CASE SetTrack
  BY <1>1 DEF TypeOK, SetTrack
<1>2. CASE GotConn
  BY <1>2 DEF TypeOK, GotConn
<1>3. CASE Signalled
  BY <1>3 DEF TypeOK, Signalled
<1>4. CASE BLockFails
  BY <1>4 DEF TypeOK, BLockFails
<1>5. CASE BLockCancelled
  BY <1>5 DEF TypeOK, BLockCancelled
<1>6. QED
  BY <1>1, <1>2, <1>3, <1>4, <1>5 DEF BLock

\* Every reachable state of the watchdog satisfies the inductive invariant.
THEOREM WatchDogInvariant == Spec => []IInv
<1>1. IInv /\ [Next]_vars => IInv'
  <2>1. ASSUME IInv, UNCHANGED vars PROVE IInv'
    BY <2>1 DEF vars, ownerVars, doorVars, IInv, TypeOK, NewestOnItsWay
  <2>2. QED
    BY <2>1, OwnerInv, RoutineInv, BLockInv DEF Next
<1>2. QED
  BY <1>1, InitInv, PTL DEF Spec

\* The newest parameter is in the call of Update, in updateCh, or is the one the
\* routine works with.
THEOREM NewestOnItsWayHolds == Spec => []NewestOnItsWay
<1>1. IInv => NewestOnItsWay
  BY DEF IInv
<1>2. QED
  BY <1>1, WatchDogInvariant, PTL

\* When there is nothing left to hand over, the door has the newest parameter.
THEOREM NothingForgottenHolds == Spec => []NothingForgotten
<1>1. IInv => NothingForgotten
  BY DEF IInv, NewestOnItsWay, NothingForgotten, Settled
<1>2. QED
  BY <1>1, WatchDogInvariant, PTL

-----------------------------------------------------------------------------
(* Update is atomic *)

\* What waits in the mailbox of module LatestMailbox.
Waiting == [k \in {"watchdog"} |-> IF owner = "push" THEN updating ELSE updateCh]

\* The parameter that the routine works with.
Working == [k \in {"watchdog"} |-> param]

\* Drain is where the waiting parameter is replaced, push shows nothing, and every
\* other step takes it out or leaves the mailbox alone (blockeddoor.go:55-142).
LEMMA MailboxSteps ==
  IInv /\ [Next]_vars =>
    [Mailbox!Next \/ \E k \in {"watchdog"}, v \in Params : Mailbox!Begin(k, v)]_<<Waiting, Working>>
<1> SUFFICES ASSUME IInv, [Next]_vars
             PROVE  \/ Mailbox!TakeOut("watchdog")
                    \/ \E v \in Params : Mailbox!Post("watchdog", v) \/ Mailbox!Begin("watchdog", v)
                    \/ UNCHANGED <<Waiting, Working>>
  BY DEF Mailbox!Next, Mailbox!TakeOut, Mailbox!Post, Mailbox!Begin, Waiting, Working
<1> USE NoneAssumption DEF IInv, TypeOK, Waiting, Working, Params, ownerVars, doorVars
<1>1. ASSUME NEW p \in Params, Watch(p) PROVE Mailbox!Begin("watchdog", p)
  BY <1>1 DEF Watch, Mailbox!Begin
<1>2. ASSUME NEW p \in Params, UpdateOffer(p)
      PROVE  Mailbox!Post("watchdog", p) \/ UNCHANGED <<Waiting, Working>>
  <2>1. CASE updateCh = None
    BY <1>2, <2>1 DEF UpdateOffer, Mailbox!Post
  <2>2. CASE updateCh # None
    BY <1>2, <2>2 DEF UpdateOffer
  <2> QED
    BY <2>1, <2>2
<1>3. CASE UpdateDrain
  <2>1. updating \in Params
    BY <1>3 DEF UpdateDrain
  <2>2. Mailbox!Post("watchdog", updating)
    BY <1>3 DEF UpdateDrain, Mailbox!Post
  <2> QED
    BY <2>1, <2>2
<1>4. CASE UpdatePush \/ Leave
  BY <1>4 DEF UpdatePush, Leave
<1>5. CASE TakeUpdate
  BY <1>5 DEF TakeUpdate, Mailbox!TakeOut
<1>6. CASE CallUpdate
  BY <1>6 DEF CallUpdate, NewestOnItsWay
<1>7. CASE NewDoor \/ DoorExited \/ DoorUpdate
  BY <1>7 DEF NewDoor, DoorExited, DoorUpdate, UpdateRestarts, UpdateFails, UpdateSucceeds
<1>8. CASE BLock
  BY <1>8 DEF BLock, SetTrack, GotConn, Signalled, BLockFails, BLockCancelled, BLockSet
<1>9. CASE UNCHANGED vars
  BY <1>9 DEF vars
<1>10. CASE Owner
  BY <1>1, <1>2, <1>3, <1>4, <1>10 DEF Owner
<1> QED
  BY <1>5, <1>6, <1>7, <1>8, <1>9, <1>10 DEF Next, Routine

\* Whatever comes between the drain and the push, Update replaces the parameter
\* that waits in one step, and each that the routine takes it takes once.
THEOREM RefinesMailbox == Spec => ImplementsMailbox
<1>1. Init => Mailbox!Init
  BY DEF Init, Mailbox!Init
<1> QED
  BY <1>1, MailboxSteps, WatchDogInvariant, PTL
     DEF Spec, ImplementsMailbox, Mailbox!StartedSpec, Waiting, Working

-----------------------------------------------------------------------------
(* The RTC in the door *)

\* Every step with the RTC is a step of the watchdog or leaves it alone.
LEMMA StepsOfWatchDog == [NextRTC]_allVars => [Next]_vars
<1> SUFFICES ASSUME [NextRTC]_allVars PROVE [Next]_vars
  OBVIOUS
<1>1. CASE WithoutRTC
  BY <1>1 DEF WithoutRTC, Next, Routine, DoorUpdate, BLock
<1>2. CASE NewRTC
  BY <1>2 DEF NewRTC, Next, Routine
<1>3. CASE StartRun
  BY <1>3 DEF StartRun, Next, BLock
<1>4. CASE RunFails
  BY <1>4 DEF RunFails, NoConnection, JoinFails, SendFails, LoopReturns, RunReturns, Next, BLock
<1>5. CASE RunCancelled
  BY <1>5 DEF RunCancelled, Next, BLock
<1>6. CASE RunGoesOn \/ Negotiate
  BY <1>6 DEF RunGoesOn, JoinLocal, Lock, JoinSent, AnswerSent, Negotiate, RunStep
<1>7. CASE TracksArrive \/ SendCandidate \/ CandidateSent
  BY <1>7 DEF TracksArrive, SendCandidate, CandidateSent, vars
<1>8. CASE UpdateSame \/ Subscribe
  BY <1>8 DEF UpdateSame, Subscribe, Next, Routine, DoorUpdate
<1>9. CASE UpdateRefused
  BY <1>9 DEF UpdateRefused, Next, Routine, DoorUpdate
<1>10. CASE UNCHANGED allVars
  BY <1>10 DEF allVars
<1>11. QED
  BY <1>1, <1>2, <1>3, <1>4, <1>5, <1>6, <1>7, <1>8, <1>9, <1>10 DEF NextRTC

\* With the RTC the door is still one that the watchdog can watch.
THEOREM ImplementsWatchDog == SpecRTC => Spec
<1>1. InitRTC => Init
  BY DEF InitRTC
<1>2. QED
  BY <1>1, StepsOfWatchDog, PTL DEF SpecRTC, Spec

\* Whatever the remote server gets, it gets the Join first.
THEOREM JoinAlwaysFirst == SpecRTC => []JoinFirst
<1>1. InitRTC => NothingBeforeJoin
  BY DEF InitRTC, NothingBeforeJoin, JoinFirst
<1>2. NothingBeforeJoin /\ [NextRTC]_allVars => NothingBeforeJoin'
  <2> SUFFICES ASSUME NothingBeforeJoin, [NextRTC]_allVars PROVE NothingBeforeJoin'
    OBVIOUS
  <2> USE DEF NothingBeforeJoin, JoinFirst, Got, RunStep
  <2>1. CASE WithoutRTC
    BY <2>1 DEF WithoutRTC, rtcVars
  <2>2. CASE NewRTC
    BY <2>2 DEF NewRTC
  <2>3. CASE StartRun
    BY <2>3 DEF StartRun
  <2>4. CASE RunFails
    BY <2>4 DEF RunFails, NoConnection, JoinFails, SendFails, LoopReturns, RunReturns
  <2>5. CASE RunCancelled
    BY <2>5 DEF RunCancelled
  <2>6. CASE RunGoesOn
    BY <2>6 DEF RunGoesOn, JoinLocal, Lock, JoinSent, AnswerSent
  <2>7. CASE Negotiate
    BY <2>7 DEF Negotiate
  <2>8. CASE TracksArrive
    BY <2>8 DEF TracksArrive
  <2>9. CASE SendCandidate \/ CandidateSent
    BY <2>9 DEF SendCandidate, CandidateSent
  <2>10. CASE UpdateSame \/ UpdateRefused
    BY <2>10 DEF UpdateSame, UpdateRefused, rtcVars
  <2>11. CASE Subscribe
    BY <2>11 DEF Subscribe, Differs
  <2>12. CASE UNCHANGED allVars
    BY <2>12 DEF allVars, rtcVars
  <2>13. QED
    BY <2>1, <2>2, <2>3, <2>4, <2>5, <2>6, <2>7, <2>8, <2>9, <2>10, <2>11, <2>12 DEF NextRTC
<1>3. NothingBeforeJoin => JoinFirst
  BY DEF NothingBeforeJoin
<1>4. QED
  BY <1>1, <1>2, <1>3, PTL DEF SpecRTC

=============================================================================
