------------------------------ MODULE ForwardRTC ------------------------------
(***************************************************************************)
(* The RTC of pkg/sxu/rtc behind the Signaller of ForwardWatchDog: Run     *)
(* joins a peer to the local session and, by messages on one gRPC stream,  *)
(* to the remote one, then answers offers until something fails.           *)
(*                                                                         *)
(* Three goroutines use the stream: Run (inside BLock), the ICE callback   *)
(* of the peer, and the watchdog's routine by RTC.Update.  The first two   *)
(* take a mutex around Send; Update does not, and its Send is one step     *)
(* here.  Every step is one of ForwardWatchDog, or leaves that alone.      *)
(***************************************************************************)
EXTENDS ForwardWatchDog

CONSTANT MaxCandidates   \* bound: ICE candidates after each offer

ASSUME MaxCandidatesAssumption == MaxCandidates \in Nat

VARIABLES
  run,         \* where Run is
  peer,        \* how far the local peer is: "none", "joined", "answered", "tracks"
  mutex,       \* who holds the mutex of the stream: "nobody", "run", "ice"
  candidates,  \* ICE candidates still to be sent
  first        \* history: the first request the remote server got on the stream

rtcVars == <<run, peer, mutex, candidates, first>>
allVars == <<vars, rtcVars>>

Got(request) == first' = IF first = "none" THEN request ELSE first

InitRTC ==
  /\ Init
  /\ run = "off" /\ peer = "none" /\ mutex = "nobody" /\ candidates = 0 /\ first = "none"

-----------------------------------------------------------------------------
(* The door *)

\* A new door makes a new RTC, with a mutex and a stream of its own.
NewRTC ==
  /\ NewDoor
  /\ run' = "off" /\ peer' = "none" /\ mutex' = "nobody" /\ candidates' = 0 /\ first' = "none"

StartRun ==
  /\ Signalled
  /\ run' = "local"
  /\ UNCHANGED <<peer, mutex, candidates, first>>

\* BLock returns an error from one of these places of Run, or from before it.
RunReturns(places) ==
  /\ BLockFails
  /\ run \in places
  /\ run' = "off"
  /\ mutex' = IF mutex = "run" THEN "nobody" ELSE mutex
  /\ UNCHANGED <<candidates, first>>

\* A peer that fails to join has got its publisher or not.
JoinFails == RunReturns({"local"}) /\ peer' \in {"none", "joined"}

\* A Send that fails gives the mutex back.
SendFails == RunReturns({"sendjoin", "sendanswer"}) /\ UNCHANGED peer

\* Recv fails, or a message ends the loop: a refused join, a failed subscription, an
\* error, an offer or a candidate that the peer refuses.
LoopReturns == RunReturns({"recv"}) /\ UNCHANGED peer

NoConnection == RunReturns({"off"}) /\ UNCHANGED peer

RunFails == NoConnection \/ JoinFails \/ SendFails \/ LoopReturns

\* The local join, and waiting for the mutex, do not look at the context.
RunCancelled ==
  /\ BLockCancelled
  /\ run \notin {"local", "joining", "answering"}
  /\ run' = "off"
  /\ mutex' = IF mutex = "run" THEN "nobody" ELSE mutex
  /\ UNCHANGED <<peer, candidates, first>>

-----------------------------------------------------------------------------
(* Run *)

RunStep(from, to) == run = from /\ run' = to /\ UNCHANGED vars

\* The peer joins the local session: from now on it has a publisher.
JoinLocal ==
  /\ RunStep("local", "joining")
  /\ peer' = "joined"
  /\ UNCHANGED <<mutex, candidates, first>>

\* SendJoin and SendAnswer take the mutex.
Lock ==
  /\ mutex = "nobody"
  /\ RunStep("joining", "sendjoin") \/ RunStep("answering", "sendanswer")
  /\ mutex' = "run"
  /\ UNCHANGED <<peer, candidates, first>>

JoinSent ==
  /\ RunStep("sendjoin", "recv")
  /\ mutex' = "nobody"
  /\ Got("join")
  /\ UNCHANGED <<peer, candidates>>

AnswerSent ==
  /\ RunStep("sendanswer", "recv")
  /\ mutex' = "nobody"
  /\ peer' = IF peer = "joined" THEN "answered" ELSE peer
  /\ Got("answer")
  /\ UNCHANGED candidates

\* An offer of the remote server: the peer makes an answer and starts to gather
\* candidates.  The messages that do not end the loop (LoopReturns) do nothing else.
Negotiate ==
  /\ RunStep("recv", "answering")
  /\ candidates' = MaxCandidates
  /\ UNCHANGED <<peer, mutex, first>>

\* The first tracks come in from the remote session.
TracksArrive ==
  /\ peer = "answered" /\ bl = "run"
  /\ peer' = "tracks"
  /\ UNCHANGED <<vars, run, mutex, candidates, first>>

-----------------------------------------------------------------------------
(* The ICE callback *)

SendCandidate ==
  /\ candidates > 0
  /\ mutex = "nobody"
  /\ mutex' = "ice" /\ candidates' = candidates - 1
  /\ UNCHANGED <<vars, run, peer, first>>

StreamAlive == bl = "run" /\ ~door.cancelled

\* Variant with a bug: an error returns before the mutex is given back.
CandidateSentOrLocked ==
  /\ mutex = "ice"
  /\ mutex' = IF StreamAlive THEN "nobody" ELSE mutex
  /\ IF StreamAlive THEN Got("trickle") ELSE UNCHANGED first
  /\ UNCHANGED <<vars, run, peer, candidates>>

\* On a dead stream Send returns an error, which is ignored.
CandidateSent ==
  /\ mutex = "ice"
  /\ mutex' = "nobody"
  /\ IF StreamAlive THEN Got("trickle") ELSE UNCHANGED first
  /\ UNCHANGED <<vars, run, peer, candidates>>

-----------------------------------------------------------------------------
(* RTC.Update, called by Signaller.Update *)

\* Variant with a bug: a track that has not come yet counts as different.
DiffersOrMissing == peer # "none"

\* isSame may say no only when some track has come, in another layer.
Differs == peer = "tracks"

\* The tracks that have come are in the layers that the parameter wants.
UpdateSame ==
  /\ UpdateSucceeds
  /\ peer # "none"
  /\ UNCHANGED rtcVars

Subscribe ==
  /\ UpdateSucceeds
  /\ Differs /\ StreamAlive
  /\ Got("subscribe")
  /\ UNCHANGED <<run, peer, mutex, candidates>>

\* The peer has no publisher yet, or the request cannot be sent.
UpdateRefused ==
  /\ UpdateFails
  /\ door.r /\ peer # "none" => Differs
  /\ UNCHANGED rtcVars

-----------------------------------------------------------------------------
\* What the watchdog and BLock do before there is an RTC, or without it.
WithoutRTC ==
  /\ \/ Owner \/ DoorExited \/ TakeUpdate \/ CallUpdate \/ UpdateRestarts
     \/ SetTrack \/ GotConn
  /\ UNCHANGED rtcVars

RunGoesOn == JoinLocal \/ Lock \/ JoinSent \/ AnswerSent

NextRTC ==
  \/ WithoutRTC \/ NewRTC \/ StartRun \/ RunFails \/ RunCancelled
  \/ RunGoesOn \/ Negotiate \/ TracksArrive \/ SendCandidate \/ CandidateSent
  \/ UpdateSame \/ Subscribe \/ UpdateRefused

SpecRTC == InitRTC /\ [][NextRTC]_allVars

OnDog(A) == A /\ UNCHANGED rtcVars

\* As in ForwardWatchDog; a Send on a stream returns, and a cancelled stream is
\* noticed by a Recv that is called again and again.
FairSpecRTC ==
  /\ SpecRTC
  /\ WF_allVars(OnDog(UpdateDrain \/ UpdatePush))
  /\ WF_allVars(NewRTC) /\ WF_allVars(OnDog(UpdateRestarts) \/ UpdateRefused \/ UpdateSame \/ Subscribe)
  /\ SF_allVars(OnDog(DoorExited)) /\ SF_allVars(OnDog(TakeUpdate)) /\ SF_allVars(OnDog(CallUpdate))
  /\ SF_allVars(UpdateSame \/ Subscribe)
  /\ WF_allVars(OnDog(SetTrack \/ GotConn) \/ StartRun \/ RunGoesOn) /\ SF_allVars(RunCancelled)
  /\ WF_allVars(CandidateSent)

-----------------------------------------------------------------------------
(* Properties *)

\* The type invariant.
TypeOKRTC ==
  /\ TypeOK
  /\ run \in {"off", "local", "joining", "sendjoin", "recv", "answering", "sendanswer"}
  /\ peer \in {"none", "joined", "answered", "tracks"}
  /\ mutex \in {"nobody", "run", "ice"}
  /\ candidates \in 0 .. MaxCandidates
  /\ first \in {"none", "join", "answer", "trickle", "subscribe"}

\* The remote server never gets another request before the Join, which its peer
\* would refuse with an error that ends Run: neither a candidate nor, although
\* Update may be called at any time, a subscription (rtc.go:41-70, tracksame.go:54-63).
JoinFirst == first \in {"none", "join"}

\* Its inductive form: before the Join there is no candidate and no track, and Run
\* has not come to its loop.
NothingBeforeJoin ==
  /\ JoinFirst
  /\ first = "none" =>
       /\ candidates = 0 /\ mutex # "ice"
       /\ peer \in {"none", "joined"}
       /\ run \in {"off", "local", "joining", "sendjoin"}

\* Once its context is cancelled, BLock returns, wherever Run is and whoever has
\* the mutex (signaller.go:72-93, senders.go:10-100).
CancelEndsBLock == door.cancelled ~> bl = "exited"

=============================================================================
