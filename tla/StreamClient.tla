---------------------------- MODULE StreamClient ----------------------------
(***************************************************************************)
(* util.Client of util/client.go: many goroutines share one gRPC stream    *)
(* and replace it when it fails; SingleWaitExec of util/lock.go lets one   *)
(* of them reconnect while the others wait for it.                         *)
(*                                                                         *)
(* A stream is named by the value of reconnectTimes when it was made.      *)
(* Cancelling the context of the last stream and losing the connection     *)
(* look the same to its users: open is no longer their stream.  The module *)
(* holds the steps of one call; the programs around it (SFUClient and      *)
(* RoomClient) say who calls, and what the OnReconnect callback does.      *)
(***************************************************************************)
EXTENDS Integers

CONSTANTS
  Users,     \* goroutines that may call the client
  MaxTimes   \* bound: reconnections

ASSUME MaxTimesAssumption == MaxTimes \in Nat

VARIABLES
  closed,    \* cancelTop was called
  times,     \* reconnectTimes
  stream,    \* the stored stream, 0 for nil
  open,      \* the stream that works, 0 if none does
  at,        \* where each user is in its call
  on,        \* the stream it loaded, 0 outside its operation
  wait,      \* the reconnection it waits for, 0 if none
  before     \* Reconnect's copy of reconnectTimes, -1: do not compare

clientVars == <<closed, times, stream, open, at, on, wait, before>>

Reconnecting == {"begin", "dial", "callback"}
Places == {"idle", "using", "failed", "waiting", "returned"} \cup Reconnecting
Streams == 0 .. MaxTimes

ClientTypeOK ==
  /\ closed \in BOOLEAN
  /\ times \in Streams /\ stream \in Streams /\ open \in Streams
  /\ at \in [Users -> Places]
  /\ on \in [Users -> Streams] /\ wait \in [Users -> 0 .. MaxTimes + 1]
  /\ before \in [Users -> -1 .. MaxTimes]

ClientInit ==
  /\ closed = FALSE
  /\ times = 0 /\ stream = 0 /\ open = 0
  /\ at = [u \in Users |-> "idle"]
  /\ on = [u \in Users |-> 0]
  /\ wait = [u \in Users |-> 0]
  /\ before = [u \in Users |-> -1]

Goto(u, place) == at' = [at EXCEPT ![u] = place]

-----------------------------------------------------------------------------
(* DoWithClient *)

\* A closed client does nothing; without a stream the call makes one.
DoWithClient(u) ==
  /\ at[u] = "idle"
  /\ IF closed THEN Goto(u, "returned") /\ UNCHANGED on
     ELSE IF stream = 0 THEN Goto(u, "failed") /\ UNCHANGED on
     ELSE Goto(u, "using") /\ on' = [on EXCEPT ![u] = stream]
  /\ UNCHANGED <<closed, times, stream, open, wait, before>>

\* Variant with a bug: a failed operation leaves the stream as it is.
UseFailsOnly(u) ==
  /\ at[u] = "using"
  /\ on[u] # open
  /\ Goto(u, "returned")
  /\ on' = [on EXCEPT ![u] = 0]
  /\ UNCHANGED <<closed, times, stream, open, wait, before>>

\* The operation fails because its stream is gone.
UseFails(u) ==
  /\ at[u] = "using"
  /\ on[u] # open
  /\ Goto(u, IF closed THEN "returned" ELSE "failed")
  /\ on' = [on EXCEPT ![u] = 0]
  /\ UNCHANGED <<closed, times, stream, open, wait, before>>

\* The operation returned nil.
UseDone(u) ==
  /\ at[u] = "using"
  /\ Goto(u, "idle")
  /\ on' = [on EXCEPT ![u] = 0]
  /\ UNCHANGED <<closed, times, stream, open, wait, before>>

-----------------------------------------------------------------------------
(* reconnect, through SingleWaitExec.Do *)

Busy == \E u \in Users : at[u] \in Reconnecting

\* The reconnection whose context SingleWaitExec holds.
Running == IF \E u \in Users : at[u] = "begin" THEN times + 1 ELSE times

\* The context that Do waits for is a child of ctxTop: once the client is
\* closed, nobody waits, and a second operation may run beside the first.
Enter(u) ==
  /\ at[u] = "failed"
  /\ IF Busy /\ ~closed
     THEN Goto(u, "waiting") /\ wait' = [wait EXCEPT ![u] = Running]
     ELSE times < MaxTimes /\ Goto(u, "begin") /\ UNCHANGED wait
  /\ UNCHANGED <<closed, times, stream, open, on, before>>

Wake(u) ==
  /\ at[u] = "waiting"
  /\ closed \/ ~Busy \/ Running > wait[u]
  /\ Goto(u, "returned")
  /\ wait' = [wait EXCEPT ![u] = 0]
  /\ UNCHANGED <<closed, times, stream, open, on, before>>

\* connected is false, the reconnection counted, the last stream cancelled.
Begin(u) ==
  /\ at[u] = "begin"
  /\ times < MaxTimes
  /\ times' = times + 1
  /\ open' = 0
  /\ Goto(u, "dial")
  /\ UNCHANGED <<closed, stream, on, wait, before>>

\* The new stream replaces the old one; none is made of a cancelled context.
DialSucceeds(u) ==
  /\ at[u] = "dial"
  /\ ~closed
  /\ stream' = times
  /\ open' = times
  /\ Goto(u, "callback")
  /\ UNCHANGED <<closed, times, on, wait, before>>

\* The cancelled stream stays stored.
DialFails(u) ==
  /\ at[u] = "dial"
  /\ Goto(u, "returned")
  /\ UNCHANGED <<closed, times, stream, open, on, wait, before>>

CallbackReturns(u) ==
  /\ at[u] = "callback"
  /\ Goto(u, "returned")
  /\ UNCHANGED <<closed, times, stream, open, on, wait, before>>

\* The dial of room.Client asks nobody whether the client was closed, and calls
\* nobody back.
DialRegardless(u) ==
  /\ at[u] = "dial"
  /\ stream' = times
  /\ open' = IF closed THEN 0 ELSE times
  /\ Goto(u, "returned")
  /\ UNCHANGED <<closed, times, on, wait, before>>

-----------------------------------------------------------------------------
(* Reconnect, Close, the network *)

StartReconnect(u) ==
  /\ at[u] = "idle"
  /\ Goto(u, "failed")
  /\ before' = [before EXCEPT ![u] = times]
  /\ UNCHANGED <<closed, times, stream, open, on, wait>>

\* Whether a reconnection was counted does not matter.
ReconnectNotVerify(u) ==
  /\ at[u] = "idle"
  /\ Goto(u, "failed")
  /\ UNCHANGED <<closed, times, stream, open, on, wait, before>>

\* Variant with a bug: as ReconnectNotVerify.
ReconnectReturnsNotVerified(u) ==
  /\ at[u] = "returned"
  /\ Goto(u, "idle")
  /\ before' = [before EXCEPT ![u] = -1]
  /\ UNCHANGED <<closed, times, stream, open, on, wait>>

\* If no reconnection was counted, the call only waited for another one's.
ReconnectReturns(u) ==
  /\ at[u] = "returned"
  /\ Goto(u, IF before[u] >= times THEN "failed" ELSE "idle")
  /\ before' = [before EXCEPT ![u] = -1]
  /\ UNCHANGED <<closed, times, stream, open, on, wait>>

\* DoWithClient returned false, or found the client closed.
CallReturns(u) ==
  /\ at[u] = "returned"
  /\ Goto(u, "idle")
  /\ UNCHANGED <<closed, times, stream, open, on, wait, before>>

CloseClient ==
  /\ ~closed
  /\ closed' = TRUE
  /\ open' = 0
  /\ UNCHANGED <<times, stream, at, on, wait, before>>

Break ==
  /\ open # 0
  /\ open' = 0
  /\ UNCHANGED <<closed, times, stream, at, on, wait, before>>

-----------------------------------------------------------------------------
(* Any program that uses the client *)

UserStep(u) ==
  \/ DoWithClient(u) \/ UseFails(u) \/ UseDone(u)
  \/ Enter(u) \/ Wake(u) \/ Begin(u)
  \/ DialSucceeds(u) \/ DialFails(u) \/ DialRegardless(u) \/ CallbackReturns(u)
  \/ StartReconnect(u) \/ ReconnectNotVerify(u) \/ ReconnectReturns(u) \/ CallReturns(u)

ClientNext == (\E u \in Users : UserStep(u)) \/ CloseClient \/ Break

ClientSpec == ClientInit /\ [][ClientNext]_clientVars

-----------------------------------------------------------------------------
\* SingleWaitExec runs one reconnection at a time until the client is closed
\* (lock.go:24-46); OnReconnect never runs twice at once, even then: no stream is
\* made of a cancelled context.
OneReconnection ==
  /\ ~closed =>
       \A u, v \in Users : at[u] \in Reconnecting /\ at[v] \in Reconnecting => u = v
  /\ \A u, v \in Users : at[u] = "callback" /\ at[v] = "callback" => u = v

\* Streams are numbered by reconnections that have begun.
StreamsNumbered ==
  /\ stream <= times
  /\ \A u \in Users : /\ at[u] = "dial" => times # 0
                      /\ at[u] = "callback" => stream # 0

\* A stream that was lost, or cancelled by a reconnection, never works again for
\* the goroutine that still uses it: no later stream is taken for it
\* (client.go:70-79, 104-122).
GoneForGood ==
  [][\A u \in Users :
       on[u] # 0 /\ on[u] # open /\ on'[u] = on[u] => on'[u] # open']_clientVars

=============================================================================
