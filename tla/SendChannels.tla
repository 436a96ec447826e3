---------------------------- MODULE SendChannels -----------------------------
(***************************************************************************)
(* What the receive routine, a SyncSFU handler and a routineSFUStatusSend  *)
(* of pkg/isglb/service.go have in common: the unbuffered sendCh of each   *)
(* stream.  The server (module ISGLBService) keeps to it whatever the      *)
(* senders do, and the sender of one stream (module SFUStatusSender)       *)
(* keeps to it whatever the server and the workers do.                     *)
(***************************************************************************)
CONSTANT Sigs

VARIABLES
  open,    \* streams whose sendCh can be sent to
  sender   \* each stream's sender: "off", "ready" to receive, "busy", "exited"

Init == open = {} /\ sender = [s \in Sigs |-> "off"]

Goes(s, from, to) == sender[s] = from /\ sender' = [sender EXCEPT ![s] = to]

\* The channel is made and the sender started with it.
Open(s) == s \notin open /\ open' = open \cup {s} /\ Goes(s, "off", "ready")

\* The rendezvous, on an open channel.
Handover(s) == s \in open /\ UNCHANGED open /\ Goes(s, "ready", "busy")

\* The sender has found a place for the status and is back at the channel.
Stored(s) == UNCHANGED open /\ Goes(s, "busy", "ready")

\* Closed once, and never opened again: Open needs a sender that is off.
Close(s) == s \in open /\ open' = open \ {s} /\ UNCHANGED sender

\* Only a closed channel ends the sender.
Exit(s) == s \notin open /\ UNCHANGED open /\ Goes(s, "ready", "exited")

Next == \E s \in Sigs : Open(s) \/ Handover(s) \/ Stored(s) \/ Close(s) \/ Exit(s)

Spec == Init /\ [][Next]_<<open, sender>>

\* From when every channel is made.
OpenedSpec ==
  open = Sigs /\ sender = [s \in Sigs |-> "ready"] /\ [][Next]_<<open, sender>>

=============================================================================
