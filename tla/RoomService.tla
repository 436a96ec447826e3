----------------------------- MODULE RoomService -----------------------------
(***************************************************************************)
(* The room service of pkg/sxu/room/service.go and the ExpireSetMap of     *)
(* util/timer.go it keeps the clients' sessions in: a client that does not *)
(* repeat ClientHealth in time is reported as gone.                        *)
(*                                                                         *)
(* The goroutines are one handler per call of ClientHealth, the runner of  *)
(* the map, one goroutine per timer, and the syncer, which fetches the     *)
(* session events.  A timer may fire at any time while it is set; what     *)
(* happens to a timer that was Reset when its goroutine is gone cannot be  *)
(* seen, so that a timer is its goroutine.                                 *)
(***************************************************************************)
EXTENDS Naturals, Sequences

CONSTANTS
  Pairs,   \* <<user, session>>: key and value in the map
  Calls,   \* slots for calls of ClientHealth
  Cap      \* capacity of the three channels, 64 in the code

ASSUME CapAssumption == Cap \in Nat \ {0}

NoPair == <<>>
ASSUME PairsAssumption == NoPair \notin Pairs

VARIABLES
  health,    \* stage of each call: "none", "update", "add", "reply"
  of,        \* its user and session
  started,   \* the runner was started
  entries,   \* m.m: pairs that have a timer
  waiting,   \* pairs with a goroutine that waits for the timer
  fired,     \* pairs with a goroutine that has yet to send the deletion
  updateCh,  \* calls
  deleteCh,  \* pairs
  removing,  \* the pair the runner's onDeleted reports, or NoPair
  eventCh,   \* session events
  known      \* sessions that the syncer has by the events it fetched

callVars == <<health, of>>
mapVars == <<started, entries, waiting, fired, updateCh, deleteCh, removing>>
serviceVars == <<callVars, mapVars, eventCh, known>>

Event(state, p) == [state |-> state, of |-> p]
Events == [state : {"ADD", "REMOVE"}, of : Pairs]

ServiceInit ==
  /\ health = [c \in Calls |-> "none"] /\ of = [c \in Calls |-> NoPair]
  /\ started = FALSE
  /\ entries = {} /\ waiting = {} /\ fired = {}
  /\ updateCh = <<>> /\ deleteCh = <<>> /\ removing = NoPair
  /\ eventCh = <<>> /\ known = {}

-----------------------------------------------------------------------------
(* ClientHealth *)

Stage(c, from, to) == health[c] = from /\ health' = [health EXCEPT ![c] = to]

\* The runner is started, and the call waits until it has called back.
ClientHealth(c, p) ==
  /\ Stage(c, "none", "update")
  /\ of' = [of EXCEPT ![c] = p]
  /\ started' = TRUE
  /\ Len(updateCh) < Cap
  /\ updateCh' = Append(updateCh, c)
  /\ UNCHANGED <<entries, waiting, fired, deleteCh, removing, eventCh, known>>

SendAdd(c) ==
  /\ Stage(c, "add", "reply")
  /\ Len(eventCh) < Cap
  /\ eventCh' = Append(eventCh, Event("ADD", of[c]))
  /\ UNCHANGED <<of, mapVars, known>>

Return(c) ==
  /\ Stage(c, "reply", "none")
  /\ of' = [of EXCEPT ![c] = NoPair]
  /\ UNCHANGED <<mapVars, eventCh, known>>

-----------------------------------------------------------------------------
(* The runner *)

\* Variant with a bug: onDeleted leaves the event to a goroutine.
SelectMeanwhile == started

\* The runner waits for an update or a deletion.
Select == started /\ removing = NoPair

\* A pair that is there has its timer reset, if that still helps; another one
\* gets a timer with a goroutine.
HandleUpdate ==
  /\ Select /\ updateCh # <<>>
  /\ LET c == Head(updateCh)
         new == {of[c]} \ entries
     IN /\ entries' = entries \cup new
        /\ waiting' = waiting \cup new
        /\ Stage(c, "update", "add")
  /\ updateCh' = Tail(updateCh)
  /\ UNCHANGED <<of, started, fired, deleteCh, removing, eventCh, known>>

\* Variant with a bug: a pair that was updated since its timer fired is kept.
HandleDeleteUnlessUpdated ==
  /\ Select /\ deleteCh # <<>>
  /\ LET p == Head(deleteCh)
         updated == \E c \in Calls : of[c] = p
     IN /\ entries' = IF updated THEN entries ELSE entries \ {p}
        /\ removing' = IF updated THEN NoPair ELSE p
  /\ deleteCh' = Tail(deleteCh)
  /\ UNCHANGED <<callVars, started, waiting, fired, updateCh, eventCh, known>>

\* The pair may have been updated since its timer fired: it is deleted all the same.
HandleDelete ==
  /\ Select /\ deleteCh # <<>>
  /\ LET p == Head(deleteCh)
     IN /\ entries' = entries \ {p}
        /\ removing' = IF \E q \in entries : q[1] = p[1] THEN p ELSE NoPair
  /\ deleteCh' = Tail(deleteCh)
  /\ UNCHANGED <<callVars, started, waiting, fired, updateCh, eventCh, known>>

\* onDeleted sends in the runner, which handles nothing until there is room.
OnDeleted ==
  /\ removing # NoPair
  /\ Len(eventCh) < Cap
  /\ eventCh' = Append(eventCh, Event("REMOVE", removing))
  /\ removing' = NoPair
  /\ UNCHANGED <<callVars, started, entries, waiting, fired, updateCh, deleteCh, known>>

RunnerStep == HandleUpdate \/ HandleDelete \/ OnDeleted

-----------------------------------------------------------------------------
(* Timers, syncer *)

TimerFires(p) ==
  /\ p \in waiting
  /\ waiting' = waiting \ {p} /\ fired' = fired \cup {p}
  /\ UNCHANGED <<callVars, started, entries, updateCh, deleteCh, removing, eventCh, known>>

\* Variant with a bug: a deletion that finds the channel full is dropped.
SendDeleteOrDrop(p) ==
  /\ p \in fired
  /\ fired' = fired \ {p}
  /\ deleteCh' = IF Len(deleteCh) < Cap THEN Append(deleteCh, p) ELSE deleteCh
  /\ UNCHANGED <<callVars, started, entries, waiting, updateCh, removing, eventCh, known>>

SendDelete(p) ==
  /\ p \in fired
  /\ Len(deleteCh) < Cap
  /\ fired' = fired \ {p} /\ deleteCh' = Append(deleteCh, p)
  /\ UNCHANGED <<callVars, started, entries, waiting, updateCh, removing, eventCh, known>>

FetchSessionEvent ==
  /\ eventCh # <<>>
  /\ LET e == Head(eventCh)
     IN known' = IF e.state = "ADD" THEN known \cup {e.of} ELSE known \ {e.of}
  /\ eventCh' = Tail(eventCh)
  /\ UNCHANGED <<callVars, mapVars>>

ServiceStep ==
  \/ \E c \in Calls : SendAdd(c)
  \/ RunnerStep
  \/ \E p \in Pairs : SendDelete(p)
  \/ FetchSessionEvent

\* The service with any callers.
ServiceNext ==
  \/ ServiceStep
  \/ \E p \in Pairs : TimerFires(p) \/ \E c \in Calls : ClientHealth(c, p)
  \/ \E c \in Calls : Return(c)

ServiceSpec == ServiceInit /\ [][ServiceNext]_serviceVars

-----------------------------------------------------------------------------
ServiceTypeOK ==
  /\ health \in [Calls -> {"none", "update", "add", "reply"}]
  /\ of \in [Calls -> Pairs \cup {NoPair}]
  /\ \A c \in Calls : health[c] # "none" => of[c] \in Pairs
  /\ started \in BOOLEAN
  /\ entries \subseteq Pairs /\ waiting \subseteq Pairs /\ fired \subseteq Pairs
  /\ updateCh \in Seq(Calls) /\ deleteCh \in Seq(Pairs)
  /\ removing \in Pairs \cup {NoPair}
  /\ eventCh \in Seq(Events) /\ known \subseteq Pairs

Queued(p) == \E i \in 1 .. Len(deleteCh) : deleteCh[i] = p

\* A session in the map has one goroutine waiting for its timer or one deletion on
\* its way, and only a session in the map has: none stays for ever, and none is
\* deleted by what an earlier stay of it has left.
ExpiryOnItsWay ==
  /\ \A p \in Pairs : p \in entries <=> p \in waiting \/ p \in fired \/ Queued(p)
  /\ \A p \in waiting : p \notin fired /\ ~Queued(p)
  /\ \A p \in fired : ~Queued(p)
  /\ \A i, j \in 1 .. Len(deleteCh) : deleteCh[i] = deleteCh[j] => i = j

NotRemovedAfter(p, i) == \A j \in i + 1 .. Len(eventCh) : eventCh[j] # Event("REMOVE", p)

\* The syncer has every session that is in the map, or will have it by what is on
\* its way: the REMOVE of an earlier stay never comes after the ADD of this one.
KnownOrOnItsWay ==
  \A p \in entries :
    \/ \E c \in Calls : health[c] = "add" /\ of[c] = p
    \/ \E i \in 1 .. Len(eventCh) : eventCh[i] = Event("ADD", p) /\ NotRemovedAfter(p, i)
    \/ p \in known /\ NotRemovedAfter(p, 0)

=============================================================================
