------------------------- MODULE RoomService_proofs -------------------------
(***************************************************************************)
(* Proofs about the room service with any callers, for any users and       *)
(* sessions, any number of calls at a time and any capacity of the         *)
(* channels.  The queues are reasoned about by position: what Append and   *)
(* Tail do to an element is all that is needed of them.  At the end, the   *)
(* composition with the client is shown to be one of those callers, and a  *)
(* program that uses the reconnecting client, and what the two keep        *)
(* together is proved.                                                     *)
(***************************************************************************)
EXTENDS RoomClient, StreamClient_proofs

Stages == {"none", "update", "add", "reply"}

\* An element of a queue after Append is an old one or the new one.
LEMMA AppendElement ==
  ASSUME NEW S, NEW s \in Seq(S), NEW e \in S
  PROVE  /\ Append(s, e) \in Seq(S)
         /\ Len(Append(s, e)) = Len(s) + 1
         /\ \A i \in 1 .. Len(s) : Append(s, e)[i] = s[i]
         /\ Append(s, e)[Len(s) + 1] = e
OBVIOUS

\* An element of the rest of a queue is one of the queue, a place further on.
LEMMA TailElement ==
  ASSUME NEW S, NEW s \in Seq(S), s # <<>>
  PROVE  /\ Head(s) = s[1] /\ Head(s) \in S
         /\ Tail(s) \in Seq(S)
         /\ Len(s) \in Nat \ {0}
         /\ Len(Tail(s)) = Len(s) - 1
         /\ \A i \in 1 .. Len(s) - 1 : Tail(s)[i] = s[i + 1]
OBVIOUS

-----------------------------------------------------------------------------
(* Types *)

\* The initial state is well typed (service.go:17-33, timer.go:26-36).
LEMMA InitTypeOK == ServiceInit => ServiceTypeOK
<1> SUFFICES ASSUME ServiceInit PROVE ServiceTypeOK
  OBVIOUS
<1>1. health \in [Calls -> Stages] /\ \A c \in Calls : health[c] = "none"
  BY DEF ServiceInit, Stages
<1>2. of \in [Calls -> Pairs \cup {NoPair}]
  BY DEF ServiceInit
<1>3. updateCh \in Seq(Calls) /\ deleteCh \in Seq(Pairs) /\ eventCh \in Seq(Events)
  BY DEF ServiceInit
<1> QED
  BY <1>1, <1>2, <1>3 DEF ServiceInit, ServiceTypeOK, Stages

\* A call moves from one stage to another and keeps its pair.
LEMMA StageTypes ==
  ASSUME ServiceTypeOK, NEW c \in Calls, NEW from \in Stages, NEW to \in Stages,
         Stage(c, from, to)
  PROVE  /\ health' \in [Calls -> Stages]
         /\ health[c] = from /\ health'[c] = to
         /\ \A d \in Calls : d # c => health'[d] = health[d]
BY DEF Stage, ServiceTypeOK, Stages

\* Every step of the service keeps the types (service.go:35-47, timer.go:38-118).
LEMMA TypeStep == ServiceTypeOK /\ [ServiceNext]_serviceVars => ServiceTypeOK'
<1> SUFFICES ASSUME ServiceTypeOK, [ServiceNext]_serviceVars PROVE ServiceTypeOK'
  OBVIOUS
<1> USE DEF ServiceTypeOK, callVars, mapVars, serviceVars
<1>1. ASSUME NEW c \in Calls, SendAdd(c) PROVE ServiceTypeOK'
  <2>1. of[c] \in Pairs
    BY <1>1 DEF SendAdd, Stage
  <2>2. Event("ADD", of[c]) \in Events
    BY <2>1 DEF Event, Events
  <2>3. eventCh' \in Seq(Events)
    BY <1>1, <2>2, AppendElement DEF SendAdd
  <2> QED
    BY <1>1, <2>1, <2>3, StageTypes DEF SendAdd, Stages
<1>2. CASE HandleUpdate
  <2> DEFINE c == Head(updateCh)
  <2>1. c \in Calls /\ updateCh' \in Seq(Calls)
    BY <1>2, TailElement DEF HandleUpdate
  <2>2. Stage(c, "update", "add")
    BY <1>2 DEF HandleUpdate
  <2>3. of[c] \in Pairs
    BY <2>1, <2>2 DEF Stage
  <2>4. entries' \subseteq Pairs /\ waiting' \subseteq Pairs
    BY <1>2, <2>3 DEF HandleUpdate
  <2>5. health' \in [Calls -> Stages] /\ \A d \in Calls : d # c => health'[d] = health[d]
    BY <2>1, <2>2, StageTypes DEF Stages
  <2> QED
    BY <1>2, <2>1, <2>3, <2>4, <2>5 DEF HandleUpdate, Stages
<1>3. CASE HandleDelete
  <2>1. Head(deleteCh) \in Pairs /\ deleteCh' \in Seq(Pairs)
    BY <1>3, TailElement DEF HandleDelete
  <2> QED
    BY <1>3, <2>1 DEF HandleDelete
<1>4. CASE OnDeleted
  <2>1. Event("REMOVE", removing) \in Events
    BY <1>4 DEF OnDeleted, Event, Events
  <2>2. eventCh' \in Seq(Events)
    BY <1>4, <2>1, AppendElement DEF OnDeleted
  <2> QED
    BY <1>4, <2>2 DEF OnDeleted
<1>5. ASSUME NEW p \in Pairs, SendDelete(p) PROVE ServiceTypeOK'
  <2>1. deleteCh' \in Seq(Pairs)
    BY <1>5, AppendElement DEF SendDelete
  <2> QED
    BY <1>5, <2>1 DEF SendDelete
<1>6. CASE FetchSessionEvent
  <2>1. Head(eventCh) \in Events /\ eventCh' \in Seq(Events)
    BY <1>6, TailElement DEF FetchSessionEvent
  <2>2. Head(eventCh).of \in Pairs
    BY <2>1 DEF Events
  <2> QED
    BY <1>6, <2>1, <2>2 DEF FetchSessionEvent
<1>7. ASSUME NEW p \in Pairs, TimerFires(p) PROVE ServiceTypeOK'
  BY <1>7 DEF TimerFires
<1>8. ASSUME NEW c \in Calls, NEW p \in Pairs, ClientHealth(c, p) PROVE ServiceTypeOK'
  <2>1. updateCh' \in Seq(Calls)
    BY <1>8, AppendElement DEF ClientHealth
  <2> QED
    BY <1>8, <2>1, StageTypes DEF ClientHealth, Stages
<1>9. ASSUME NEW c \in Calls, Return(c) PROVE ServiceTypeOK'
  BY <1>9, StageTypes DEF Return, Stages
<1>10. CASE UNCHANGED serviceVars
  BY <1>10
<1> QED
  BY <1>1, <1>2, <1>3, <1>4, <1>5, <1>6, <1>7, <1>8, <1>9, <1>10
     DEF ServiceNext, ServiceStep, RunnerStep

\* The types of the service hold always, for any callers.
THEOREM ServiceTypeCorrect == ServiceSpec => []ServiceTypeOK
BY InitTypeOK, TypeStep, PTL DEF ServiceSpec

-----------------------------------------------------------------------------
(* Every session's expiry is on its way *)

\* Nothing is queued after a deletion is sent but what was, and the deletion.
LEMMA QueuedAfterSend ==
  ASSUME deleteCh \in Seq(Pairs), NEW q \in Pairs, deleteCh' = Append(deleteCh, q)
  PROVE  \A p \in Pairs : Queued(p)' <=> Queued(p) \/ p = q
<1> SUFFICES ASSUME NEW p \in Pairs PROVE Queued(p)' <=> Queued(p) \/ p = q
  OBVIOUS
<1>1. /\ Len(deleteCh') = Len(deleteCh) + 1
      /\ \A i \in 1 .. Len(deleteCh) : deleteCh'[i] = deleteCh[i]
      /\ deleteCh'[Len(deleteCh) + 1] = q
      /\ Len(deleteCh) \in Nat
  BY AppendElement
<1>2. Queued(p) => Queued(p)'
  BY <1>1 DEF Queued
<1>3. p = q => Queued(p)'
  BY <1>1 DEF Queued
<1>4. Queued(p)' => Queued(p) \/ p = q
  BY <1>1 DEF Queued
<1> QED
  BY <1>2, <1>3, <1>4

\* The deletion that is taken was queued once: it is not queued any more, and the
\* others are as before.
LEMMA QueuedAfterTake ==
  ASSUME deleteCh \in Seq(Pairs), deleteCh # <<>>, deleteCh' = Tail(deleteCh),
         \A i, j \in 1 .. Len(deleteCh) : deleteCh[i] = deleteCh[j] => i = j
  PROVE  /\ \A p \in Pairs : Queued(p)' <=> Queued(p) /\ p # Head(deleteCh)
         /\ \A i, j \in 1 .. Len(deleteCh') : deleteCh'[i] = deleteCh'[j] => i = j
<1>1. /\ Head(deleteCh) = deleteCh[1]
      /\ Len(deleteCh) \in Nat \ {0}
      /\ Len(deleteCh') = Len(deleteCh) - 1
      /\ \A i \in 1 .. Len(deleteCh) - 1 : deleteCh'[i] = deleteCh[i + 1]
  BY TailElement
<1>2. ASSUME NEW p \in Pairs PROVE Queued(p)' => Queued(p) /\ p # Head(deleteCh)
  <2> SUFFICES ASSUME Queued(p)' PROVE Queued(p) /\ p # Head(deleteCh)
    OBVIOUS
  <2>1. PICK i \in 1 .. Len(deleteCh) - 1 : deleteCh'[i] = p
    BY <1>1 DEF Queued
  <2>2. i + 1 \in 1 .. Len(deleteCh) /\ i + 1 # 1 /\ 1 \in 1 .. Len(deleteCh) /\ deleteCh[i + 1] = p
    BY <1>1, <2>1
  <2> QED
    BY <1>1, <2>2 DEF Queued
<1>3. ASSUME NEW p \in Pairs, Queued(p), p # Head(deleteCh) PROVE Queued(p)'
  <2>1. PICK i \in 1 .. Len(deleteCh) : deleteCh[i] = p
    BY <1>3 DEF Queued
  <2>2. i - 1 \in 1 .. Len(deleteCh) - 1 /\ (i - 1) + 1 = i
    BY <1>1, <1>3, <2>1
  <2> QED
    BY <1>1, <2>1, <2>2 DEF Queued
<1>4. ASSUME NEW i \in 1 .. Len(deleteCh'), NEW j \in 1 .. Len(deleteCh'), deleteCh'[i] = deleteCh'[j]
      PROVE  i = j
  <2>1. i + 1 \in 1 .. Len(deleteCh) /\ j + 1 \in 1 .. Len(deleteCh) /\ deleteCh[i + 1] = deleteCh[j + 1]
    BY <1>1, <1>4
  <2> QED
    BY <2>1
<1> QED
  BY <1>2, <1>3, <1>4

\* The map is empty at first (timer.go:26-36).
LEMMA InitExpiry == ServiceInit => ExpiryOnItsWay
BY DEF ServiceInit, ExpiryOnItsWay, Queued

\* A step that touches neither the map nor its timers keeps them in order.
LEMMA ExpiryUntouched ==
  ASSUME ExpiryOnItsWay, UNCHANGED <<entries, waiting, fired, deleteCh>>
  PROVE  ExpiryOnItsWay'
BY DEF ExpiryOnItsWay, Queued

\* Every step keeps each session of the map with one timer or one deletion
\* (timer.go:59-107).
LEMMA ExpiryStep == ServiceTypeOK /\ ExpiryOnItsWay /\ [ServiceNext]_serviceVars => ExpiryOnItsWay'
<1> SUFFICES ASSUME ServiceTypeOK, ExpiryOnItsWay, [ServiceNext]_serviceVars PROVE ExpiryOnItsWay'
  OBVIOUS
<1>1. CASE HandleUpdate
  <2> DEFINE p == of[Head(updateCh)]
  <2>1. p \in Pairs
    <3>1. Head(updateCh) \in Calls
      BY <1>1, TailElement DEF HandleUpdate, ServiceTypeOK
    <3> QED
      BY <1>1, <3>1 DEF HandleUpdate, Stage, ServiceTypeOK
  <2>2. /\ entries' = entries \cup ({p} \ entries)
        /\ waiting' = waiting \cup ({p} \ entries)
        /\ UNCHANGED <<fired, deleteCh>>
    BY <1>1 DEF HandleUpdate
  <2>3. \A q \in Pairs : Queued(q)' <=> Queued(q)
    BY <2>2 DEF Queued
  <2> QED
    BY <2>1, <2>2, <2>3 DEF ExpiryOnItsWay, ServiceTypeOK
<1>2. CASE HandleDelete
  <2> DEFINE p == Head(deleteCh)
  <2>1. deleteCh \in Seq(Pairs) /\ deleteCh # <<>> /\ deleteCh' = Tail(deleteCh)
    BY <1>2 DEF HandleDelete, ServiceTypeOK
  <2>2. p \in Pairs /\ Queued(p)
    BY <2>1, TailElement DEF Queued
  <2>3. /\ \A q \in Pairs : Queued(q)' <=> Queued(q) /\ q # p
        /\ \A i, j \in 1 .. Len(deleteCh') : deleteCh'[i] = deleteCh'[j] => i = j
    BY <2>1, QueuedAfterTake DEF ExpiryOnItsWay
  <2>4. p \notin waiting /\ p \notin fired
    BY <2>2 DEF ExpiryOnItsWay, ServiceTypeOK
  <2>5. entries' = entries \ {p} /\ UNCHANGED <<waiting, fired>>
    BY <1>2 DEF HandleDelete
  <2> QED
    BY <2>2, <2>3, <2>4, <2>5 DEF ExpiryOnItsWay, ServiceTypeOK
<1>3. ASSUME NEW p \in Pairs, SendDelete(p) PROVE ExpiryOnItsWay'
  <2>1. deleteCh \in Seq(Pairs) /\ deleteCh' = Append(deleteCh, p)
    BY <1>3 DEF SendDelete, ServiceTypeOK
  <2>2. \A q \in Pairs : Queued(q)' <=> Queued(q) \/ q = p
    BY <2>1, QueuedAfterSend
  <2>3. p \in fired /\ p \notin waiting /\ ~Queued(p) /\ fired' = fired \ {p} /\ UNCHANGED <<entries, waiting>>
    BY <1>3 DEF SendDelete, ExpiryOnItsWay
  <2>4. \A i, j \in 1 .. Len(deleteCh') : deleteCh'[i] = deleteCh'[j] => i = j
    <3>1. /\ Len(deleteCh') = Len(deleteCh) + 1
          /\ \A i \in 1 .. Len(deleteCh) : deleteCh'[i] = deleteCh[i]
          /\ deleteCh'[Len(deleteCh) + 1] = p
          /\ Len(deleteCh) \in Nat
      BY <2>1, AppendElement
    <3>2. \A i \in 1 .. Len(deleteCh) : deleteCh[i] # p
      BY <2>3 DEF Queued
    <3>3. \A i, j \in 1 .. Len(deleteCh) : deleteCh[i] = deleteCh[j] => i = j
      BY DEF ExpiryOnItsWay
    <3> QED
      BY <3>1, <3>2, <3>3
  <2> QED
    BY <2>2, <2>3, <2>4 DEF ExpiryOnItsWay, ServiceTypeOK
<1>4. ASSUME NEW p \in Pairs, TimerFires(p) PROVE ExpiryOnItsWay'
  BY <1>4 DEF TimerFires, ExpiryOnItsWay, Queued
<1>5. CASE \/ \E c \in Calls : SendAdd(c) \/ Return(c) \/ \E p \in Pairs : ClientHealth(c, p)
           \/ OnDeleted \/ FetchSessionEvent \/ UNCHANGED serviceVars
  BY <1>5, ExpiryUntouched DEF SendAdd, Return, ClientHealth, OnDeleted, FetchSessionEvent, mapVars, serviceVars
<1> QED
  BY <1>1, <1>2, <1>3, <1>4, <1>5 DEF ServiceNext, ServiceStep, RunnerStep

\* A session in the map always has exactly one timer or deletion, for any callers
\* (timer.go:59-107).
THEOREM ExpiryAlwaysOnItsWay == ServiceSpec => []ExpiryOnItsWay
BY InitExpiry, ExpiryStep, ServiceTypeCorrect, PTL DEF ServiceSpec

-----------------------------------------------------------------------------
(* The syncer knows what is in the map *)

\* The session whose end is being reported is not in the map: the runner handles
\* no update before it has reported it (service.go:21-27, timer.go:96-107).
RemovingIsGone == removing \notin entries

KnownInv == KnownOrOnItsWay /\ RemovingIsGone

\* The map is empty at first.
LEMMA InitKnown == ServiceInit => KnownInv
BY DEF ServiceInit, KnownInv, KnownOrOnItsWay, RemovingIsGone

\* How one session comes to be known.
OnItsWay(p) ==
  \/ \E c \in Calls : health[c] = "add" /\ of[c] = p
  \/ \E i \in 1 .. Len(eventCh) : eventCh[i] = Event("ADD", p) /\ NotRemovedAfter(p, i)
  \/ p \in known /\ NotRemovedAfter(p, 0)

\* An event that is not the session's REMOVE leaves it on its way.
LEMMA OnItsWayAfterSend ==
  ASSUME eventCh \in Seq(Events), NEW e \in Events, eventCh' = Append(eventCh, e),
         NEW p \in Pairs, OnItsWay(p), e # Event("REMOVE", p),
         ~\E c \in Calls : health[c] = "add" /\ of[c] = p,
         UNCHANGED known
  PROVE  OnItsWay(p)'
<1>1. /\ Len(eventCh') = Len(eventCh) + 1
      /\ \A i \in 1 .. Len(eventCh) : eventCh'[i] = eventCh[i]
      /\ eventCh'[Len(eventCh) + 1] = e
      /\ Len(eventCh) \in Nat
  BY AppendElement
<1>2. \A i \in 0 .. Len(eventCh) : NotRemovedAfter(p, i) => NotRemovedAfter(p, i)'
  BY <1>1 DEF NotRemovedAfter
<1>3. CASE \E i \in 1 .. Len(eventCh) : eventCh[i] = Event("ADD", p) /\ NotRemovedAfter(p, i)
  <2>1. PICK i \in 1 .. Len(eventCh) : eventCh[i] = Event("ADD", p) /\ NotRemovedAfter(p, i)
    BY <1>3
  <2>2. i \in 1 .. Len(eventCh') /\ eventCh'[i] = Event("ADD", p) /\ NotRemovedAfter(p, i)'
    BY <1>1, <1>2, <2>1
  <2> QED
    BY <2>2 DEF OnItsWay, Event
<1>4. CASE p \in known /\ NotRemovedAfter(p, 0)
  BY <1>1, <1>2, <1>4 DEF OnItsWay
<1> QED
  BY <1>3, <1>4 DEF OnItsWay

\* The syncer takes an event: a session that was to come by it is known now.
LEMMA OnItsWayAfterTake ==
  ASSUME ServiceTypeOK, FetchSessionEvent, NEW p \in Pairs, OnItsWay(p)
  PROVE  OnItsWay(p)'
<1>1. /\ Head(eventCh) = eventCh[1] /\ Head(eventCh) \in Events
      /\ Len(eventCh) \in Nat \ {0}
      /\ eventCh' = Tail(eventCh)
      /\ Len(eventCh') = Len(eventCh) - 1
      /\ \A i \in 1 .. Len(eventCh) - 1 : eventCh'[i] = eventCh[i + 1]
  BY TailElement DEF FetchSessionEvent, ServiceTypeOK
<1>2. \A i \in 1 .. Len(eventCh) : NotRemovedAfter(p, i) => NotRemovedAfter(p, i - 1)'
  <2> SUFFICES ASSUME NEW i \in 1 .. Len(eventCh), NotRemovedAfter(p, i),
                      NEW j \in (i - 1) + 1 .. Len(eventCh')
               PROVE  eventCh'[j] # Event("REMOVE", p)
    BY DEF NotRemovedAfter, Event
  <2>1. j \in 1 .. Len(eventCh) - 1 /\ j + 1 \in i + 1 .. Len(eventCh)
    BY <1>1
  <2> QED
    BY <1>1, <2>1 DEF NotRemovedAfter
<1>3. CASE \E c \in Calls : health[c] = "add" /\ of[c] = p
  BY <1>3 DEF FetchSessionEvent, OnItsWay, callVars
<1>4. CASE \E i \in 1 .. Len(eventCh) : eventCh[i] = Event("ADD", p) /\ NotRemovedAfter(p, i)
  <2>1. PICK i \in 1 .. Len(eventCh) : eventCh[i] = Event("ADD", p) /\ NotRemovedAfter(p, i)
    BY <1>4
  <2>2. CASE i = 1
    <3>1. p \in known'
      BY <1>1, <2>1, <2>2 DEF FetchSessionEvent, Event
    <3>2. NotRemovedAfter(p, 0)'
      <4>1. NotRemovedAfter(p, 1) => NotRemovedAfter(p, 1 - 1)'
        BY <1>1, <1>2
      <4>2. 1 - 1 = 0
        OBVIOUS
      <4> QED
        BY <2>1, <2>2, <4>1, <4>2 DEF NotRemovedAfter
    <3> QED
      BY <3>1, <3>2 DEF OnItsWay
  <2>3. CASE i # 1
    <3>1. i - 1 \in 1 .. Len(eventCh') /\ (i - 1) + 1 = i
      BY <1>1, <2>3
    <3>2. eventCh'[i - 1] = Event("ADD", p) /\ NotRemovedAfter(p, i - 1)'
      BY <1>1, <1>2, <2>1, <3>1
    <3> QED
      BY <3>1, <3>2 DEF OnItsWay, Event
  <2> QED
    BY <2>2, <2>3
<1>5. CASE p \in known /\ NotRemovedAfter(p, 0)
  <2>1. eventCh[1] # Event("REMOVE", p)
    BY <1>1, <1>5 DEF NotRemovedAfter
  <2>2. p \in known'
    BY <1>1, <1>5, <2>1 DEF FetchSessionEvent, Event, Events
  <2>3. NotRemovedAfter(p, 0)'
    <3> SUFFICES ASSUME NEW j \in 0 + 1 .. Len(eventCh') PROVE eventCh'[j] # Event("REMOVE", p)
      BY DEF NotRemovedAfter, Event
    <3>1. j \in 1 .. Len(eventCh) - 1 /\ j + 1 \in 0 + 1 .. Len(eventCh)
      BY <1>1
    <3> QED
      BY <1>1, <1>5, <3>1 DEF NotRemovedAfter
  <2> QED
    BY <2>2, <2>3 DEF OnItsWay
<1> QED
  BY <1>3, <1>4, <1>5 DEF OnItsWay

\* Every step keeps each session of the map known or on its way
\* (service.go:35-47, timer.go:59-107).
LEMMA KnownStep == ServiceTypeOK /\ KnownInv /\ [ServiceNext]_serviceVars => KnownInv'
<1> SUFFICES ASSUME ServiceTypeOK, KnownInv, [ServiceNext]_serviceVars PROVE KnownInv'
  OBVIOUS
<1>1. \A p \in entries : p \in Pairs /\ OnItsWay(p)
  BY DEF KnownInv, KnownOrOnItsWay, OnItsWay, ServiceTypeOK
<1>2. SUFFICES RemovingIsGone' /\ \A p \in entries' : OnItsWay(p)'
  BY DEF KnownInv, KnownOrOnItsWay, OnItsWay, Event, NotRemovedAfter
<1>3. ASSUME NEW c \in Calls, SendAdd(c) PROVE RemovingIsGone' /\ \A p \in entries' : OnItsWay(p)'
  <2>1. RemovingIsGone' /\ entries' = entries
    BY <1>3 DEF SendAdd, mapVars, RemovingIsGone, KnownInv
  <2>2. of[c] \in Pairs /\ Event("ADD", of[c]) \in Events /\ eventCh \in Seq(Events)
    BY <1>3 DEF SendAdd, Stage, ServiceTypeOK, Event, Events
  <2>3. ASSUME NEW p \in entries PROVE OnItsWay(p)'
    <3>1. CASE p = of[c]
      <4>1. /\ Len(eventCh') = Len(eventCh) + 1 /\ Len(eventCh) \in Nat
            /\ eventCh'[Len(eventCh) + 1] = Event("ADD", of[c])
        BY <1>3, <2>2, AppendElement DEF SendAdd
      <4>2. NotRemovedAfter(p, Len(eventCh) + 1)'
        BY <4>1 DEF NotRemovedAfter
      <4>3. Len(eventCh) + 1 \in 1 .. Len(eventCh')
        BY <4>1
      <4> QED
        BY <3>1, <4>1, <4>2, <4>3 DEF OnItsWay, NotRemovedAfter, Event
    <3>2. CASE p # of[c] /\ \E d \in Calls : health[d] = "add" /\ of[d] = p
      <4>1. PICK d \in Calls : health[d] = "add" /\ of[d] = p
        BY <3>2
      <4>2. health'[d] = "add" /\ of'[d] = p
        BY <1>3, <3>2, <4>1 DEF SendAdd, Stage, ServiceTypeOK
      <4> QED
        BY <4>2 DEF OnItsWay
    <3>3. CASE ~\E d \in Calls : health[d] = "add" /\ of[d] = p
      <4>1. Event("ADD", of[c]) # Event("REMOVE", p)
        BY DEF Event
      <4>2. eventCh' = Append(eventCh, Event("ADD", of[c])) /\ UNCHANGED known
        BY <1>3 DEF SendAdd
      <4> QED
        BY <1>1, <2>2, <3>3, <4>1, <4>2, OnItsWayAfterSend
    <3> QED
      BY <3>1, <3>2, <3>3
  <2> QED
    BY <2>1, <2>3
<1>4. CASE OnDeleted
  <2>1. RemovingIsGone' /\ entries' = entries
    BY <1>4, PairsAssumption DEF OnDeleted, RemovingIsGone, KnownInv, ServiceTypeOK
  <2>2. Event("REMOVE", removing) \in Events /\ eventCh \in Seq(Events)
    BY <1>4 DEF OnDeleted, ServiceTypeOK, Event, Events
  <2>3. ASSUME NEW p \in entries PROVE OnItsWay(p)'
    <3>1. CASE \E c \in Calls : health[c] = "add" /\ of[c] = p
      BY <1>4, <3>1 DEF OnDeleted, callVars, OnItsWay
    <3>2. CASE ~\E c \in Calls : health[c] = "add" /\ of[c] = p
      <4>1. Event("REMOVE", removing) # Event("REMOVE", p)
        BY DEF Event, KnownInv, RemovingIsGone
      <4>2. eventCh' = Append(eventCh, Event("REMOVE", removing)) /\ UNCHANGED known
        BY <1>4 DEF OnDeleted
      <4> QED
        BY <1>1, <2>2, <3>2, <4>1, <4>2, OnItsWayAfterSend
    <3> QED
      BY <3>1, <3>2
  <2> QED
    BY <2>1, <2>3
<1>5. CASE FetchSessionEvent
  <2>1. RemovingIsGone' /\ entries' = entries
    BY <1>5 DEF FetchSessionEvent, mapVars, RemovingIsGone, KnownInv
  <2> QED
    BY <1>1, <1>5, <2>1, OnItsWayAfterTake
<1>6. CASE HandleUpdate
  <2> DEFINE c == Head(updateCh)
  <2>1. c \in Calls /\ Stage(c, "update", "add")
    BY <1>6, TailElement DEF HandleUpdate, ServiceTypeOK
  <2>2. health'[c] = "add" /\ \A d \in Calls : health[d] = "add" => health'[d] = "add"
    BY <2>1 DEF Stage, ServiceTypeOK
  <2>3. /\ entries' = entries \cup ({of[c]} \ entries)
        /\ UNCHANGED <<of, removing, eventCh, known>>
    BY <1>6 DEF HandleUpdate
  <2>4. RemovingIsGone'
    <3>1. removing = NoPair /\ of[c] \in Pairs
      BY <1>6, <2>1 DEF HandleUpdate, Select, Stage, ServiceTypeOK
    <3> QED
      BY <2>3, <3>1, PairsAssumption DEF RemovingIsGone, KnownInv
  <2>5. ASSUME NEW p \in entries' PROVE OnItsWay(p)'
    <3>1. CASE p = of[c]
      BY <2>1, <2>2, <2>3, <3>1 DEF OnItsWay
    <3>2. CASE p # of[c]
      <4>1. OnItsWay(p)
        BY <1>1, <2>3, <3>2
      <4> QED
        BY <2>2, <2>3, <4>1 DEF OnItsWay, NotRemovedAfter
    <3> QED
      BY <3>1, <3>2
  <2> QED
    BY <2>4, <2>5
<1>7. CASE HandleDelete
  BY <1>1, <1>7, PairsAssumption DEF HandleDelete, callVars, OnItsWay, NotRemovedAfter, RemovingIsGone, ServiceTypeOK
<1>8. ASSUME NEW c \in Calls, Return(c) \/ \E p \in Pairs : ClientHealth(c, p)
      PROVE  RemovingIsGone' /\ \A p \in entries' : OnItsWay(p)'
  <2>1. UNCHANGED <<entries, removing, eventCh, known>>
    BY <1>8 DEF Return, ClientHealth, mapVars
  <2>2. \A d \in Calls : health[d] = "add" => health'[d] = "add" /\ of'[d] = of[d]
    BY <1>8 DEF Return, ClientHealth, Stage, ServiceTypeOK
  <2> QED
    BY <1>1, <2>1, <2>2 DEF OnItsWay, NotRemovedAfter, RemovingIsGone, KnownInv
<1>9. CASE (\E p \in Pairs : TimerFires(p) \/ SendDelete(p)) \/ UNCHANGED serviceVars
  <2>1. UNCHANGED <<callVars, entries, removing, eventCh, known>>
    BY <1>9 DEF TimerFires, SendDelete, callVars, mapVars, serviceVars
  <2> QED
    BY <1>1, <2>1 DEF callVars, OnItsWay, NotRemovedAfter, RemovingIsGone, KnownInv
<1> QED
  BY <1>3, <1>4, <1>5, <1>6, <1>7, <1>8, <1>9 DEF ServiceNext, ServiceStep, RunnerStep

\* The syncer has, or will have, every session in the map, for any callers
\* (service.go:21-47).
THEOREM AlwaysKnownOrOnItsWay == ServiceSpec => []KnownOrOnItsWay
<1>1. KnownInv => KnownOrOnItsWay
  BY DEF KnownInv
<1> QED
  BY <1>1, InitKnown, KnownStep, ServiceTypeCorrect, PTL DEF ServiceSpec

-----------------------------------------------------------------------------
(* The client of RoomClient is such a caller *)

\* What the client keeps alive is a session of some user, or none.
SessionIsPair == session \in Pairs \cup {NoPair}

\* A step of the client, its owner or the network is one call's step of the
\* service, or leaves the service alone (client.go:46-141).
LEMMA StepsOfService == SessionIsPair /\ [Next]_vars => [ServiceNext]_serviceVars /\ SessionIsPair'
<1> SUFFICES ASSUME SessionIsPair, [Next]_vars PROVE [ServiceNext]_serviceVars /\ SessionIsPair'
  OBVIOUS
<1> USE DEF ownerVars, SessionIsPair
<1>1. CASE KeeperStep
  BY <1>1 DEF KeeperStep, KeeperExits, ManualReconnect, KeeperReconnected, TimeOut, RoundEnds, NextRound,
              StartRound, KeeperReconnects
<1>2. ASSUME NEW c \in Calls, CallStep(c) PROVE [ServiceNext]_serviceVars /\ SessionIsPair'
  <2>1. CASE SendHealth(c)
    <3>1. session \in Pairs /\ ClientHealth(c, session) /\ UNCHANGED session
      BY <2>1 DEF SendHealth
    <3> QED
      BY <3>1 DEF ServiceNext
  <2>2. CASE HealthReply(c) \/ ReplyLost(c)
    BY <2>2 DEF HealthReply, ReplyLost, ServiceNext
  <2>3. CASE NoSession(c) \/ HealthFails(c) \/ CallEnds(c)
    BY <2>3 DEF NoSession, HealthFails, CallEnds
  <2> QED
    BY <1>2, <2>1, <2>2, <2>3 DEF CallStep
<1>3. ASSUME NEW u \in Users, ReconnectStep(u) PROVE [ServiceNext]_serviceVars /\ SessionIsPair'
  BY <1>3 DEF ReconnectStep, NewClient
<1>4. CASE Owner \/ ConnectionLost
  BY <1>4 DEF Owner, Connect, RefreshConn, Close, UpdateSession, ConnectionLost
<1>5. CASE OnService(ServiceStep)
  BY <1>5 DEF OnService, ServiceNext
<1>6. ASSUME NEW p \in Pairs, Expire(p) PROVE [ServiceNext]_serviceVars /\ SessionIsPair'
  BY <1>6 DEF Expire, ServiceNext
<1>7. CASE Exhausted \/ Quiet \/ UNCHANGED vars
  BY <1>7 DEF Exhausted, Quiet, vars
<1> QED
  BY <1>1, <1>2, <1>3, <1>4, <1>5, <1>6, <1>7 DEF Next, ClientStep

\* With its client, the service still behaves as the service alone: each step of
\* the composition is one of the service's or a stutter, so that the theorems above
\* hold of it too (client.go:46-141).
THEOREM ImplementsService == Spec => ServiceSpec
<1>1. Init => ServiceInit /\ SessionIsPair
  BY DEF Init, SessionIsPair
<1> QED
  BY <1>1, StepsOfService, PTL DEF Spec, ServiceSpec

\* What the service promises any callers holds of the composition (service.go:21-47,
\* timer.go:59-107).
THEOREM RoomServiceSafe == Spec => [](ServiceTypeOK /\ ExpiryOnItsWay /\ KnownOrOnItsWay)
BY ImplementsService, ServiceTypeCorrect, ExpiryAlwaysOnItsWay, AlwaysKnownOrOnItsWay, PTL

-----------------------------------------------------------------------------
(* The client of RoomClient uses a StreamClient *)

\* Each of its steps is one step of one call, or Close, or a lost connection
\* (client.go:46-145).
LEMMA ClientSteps == [Next]_vars => [ClientNext]_clientVars
<1> SUFFICES ASSUME [Next]_vars
             PROVE  \/ \E u \in Users : UserStep(u)
                    \/ CloseClient \/ Break
                    \/ UNCHANGED clientVars
  BY DEF ClientNext
<1> USE UsersAssumption
<1>1. CASE KeeperStep
  <2>1. CASE ManualReconnect \/ KeeperReconnected \/ TimeOut
    <3>1. UserStep(Keeper)
      BY <2>1 DEF ManualReconnect, KeeperReconnected, TimeOut, KeeperReconnects, UserStep
    <3> QED
      BY <3>1
  <2>2. ASSUME NEW c \in Calls, StartRound(c) PROVE UserStep(c) /\ c \in Users
    BY <2>2 DEF StartRound, UserStep
  <2>3. CASE KeeperExits \/ RoundEnds \/ NextRound
    BY <2>3 DEF KeeperExits, RoundEnds, NextRound
  <2> QED
    BY <1>1, <2>1, <2>2, <2>3 DEF KeeperStep
<1>2. ASSUME NEW c \in Calls, CallStep(c) PROVE UserStep(c) \/ UNCHANGED clientVars
  BY <1>2 DEF CallStep, NoSession, SendHealth, HealthReply, HealthFails, ReplyLost, CallEnds, UserStep
<1>3. ASSUME NEW u \in Users, ReconnectStep(u) PROVE UserStep(u)
  BY <1>3 DEF ReconnectStep, NewClient, UserStep
<1>4. CASE Owner \/ ConnectionLost
  BY <1>4 DEF Owner, Connect, RefreshConn, Close, UpdateSession, ConnectionLost
<1>5. CASE OnService(ServiceStep) \/ \E p \in Pairs : Expire(p)
  BY <1>5 DEF OnService, Expire
<1>6. CASE Exhausted \/ Quiet \/ UNCHANGED vars
  BY <1>6 DEF Exhausted, Quiet, vars
<1>7. CASE \E c \in Calls : CallStep(c)
  BY <1>2, <1>7
<1> QED
  BY <1>1, <1>3, <1>4, <1>5, <1>6, <1>7 DEF Next, ClientStep

\* What is proved of every program that uses a StreamClient holds of it: one
\* reconnection at a time, and no connection that comes back (client.go:46-145).
THEOREM ImplementsClient ==
  Spec => ClientSpec /\ []ClientTypeOK /\ []OneReconnection /\ []StreamsInOrder /\ GoneForGood
<1>1. Init => ClientInit
  BY DEF Init
<1>2. Spec => ClientSpec
  BY <1>1, ClientSteps, PTL DEF Spec, ClientSpec
<1> QED
  BY <1>2, ClientTypeCorrect, NeverTwoReconnections, StreamsAlwaysInOrder, StreamsGoneForGood, PTL

-----------------------------------------------------------------------------
(* What client and service keep together *)

\* The types of keepAlive and the owner.
KeeperTypes ==
  /\ keeper \in {"off", "loop", "await", "rest", "reconnect", "gone"}
  /\ round \in Calls \cup {NoRound} /\ ended \in {"no", "failed", "ok"}
  /\ sent \subseteq Calls
  /\ manual \in BOOLEAN /\ session \in Pairs \cup {NoPair} /\ events \in 0 .. MaxEvents

\* Every step of the program keeps them (client.go:69-153).
LEMMA KeeperTypesStep == KeeperTypes /\ [Next]_vars => KeeperTypes'
<1> SUFFICES ASSUME KeeperTypes, [Next]_vars PROVE KeeperTypes'
  OBVIOUS
<1>0. Happens \/ NoEvent => events' \in 0 .. MaxEvents
  BY MaxEventsAssumption DEF KeeperTypes, Happens, NoEvent
<1> USE <1>0 DEF KeeperTypes, keeperVars, ownerVars
<1>1. CASE KeeperExits \/ KeeperReconnected \/ RoundEnds \/ NextRound
  BY <1>1 DEF KeeperExits, KeeperReconnected, RoundEnds, NextRound
<1>2. CASE ManualReconnect \/ TimeOut
  <2>1. (Happens \/ NoEvent) /\ KeeperReconnects /\ manual' \in BOOLEAN
    BY <1>2 DEF ManualReconnect, TimeOut
  <2> QED
    BY <2>1 DEF KeeperReconnects
<1>3. ASSUME NEW c \in Calls, StartRound(c) PROVE KeeperTypes'
  BY <1>3 DEF StartRound
<1>4. ASSUME NEW c \in Calls, CallStep(c) PROVE KeeperTypes'
  BY <1>4 DEF CallStep, NoSession, SendHealth, HealthReply, HealthFails, ReplyLost, CallEnds, Cancels
<1>5. ASSUME NEW u \in Users, ReconnectStep(u) PROVE KeeperTypes'
  BY <1>5 DEF ReconnectStep, NewClient
<1>6. CASE Owner \/ ConnectionLost
  <2>1. CASE Connect \/ Close
    BY <2>1 DEF Connect, Close
  <2>2. CASE RefreshConn \/ ConnectionLost
    BY <2>2 DEF RefreshConn, ConnectionLost
  <2>3. ASSUME NEW p \in Pairs, UpdateSession(p) PROVE KeeperTypes'
    BY <2>3 DEF UpdateSession
  <2> QED
    BY <1>6, <2>1, <2>2, <2>3 DEF Owner
<1>7. CASE OnService(ServiceStep) \/ \E p \in Pairs : Expire(p)
  BY <1>7 DEF OnService, Expire
<1>8. CASE Exhausted \/ Quiet \/ UNCHANGED vars
  BY <1>8 DEF Exhausted, Quiet, vars, NoEvent
<1> QED
  BY <1>1, <1>2, <1>3, <1>4, <1>5, <1>6, <1>7, <1>8 DEF Next, ClientStep, KeeperStep

\* keepAlive's own calls begin and end with its place, and nobody else's step is
\* one of them (client.go:69-106).
LEMMA KeeperCallsStep == ClientTypeOK /\ KeeperCalls /\ [Next]_vars => KeeperCalls'
<1> SUFFICES ASSUME ClientTypeOK, KeeperCalls, [Next]_vars PROVE KeeperCalls'
  OBVIOUS
<1> USE UsersAssumption DEF KeeperCalls, ClientTypeOK, Goto, keeperVars, ownerVars
<1>1. CASE KeeperExits \/ KeeperReconnected \/ RoundEnds \/ NextRound
  BY <1>1 DEF KeeperExits, KeeperReconnected, CallReturns, RoundEnds, NextRound, clientVars
<1>2. CASE ManualReconnect \/ TimeOut
  BY <1>2 DEF ManualReconnect, TimeOut, KeeperReconnects, ReconnectNotVerify
<1>3. ASSUME NEW c \in Calls, StartRound(c) PROVE KeeperCalls'
  BY <1>3 DEF StartRound, DoWithClient
<1>4. ASSUME NEW c \in Calls, CallStep(c) PROVE KeeperCalls'
  <2>1. at'[Keeper] = at[Keeper] /\ UNCHANGED <<keeper, round>>
    BY <1>4 DEF CallStep, NoSession, SendHealth, HealthReply, HealthFails, ReplyLost, CallEnds,
                UseDone, UseFails, CallReturns, clientVars
  <2> QED
    BY <2>1
<1>5. ASSUME NEW u \in Users, ReconnectStep(u) PROVE KeeperCalls'
  <2>1. /\ at[u] # "idle" /\ at'[u] # "idle" /\ at'[u] # "using"
        /\ \A v \in Users : v # u => at'[v] = at[v]
        /\ UNCHANGED <<keeper, round>>
    BY <1>5 DEF ReconnectStep, NewClient, Enter, Wake, Begin, DialRegardless, DialFails
  <2> QED
    BY <2>1
<1>6. CASE Owner \/ ConnectionLost
  BY <1>6 DEF Owner, Connect, RefreshConn, Close, CloseClient, UpdateSession, ConnectionLost, Break,
              clientVars
<1>7. CASE OnService(ServiceStep) \/ \E p \in Pairs : Expire(p)
  BY <1>7 DEF OnService, Expire, clientVars
<1>8. CASE Exhausted \/ Quiet \/ UNCHANGED vars
  BY <1>8 DEF Exhausted, Quiet, vars, clientVars
<1> QED
  BY <1>1, <1>2, <1>3, <1>4, <1>5, <1>6, <1>7, <1>8 DEF Next, ClientStep, KeeperStep

\* A step of the service alone neither begins nor ends a call (service.go:35-43).
LEMMA ServiceKeepsCalls ==
  ASSUME ServiceTypeOK, ServiceStep, NEW c \in Calls
  PROVE  health'[c] = "none" <=> health[c] = "none"
<1>1. ASSUME NEW d \in Calls, SendAdd(d) PROVE health'[c] = "none" <=> health[c] = "none"
  BY <1>1 DEF SendAdd, Stage, ServiceTypeOK
<1>2. CASE HandleUpdate
  BY <1>2 DEF HandleUpdate, Stage, ServiceTypeOK
<1>3. CASE HandleDelete \/ OnDeleted \/ FetchSessionEvent \/ \E p \in Pairs : SendDelete(p)
  BY <1>3 DEF HandleDelete, OnDeleted, FetchSessionEvent, SendDelete, callVars
<1> QED
  BY <1>1, <1>2, <1>3 DEF ServiceStep, RunnerStep

\* A handler ends only with the reply that ends its call, or when the connection of
\* the call is gone, which stays gone (client.go:46-67, 81-96).
LEMMA RequestsStep ==
  /\ ClientTypeOK /\ ServiceTypeOK /\ StreamsInOrder /\ RequestsHandled
  /\ [Next]_vars
  => RequestsHandled'
<1> SUFFICES ASSUME ClientTypeOK, ServiceTypeOK, StreamsInOrder, RequestsHandled, [Next]_vars,
                    NEW c \in Calls
             PROVE  /\ c \in sent' => at'[c] = "using"
                    /\ c \in sent' /\ on'[c] = open' => health'[c] # "none"
                    /\ at'[c] = "using" /\ c \notin sent' => health'[c] = "none"
  BY DEF RequestsHandled
<1> DEFINE Kept == /\ at'[c] = "using" <=> at[c] = "using"
                   /\ on'[c] = on[c]
                   /\ c \in sent' <=> c \in sent
                   /\ health'[c] = "none" <=> health[c] = "none"
<1>1. c \in Users /\ c # Keeper
  BY UsersAssumption
<1>2. SUFFICES ASSUME ~Kept
               PROVE  /\ c \in sent' => at'[c] = "using"
                      /\ c \in sent' /\ on'[c] = open' => health'[c] # "none"
                      /\ at'[c] = "using" /\ c \notin sent' => health'[c] = "none"
  <2> SUFFICES ASSUME Kept
               PROVE  /\ c \in sent' => at'[c] = "using"
                      /\ c \in sent' /\ on'[c] = open' => health'[c] # "none"
                      /\ at'[c] = "using" /\ c \notin sent' => health'[c] = "none"
    OBVIOUS
  <2>1. [ClientNext]_clientVars
    BY ClientSteps
  <2>2. c \in sent => on[c] # 0
    BY <1>1 DEF RequestsHandled, StreamsInOrder
  <2>3. c \in sent /\ on'[c] = open' => on[c] = open
    BY <1>1, <2>1, <2>2, GoneStep
  <2> QED
    BY <2>3 DEF RequestsHandled
<1> USE DEF ClientTypeOK, Goto, keeperVars, ownerVars
<1>3. CASE KeeperStep
  <2>1. CASE KeeperExits \/ RoundEnds \/ NextRound
    BY <1>2, <2>1 DEF KeeperExits, RoundEnds, NextRound, clientVars, serviceVars, callVars
  <2>2. CASE ManualReconnect \/ TimeOut \/ KeeperReconnected
    BY <1>1, <1>2, <2>2 DEF ManualReconnect, TimeOut, KeeperReconnects, ReconnectNotVerify,
                            KeeperReconnected, CallReturns, serviceVars, callVars
  <2>3. ASSUME NEW d \in Calls, StartRound(d)
        PROVE  /\ c \in sent' => at'[c] = "using"
               /\ c \in sent' /\ on'[c] = open' => health'[c] # "none"
               /\ at'[c] = "using" /\ c \notin sent' => health'[c] = "none"
    <3>1. UNCHANGED <<sent, health>>
      BY <2>3 DEF StartRound, serviceVars, callVars
    <3>2. d \in Users /\ at[d] = "idle" /\ health[d] = "none"
      BY <2>3, UsersAssumption DEF StartRound, DoWithClient
    <3>3. c # d => at'[c] = at[c] /\ on'[c] = on[c]
      <4>1. DoWithClient(d)
        BY <2>3 DEF StartRound
      <4> QED
        BY <1>1, <4>1 DEF DoWithClient
    <3>4. c = d
      BY <1>2, <3>1, <3>3
    <3> QED
      BY <3>1, <3>2, <3>4 DEF RequestsHandled
  <2> QED
    BY <1>3, <2>1, <2>2, <2>3 DEF KeeperStep
<1>4. ASSUME NEW d \in Calls, CallStep(d)
      PROVE  /\ c \in sent' => at'[c] = "using"
             /\ c \in sent' /\ on'[c] = open' => health'[c] # "none"
             /\ at'[c] = "using" /\ c \notin sent' => health'[c] = "none"
  <2>1. c = d
    <3> SUFFICES ASSUME c # d PROVE Kept
      BY <1>2
    <3>1. at'[c] = at[c] /\ on'[c] = on[c]
      BY <1>1, <1>4 DEF CallStep, NoSession, SendHealth, HealthReply, HealthFails, ReplyLost, CallEnds,
                        UseDone, UseFails, CallReturns, clientVars
    <3>2. c \in sent' <=> c \in sent
      BY <1>4 DEF CallStep, NoSession, SendHealth, HealthReply, HealthFails, ReplyLost, CallEnds
    <3>3. health'[c] = health[c]
      BY <1>4 DEF CallStep, NoSession, SendHealth, ClientHealth, HealthReply, HealthFails, ReplyLost,
                  Return, CallEnds, Stage, ServiceTypeOK, serviceVars, callVars
    <3> QED
      BY <3>1, <3>2, <3>3
  <2>2. CASE NoSession(c) \/ HealthReply(c) \/ HealthFails(c) \/ CallEnds(c)
    <3>1. at'[c] # "using" /\ c \notin sent'
      BY <1>1, <2>2 DEF NoSession, HealthReply, HealthFails, CallEnds, UseDone, UseFails, CallReturns,
                        RequestsHandled
    <3> QED
      BY <3>1
  <2>3. CASE SendHealth(c)
    BY <2>3 DEF SendHealth, ClientHealth, Stage, ServiceTypeOK, clientVars
  <2>4. CASE ReplyLost(c)
    BY <2>4 DEF ReplyLost, Return, Stage, ServiceTypeOK, clientVars, RequestsHandled
  <2> QED
    BY <1>4, <2>1, <2>2, <2>3, <2>4 DEF CallStep
<1>5. ASSUME NEW u \in Users, ReconnectStep(u) PROVE FALSE
  <2>1. /\ at[u] # "using" /\ at'[u] # "using"
        /\ \A v \in Users : v # u => at'[v] = at[v]
        /\ UNCHANGED <<on, sent, health>>
    BY <1>5 DEF ReconnectStep, NewClient, Enter, Wake, Begin, DialRegardless, DialFails, serviceVars, callVars
  <2> QED
    BY <1>1, <1>2, <2>1
<1>6. CASE Owner \/ ConnectionLost
  <2>1. UNCHANGED <<at, on, sent, health>>
    BY <1>6 DEF Owner, Connect, RefreshConn, Close, CloseClient, UpdateSession, ConnectionLost, Break,
                clientVars, serviceVars, callVars
  <2> QED
    BY <1>2, <2>1
<1>7. CASE OnService(ServiceStep)
  BY <1>2, <1>7, ServiceKeepsCalls DEF OnService, clientVars
<1>8. CASE (\E p \in Pairs : Expire(p)) \/ Exhausted \/ Quiet \/ UNCHANGED vars
  <2>1. UNCHANGED <<at, on, sent, health>>
    BY <1>8 DEF Expire, TimerFires, Exhausted, Quiet, vars, clientVars, serviceVars, callVars
  <2> QED
    BY <1>2, <2>1
<1> QED
  BY <1>3, <1>4, <1>5, <1>6, <1>7, <1>8 DEF Next, ClientStep

\* The inductive invariant of the composition, on top of what client and service
\* promise any program.
RoomInv == KeeperTypes /\ KeeperCalls /\ RequestsHandled

\* keepAlive, its calls and their handlers stay in step (client.go:69-106).
THEOREM RoomInvariant == Spec => []RoomInv
<1>1. Init => RoomInv
  <2> SUFFICES ASSUME Init PROVE RoomInv
    OBVIOUS
  <2>1. 0 \in 0 .. MaxEvents
    BY MaxEventsAssumption
  <2>2. KeeperTypes
    BY <2>1 DEF Init, KeeperTypes
  <2>3. KeeperCalls /\ RequestsHandled
    BY UsersAssumption DEF Init, ClientInit, KeeperCalls, RequestsHandled
  <2> QED
    BY <2>2, <2>3 DEF RoomInv
<1>2. /\ ClientTypeOK /\ ServiceTypeOK /\ StreamsInOrder /\ RoomInv
      /\ [Next]_vars
      => RoomInv'
  BY KeeperTypesStep, KeeperCallsStep, RequestsStep DEF RoomInv
<1> QED
  BY <1>1, <1>2, ImplementsClient, RoomServiceSafe, PTL DEF Spec

\* The types of the composition hold always.
THEOREM RoomTypeCorrect == Spec => []TypeOK
<1>1. ClientTypeOK /\ ServiceTypeOK /\ RoomInv => TypeOK
  BY DEF RoomInv, KeeperTypes, TypeOK
<1> QED
  BY <1>1, RoomInvariant, ImplementsClient, RoomServiceSafe, PTL

\* A request on a connection that works has its handler, whose reply will end the
\* call (client.go:46-67, 81-96).
THEOREM RequestsAlwaysHandled == Spec => []RequestsHandled
<1>1. RoomInv => RequestsHandled
  BY DEF RoomInv
<1> QED
  BY <1>1, RoomInvariant, PTL

=============================================================================
