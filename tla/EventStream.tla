---------------------------- MODULE EventStream ----------------------------
(***************************************************************************)
(* The way of an event from BroadcastToUser or BroadcastGlobal to one      *)
(* browser tab that loses and restores its connection.                     *)
(*                                                                         *)
(* The hub records an event in its history and then hands it over: one for *)
(* a user to the hub's channel, a global one straight to the queues of all *)
(* connections.  A tab that reconnects names the last event it handled,    *)
(* and a goroutine of its own (replayToClient) takes the events after it   *)
(* from the history and puts them into the same queue that live events go  *)
(* to.  Nothing orders the two, so an event may come twice, late, or - if  *)
(* a later one was handled before the connection broke - never.            *)
(*                                                                         *)
(* Connections the tab has lost are left out: what they still receive goes *)
(* nowhere.  How connections are closed and removed is in WsHub.           *)
(***************************************************************************)
EXTENDS Integers, Sequences, FiniteSets, Selection

CONSTANTS
  Events,
  HistoryLimit,   \* eventHistoryLimit (256)
  Recent,         \* replayed if the named event is not in the history (20)
  QueueLimit,     \* capacity of Client.send (16)
  ChannelLimit,   \* capacity of Hub.broadcast (32)
  None            \* no event

ASSUME EventStreamAssumption ==
  /\ HistoryLimit \in Nat \ {0} /\ Recent \in Nat
  /\ QueueLimit \in Nat \ {0} /\ ChannelLimit \in Nat \ {0}
  /\ None \notin Events

VARIABLES
  kind,       \* for whom the event is; "none" until it is emitted
  emitting,   \* events that are recorded and not handed over yet
  channel,    \* Hub.broadcast
  history,    \* Hub.eventHistory
  conn,       \* the tab's connection
  seen,       \* WsManager.seenEvents: the events the tab has handled
  last        \* WsManager.lastEventId

(***************************************************************************)
(* History variables: what the present connection owes the tab, and what   *)
(* it dropped because a queue or the history was full.                     *)
(***************************************************************************)
VARIABLES owed, dropped

vars == <<kind, emitting, channel, history, conn, seen, last, owed, dropped>>

Members(s) == {s[i] : i \in DOMAIN s}

\* asked is the event the tab named until replayToClient has read the history.
Off == [on |-> FALSE, asked |-> None, replay |-> <<>>, queue |-> <<>>]

Init ==
  /\ kind = [e \in Events |-> "none"]
  /\ emitting = {} /\ channel = <<>> /\ history = <<>>
  /\ conn = Off
  /\ seen = {} /\ last = None
  /\ owed = {} /\ dropped = {}

Concerns(x) == kind[x] \in {"mine", "all"}

\* Mutant of EventsForReplay: the first event after the named one is skipped.
EventsForReplay_OffByOne(h, e) ==
  LET places == {i \in DOMAIN h : h[i] = e}
      start == IF places # {} THEN (CHOOSE i \in places : TRUE) + 2
               ELSE IF Len(h) > Recent THEN Len(h) - Recent + 1 ELSE 1
  IN  At(h, {i \in start..Len(h) : Concerns(h[i])})

\* Mutant of EventsForReplay: other users' events are replayed, too.
EventsForReplay_Unfiltered(h, e) ==
  LET places == {i \in DOMAIN h : h[i] = e}
      start == IF places # {} THEN (CHOOSE i \in places : TRUE) + 1
               ELSE IF Len(h) > Recent THEN Len(h) - Recent + 1 ELSE 1
  IN  At(h, start..Len(h))

\* The events of history h after e that concern the user.
EventsForReplay(h, e) ==
  LET places == {i \in DOMAIN h : h[i] = e}
      start == IF places # {} THEN (CHOOSE i \in places : TRUE) + 1
               ELSE IF Len(h) > Recent THEN Len(h) - Recent + 1 ELSE 1
  IN  At(h, {i \in start..Len(h) : Concerns(h[i])})

\* What a connection that has not read the history yet may expect of it: the
\* events that came after the named one, or the newest if that one is gone.
Due(c, h) ==
  {h[i] : i \in {j \in DOMAIN h :
    /\ c.asked # None
    /\ Concerns(h[j])
    /\ IF c.asked \in Members(h) THEN \E k \in 1..(j - 1) : h[k] = c.asked
                                ELSE j > Len(h) - Recent}}

-----------------------------------------------------------------------------
\* Broadcast: the event is recorded in the history, which keeps the newest.
Record(e, k) ==
  /\ kind[e] = "none"
  /\ kind' = [kind EXCEPT ![e] = k]
  /\ LET longer == Append(history, e)
     IN  history' = IF Len(longer) > HistoryLimit THEN Tail(longer) ELSE longer
  /\ emitting' = IF k = "other" THEN emitting ELSE emitting \cup {e}
  /\ owed' = IF conn.on /\ k # "other" THEN owed \cup {e} ELSE owed
  /\ dropped' = dropped \cup (Due(conn, history) \ Due(conn, history'))
  /\ UNCHANGED <<channel, conn, seen, last>>

\* BroadcastToUser hands the event over to the channel.
Push(e) ==
  /\ e \in emitting /\ kind[e] = "mine"
  /\ Len(channel) < ChannelLimit
  /\ channel' = Append(channel, e)
  /\ emitting' = emitting \ {e}
  /\ UNCHANGED <<kind, history, conn, seen, last, owed, dropped>>

\* A live event comes to the connection's queue, or is dropped.
Deliver(e) ==
  LET fits == Len(conn.queue) < QueueLimit
  IN  /\ conn' = IF conn.on /\ fits THEN [conn EXCEPT !.queue = Append(@, e)] ELSE conn
      /\ dropped' = IF conn.on /\ ~fits THEN dropped \cup {e} ELSE dropped

\* BroadcastGlobal: sendAll.
SendAll(e) ==
  /\ e \in emitting /\ kind[e] = "all"
  /\ Deliver(e)
  /\ emitting' = emitting \ {e}
  /\ UNCHANGED <<kind, channel, history, seen, last, owed>>

\* The hub's loop: send.
HubSend ==
  /\ channel # <<>>
  /\ Deliver(Head(channel))
  /\ channel' = Tail(channel)
  /\ UNCHANGED <<kind, emitting, history, seen, last, owed>>

-----------------------------------------------------------------------------
\* WsManager.connect, and the hub adds the connection: until it does, the tab
\* has no socket, handles nothing and so names the same event.
Connect ==
  /\ ~conn.on
  /\ conn' = [Off EXCEPT !.on = TRUE, !.asked = last]
  /\ owed' = emitting \cup Members(channel) \cup Due(conn', history)
  /\ dropped' = {}
  /\ UNCHANGED <<kind, emitting, channel, history, seen, last>>

\* replayToClient reads the history under the lock of the hub ...
ReplayRead ==
  /\ conn.asked # None
  /\ conn' = [conn EXCEPT !.asked = None,
                          !.replay = EventsForReplay(history, conn.asked)]
  /\ UNCHANGED <<kind, emitting, channel, history, seen, last, owed, dropped>>

\* ... and puts one event after the other into the queue; it gives up, and
\* nobody closes the connection, when the queue is full.
ReplayPut ==
  /\ conn.replay # <<>>
  /\ IF Len(conn.queue) < QueueLimit
     THEN /\ conn' = [conn EXCEPT !.replay = Tail(@),
                                  !.queue = Append(@, Head(conn.replay))]
          /\ UNCHANGED dropped
     ELSE /\ conn' = [conn EXCEPT !.replay = <<>>]
          /\ dropped' = dropped \cup Members(conn.replay)
  /\ UNCHANGED <<kind, emitting, channel, history, seen, last, owed>>

\* WsManager.onmessage: an event that was handled before is ignored.
Receive ==
  /\ conn.queue # <<>>
  /\ conn' = [conn EXCEPT !.queue = Tail(@)]
  /\ LET e == Head(conn.queue)
     IN  IF e \in seen THEN UNCHANGED <<seen, last>>
         ELSE seen' = seen \cup {e} /\ last' = e
  /\ UNCHANGED <<kind, emitting, channel, history, owed, dropped>>

\* The connection is lost, for whatever reason: onclose.
Lose ==
  /\ conn.on
  /\ conn' = Off
  /\ owed' = {} /\ dropped' = {}
  /\ UNCHANGED <<kind, emitting, channel, history, seen, last>>

\* Mutant of Disconnect: the last event outlives the session.
Disconnect_KeepsLast ==
  /\ conn' = Off
  /\ seen' = {}
  /\ owed' = {} /\ dropped' = {}
  /\ UNCHANGED <<kind, emitting, channel, history, last>>

\* WsManager.disconnect, when the session ends: the tab forgets everything.
Disconnect ==
  /\ conn' = Off
  /\ seen' = {} /\ last' = None
  /\ owed' = {} /\ dropped' = {}
  /\ UNCHANGED <<kind, emitting, channel, history>>

Next ==
  \/ \E e \in Events : \/ \E k \in {"mine", "all", "other"} : Record(e, k)
                       \/ Push(e)
                       \/ SendAll(e)
  \/ HubSend
  \/ Connect \/ ReplayRead \/ ReplayPut \/ Receive \/ Lose \/ Disconnect

Spec == Init /\ [][Next]_vars

-----------------------------------------------------------------------------
(***************************************************************************)
(* Properties                                                              *)
(***************************************************************************)

\* The stream has no hole between the replay and the live events: whatever was
\* recorded after the event the tab named, or is handed over later, has been
\* handled or is still on its way over this connection, unless it was dropped
\* because a queue or the history was full.
OnItsWay(e) ==
  \/ e \in emitting \cup Members(channel)
  \/ e \in Members(conn.queue) \cup Members(conn.replay)
  \/ e \in Due(conn, history)

NoHole == \A e \in owed : e \in seen \cup dropped \/ OnItsWay(e)

\* Neither the live path nor the replay ever shows the tab an event of another
\* user, although the history keeps everybody's.
OnlyMine ==
  \A e \in seen \cup Members(conn.queue) \cup Members(conn.replay) : Concerns(e)

\* The event the tab names when it reconnects is one it handled in this
\* session: a new session never starts in the middle of an old one's stream.
LastWasSeen == last # None => last \in seen

=============================================================================
