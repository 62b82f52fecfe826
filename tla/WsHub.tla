------------------------------- MODULE WsHub -------------------------------
(***************************************************************************)
(* The WebSocket hub: which connections it knows, the goroutines of each   *)
(* connection (the handler's readPump, writePump, and any number that      *)
(* close it), the goroutines that broadcast, the hub's own loop, and who   *)
(* counts as online.                                                       *)
(*                                                                         *)
(* Only the hub's loop (Run) adds and removes connections and forwards     *)
(* broadcasts to the queues of one user's connections.  Everybody else     *)
(* hands over to the loop through channels and waits: Register and         *)
(* Unregister until the loop takes the connection, BroadcastToUser until   *)
(* the buffer has room.  What events say, the history and the replay are   *)
(* in EventStream; here an event is one place in a queue.                  *)
(*                                                                         *)
(* BroadcastGlobal may happen at any time, so the broadcast of the online  *)
(* count that follows every registration and removal needs no action, nor  *)
(* does the connection.state event: an emitter may send it at any time.    *)
(***************************************************************************)
EXTENDS Integers, FiniteSets, Sequences

CONSTANTS
  Users,
  Conns,          \* the connections that are ever made
  UserOf,         \* whose connection it is
  Emitters,       \* the goroutines that broadcast at the same time
  QueueLimit,     \* capacity of Client.send (16)
  ChannelLimit,   \* capacity of Hub.broadcast (32)
  ClosersBound,   \* BOUND: further closers of a connection are not counted
  Nobody          \* the emitter is not broadcasting

ASSUME WsHubAssumption ==
  /\ UserOf \in [Conns -> Users]
  /\ QueueLimit \in Nat \ {0} /\ ChannelLimit \in Nat \ {0}
  /\ ClosersBound \in Nat \ {0}
  /\ Nobody \notin Users

VARIABLES
  running,    \* the hub's loop: its context is not cancelled
  clients,    \* the connections in Hub.clients and Hub.clientToUser
  channel,    \* Hub.broadcast: whom each message is for
  emit,       \* the user an emitter is broadcasting to
  presence,   \* the users whose key in the RTStateStore has not expired
  pc,         \* where the handler of the connection is
  socket,     \* the network connection
  queue,      \* Client.send: how many events wait in it
  closers,    \* goroutines that wait in Unregister for the connection
  closing     \* one of them returned and is about to close the socket

vars == <<running, clients, channel, emit, presence, pc, socket, queue,
          closers, closing>>

Pc == {"none", "registering", "reading", "emitting", "ended"}

Init ==
  /\ running = TRUE
  /\ clients = {}
  /\ channel = <<>>
  /\ emit = [e \in Emitters |-> Nobody]
  /\ presence = {}
  /\ pc = [c \in Conns |-> "none"]
  /\ socket = [c \in Conns |-> "none"]
  /\ queue = [c \in Conns |-> 0]
  /\ closers = [c \in Conns |-> 0]
  /\ closing = [c \in Conns |-> FALSE]

Goes(c, where) == pc' = [pc EXCEPT ![c] = where]

\* A goroutine calls Close for each connection of C.
Close(C) ==
  closers' = [c \in Conns |->
    IF c \in C /\ closers[c] < ClosersBound THEN closers[c] + 1 ELSE closers[c]]

\* An event is put into the queue of each connection of C; one whose queue is
\* full misses it and is closed.
Enqueue(C) ==
  LET full == {c \in C : queue[c] = QueueLimit}
  IN  /\ queue' = [c \in Conns |-> IF c \in C \ full THEN queue[c] + 1 ELSE queue[c]]
      /\ Close(full)

-----------------------------------------------------------------------------
\* GET /api/ws: the handler upgrades the connection and calls Register.
Upgrade(c) ==
  /\ pc[c] = "none"
  /\ Goes(c, "registering")
  /\ socket' = [socket EXCEPT ![c] = "open"]
  /\ UNCHANGED <<running, clients, channel, emit, presence, queue, closers, closing>>

\* The loop's register case, addClient; the handler goes on with Client.Run.
HubRegister(c) ==
  /\ running /\ pc[c] = "registering"
  /\ clients' = clients \cup {c}
  /\ presence' = presence \cup {UserOf[c]}
  /\ Goes(c, "reading")
  /\ UNCHANGED <<running, channel, emit, socket, queue, closers, closing>>

\* The loop's unregister case, removeClient, also of a connection that was
\* removed before; it takes the user offline whatever other connections he
\* has.  The goroutine goes on with conn.Close.
HubUnregister(c) ==
  /\ running /\ closers[c] > 0
  /\ clients' = clients \ {c}
  /\ presence' = presence \ {UserOf[c]}
  /\ closers' = [closers EXCEPT ![c] = @ - 1]
  /\ closing' = [closing EXCEPT ![c] = TRUE]
  /\ UNCHANGED <<running, channel, emit, pc, socket, queue>>

\* Mutant of HubSend: the send to a queue blocks instead of giving up.
HubSend_Blocking ==
  LET C == {c \in clients : UserOf[c] = Head(channel)} IN
  /\ running /\ channel # <<>>
  /\ \A c \in C : queue[c] < QueueLimit
  /\ channel' = Tail(channel)
  /\ Enqueue(C)
  /\ UNCHANGED <<running, clients, emit, presence, pc, socket, closing>>

\* The loop's broadcast case, send.
HubSend ==
  /\ running /\ channel # <<>>
  /\ channel' = Tail(channel)
  /\ Enqueue({c \in clients : UserOf[c] = Head(channel)})
  /\ UNCHANGED <<running, clients, emit, presence, pc, socket, closing>>

\* The context of the hub is cancelled: Run returns.
Stop ==
  /\ running
  /\ running' = FALSE
  /\ UNCHANGED <<clients, channel, emit, presence, pc, socket, queue, closers, closing>>

-----------------------------------------------------------------------------
\* BroadcastToUser by a request, a background task or the hub itself ...
Emit(e, u) ==
  /\ emit[e] = Nobody
  /\ emit' = [emit EXCEPT ![e] = u]
  /\ UNCHANGED <<running, clients, channel, presence, pc, socket, queue, closers, closing>>

\* ... which waits until the buffer has room.
Push(e) ==
  /\ emit[e] # Nobody
  /\ Len(channel) < ChannelLimit
  /\ channel' = Append(channel, emit[e])
  /\ emit' = [emit EXCEPT ![e] = Nobody]
  /\ UNCHANGED <<running, clients, presence, pc, socket, queue, closers, closing>>

\* BroadcastGlobal: sendAll runs in the goroutine of the caller.
BroadcastGlobal ==
  /\ Enqueue(clients)
  /\ UNCHANGED <<running, clients, channel, emit, presence, pc, socket, closing>>

-----------------------------------------------------------------------------
\* readPump: the pong handler calls TouchPresence.
Pong(c) ==
  /\ pc[c] = "reading" /\ socket[c] = "open"
  /\ presence' = presence \cup {UserOf[c]}
  /\ UNCHANGED <<running, clients, channel, emit, pc, socket, queue, closers, closing>>

\* The result of a command, which is dropped if the queue is full.
Answer(c) ==
  queue' = IF queue[c] < QueueLimit THEN [queue EXCEPT ![c] = @ + 1] ELSE queue

\* readPump: a command that broadcasts nothing, or is refused.
QuietCommand(c) ==
  /\ pc[c] = "reading" /\ socket[c] = "open"
  /\ presence' \in {presence, presence \cup {UserOf[c]}}
  /\ Answer(c)
  /\ UNCHANGED <<running, clients, channel, emit, pc, socket, closers, closing>>

\* readPump: a command arrives whose handler broadcasts to some user ...
Command(c) ==
  /\ pc[c] = "reading" /\ socket[c] = "open"
  /\ Goes(c, "emitting")
  /\ UNCHANGED <<running, clients, channel, emit, presence, socket, queue, closers, closing>>

\* ... which waits until the buffer has room; then TouchPresence and the result.
CommandEnds(c, u) ==
  /\ pc[c] = "emitting"
  /\ Len(channel) < ChannelLimit
  /\ channel' = Append(channel, u)
  /\ presence' = presence \cup {UserOf[c]}
  /\ Answer(c)
  /\ Goes(c, "reading")
  /\ UNCHANGED <<running, clients, emit, socket, closers, closing>>

\* Mutant of ReadEnds: the deferred Close is missing.
ReadEnds_NoClose(c) ==
  /\ pc[c] = "reading" /\ socket[c] = "closed"
  /\ Goes(c, "ended")
  /\ UNCHANGED <<running, clients, channel, emit, presence, socket, queue, closers, closing>>

\* readPump: ReadMessage fails, and the deferred Close runs.
ReadEnds(c) ==
  /\ pc[c] = "reading" /\ socket[c] = "closed"
  /\ Goes(c, "ended")
  /\ Close({c})
  /\ UNCHANGED <<running, clients, channel, emit, presence, socket, queue, closing>>

\* writePump writes the next event.
WriteEvent(c) ==
  /\ pc[c] \in {"reading", "emitting"} /\ socket[c] = "open" /\ queue[c] > 0
  /\ queue' = [queue EXCEPT ![c] = @ - 1]
  /\ UNCHANGED <<running, clients, channel, emit, presence, pc, socket, closers, closing>>

\* The peer goes away, the network fails, the read deadline passes or a write
\* fails (after writeWait at the latest), and writePump closes the connection.
SocketFails(c) ==
  /\ socket[c] = "open"
  /\ socket' = [socket EXCEPT ![c] = "closed"]
  /\ UNCHANGED <<running, clients, channel, emit, presence, pc, queue, closers, closing>>

\* Mutant of CloseSocket: Close only unregisters.
CloseSocket_Forgotten(c) ==
  /\ closing[c]
  /\ closing' = [closing EXCEPT ![c] = FALSE]
  /\ UNCHANGED <<running, clients, channel, emit, presence, pc, socket, queue, closers>>

\* Client.Close after Unregister returned.
CloseSocket(c) ==
  /\ closing[c]
  /\ closing' = [closing EXCEPT ![c] = FALSE]
  /\ socket' = [socket EXCEPT ![c] = "closed"]
  /\ UNCHANGED <<running, clients, channel, emit, presence, pc, queue, closers>>

\* Mutant of Expire: the entry has no expiry.
Expire_Never(u) == FALSE /\ UNCHANGED vars

\* RT_PRESENCE_TTL (30 s) passes without a touch; pings are sent every 54 s,
\* so it may well pass for a connected user.
Expire(u) ==
  /\ u \in presence
  /\ presence' = presence \ {u}
  /\ UNCHANGED <<running, clients, channel, emit, pc, socket, queue, closers, closing>>

Hub == HubSend \/ \E c \in Conns : HubRegister(c) \/ HubUnregister(c)

Connection(c) ==
  \/ Upgrade(c) \/ Pong(c) \/ QuietCommand(c) \/ Command(c)
  \/ \E u \in Users : CommandEnds(c, u)
  \/ ReadEnds(c) \/ WriteEvent(c) \/ SocketFails(c) \/ CloseSocket(c)

Next ==
  \/ Hub \/ Stop \/ BroadcastGlobal
  \/ \E c \in Conns : Connection(c)
  \/ \E e \in Emitters : Push(e) \/ \E u \in Users : Emit(e, u)
  \/ \E u \in Users : Expire(u)

(***************************************************************************)
(* Fairness.  Run's select chooses at random among the ready cases, and    *)
(* those who wait on a channel are served in order: every waiting          *)
(* connection is taken (it stays ready until then), and a sender that      *)
(* waits for room gets it if there is room again and again.  A goroutine   *)
(* that can run does run.  Nothing is assumed of the peer: it may never    *)
(* read, send a command or answer a ping.                                  *)
(***************************************************************************)
Fairness ==
  /\ WF_vars(HubSend)
  /\ \A c \in Conns : /\ WF_vars(HubRegister(c)) /\ WF_vars(HubUnregister(c))
                      /\ WF_vars(ReadEnds(c)) /\ WF_vars(CloseSocket(c))
                      /\ SF_vars(\E u \in Users : CommandEnds(c, u))
  /\ \A e \in Emitters : SF_vars(Push(e))
  /\ \A u \in Users : WF_vars(Expire(u))

Spec == Init /\ [][Next]_vars /\ Fairness

-----------------------------------------------------------------------------
(***************************************************************************)
(* Properties                                                              *)
(***************************************************************************)

\* Type invariant: the counters stay within the capacities of the channels.
TypeOK ==
  /\ running \in BOOLEAN
  /\ clients \subseteq Conns
  /\ channel \in Seq(Users) /\ Len(channel) <= ChannelLimit
  /\ emit \in [Emitters -> Users \cup {Nobody}]
  /\ presence \subseteq Users
  /\ pc \in [Conns -> Pc]
  /\ socket \in [Conns -> {"none", "open", "closed"}]
  /\ queue \in [Conns -> 0..QueueLimit]
  /\ closers \in [Conns -> 0..ClosersBound]
  /\ closing \in [Conns -> BOOLEAN]

\* The hub never keeps a connection nobody will ever unregister: although an
\* overflow, the writer and the reader may close it in any order and more than
\* once, its reader still runs or somebody waits to remove it.
NoZombie ==
  \A c \in clients : pc[c] \in {"reading", "emitting"} \/ closers[c] > 0

\* A connection that broke is forgotten by the hub, unless the hub stopped,
\* even while its reader is busy with a command.
BrokenIsForgotten ==
  \A c \in Conns : socket[c] = "closed" ~> c \notin clients \/ ~running

\* A connection whose queue overflowed has missed an event: it is closed (so
\* that the browser reconnects and asks for what it missed), although nobody
\* waits for the goroutine that closes it.
OverflowedIsClosed ==
  \A c \in Conns : closers[c] > 0 ~> socket[c] = "closed" \/ ~running

\* A request that broadcasts never waits for ever on connections that do not
\* read, whatever else is broadcast: as long as the hub runs, it gets on.
BroadcastersGetOn ==
  \A e \in Emitters : emit[e] # Nobody ~> emit[e] = Nobody \/ ~running

\* A user who has gone for good does not stay online for good, although
\* TouchPresence may run after his connection was removed.
GoneGoesOffline ==
  \A u \in Users :
    <>[](\A c \in Conns : UserOf[c] = u => pc[c] \in {"none", "ended"})
      => <>[](u \notin presence)

=============================================================================
