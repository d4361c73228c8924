---------------------------- MODULE RealtimeHub ----------------------------
(***************************************************************************)
(* The server's side of live updates, for one game: the hub's room, the    *)
(* websocket connections with their send channels and loops, the tasks     *)
(* (requests, and ticks of the scheduler) that change the game and then    *)
(* broadcast, and the server's shutdown.                                   *)
(*                                                                         *)
(* BroadcastToGame copies the room's clients under the lock and sends to   *)
(* them after unlocking, one client at a time.  What the phone does with a *)
(* connection is in LiveGame: here it opens, receives and is cut.          *)
(*                                                                         *)
(* An event says only that something changed (the pages do not look at     *)
(* it), so a channel is the number of events in it, and the game is the    *)
(* number of changes committed and whether it has ended.                   *)
(***************************************************************************)
EXTENDS Naturals, FiniteSets

CONSTANTS
  Conn,         \* connections; one is used again when nothing refers to it
  Task,         \* goroutines that change the game
  QueueSize,    \* client_send_queue_size
  MaxVersion    \* bound on the changes

ASSUME HubAssumption ==
  QueueSize \in Nat \ {0} /\ MaxVersion \in Nat

VARIABLES
  version,   \* changes committed to the game
  ended,     \* the game is finished
  task,      \* what each goroutine does
  left,      \* the clients it has still to send to
  closed,    \* the hub's closed
  room,      \* rooms[gameSessionID].clients; empty when there is no such room
  open,      \* connections whose Send channel is open
  queue,     \* events in the Send channel
  socket,    \* the connection itself
  serving    \* connections whose ReadLoop runs

game == <<version, ended>>
tasks == <<task, left>>
hub == <<closed, room, open>>
conns == <<queue, socket, serving>>
server == <<game, tasks, hub, conns>>

HubTypeOK ==
  /\ version \in 0..MaxVersion /\ ended \in BOOLEAN
  /\ task \in [Task -> {"idle", "committed", "sending"}]
  /\ left \in [Task -> SUBSET Conn]
  /\ closed \in BOOLEAN /\ room \subseteq Conn /\ open \subseteq Conn
  /\ queue \in [Conn -> 0..QueueSize]
  /\ socket \in [Conn -> {"none", "requested", "open"}]
  /\ serving \subseteq Conn

HubInit ==
  /\ version = 0 /\ ended = FALSE
  /\ task = [t \in Task |-> "idle"] /\ left = [t \in Task |-> {}]
  /\ closed = FALSE /\ room = {} /\ open = {}
  /\ queue = [c \in Conn |-> 0] /\ socket = [c \in Conn |-> "none"] /\ serving = {}

\* Nothing in the server refers to the connection.
Free(c) == socket[c] = "none" /\ c \notin serving /\ \A t \in Task : c \notin left[t]

-----------------------------------------------------------------------------
(***************************************************************************)
(* Register and Unregister, under the hub's lock.  Unregister runs once    *)
(* for each loop of the client, and closeSend recovers from the second     *)
(* close.                                                                  *)
(***************************************************************************)
\* Mistakes that code like this invites: a hub that takes clients when it has
\* closed, a client that stays in the room with its channel closed.
RegisterAnyTime(c) ==
  /\ room' = room \union {c} /\ open' = open \union {c} /\ serving' = serving \union {c}
  /\ socket' = [socket EXCEPT ![c] = "open"]
  /\ UNCHANGED closed
UnregisterChannelOnly(c) == open' = open \ {c} /\ UNCHANGED <<closed, room>>

Register(c) ==
  IF closed THEN UNCHANGED <<hub, serving>> /\ socket' = [socket EXCEPT ![c] = "none"]
  ELSE /\ room' = room \union {c} /\ open' = open \union {c} /\ serving' = serving \union {c}
       /\ socket' = [socket EXCEPT ![c] = "open"]
       /\ UNCHANGED closed

Unregister(c) ==
  /\ IF room = {} THEN UNCHANGED <<room, open>>
     ELSE room' = room \ {c} /\ open' = open \ {c}
  /\ UNCHANGED closed

-----------------------------------------------------------------------------
\* Connect: the phone is a member; a hub that has closed refuses the client.
Connect(c) ==
  /\ socket[c] = "requested"
  /\ Register(c)
  /\ UNCHANGED <<game, tasks, queue>>

\* WriteLoop takes an event and writes it; it drains a closed channel first.
Write(c) ==
  /\ socket[c] = "open" /\ queue[c] > 0
  /\ queue' = [queue EXCEPT ![c] = @ - 1]
  /\ UNCHANGED <<game, tasks, hub, socket, serving>>

\* The network, the phone or a write that times out ends the connection, with
\* the events not yet written.  The server's loops find out later.
Cut(c) ==
  /\ socket' = [socket EXCEPT ![c] = "none"]
  /\ UNCHANGED <<game, tasks, hub, queue, serving>>

\* ReadLoop and WriteLoop return, and Unregister.
LoopsEnd(c) ==
  /\ c \in serving /\ socket[c] = "none"
  /\ Unregister(c)
  /\ serving' = serving \ {c} /\ queue' = [queue EXCEPT ![c] = 0]
  /\ UNCHANGED <<game, tasks, socket>>

-----------------------------------------------------------------------------
(***************************************************************************)
(* A handler commits, then broadcasts; what ends the game is read again    *)
(* between the two.                                                        *)
(***************************************************************************)
Commit(t) ==
  /\ task[t] = "idle" /\ ~ended /\ version < MaxVersion
  /\ version' = version + 1
  /\ ended' \in BOOLEAN
  /\ task' = [task EXCEPT ![t] = "committed"]
  /\ UNCHANGED <<left, hub, conns>>

\* the copy of the clients, under the read lock
CopyClients(t) ==
  /\ task[t] = "committed"
  /\ left' = [left EXCEPT ![t] = room]
  /\ task' = [task EXCEPT ![t] = IF room = {} THEN "idle" ELSE "sending"]
  /\ UNCHANGED <<game, hub, conns>>

\* The settlement that has ended the game is committed, but reading the game again
\* fails (the request has been cancelled, say): an error is returned, or passed
\* over, and nothing is broadcast.  (ended is the game's, not the task's: a task
\* that changed the game just before its end may do this here, too.)
NoBroadcast(t) ==
  /\ task[t] = "committed" /\ ended
  /\ task' = [task EXCEPT ![t] = "idle"]
  /\ UNCHANGED <<game, left, hub, conns>>

\* t has done with the clients in done.
Done(t, done) ==
  /\ left' = [left EXCEPT ![t] = @ \ done]
  /\ task' = [task EXCEPT ![t] = IF left[t] \subseteq done THEN "idle" ELSE @]

\* A queue that grows without a limit would be a mistake, too.
SendEventAlways(t, c) ==
  /\ c \in left[t] /\ c \in open
  /\ queue' = [queue EXCEPT ![c] = @ + 1]
  /\ Done(t, {c})
  /\ UNCHANGED <<game, hub, socket, serving>>

SendEvent(t, c) ==
  /\ c \in left[t] /\ c \in open /\ queue[c] < QueueSize
  /\ queue' = [queue EXCEPT ![c] = @ + 1]
  /\ Done(t, {c})
  /\ UNCHANGED <<game, hub, socket, serving>>

\* The queue is full: the client is unregistered, its connection stays.
SendFull(t, c) ==
  /\ c \in left[t] /\ c \in open /\ queue[c] = QueueSize
  /\ Unregister(c)
  /\ Done(t, {c})
  /\ UNCHANGED <<game, conns>>

\* A send on a closed channel panics.  In a request it is recovered, after the
\* commit (status 500), and the other clients are left out; in the scheduler's
\* goroutine nothing recovers it and the process ends (Restart).
SendPanics(t, c) ==
  /\ c \in left[t] \ open
  /\ Done(t, left[t])
  /\ UNCHANGED <<game, hub, conns>>

-----------------------------------------------------------------------------
\* hub.Close, the first hook of runHTTPServer
CloseHub ==
  /\ ~closed
  /\ closed' = TRUE /\ room' = {} /\ open' = open \ room
  /\ socket' = [c \in Conn |-> IF c \in room THEN "none" ELSE socket[c]]
  /\ UNCHANGED <<game, tasks, queue, serving>>

\* The process ends at any moment, and a new one starts; the database stays.
Restart ==
  /\ task' = [t \in Task |-> "idle"] /\ left' = [t \in Task |-> {}]
  /\ closed' = FALSE /\ room' = {} /\ open' = {} /\ serving' = {}
  /\ queue' = [c \in Conn |-> 0] /\ socket' = [c \in Conn |-> "none"]
  /\ UNCHANGED game

-----------------------------------------------------------------------------
(***************************************************************************)
(* Properties of the hub.                                                  *)
(***************************************************************************)

\* A client in the room can be sent to and will be unregistered: its channel is
\* open and a loop is there to take it out.  (Only a broadcast that copied the
\* clients earlier can meet a closed channel.)
RoomIsLive == room \subseteq open \intersect serving

\* After Close nobody is in the room and no channel stays open, whoever
\* connects, leaves or broadcasts meanwhile: no WriteLoop waits for events that
\* will not come.
ClosedHubIsEmpty == closed => room = {} /\ open = {}
=============================================================================
