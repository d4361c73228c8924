--------------------------- MODULE LiveGameProofs ---------------------------
(***************************************************************************)
(* The invariants of LiveGame, for any connections, goroutines, loads,     *)
(* queue size and number of changes.                                       *)
(*                                                                         *)
(* The argument for UpToDateAtRest: a change that the page does not show   *)
(* is always on its way to it, as a task that has not broadcast yet, an    *)
(* event for its connection, a request it has sent, or an answer of the    *)
(* latest change (ShownInv); every step that ends this is one of those     *)
(* that missed counts, or shows the change.                                *)
(***************************************************************************)
EXTENDS LiveGame, TLAPS

-----------------------------------------------------------------------------
(***************************************************************************)
(* The inductive invariant, part by part.                                  *)
(***************************************************************************)
\* The channels that are open are those of the room, and a loop serves each; a
\* connection not yet accepted has none and no broadcast knows it.
HubInv ==
  /\ open = room /\ room \subseteq serving
  /\ closed => room = {}
  /\ \A c \in Conn : queue[c] > 0 => c \in serving
  /\ \A c \in Conn : socket[c] = "requested" => c \notin serving /\ \A t \in Task : c \notin left[t]
  /\ \A t \in Task : left[t] # {} => task[t] = "sending"

\* The phone has one connection, the current one, and none while it refreshes.
ChannelInv ==
  /\ \A c \in Conn : socket[c] # "none" => c = channel
  /\ timer => channel = None
  /\ refreshing \/ ~visible => channel = None /\ ~timer

Refreshes(l) == load[l] # Idle /\ load[l].refresh
Lists(l) == load[l] # Idle /\ load[l].what \in {"list", "more"}

LoadsInv ==
  /\ LocksAreHeld
  /\ \A l, k \in Load : Refreshes(l) /\ Refreshes(k) => l = k
  /\ \A l, k \in Load : Lists(l) /\ Lists(k) => l = k

\* What a load, and the page, can have seen of a game at change v that has, or
\* has not, ended (e).
CanBe(r, v, e) ==
  /\ r.step = "asked" /\ r.what = "detail" => e
  /\ r.step = "answered" => /\ r.v <= v
                            /\ r.over => e
                            /\ e /\ ~r.over => r.v < v

SeenInv ==
  /\ \A l \in Load : CanBe(load[l], version, ended)
  /\ summary <= version /\ list <= version
  /\ status = "finished" => ended /\ summary = version

\* A change of which the page is going to hear or to read.
ToHear == channel # None /\ (queue[channel] > 0 \/ \E t \in Task : channel \in left[t])
ToRead(r) ==
  \/ r.step = "asked" /\ r.what \in {"current", "summary", "detail"}
  \/ r.step = "answered" /\ r.what = "summary" /\ r.over
News == (\E t \in Task : task[t] = "committed") \/ ToHear \/ \E l \in Load : ToRead(load[l])

\* An answer that brings scores, or transfers, up to date.
Latest(r, what) == r.step = "answered" /\ r.what = what /\ r.v = version
Listing(r) == Latest(r, "summary") \/ Latest(r, "list") \/ (r.step = "asked" /\ r.what = "list")

\* A cut connection takes nothing with it that is not counted as missed.
CutInv == ~missed /\ channel # None /\ socket[channel] = "none" => ~ToHear

\* What the page does not show yet is on its way.
Cares == ~missed /\ (visible \/ refreshing)
ShownInv ==
  Cares /\ ~News /\ id =>
    /\ summary = version \/ \E l \in Load : Latest(load[l], "summary")
    /\ list = version \/ \E l \in Load : Listing(load[l])
    /\ ended => status = "finished"
NoGameInv ==
  Cares /\ ~id => ended \/ \E l \in Load : load[l].step = "asked" /\ load[l].what = "current"

NewsInv == CutInv /\ ShownInv /\ NoGameInv

LiveInv == LiveTypeOK /\ HubInv /\ ChannelInv /\ LoadsInv /\ SeenInv /\ NewsInv

-----------------------------------------------------------------------------
LEMMA InitInv == LiveInit => LiveInv
<1> SUFFICES ASSUME LiveInit PROVE LiveInv
  OBVIOUS
<1> USE HubAssumption, LiveAssumption DEF LiveInit, HubInit
<1>1. LiveTypeOK
  <2>1. HubTypeOK
    <3>1. closed \in BOOLEAN /\ ended \in BOOLEAN
      BY Zenon
    <3> QED
      BY <3>1 DEF HubTypeOK
  <2>2. {visible, refreshing, id, listLoads, timer, missed} \subseteq BOOLEAN
    <3> DEFINE no == FALSE
    <3>1. no \in BOOLEAN
      OBVIOUS
    <3>2. visible = no /\ refreshing = no /\ id = no /\ listLoads = no /\ timer = no /\ missed = no
      OBVIOUS
    <3> HIDE DEF no, LiveInit
    <3> QED
      BY <3>1, <3>2
  <2>3. load \in [Load -> {Idle} \union Requests \union Replies]
    OBVIOUS
  <2>4. /\ status \in {"active", "finished"}
        /\ summary \in 0..MaxVersion /\ list \in 0..MaxVersion
        /\ channel \in Conn \union {None}
    OBVIOUS
  <2> QED
    BY <2>1, <2>2, <2>3, <2>4 DEF LiveTypeOK
<1>2. HubInv /\ ChannelInv
  BY DEF HubInv, ChannelInv
<1>3. LoadsInv /\ SeenInv
  BY DEF LoadsInv, LocksAreHeld, Refreshes, Lists, SeenInv, CanBe, Idle
<1>4. NewsInv
  BY DEF NewsInv, CutInv, ShownInv, NoGameInv, Cares
<1> QED
  BY <1>1, <1>2, <1>3, <1>4 DEF LiveInv

-----------------------------------------------------------------------------
(***************************************************************************)
(* The steps of the phone, and what they do to its connection.             *)
(***************************************************************************)
PageStep ==
  \/ Show \/ PullDown \/ Hide \/ LoadMore \/ NoticeClose \/ Reconnect
  \/ \E l \in Load : Read(l) \/ Got(l) \/ Fail(l)

LEMMA PageConnection ==
  ASSUME PageStep
  PROVE  /\ UNCHANGED <<game, tasks, hub, queue, serving>>
         /\ UNCHANGED <<socket, service>> \/ Disconnect \/ Connects \/ NoticeClose
<1> USE DEF server, conns, HubRest
<1>1. CASE Show \/ PullDown
  BY <1>1 DEF Show, PullDown, Refresh
<1>2. CASE Hide \/ LoadMore \/ NoticeClose \/ Reconnect
  BY <1>2 DEF Hide, LoadMore, NoticeClose, Reconnect
<1>3. ASSUME NEW l \in Load, Read(l) \/ Got(l) \/ Fail(l)
      PROVE  /\ UNCHANGED <<game, tasks, hub, queue, serving>>
             /\ UNCHANGED <<socket, service>> \/ Disconnect \/ Connects \/ NoticeClose
  BY <1>3 DEF Read, Got, GotCurrent, GotActive, GotFinished, GotList, GotMore, GotDetail, Fail, EndLoad
<1> QED
  BY <1>1, <1>2, <1>3 DEF PageStep

LEMMA ConnectsEffect ==
  ASSUME LiveTypeOK, Connects
  PROVE  \E c \in Conn : /\ Free(c) /\ channel' = c
                         /\ socket' = [socket EXCEPT ![c] = "requested"]
                         /\ timer' = FALSE
BY DEF Connects

LEMMA DisconnectEffect ==
  ASSUME LiveTypeOK, Disconnect
  PROVE  /\ channel' = None /\ timer' = FALSE
         /\ socket' \in [Conn -> {"none", "requested", "open"}]
         /\ \A c \in Conn : socket'[c] = IF c = channel THEN "none" ELSE socket[c]
BY LiveAssumption DEF Disconnect, Closed, LiveTypeOK, HubTypeOK

LEMMA PageSockets ==
  ASSUME LiveTypeOK, PageStep
  PROVE  /\ socket' \in [Conn -> {"none", "requested", "open"}]
         /\ channel' \in Conn \union {None} /\ timer' \in BOOLEAN
<1> USE DEF LiveTypeOK, HubTypeOK
<1>1. CASE UNCHANGED <<socket, service>>
  BY <1>1 DEF service
<1>2. CASE Disconnect
  BY <1>2, DisconnectEffect
<1>3. CASE Connects
  BY <1>3, ConnectsEffect
<1>4. CASE NoticeClose
  <2> DEFINE yes == TRUE
  <2>1. socket' = socket /\ channel' = None /\ timer' = yes
    BY <1>4 DEF NoticeClose, server, conns
  <2> QED
    BY <2>1
<1> QED
  BY <1>1, <1>2, <1>3, <1>4, PageConnection

-----------------------------------------------------------------------------
(***************************************************************************)
(* Types.                                                                  *)
(***************************************************************************)
LEMMA HubTypeStep ==
  ASSUME LiveTypeOK, LiveNext
  PROVE  HubTypeOK'
<1> USE HubAssumption DEF LiveTypeOK, HubTypeOK, game, tasks, hub, conns, server
<1>1. CASE PageStep
  BY <1>1, PageConnection, PageSockets
<1>2. ASSUME NEW c \in Conn, Heard(c)
      PROVE  HubTypeOK'
  BY <1>2 DEF Heard, Write
<1>3. ASSUME NEW c \in Conn, Cuts(c) \/ LoopsEnds(c)
      PROVE  HubTypeOK'
  BY <1>3 DEF Cuts, Cut, LoopsEnds, LoopsEnd, Unregister
<1>4. ASSUME NEW t \in Task, Copies(t) \/ Unannounced(t)
      PROVE  HubTypeOK'
  BY <1>4 DEF Copies, CopyClients, Unannounced, NoBroadcast
<1>5. ASSUME NEW t \in Task, Sends(t)
      PROVE  HubTypeOK'
  <2>1. ASSUME NEW c \in left[t], SendEvent(t, c)
        PROVE  HubTypeOK'
    BY <2>1 DEF SendEvent, Done
  <2>2. ASSUME NEW c \in left[t], SendFull(t, c)
        PROVE  HubTypeOK'
    BY <2>2 DEF SendFull, Done, Unregister
  <2>3. ASSUME NEW c \in left[t], SendPanics(t, c)
        PROVE  HubTypeOK'
    BY <2>3 DEF SendPanics, Done
  <2>4. \E c \in left[t] : SendEvent(t, c) \/ SendFull(t, c) \/ SendPanics(t, c)
    BY <1>5 DEF Sends
  <2> HIDE DEF HubTypeOK
  <2> QED
    BY <2>1, <2>2, <2>3, <2>4
<1>6. CASE Stops
  <2>1. closed' \in BOOLEAN
    BY <1>6, Zenon DEF Stops, CloseHub, Restart
  <2>2. ASSUME CloseHub
        PROVE  HubTypeOK'
    BY <2>1, <2>2 DEF CloseHub
  <2>3. ASSUME Restart
        PROVE  HubTypeOK'
    BY <2>1, <2>3 DEF Restart
  <2> QED
    BY <1>6, <2>2, <2>3 DEF Stops
<1>7. ASSUME NEW t \in Task, Commit(t)
      PROVE  HubTypeOK'
  BY <1>7 DEF Commit
<1>8. ASSUME NEW c \in Conn, Connect(c)
      PROVE  HubTypeOK'
  BY <1>8 DEF Connect, Register
<1> QED
  BY <1>1, <1>2, <1>3, <1>4, <1>5, <1>6, <1>7, <1>8 DEF LiveNext, PageStep, Serves

LEMMA NotIdle ==
  ASSUME NEW l \in Load, Got(l) \/ Fail(l)
  PROVE  load[l] # Idle
<1>1. load[l].step \in {"asked", "answered"} => load[l] # Idle
  BY DEF Idle
<1> QED
  BY <1>1 DEF Got, GotCurrent, GotActive, GotFinished, GotList, GotMore, GotDetail, Fail, Asked, Answered

LEMMA AskedType ==
  ASSUME NEW what \in {"current", "summary", "list", "detail", "more"}, NEW r \in BOOLEAN
  PROVE  Asks(what, r) \in Requests
BY DEF Asks, Requests

LEMMA LoadType ==
  ASSUME LiveTypeOK, NEW l \in Load
  PROVE  /\ load[l].step = "asked" => load[l] \in Requests
         /\ load[l].step = "answered" => load[l] \in Replies
         /\ load[l] # Idle => load[l].step \in {"asked", "answered"}
                              /\ load[l].refresh \in BOOLEAN
                              /\ load[l].what \in {"current", "summary", "list", "detail", "more"}
BY DEF LiveTypeOK, Requests, Replies, Idle

\* The load that has stepped, and the types of the rest of the page.
LEMMA LoadsTypeStep ==
  ASSUME LiveTypeOK, LiveNext
  PROVE  load' \in [Load -> {Idle} \union Requests \union Replies]
<1> USE DEF LiveTypeOK
<1>1. ASSUME NEW l \in Load, NEW r \in {Idle} \union Requests \union Replies,
             load' = [load EXCEPT ![l] = r]
      PROVE  load' \in [Load -> {Idle} \union Requests \union Replies]
  BY <1>1
<1> DEFINE T == {Idle} \union Requests \union Replies
           yes == TRUE
           no == FALSE
<1>2. yes \in BOOLEAN /\ no \in BOOLEAN
  OBVIOUS
<1>3. Asks("current", yes) \in T /\ Asks("summary", no) \in T /\ Asks("more", no) \in T
  BY <1>2, AskedType
<1> HIDE DEF T, yes, no
<1>4. CASE Show \/ PullDown
  BY <1>1, <1>3, <1>4 DEF Show, PullDown, Refresh, Begins, T, yes
<1>5. ASSUME LoadMore \/ \E c \in Conn : Heard(c)
      PROVE  load' \in [Load -> T]
  BY <1>1, <1>3, <1>5 DEF LoadMore, Heard, Begins, T, no
<1>6. ASSUME NEW l \in Load, Read(l)
      PROVE  load' \in [Load -> T]
  <2>1. load[l] \in Requests /\ load[l].what \in {"summary", "list"}
    BY <1>6, LoadType DEF Read
  <2>2. version \in 0..MaxVersion /\ ended \in BOOLEAN
    BY DEF HubTypeOK
  <2>3. Answers(l) \in T
    BY <2>1, <2>2 DEF Answers, Requests, Replies, T
  <2> QED
    BY <1>1, <1>6, <2>3 DEF Read, T
<1>7. ASSUME NEW l \in Load, Got(l) \/ Fail(l)
      PROVE  load' \in [Load -> T]
  <2>1. \/ load' = [load EXCEPT ![l] = Idle]
        \/ \E what \in {"summary", "list", "detail"} :
             load[l] # Idle /\ load' = [load EXCEPT ![l] = Asks(what, load[l].refresh)]
    BY <1>7 DEF Got, GotCurrent, GotActive, GotFinished, GotList, GotMore, GotDetail, Fail, EndLoad, GoOn,
                Asked, Answered, Idle
  <2>2. \A what \in {"summary", "list", "detail"} :
          load[l] # Idle => Asks(what, load[l].refresh) \in T
    BY LoadType, AskedType DEF T
  <2> QED
    BY <1>1, <2>1, <2>2 DEF T
<1>8. CASE UNCHANGED load
  BY <1>8
<1>9. \/ Show \/ PullDown \/ LoadMore \/ (\E c \in Conn : Heard(c))
      \/ (\E l \in Load : Read(l) \/ Got(l) \/ Fail(l))
      \/ UNCHANGED load
  BY DEF LiveNext, Hide, NoticeClose, Reconnect, Cuts, LoopsEnds, Copies, Unannounced, Sends, Stops, PhoneRest
<1> QED
  BY <1>4, <1>5, <1>6, <1>7, <1>8, <1>9 DEF T

LEMMA FlagsTypeStep ==
  ASSUME LiveTypeOK, LiveNext
  PROVE  {visible', refreshing', id', listLoads', missed'} \subseteq BOOLEAN
<1> USE DEF LiveTypeOK, flags, view, LiveNext, Show, PullDown, Refresh, Hide, LoadMore, NoticeClose, Reconnect,
            Read, Got, GotCurrent, GotActive, GotFinished, GotList, GotMore, GotDetail, Fail, EndLoad, Heard,
            Cuts, LoopsEnds, Copies, Unannounced, Sends, Stops, Unheard, PhoneRest
<1>1. visible' \in BOOLEAN
  BY Zenon
<1>2. refreshing' \in BOOLEAN
  BY Zenon
<1>3. id' \in BOOLEAN
  BY Zenon
<1>4. listLoads' \in BOOLEAN
  BY Zenon
<1>5. missed' \in BOOLEAN
  BY Zenon
<1> HIDE DEF LiveTypeOK, LiveNext
<1> QED
  BY <1>1, <1>2, <1>3, <1>4, <1>5

LEMMA ShownTypeStep ==
  ASSUME LiveTypeOK, LiveNext
  PROVE  /\ status' \in {"active", "finished"}
         /\ summary' \in 0..MaxVersion /\ list' \in 0..MaxVersion
<1> USE DEF LiveTypeOK, view, shown
<1>1. ASSUME NEW l \in Load, Got(l) \/ Fail(l)
      PROVE  /\ status' \in {"active", "finished"}
             /\ summary' \in 0..MaxVersion /\ list' \in 0..MaxVersion
  <2>1. load[l].step = "answered" => load[l].v \in 0..MaxVersion
    BY LoadType DEF Replies
  <2>2. version \in 0..MaxVersion
    BY DEF HubTypeOK
  <2> QED
    BY <1>1, <2>1, <2>2 DEF Got, GotCurrent, GotActive, GotFinished, GotList, GotMore, GotDetail, Fail, Answered
<1>2. (\E l \in Load : Got(l) \/ Fail(l)) \/ UNCHANGED shown
  BY DEF LiveNext, Show, PullDown, Refresh, Hide, LoadMore, NoticeClose, Reconnect, Read, Heard, Cuts,
         LoopsEnds, Copies, Unannounced, Sends, Stops, PhoneRest
<1> QED
  BY <1>1, <1>2

LEMMA TypeStep ==
  ASSUME LiveTypeOK, LiveNext
  PROVE  LiveTypeOK'
<1>1. channel' \in Conn \union {None} /\ timer' \in BOOLEAN
  <2>1. CASE PageStep
    BY <2>1, PageSockets
  <2>2. CASE UNCHANGED service
    BY <2>2 DEF service, LiveTypeOK
  <2> QED
    BY <2>1, <2>2 DEF LiveNext, PageStep, Heard, Cuts, LoopsEnds, Copies, Unannounced, Sends, Stops, PhoneRest
<1> QED
  BY <1>1, HubTypeStep, LoadsTypeStep, FlagsTypeStep, ShownTypeStep DEF LiveTypeOK

-----------------------------------------------------------------------------
(***************************************************************************)
(* The hub.                                                                *)
(***************************************************************************)
LEMMA HubStep ==
  ASSUME LiveTypeOK, HubInv, LiveNext
  PROVE  HubInv'
<1> USE DEF LiveTypeOK, HubTypeOK, game, tasks, hub, conns, server, Free
<1>1. CASE PageStep
  <2>1. \A c \in Conn : socket'[c] = "requested" => socket[c] = "requested" \/ Free(c)
    <3>1. CASE Disconnect
      BY <3>1, DisconnectEffect
    <3>2. CASE Connects
      <4>1. PICK d \in Conn : Free(d) /\ socket' = [socket EXCEPT ![d] = "requested"]
        BY <3>2, ConnectsEffect
      <4> QED
        BY <4>1
    <3>3. CASE UNCHANGED socket
      BY <3>3
    <3> QED
      BY <1>1, <3>1, <3>2, <3>3, PageConnection DEF NoticeClose
  <2>2. UNCHANGED <<game, tasks, hub, queue, serving>>
    BY <1>1, PageConnection
  <2> QED
    BY <2>1, <2>2 DEF HubInv
<1>2. ASSUME NEW c \in Conn, Heard(c)
      PROVE  HubInv'
  BY <1>2 DEF Heard, Write, HubInv
<1>3. ASSUME NEW c \in Conn, Cuts(c) \/ LoopsEnds(c)
      PROVE  HubInv'
  BY <1>3 DEF Cuts, Cut, LoopsEnds, LoopsEnd, Unregister, HubInv
<1>4. ASSUME NEW t \in Task, Copies(t) \/ Unannounced(t)
      PROVE  HubInv'
  <2>1. CASE Copies(t)
    BY <2>1 DEF Copies, CopyClients, HubInv
  <2>2. CASE Unannounced(t)
    <3>1. /\ task[t] = "committed" /\ task' = [task EXCEPT ![t] = "idle"]
          /\ UNCHANGED <<left, hub, conns>>
      BY <2>2 DEF Unannounced, NoBroadcast
    <3>2. \A k \in Task : task[k] = "sending" => task'[k] = "sending"
      BY <3>1
    <3> QED
      BY <3>1, <3>2 DEF HubInv
  <2> QED
    BY <1>4, <2>1, <2>2
<1>5. ASSUME NEW t \in Task, Sends(t)
      PROVE  HubInv'
  <2>1. ASSUME NEW c \in left[t], SendEvent(t, c)
        PROVE  HubInv'
    BY <2>1 DEF SendEvent, Done, HubInv
  <2>2. ASSUME NEW c \in left[t], SendFull(t, c)
        PROVE  HubInv'
    BY <2>2 DEF SendFull, Done, Unregister, HubInv
  <2>3. ASSUME NEW c \in left[t], SendPanics(t, c)
        PROVE  HubInv'
    BY <2>3 DEF SendPanics, Done, HubInv
  <2>4. \E c \in left[t] : SendEvent(t, c) \/ SendFull(t, c) \/ SendPanics(t, c)
    BY <1>5 DEF Sends
  <2> QED
    BY <2>1, <2>2, <2>3, <2>4
<1>6. CASE Stops
  <2>1. CASE CloseHub
    BY <2>1 DEF CloseHub, HubInv
  <2>2. CASE Restart
    BY <2>2 DEF Restart, HubInv
  <2> QED
    BY <1>6, <2>1, <2>2 DEF Stops
<1>7. ASSUME NEW t \in Task, Commit(t), UNCHANGED phone
      PROVE  HubInv'
  BY <1>7 DEF Commit, HubInv
<1>8. ASSUME NEW c \in Conn, Connect(c)
      PROVE  HubInv'
  BY <1>8 DEF Connect, Register, HubInv
<1> QED
  BY <1>1, <1>2, <1>3, <1>4, <1>5, <1>6, <1>7, <1>8 DEF LiveNext, PageStep, Serves, PhoneRest, phone

-----------------------------------------------------------------------------
(***************************************************************************)
(* The phone's connection.                                                 *)
(***************************************************************************)
LEMMA OnlySocketsCloseOrOpen ==
  ASSUME LiveTypeOK, LiveNext, ~PageStep
  PROVE  /\ UNCHANGED <<flags, service>>
         /\ \A c \in Conn : socket'[c] # "none" => socket[c] # "none"
<1> USE DEF LiveTypeOK, HubTypeOK, conns, server
<1>1. UNCHANGED <<flags, service>>
  BY DEF LiveNext, PageStep, Heard, Cuts, LoopsEnds, Copies, Unannounced, Sends, Stops, PhoneRest
<1>2. \/ UNCHANGED socket
      \/ \E c \in Conn : Cut(c) \/ Connect(c)
      \/ CloseHub \/ Restart
  BY DEF LiveNext, PageStep, Heard, Write, Cuts, LoopsEnds, LoopsEnd, Copies, CopyClients,
         Unannounced, NoBroadcast, Sends, SendEvent, SendFull, SendPanics, Stops, Serves, Commit
<1>3. \A c \in Conn : socket'[c] # "none" => socket[c] # "none"
  BY <1>2 DEF Cut, Connect, Register, CloseHub, Restart
<1> QED
  BY <1>1, <1>3

LEMMA ChannelStep ==
  ASSUME LiveTypeOK, ChannelInv, LoadsInv, LiveNext
  PROVE  ChannelInv'
<1> USE DEF LiveTypeOK, HubTypeOK, flags, service
<1>1. CASE ~PageStep
  BY <1>1, OnlySocketsCloseOrOpen DEF ChannelInv
<1>2. ASSUME Connects, channel = None, visible', ~refreshing'
      PROVE  ChannelInv'
  BY <1>2, ConnectsEffect, LiveAssumption DEF ChannelInv
<1>3. ASSUME Disconnect
      PROVE  ChannelInv'
  BY <1>3, DisconnectEffect DEF ChannelInv
<1>4. CASE Show \/ PullDown
  BY <1>3, <1>4 DEF Show, PullDown, Refresh, ChannelInv, server, conns
<1>5. CASE Hide
  BY <1>3, <1>5 DEF Hide
<1>6. CASE NoticeClose
  BY <1>6 DEF NoticeClose, ChannelInv, server, conns
<1>7. CASE Reconnect
  BY <1>2, <1>7 DEF Reconnect, ChannelInv
<1>8. ASSUME LoadMore \/ \E l \in Load : Read(l)
      PROVE  ChannelInv'
  <2>1. UNCHANGED <<flags, service, socket>>
    BY <1>8 DEF LoadMore, Read, server, conns
  <2> QED
    BY <2>1 DEF ChannelInv
<1>9. ASSUME NEW l \in Load, Got(l) \/ Fail(l)
      PROVE  ChannelInv'
  <2>1. load[l] # Idle
    BY <1>9, NotIdle
  <2>2. load[l].refresh => refreshing
    BY <2>1 DEF LoadsInv, LocksAreHeld
  <2>3. \/ Disconnect
        \/ UNCHANGED <<flags, service, socket>>
        \/ UNCHANGED <<visible, service, socket>> /\ ~refreshing'
        \/ load[l].refresh /\ visible /\ UNCHANGED visible /\ ~refreshing' /\ Connects
    BY <1>9 DEF Got, GotCurrent, GotActive, GotFinished, GotList, GotMore, GotDetail, Fail, EndLoad
  <2>4. CASE UNCHANGED <<visible, service, socket>> /\ (~refreshing' \/ UNCHANGED refreshing)
    BY <2>4 DEF ChannelInv
  <2>5. CASE load[l].refresh /\ visible /\ UNCHANGED visible /\ ~refreshing' /\ Connects
    BY <1>2, <2>2, <2>5 DEF ChannelInv
  <2> QED
    BY <1>3, <2>3, <2>4, <2>5
<1> QED
  BY <1>1, <1>4, <1>5, <1>6, <1>7, <1>8, <1>9 DEF PageStep

-----------------------------------------------------------------------------
(***************************************************************************)
(* The flags and the loads.                                                *)
(***************************************************************************)
\* One load changes, and each flag with it.
LEMMA OneLoad ==
  ASSUME LiveTypeOK, LoadsInv, NEW l \in Load, NEW r, load' = [load EXCEPT ![l] = r],
         \/ (Refreshes(l) <=> r # Idle /\ r.refresh) /\ (refreshing' <=> refreshing)
         \/ Refreshes(l) /\ r = Idle /\ ~refreshing'
         \/ ~refreshing /\ r # Idle /\ r.refresh /\ refreshing',
         \/ (Lists(l) <=> r # Idle /\ r.what \in {"list", "more"}) /\ (listLoads' <=> listLoads)
         \/ Lists(l) /\ r = Idle /\ ~listLoads'
         \/ ~listLoads /\ r # Idle /\ r.what \in {"list", "more"} /\ listLoads'
  PROVE  LoadsInv'
<1>1. \A k \in Load : load'[k] = IF k = l THEN r ELSE load[k]
  BY DEF LiveTypeOK
<1>2. /\ \A k \in Load : k # l => (Refreshes(k)' <=> Refreshes(k)) /\ (Lists(k)' <=> Lists(k))
      /\ Refreshes(l)' <=> r # Idle /\ r.refresh
      /\ Lists(l)' <=> r # Idle /\ r.what \in {"list", "more"}
  BY <1>1 DEF Refreshes, Lists
<1>3. /\ refreshing <=> \E k \in Load : Refreshes(k)
      /\ listLoads <=> \E k \in Load : Lists(k)
  BY DEF LoadsInv, LocksAreHeld, Refreshes, Lists
<1>4. /\ refreshing' <=> \E k \in Load : Refreshes(k)'
      /\ \A j, k \in Load : Refreshes(j)' /\ Refreshes(k)' => j = k
  BY <1>2, <1>3 DEF LoadsInv
<1>5. /\ listLoads' <=> \E k \in Load : Lists(k)'
      /\ \A j, k \in Load : Lists(j)' /\ Lists(k)' => j = k
  BY <1>2, <1>3 DEF LoadsInv
<1> QED
  BY <1>4, <1>5 DEF LoadsInv, LocksAreHeld, Refreshes, Lists

LEMMA LoadsStep ==
  ASSUME LiveTypeOK, LoadsInv, LiveNext
  PROVE  LoadsInv'
<1> USE DEF flags, view
<1>1. CASE UNCHANGED <<load, refreshing, listLoads>>
  BY <1>1 DEF LoadsInv, LocksAreHeld, Refreshes, Lists
<1>2. \A w, b : Asks(w, b) # Idle /\ Asks(w, b).refresh = b /\ Asks(w, b).what = w
  BY DEF Asks, Idle
<1>3. \A l \in Load : load[l] = Idle => ~Refreshes(l) /\ ~Lists(l)
  BY DEF Refreshes, Lists
<1>4. ASSUME Refresh, ~refreshing
      PROVE  LoadsInv'
  <2> DEFINE yes == TRUE
             r == Asks("current", yes)
  <2>1. PICK l \in Load : load[l] = Idle /\ load' = [load EXCEPT ![l] = r]
    BY <1>4 DEF Refresh, Begins
  <2>4. yes
    OBVIOUS
  <2> HIDE DEF yes
  <2>2. r # Idle /\ r.refresh /\ r.what \notin {"list", "more"}
    <3>1. r # Idle /\ r.refresh = yes /\ r.what = "current"
      BY <1>2
    <3>2. r.refresh
      BY <2>4, <3>1, Zenon
    <3> HIDE DEF r
    <3> QED
      BY <3>1, <3>2
  <2> HIDE DEF r
  <2>3. refreshing' /\ (listLoads' <=> listLoads)
    BY <1>4 DEF Refresh
  <2> QED
    BY <1>3, <1>4, <2>1, <2>2, <2>3, OneLoad
<1>5. ASSUME NEW c \in Conn, Heard(c), load' # load
      PROVE  LoadsInv'
  <2> DEFINE no == FALSE
             r == Asks("summary", no)
  <2>1. PICK l \in Load : load[l] = Idle /\ load' = [load EXCEPT ![l] = r]
    BY <1>5 DEF Heard, Begins
  <2>4. ~no
    OBVIOUS
  <2> HIDE DEF no
  <2>2. r # Idle /\ ~r.refresh /\ r.what \notin {"list", "more"}
    BY <1>2, <2>4
  <2> HIDE DEF r
  <2>3. (refreshing' <=> refreshing) /\ (listLoads' <=> listLoads)
    BY <1>5 DEF Heard
  <2> QED
    BY <1>3, <2>1, <2>2, <2>3, OneLoad
<1>6. ASSUME NEW l \in Load, Read(l)
      PROVE  LoadsInv'
  <2> DEFINE r == Answers(l)
  <2>1. load[l] # Idle /\ load' = [load EXCEPT ![l] = r]
    BY <1>6 DEF Read, Idle
  <2>2. r # Idle /\ r.refresh = load[l].refresh /\ r.what = load[l].what
    BY DEF Answers, Idle
  <2> HIDE DEF r
  <2>3. (refreshing' <=> refreshing) /\ (listLoads' <=> listLoads)
    BY <1>6 DEF Read
  <2>4. (Refreshes(l) <=> r # Idle /\ r.refresh) /\ (Lists(l) <=> r # Idle /\ r.what \in {"list", "more"})
    BY <2>1, <2>2 DEF Refreshes, Lists
  <2> QED
    BY <2>1, <2>3, <2>4, OneLoad
<1>7. ASSUME NEW l \in Load, Got(l) \/ Fail(l)
      PROVE  LoadsInv'
  <2>1. load[l] # Idle
    BY <1>7, NotIdle
  \* the load goes on
  <2>2. ASSUME NEW w, GoOn(l, w), refreshing' = refreshing,
               \/ {w, load[l].what} \intersect {"list", "more"} = {} /\ listLoads' = listLoads
               \/ w = "list" /\ ~listLoads /\ listLoads'
        PROVE  LoadsInv'
    <3> DEFINE r == Asks(w, load[l].refresh)
    <3>1. load' = [load EXCEPT ![l] = r]
      BY <2>2 DEF GoOn
    <3>2. r # Idle /\ r.refresh = load[l].refresh /\ r.what = w
      BY <1>2
    <3> HIDE DEF r
    <3>3. Refreshes(l) <=> r # Idle /\ r.refresh
      BY <2>1, <3>2 DEF Refreshes
    <3>4. {w, load[l].what} \intersect {"list", "more"} = {}
            => ~Lists(l) /\ r.what \notin {"list", "more"}
      BY <3>2 DEF Lists
    <3>5. \/ (Lists(l) <=> r # Idle /\ r.what \in {"list", "more"}) /\ (listLoads' <=> listLoads)
          \/ ~listLoads /\ r # Idle /\ r.what \in {"list", "more"} /\ listLoads'
      BY <2>2, <3>2, <3>4
    <3>6. refreshing' <=> refreshing
      BY <2>2
    <3> QED
      BY <3>1, <3>3, <3>5, <3>6, OneLoad
  \* the load ends
  <2>3. ASSUME load' = [load EXCEPT ![l] = Idle],
               IF load[l].refresh THEN ~refreshing' ELSE refreshing' = refreshing,
               IF load[l].what \in {"list", "more"} THEN ~listLoads' ELSE listLoads' = listLoads
        PROVE  LoadsInv'
    <3>1. /\ Refreshes(l) <=> load[l].refresh
          /\ Lists(l) <=> load[l].what \in {"list", "more"}
      BY <2>1 DEF Refreshes, Lists
    <3> DEFINE r == Idle
    <3>2. \/ (Refreshes(l) <=> r # Idle /\ r.refresh) /\ (refreshing' <=> refreshing)
          \/ Refreshes(l) /\ r = Idle /\ ~refreshing'
      BY <2>3, <3>1
    <3>3. \/ (Lists(l) <=> r # Idle /\ r.what \in {"list", "more"}) /\ (listLoads' <=> listLoads)
          \/ Lists(l) /\ r = Idle /\ ~listLoads'
      BY <2>3, <3>1
    <3>4. load' = [load EXCEPT ![l] = r]
      BY <2>3
    <3> HIDE DEF r
    <3> QED
      BY <3>2, <3>3, <3>4, OneLoad
  <2>4. CASE GotCurrent(l)
    BY <2>2, <2>3, <2>4 DEF GotCurrent, EndLoad, Asked
  <2>5. CASE GotActive(l)
    BY <2>2, <2>3, <2>5 DEF GotActive, EndLoad, Answered
  <2>6. CASE GotFinished(l)
    BY <2>2, <2>6 DEF GotFinished, Answered
  <2>7. CASE GotList(l) \/ GotDetail(l)
    BY <2>3, <2>7 DEF GotList, GotDetail, EndLoad, Answered, Asked
  <2>9. CASE GotMore(l)
    BY <2>3, <2>9 DEF GotMore, EndLoad, Asked
  <2>8. CASE Fail(l)
    <3>1. IF load[l].what \in {"list", "more"} THEN ~listLoads' ELSE listLoads' = listLoads
      <4>1. load[l].what # "more"
        BY <2>1, <2>8, LoadType DEF Fail, Asked, Replies
      <4>2. IF load[l].what = "list" THEN ~listLoads' ELSE listLoads' = listLoads
        BY <2>8, Zenon DEF Fail, LiveTypeOK
      <4> QED
        BY <4>1, <4>2
    <3>2. /\ load' = [load EXCEPT ![l] = Idle]
          /\ IF load[l].refresh THEN ~refreshing' ELSE refreshing' = refreshing
      BY <2>8 DEF Fail, EndLoad
    <3> QED
      BY <2>3, <3>1, <3>2
  <2> QED
    BY <1>7, <2>4, <2>5, <2>6, <2>7, <2>8, <2>9 DEF Got
<1>8. CASE LoadMore
  <2> DEFINE no == FALSE
             r == Asks("more", no)
  <2>1. PICK l \in Load : load[l] = Idle /\ load' = [load EXCEPT ![l] = r]
    BY <1>8 DEF LoadMore, Begins
  <2>4. ~no
    OBVIOUS
  <2> HIDE DEF no
  <2>2. r # Idle /\ ~r.refresh /\ r.what = "more"
    BY <1>2, <2>4
  <2> HIDE DEF r
  <2>3. (refreshing' <=> refreshing) /\ ~listLoads /\ listLoads'
    BY <1>8 DEF LoadMore
  <2> QED
    BY <1>3, <2>1, <2>2, <2>3, OneLoad
<1>9. \/ Refresh /\ ~refreshing
      \/ LoadMore
      \/ \E c \in Conn : Heard(c) /\ load' # load
      \/ \E l \in Load : Read(l) \/ Got(l) \/ Fail(l)
      \/ UNCHANGED <<load, refreshing, listLoads>>
  BY DEF LiveNext, Show, PullDown, Hide, NoticeClose, Reconnect, Heard, Cuts, LoopsEnds, Copies, Unannounced, Sends,
         Stops, PhoneRest
<1> QED
  BY <1>1, <1>4, <1>5, <1>6, <1>7, <1>8, <1>9

-----------------------------------------------------------------------------
(***************************************************************************)
(* What the page has seen.                                                 *)
(***************************************************************************)
LEMMA SeenStep ==
  ASSUME LiveTypeOK, SeenInv, LiveNext
  PROVE  SeenInv'
<1>0. version \in Nat /\ ended \in BOOLEAN /\ summary \in Nat /\ list \in Nat
  BY HubAssumption DEF LiveTypeOK, HubTypeOK
<1>1. ASSUME NEW t \in Task, Commit(t), UNCHANGED phone
      PROVE  SeenInv'
  <2>1. ~ended /\ version' = version + 1 /\ UNCHANGED <<load, summary, list, status>>
    BY <1>1 DEF Commit, phone, view, shown
  <2>2. \A l \in Load : load[l].step = "answered" => load[l].v \in Nat
    BY LoadType, HubAssumption DEF Replies
  <2>3. \A l \in Load : CanBe(load[l], version + 1, ended')
    BY <1>0, <2>1, <2>2 DEF SeenInv, CanBe
  <2> QED
    BY <1>0, <2>1, <2>3 DEF SeenInv
<1>2. ASSUME UNCHANGED game, NEW l \in Load, NEW r, load' = [load EXCEPT ![l] = r],
             CanBe(r, version, ended), summary' <= version, list' <= version,
             status' = "finished" => ended /\ summary' = version
      PROVE  SeenInv'
  <2>1. version' = version /\ ended' = ended
    BY <1>2 DEF game
  <2>2. \A k \in Load : load'[k] = IF k = l THEN r ELSE load[k]
    BY <1>2 DEF LiveTypeOK
  <2>3. \A k \in Load : CanBe(load'[k], version, ended)
    BY <1>2, <2>2 DEF SeenInv
  <2> QED
    BY <1>2, <2>1, <2>3 DEF SeenInv
<1>3. summary <= version /\ list <= version /\ (status = "finished" => ended /\ summary = version)
  BY DEF SeenInv
<1>4. \A w, b : w # "detail" => CanBe(Asks(w, b), version, ended)
  BY DEF CanBe, Asks
<1>5. CanBe(Idle, version, ended)
  BY DEF CanBe, Idle
<1>6. ASSUME \/ Begins(Asks("current", TRUE)) \/ Begins(Asks("summary", FALSE))
             \/ Begins(Asks("more", FALSE)),
             UNCHANGED <<game, shown>>
      PROVE  SeenInv'
  BY <1>2, <1>3, <1>4, <1>6 DEF Begins, shown
<1>7. ASSUME NEW l \in Load, Read(l)
      PROVE  SeenInv'
  <2>1. CanBe(Answers(l), version, ended)
    BY <1>0 DEF CanBe, Answers
  <2> QED
    BY <1>2, <1>3, <1>7, <2>1 DEF Read, server, view, shown
<1>8. ASSUME NEW l \in Load, Got(l) \/ Fail(l)
      PROVE  SeenInv'
  <2>0. UNCHANGED game
    BY <1>8 DEF Got, GotCurrent, GotActive, GotFinished, GotList, GotMore, GotDetail, Fail, HubRest
  <2>1. load[l].step = "answered" => load[l].v <= version
    BY DEF SeenInv, CanBe
  <2>2. CASE GotCurrent(l)
    BY <1>2, <1>3, <1>4, <1>5, <2>0, <2>2 DEF GotCurrent, EndLoad, GoOn, shown
  <2>3. CASE GotActive(l)
    BY <1>2, <1>3, <1>4, <1>5, <2>0, <2>1, <2>3 DEF GotActive, EndLoad, GoOn, Answered
  <2>4. CASE GotFinished(l)
    <3>1. ended
      BY <2>4 DEF GotFinished, Answered, SeenInv, CanBe
    <3>2. CanBe(Asks("detail", load[l].refresh), version, ended)
      BY <3>1 DEF CanBe, Asks
    <3> QED
      BY <1>2, <1>3, <2>0, <2>4, <3>2 DEF GotFinished, GoOn, view, shown
  <2>5. CASE GotList(l)
    BY <1>2, <1>3, <1>5, <2>0, <2>1, <2>5 DEF GotList, EndLoad, Answered
  <2>6. CASE GotDetail(l)
    <3>1. ended
      BY <2>6 DEF GotDetail, Asked, SeenInv, CanBe
    <3>2. load' = [load EXCEPT ![l] = Idle] /\ summary' = version /\ list' = version
      BY <2>6 DEF GotDetail, EndLoad
    <3>3. summary' <= version /\ list' <= version
      BY <1>0, <3>2
    <3> QED
      BY <1>2, <1>5, <2>0, <3>1, <3>2, <3>3
  <2>7. CASE Fail(l) \/ GotMore(l)
    BY <1>2, <1>3, <1>5, <2>0, <2>7 DEF Fail, GotMore, EndLoad, view, shown
  <2> QED
    BY <1>8, <2>2, <2>3, <2>4, <2>5, <2>6, <2>7 DEF Got
<1>9. CASE UNCHANGED <<game, load, shown>>
  BY <1>9 DEF SeenInv, game, shown
<1>10. \/ /\ \/ Begins(Asks("current", TRUE)) \/ Begins(Asks("summary", FALSE))
             \/ Begins(Asks("more", FALSE))
          /\ UNCHANGED <<game, shown>>
       \/ \E l \in Load : Read(l) \/ Got(l) \/ Fail(l)
       \/ \E t \in Task : Commit(t) /\ UNCHANGED phone
       \/ UNCHANGED <<game, load, shown>>
  <2> USE DEF server, view
  <2>1. CASE PageStep
    <3>1. UNCHANGED game
      BY <2>1, PageConnection
    <3>2. Refresh => Begins(Asks("current", TRUE)) /\ UNCHANGED shown
      BY DEF Refresh
    <3>3. Hide \/ NoticeClose \/ Reconnect => UNCHANGED <<load, shown>>
      BY DEF Hide, NoticeClose, Reconnect
    <3>4. Show \/ PullDown => Refresh \/ UNCHANGED <<load, shown>>
      BY DEF Show, PullDown
    <3>5. LoadMore => Begins(Asks("more", FALSE)) /\ UNCHANGED shown
      BY DEF LoadMore
    <3> QED
      BY <2>1, <3>1, <3>2, <3>3, <3>4, <3>5 DEF PageStep
  <2>2. ASSUME NEW c \in Conn, Heard(c)
        PROVE  \/ Begins(Asks("summary", FALSE)) /\ UNCHANGED <<game, shown>>
               \/ UNCHANGED <<game, load, shown>>
    BY <2>2 DEF Heard, Write
  <2>3. CASE \E t \in Task : Commit(t) /\ PhoneRest /\ UNCHANGED missed
    BY <2>3 DEF PhoneRest, phone
  <2>4. ASSUME \/ \E c \in Conn : Cuts(c) \/ LoopsEnds(c) \/ (Connect(c) /\ PhoneRest)
               \/ \E t \in Task : Copies(t) \/ Unannounced(t) \/ Sends(t)
               \/ Stops
        PROVE  UNCHANGED <<game, load, shown>>
    BY <2>4 DEF Cuts, Cut, LoopsEnds, LoopsEnd, Connect, Copies, CopyClients, Unannounced,
                NoBroadcast, Sends, SendEvent, SendFull, SendPanics, Stops, CloseHub, Restart, PhoneRest
  <2> QED
    BY <2>1, <2>2, <2>3, <2>4 DEF LiveNext, PageStep, Serves
<1> QED
  BY <1>1, <1>6, <1>7, <1>8, <1>9, <1>10

-----------------------------------------------------------------------------
(***************************************************************************)
(* Nothing gets lost uncounted.                                            *)
(***************************************************************************)
LEMMA PageForgets ==
  ASSUME PageStep
  PROVE  (missed => missed') \/ channel' = None
<1> USE DEF flags, view
<1>1. CASE Show \/ PullDown \/ Hide \/ LoadMore \/ NoticeClose \/ Reconnect
  BY <1>1 DEF Show, PullDown, Hide, LoadMore, NoticeClose, Reconnect, Refresh, Disconnect
<1>2. ASSUME NEW l \in Load, Read(l) \/ Got(l) \/ Fail(l)
      PROVE  missed => missed'
  BY <1>2 DEF Read, Got, GotCurrent, GotActive, GotFinished, GotList, GotMore, GotDetail, Fail
<1> QED
  BY <1>1, <1>2 DEF PageStep

LEMMA CutStep ==
  ASSUME LiveTypeOK, HubInv, CutInv, LiveNext
  PROVE  CutInv'
<1> USE DEF LiveTypeOK, HubTypeOK, game, tasks, hub, conns, server, service, PhoneRest, Unheard, Undelivered
<1>1. CASE PageStep
  <2>1. UNCHANGED <<queue, left>>
    BY <1>1, PageConnection
  <2>2. CASE channel' = None
    BY <2>2 DEF CutInv
  <2>3. CASE UNCHANGED <<socket, service>>
    BY <1>1, <2>1, <2>2, <2>3, PageForgets DEF CutInv, ToHear
  <2>4. CASE Connects
    <3>1. PICK c \in Conn : channel' = c /\ socket' = [socket EXCEPT ![c] = "requested"]
      BY <2>4, ConnectsEffect
    <3> QED
      BY <3>1 DEF CutInv
  <2> QED
    BY <1>1, <2>2, <2>3, <2>4, PageConnection DEF Disconnect, NoticeClose
<1>2. ASSUME NEW c \in Conn, Heard(c)
      PROVE  CutInv'
  BY <1>2 DEF Heard, Write, CutInv, ToHear
<1>3. ASSUME NEW c \in Conn, Cuts(c) \/ LoopsEnds(c)
      PROVE  CutInv'
  <2>1. CASE Cuts(c)
    BY <2>1 DEF Cuts, Cut, CutInv, ToHear
  <2>2. CASE LoopsEnds(c)
    <3>1. ToHear' => ToHear
      BY <2>2 DEF LoopsEnds, LoopsEnd, ToHear
    <3> QED
      BY <2>2, <3>1 DEF LoopsEnds, LoopsEnd, CutInv
  <2> QED
    BY <1>3, <2>1, <2>2
<1>4. ASSUME NEW t \in Task, Copies(t) \/ Unannounced(t)
      PROVE  CutInv'
  BY <1>4 DEF Copies, CopyClients, Unannounced, NoBroadcast, CutInv, ToHear
<1>5. ASSUME NEW t \in Task, NEW c \in left[t], Done(t, {c}) \/ Done(t, left[t]),
             queue' = queue \/ queue' = [queue EXCEPT ![c] = @ + 1],
             UNCHANGED <<socket, channel>>, missed => missed'
      PROVE  CutInv'
  <2>1. \A k \in Task : left'[k] \subseteq left[k]
    BY <1>5 DEF Done
  <2>2. \A d \in Conn : queue'[d] > 0 => queue[d] > 0 \/ d = c
    BY <1>5
  <2>3. ToHear' => ToHear
    BY <1>5, <2>1, <2>2 DEF ToHear
  <2> QED
    BY <1>5, <2>3 DEF CutInv
<1>6. CASE Stops
  <2>1. CloseHub /\ Unheard(Undelivered) => missed' \/ ~ToHear'
    BY <1>6 DEF Stops, CloseHub, ToHear
  <2>2. Restart => ~ToHear'
    BY <1>6 DEF Stops, Restart, ToHear
  <2>3. missed' \/ ~ToHear'
    BY <1>6, <2>1, <2>2 DEF Stops
  <2> QED
    BY <2>3 DEF CutInv
<1>7. ASSUME NEW t \in Task, Commit(t), UNCHANGED phone
      PROVE  CutInv'
  BY <1>7 DEF Commit, CutInv, ToHear, phone
<1>8. ASSUME NEW c \in Conn, Connect(c), UNCHANGED phone
      PROVE  CutInv'
  BY <1>8 DEF Connect, Register, CutInv, HubInv, ToHear, phone
<1>9. ASSUME NEW t \in Task, Sends(t)
      PROVE  CutInv'
  <2>1. \E c \in left[t] : /\ Done(t, {c}) \/ Done(t, left[t])
                           /\ queue' = queue \/ queue' = [queue EXCEPT ![c] = @ + 1]
                           /\ UNCHANGED <<socket, channel>> /\ (missed => missed')
    BY <1>9 DEF Sends, SendEvent, SendFull, SendPanics
  <2> HIDE DEF LiveTypeOK
  <2> QED
    BY <1>5, <2>1
<1> QED
  BY <1>1, <1>2, <1>3, <1>4, <1>6, <1>7, <1>8, <1>9 DEF LiveNext, PageStep, Serves, phone

\* A step of the server after which the page will hear of what it would have heard.
LEMMA ServerNews ==
  ASSUME ShownInv, NoGameInv, UNCHANGED <<game, load, view, flags>>, missed => missed',
         ~missed' /\ News => News'
  PROVE  ShownInv' /\ NoGameInv'
<1> USE DEF game, view, shown, flags
<1>1. Cares' => Cares
  BY DEF Cares
<1>2. ShownInv'
  <2>1. Cares' /\ ~News' => Cares /\ ~News
    BY <1>1 DEF Cares
  <2> QED
    BY <2>1 DEF ShownInv, Listing, Latest
<1> QED
  BY <1>1, <1>2 DEF NoGameInv

LEMMA ServerStep ==
  ASSUME LiveTypeOK, HubInv, CutInv, ShownInv, NoGameInv, LiveNext, ~PageStep,
         ~\E c \in Conn : Heard(c)
  PROVE  ShownInv' /\ NoGameInv'
<1> USE DEF LiveTypeOK, HubTypeOK, game, tasks, hub, conns, server, service, PhoneRest, Unheard, Undelivered
<1>1. ASSUME NEW c \in Conn, Cuts(c) \/ LoopsEnds(c)
      PROVE  ShownInv' /\ NoGameInv'
  <2>1. ~missed' /\ News => News'
    BY <1>1 DEF Cuts, Cut, LoopsEnds, LoopsEnd, CutInv, News, ToHear
  <2>2. UNCHANGED <<game, load, view, flags>> /\ (missed => missed')
    BY <1>1 DEF Cuts, Cut, LoopsEnds, LoopsEnd
  <2> QED
    BY <2>1, <2>2, ServerNews
<1>2. ASSUME NEW t \in Task, Copies(t)
      PROVE  ShownInv' /\ NoGameInv'
  <2>1. ~missed' => News'
    BY <1>2, LiveAssumption DEF Copies, CopyClients, News, ToHear
  <2>2. UNCHANGED <<game, load, view, flags>> /\ (missed => missed')
    BY <1>2 DEF Copies, CopyClients
  <2> QED
    BY <2>1, <2>2, ServerNews
<1>3. ASSUME NEW t \in Task, Sends(t)
      PROVE  ShownInv' /\ NoGameInv'
  <2>1. task[t] = "sending"
    BY <1>3 DEF Sends, HubInv
  <2>2. ASSUME NEW c \in left[t], SendEvent(t, c)
        PROVE  News => News'
    BY <1>3, <2>1, <2>2 DEF SendEvent, Done, News, ToHear, Sends
  <2>3. ASSUME NEW c \in left[t], SendFull(t, c), c # channel
        PROVE  News => News'
    BY <1>3, <2>1, <2>3 DEF SendFull, Done, News, ToHear, Sends
  <2>4. ASSUME NEW c \in left[t], SendPanics(t, c), channel \notin left[t]
        PROVE  News => News'
    BY <1>3, <2>1, <2>4 DEF SendPanics, Done, News, ToHear, Sends
  <2>5. ~missed' /\ News => News'
    BY <1>3, <2>2, <2>3, <2>4 DEF Sends
  <2>6. UNCHANGED <<game, load, view, flags>> /\ (missed => missed')
    BY <1>3 DEF Sends, SendEvent, SendFull, SendPanics
  <2> QED
    BY <2>5, <2>6, ServerNews
<1>4. CASE Stops
  <2>1. ~missed' /\ News => News'
    BY <1>4 DEF Stops, CloseHub, Restart, News, ToHear
  <2>2. UNCHANGED <<game, load, view, flags>> /\ (missed => missed')
    BY <1>4 DEF Stops, CloseHub, Restart
  <2> QED
    BY <2>1, <2>2, ServerNews
<1>5. ASSUME NEW t \in Task, Commit(t), UNCHANGED phone
      PROVE  ShownInv' /\ NoGameInv'
  <2>1. News'
    BY <1>5 DEF Commit, News
  <2>2. ~ended /\ UNCHANGED <<load, id, flags, missed>>
    BY <1>5 DEF Commit, phone, view
  <2> QED
    BY <2>1, <2>2 DEF ShownInv, NoGameInv, Cares, flags
<1>6. ASSUME NEW c \in Conn, Connect(c), UNCHANGED phone
      PROVE  ShownInv' /\ NoGameInv'
  <2>1. News => News'
    BY <1>6 DEF Connect, News, ToHear, phone
  <2>2. UNCHANGED <<game, load, view, flags, missed>>
    BY <1>6 DEF Connect, phone
  <2> QED
    BY <2>1, <2>2, ServerNews
<1>7. ASSUME NEW t \in Task, Unannounced(t)
      PROVE  ShownInv' /\ NoGameInv'
  BY <1>7 DEF Unannounced, NoBroadcast, ShownInv, NoGameInv, Cares, flags, view
<1> QED
  BY <1>1, <1>2, <1>3, <1>4, <1>5, <1>6, <1>7 DEF LiveNext, PageStep, Serves, phone

\* A load that has become r leaves the others as they are: when no news remains,
\* none was there but that of the load itself.
LEMMA StillQuiet ==
  ASSUME LiveTypeOK, UNCHANGED tasks, NEW l \in Load, NEW r, load' = [load EXCEPT ![l] = r],
         ToHear => ToHear', ~News'
  PROVE  ~ToRead(r) /\ (ToRead(load[l]) \/ ~News)
<1>1. \A k \in Load : load'[k] = IF k = l THEN r ELSE load[k]
  BY DEF LiveTypeOK
<1>2. \A k \in Load : ToRead(load[k])' <=> ToRead(load'[k])
  BY DEF ToRead
<1>3. ~ToHear /\ ~\E t \in Task : task[t] = "committed"
  BY DEF News, tasks
<1>4. \A k \in Load : ~ToRead(load'[k])
  BY <1>2 DEF News
<1> QED
  BY <1>1, <1>3, <1>4 DEF News

\* A load that has become r brings news.
LEMMA Promising ==
  ASSUME LiveTypeOK, NEW l \in Load, NEW r, load' = [load EXCEPT ![l] = r], ToRead(r)
  PROVE  News'
<1>1. load'[l] = r
  BY DEF LiveTypeOK
<1>2. ToRead(load[l])'
  BY <1>1 DEF ToRead
<1> QED
  BY <1>2 DEF News

LEMMA NewsAsked ==
  ASSUME NEW what \in {"current", "summary", "detail"}, NEW b
  PROVE  ToRead(Asks(what, b))
BY DEF Asks, ToRead

\* The page does not forget what it missed, and keeps its news.
LEMMA GotKeeps ==
  ASSUME LiveTypeOK, ChannelInv, LoadsInv, NEW l \in Load, Read(l) \/ Got(l)
  PROVE  /\ UNCHANGED <<game, tasks>>
         /\ Cares' => Cares
         /\ ~GotFinished(l) => (ToHear => ToHear')
<1> USE DEF server, flags, service
<1>1. UNCHANGED <<game, tasks, queue>> /\ (missed => missed') /\ UNCHANGED visible
      /\ (refreshing' => refreshing)
  <2>1. UNCHANGED <<game, tasks, queue>> /\ UNCHANGED visible
    BY DEF Read, Got, GotCurrent, GotActive, GotFinished, GotList, GotMore, GotDetail, HubRest, conns
  <2>2. missed => missed'
    BY DEF Read, Got, GotCurrent, GotActive, GotFinished, GotList, GotMore, GotDetail
  <2>3. refreshing' => refreshing
    BY DEF Read, Got, GotCurrent, GotActive, GotFinished, GotList, GotMore, GotDetail, EndLoad
  <2> QED
    BY <2>1, <2>2, <2>3
<1>2. ASSUME ~GotFinished(l)
      PROVE  ToHear => ToHear'
  <2>1. channel' = channel \/ (load[l].refresh /\ Got(l))
    BY <1>2 DEF Read, Got, GotCurrent, GotActive, GotFinished, GotList, GotMore, GotDetail, EndLoad
  <2>2. load[l].refresh /\ Got(l) => channel = None
    BY NotIdle DEF ChannelInv, LoadsInv, LocksAreHeld
  <2> QED
    BY <1>1, <2>1, <2>2 DEF ToHear, tasks
<1> QED
  BY <1>1, <1>2 DEF Cares

LEMMA ReadNews ==
  ASSUME LiveTypeOK, ChannelInv, LoadsInv, SeenInv, ShownInv, NoGameInv, NEW l \in Load, Read(l)
  PROVE  ShownInv' /\ NoGameInv'
<1> DEFINE r == Answers(l)
<1>1. load' = [load EXCEPT ![l] = r] /\ UNCHANGED <<game, shown, id>>
  BY DEF Read, server, view
<1>2. \A k \in Load : load'[k] = IF k = l THEN r ELSE load[k]
  BY <1>1 DEF LiveTypeOK
<1>3. /\ r.step = "answered" /\ r.what = load[l].what /\ r.v = version /\ r.over = ended
      /\ load[l].step = "asked" /\ load[l].what \in {"summary", "list"}
  BY DEF Answers, Read
<1> HIDE DEF r
<1>4. UNCHANGED tasks /\ (Cares' => Cares) /\ (ToHear => ToHear')
  <2>1. ~GotFinished(l)
    BY <1>3 DEF GotFinished, Answered
  <2> QED
    BY <2>1, GotKeeps
<1>5. NoGameInv'
  BY <1>1, <1>2, <1>3, <1>4 DEF NoGameInv, game
<1>6. ASSUME Cares', ~News', id'
      PROVE  /\ summary' = version' \/ \E k \in Load : Latest(load[k], "summary")'
             /\ list' = version' \/ \E k \in Load : Listing(load[k])'
             /\ ended' => status' = "finished"
  <2>1. ~ToRead(r) /\ (ToRead(load[l]) \/ ~News)
    BY <1>1, <1>4, <1>6, StillQuiet
  <2>2. CASE load[l].what = "summary"
    BY <1>1, <1>2, <1>3, <2>1, <2>2 DEF ToRead, Listing, Latest, game
  <2>3. CASE load[l].what = "list"
    <3>1. ~News /\ id /\ Cares
      BY <1>1, <1>3, <1>4, <1>6, <2>1, <2>3 DEF ToRead
    <3> QED
      BY <1>1, <1>2, <1>3, <2>3, <3>1 DEF ShownInv, Listing, Latest, game, shown
  <2> QED
    BY <1>3, <2>2, <2>3
<1> QED
  BY <1>5, <1>6 DEF ShownInv

LEMMA GotNews ==
  ASSUME LiveTypeOK, ChannelInv, LoadsInv, SeenInv, ShownInv, NoGameInv, NEW l \in Load, Got(l)
  PROVE  ShownInv' /\ NoGameInv'
<1> USE DEF game, view, shown, GoOn
<1>1. UNCHANGED <<game, tasks>> /\ (Cares' => Cares)
  BY GotKeeps
<1>2. ASSUME NEW r, load' = [load EXCEPT ![l] = r]
      PROVE  \A k \in Load : load'[k] = IF k = l THEN r ELSE load[k]
  BY <1>2 DEF LiveTypeOK
<1>3. ASSUME NEW r, load' = [load EXCEPT ![l] = r], ~Asked(l, "current"), UNCHANGED id
      PROVE  NoGameInv'
  BY <1>1, <1>2, <1>3 DEF NoGameInv, Asked
<1>4. CASE GotCurrent(l)
  <2>1. CASE ended
    BY <1>1, <1>4, <2>1 DEF GotCurrent, ShownInv, NoGameInv
  <2>2. CASE ~ended
    <3>1. News' /\ id'
      BY <1>4, <2>2, Promising, NewsAsked DEF GotCurrent
    <3> QED
      BY <3>1 DEF ShownInv, NoGameInv
  <2> QED
    BY <2>1, <2>2
<1>5. CASE GotFinished(l)
  <2>1. News'
    BY <1>5, Promising, NewsAsked DEF GotFinished
  <2>2. NoGameInv'
    BY <1>3, <1>5 DEF GotFinished, Answered, Asked
  <2> QED
    BY <2>1, <2>2 DEF ShownInv
<1>6. CASE GotDetail(l)
  <2>1. summary' = version' /\ list' = version' /\ status' = "finished"
    BY <1>1, <1>6 DEF GotDetail
  <2>2. NoGameInv'
    BY <1>3, <1>6 DEF GotDetail, Asked, EndLoad
  <2> QED
    BY <2>1, <2>2 DEF ShownInv
<1>7. load[l].step = "answered" => load[l].v \in Nat /\ load[l].v <= version
  BY LoadType, HubAssumption DEF Replies, SeenInv, CanBe
<1>8. summary \in Nat /\ list \in Nat /\ version \in Nat
  BY HubAssumption DEF LiveTypeOK, HubTypeOK
<1>9. CASE GotActive(l)
  <2>1. NoGameInv'
    BY <1>3, <1>9 DEF GotActive, Answered, Asked, EndLoad
  <2>2. ASSUME Cares', ~News', id'
        PROVE  /\ summary' = version' \/ \E k \in Load : Latest(load[k], "summary")'
               /\ list' = version' \/ \E k \in Load : Listing(load[k])'
               /\ ended' => status' = "finished"
    <3> DEFINE r == Asks("list", load[l].refresh)
    <3>1. ~missed' /\ ~listLoads
      BY <1>9, <2>2 DEF GotActive, Cares
    <3>2. /\ load' = [load EXCEPT ![l] = r] /\ UNCHANGED <<id, list>>
          /\ summary' = load[l].v /\ ~(load[l].v < summary)
          /\ load[l].step = "answered" /\ load[l].what = "summary" /\ ~load[l].over
      BY <1>9, <3>1 DEF GotActive, Overtaken, Answered
    <3>3. r.step = "asked" /\ r.what = "list"
      BY DEF Asks
    <3> HIDE DEF r
    <3>4. \A k \in Load : load'[k] = IF k = l THEN r ELSE load[k]
      BY <1>2, <3>2
    <3>5. ToHear => ToHear'
      BY <1>9, GotKeeps, <3>2 DEF Got, GotFinished
    <3>6. ~News /\ Cares /\ id
      BY <1>1, <2>2, <3>2, <3>5, StillQuiet DEF ToRead
    <3>7. ended => load[l].v < version
      BY <3>2 DEF SeenInv, CanBe
    <3>8. ~ended
      <4>1. ended => status = "finished" /\ summary = version
        BY <3>6 DEF ShownInv, SeenInv
      <4> QED
        BY <1>7, <1>8, <3>2, <3>7, <4>1
    <3>9. summary' = version \/ \E k \in Load : k # l /\ Latest(load[k], "summary")
      <4>1. summary = version \/ \E k \in Load : Latest(load[k], "summary")
        BY <3>6 DEF ShownInv
      <4> QED
        BY <1>7, <1>8, <3>2, <4>1 DEF Latest
    <3> QED
      BY <1>1, <3>3, <3>4, <3>8, <3>9 DEF Latest, Listing
  <2> QED
    BY <2>1, <2>2 DEF ShownInv
<1>10. CASE GotList(l)
  <2>1. NoGameInv'
    BY <1>3, <1>10 DEF GotList, Answered, Asked, EndLoad
  <2>2. ASSUME Cares', ~News', id'
        PROVE  /\ summary' = version' \/ \E k \in Load : Latest(load[k], "summary")'
               /\ list' = version' \/ \E k \in Load : Listing(load[k])'
               /\ ended' => status' = "finished"
    <3> DEFINE r == Idle
    <3>1. ~missed'
      BY <2>2 DEF Cares
    <3>2. /\ load' = [load EXCEPT ![l] = r] /\ UNCHANGED <<id, status, summary>>
          /\ list' = load[l].v /\ ~(load[l].v < list)
          /\ load[l].step = "answered" /\ load[l].what = "list"
      BY <1>10, <3>1 DEF GotList, Overtaken, Answered, EndLoad
    <3>3. r.step = "idle"
      BY DEF Idle
    <3> HIDE DEF r
    <3>4. \A k \in Load : load'[k] = IF k = l THEN r ELSE load[k]
      BY <1>2, <3>2
    <3>5. ToHear => ToHear'
      BY <1>10, GotKeeps, <3>2 DEF Got, GotFinished, Answered
    <3>6. ~News /\ Cares /\ id
      BY <1>1, <2>2, <3>2, <3>5, StillQuiet DEF ToRead
    <3>7. /\ summary = version \/ \E k \in Load : Latest(load[k], "summary")
          /\ list = version \/ \E k \in Load : Listing(load[k])
          /\ ended => status = "finished"
      BY <3>6 DEF ShownInv
    <3>8. list' = version \/ \E k \in Load : k # l /\ Listing(load[k])
      BY <1>7, <1>8, <3>2, <3>7 DEF Listing, Latest
    <3>9. summary = version \/ \E k \in Load : k # l /\ Latest(load[k], "summary")
      BY <3>2, <3>7 DEF Latest
    <3> QED
      BY <1>1, <3>2, <3>4, <3>7, <3>8, <3>9 DEF Latest, Listing
  <2> QED
    BY <2>1, <2>2 DEF ShownInv
<1>11. CASE GotMore(l)
  <2>1. NoGameInv'
    BY <1>3, <1>11 DEF GotMore, Asked, EndLoad
  <2>2. ASSUME Cares', ~News', id'
        PROVE  /\ summary' = version' \/ \E k \in Load : Latest(load[k], "summary")'
               /\ list' = version' \/ \E k \in Load : Listing(load[k])'
               /\ ended' => status' = "finished"
    <3> DEFINE r == Idle
    <3>1. /\ load' = [load EXCEPT ![l] = r] /\ UNCHANGED view
          /\ load[l].step = "asked" /\ load[l].what = "more"
      BY <1>11 DEF GotMore, Asked, EndLoad
    <3> HIDE DEF r
    <3>2. \A k \in Load : load'[k] = IF k = l THEN r ELSE load[k]
      BY <1>2, <3>1
    <3>3. ToHear => ToHear'
      BY <1>11, GotKeeps, <3>1 DEF Got, GotFinished, Answered
    <3>4. ~News /\ Cares /\ id
      BY <1>1, <2>2, <3>1, <3>3, StillQuiet DEF ToRead
    <3> QED
      BY <1>1, <3>1, <3>2, <3>4 DEF ShownInv, Latest, Listing
  <2> QED
    BY <2>1, <2>2 DEF ShownInv
<1> QED
  BY <1>4, <1>5, <1>6, <1>9, <1>10, <1>11 DEF Got

LEMMA PageNews ==
  ASSUME LiveTypeOK, ChannelInv, LoadsInv, SeenInv, CutInv, ShownInv, NoGameInv, LiveNext,
         PageStep \/ \E c \in Conn : Heard(c)
  PROVE  ShownInv' /\ NoGameInv'
<1> USE DEF server, conns, flags, view, service
<1>1. ASSUME Refresh
      PROVE  ShownInv' /\ NoGameInv'
  <2> DEFINE r == Asks("current", TRUE)
  <2>1. PICK l \in Load : load' = [load EXCEPT ![l] = r]
    BY <1>1 DEF Refresh, Begins
  <2>2. r.step = "asked" /\ r.what = "current"
    BY DEF Asks
  <2> HIDE DEF r
  <2>3. load'[l] = r
    BY <2>1 DEF LiveTypeOK
  <2>4. News'
    BY <2>1, <2>2, Promising DEF ToRead
  <2> QED
    BY <2>2, <2>3, <2>4 DEF ShownInv, NoGameInv
\* nothing loaded, and nothing lost that was to be heard
<1>2. ASSUME UNCHANGED <<game, tasks, view, load>>, missed => missed', Cares' => Cares,
             ~missed' /\ ToHear => ToHear'
      PROVE  ShownInv' /\ NoGameInv'
  <2>1. ~missed' /\ News => News'
    BY <1>2 DEF News, tasks
  <2>2. Cares' /\ ~News' => Cares /\ ~News
    BY <1>2, <2>1 DEF Cares
  <2> QED
    BY <1>2, <2>2 DEF ShownInv, NoGameInv, Listing, Latest, game, shown
<1>3. CASE Show
  <2>1. CASE refreshing
    BY <1>2, <1>3, <2>1 DEF Show, ToHear, Cares, tasks
  <2> QED
    BY <1>1, <1>3, <2>1 DEF Show
<1>4. CASE PullDown
  BY <1>1, <1>4 DEF PullDown
<1>5. CASE Hide
  <2>1. CASE refreshing
    <3>1. ~ToHear
      BY <2>1 DEF ChannelInv, ToHear
    <3> QED
      BY <1>2, <1>5, <2>1, <3>1 DEF Hide, Cares
  <2>2. CASE ~refreshing
    BY <1>5, <2>2 DEF Hide, ShownInv, NoGameInv, Cares
  <2> QED
    BY <2>1, <2>2
<1>6. CASE NoticeClose
  <2>1. missed \/ ~ToHear
    BY <1>6 DEF NoticeClose, CutInv
  <2> QED
    BY <1>2, <1>6, <2>1 DEF NoticeClose, Cares
<1>7. CASE Reconnect
  <2>1. ~ToHear
    BY <1>7 DEF Reconnect, ChannelInv, ToHear
  <2> QED
    BY <1>2, <1>7, <2>1 DEF Reconnect, Cares
<1>8. ASSUME NEW c \in Conn, Heard(c)
      PROVE  ShownInv' /\ NoGameInv'
  <2>1. CASE c = channel
    <3> DEFINE r == Asks("summary", FALSE)
    <3>1. PICK l \in Load : load[l] = Idle /\ load' = [load EXCEPT ![l] = r]
      BY <1>8, <2>1 DEF Heard, Begins
    <3>2. News'
      BY <3>1, Promising, NewsAsked
    <3> HIDE DEF r
    <3>3. \A k \in Load : load[k].step = "asked" => load'[k] = load[k]
      BY <3>1 DEF LiveTypeOK, Idle
    <3> QED
      BY <1>8, <3>2, <3>3 DEF Heard, Write, ShownInv, NoGameInv, Cares, game
  <2>2. CASE c # channel
    <3>1. ToHear => ToHear'
      BY <1>8, <2>2 DEF Heard, Write, ToHear, tasks, LiveTypeOK, HubTypeOK
    <3> QED
      BY <1>2, <1>8, <2>2, <3>1 DEF Heard, Write, Cares
  <2> QED
    BY <2>1, <2>2
<1>9. ASSUME NEW l \in Load, Fail(l)
      PROVE  ShownInv' /\ NoGameInv'
  BY <1>9 DEF Fail, ShownInv, NoGameInv, Cares
<1>10. CASE LoadMore
  <2> DEFINE r == Asks("more", FALSE)
  <2>1. PICK l \in Load : load[l] = Idle /\ load' = [load EXCEPT ![l] = r]
    BY <1>10 DEF LoadMore, Begins
  <2> HIDE DEF r
  <2>2. \A k \in Load : k # l => load'[k] = load[k]
    BY <2>1 DEF LiveTypeOK
  <2>3. UNCHANGED <<game, tasks, view, channel, queue, left, visible, refreshing, missed>>
    BY <1>10 DEF LoadMore, tasks
  <2>4. ToHear => ToHear'
    BY <2>3 DEF ToHear
  <2>5. Cares' => Cares
    BY <2>3 DEF Cares
  <2>6. ~News' => ~News
    <3>1. ~ToRead(load[l])
      BY <2>1 DEF ToRead, Idle
    <3>2. UNCHANGED tasks
      BY <2>3
    <3> QED
      BY <2>1, <2>4, <3>1, <3>2, StillQuiet
  <2>7. load[l].step = "idle"
    BY <2>1 DEF Idle
  <2>8. NoGameInv'
    <3>1. \A k \in Load : load[k].step = "asked" => load'[k] = load[k]
      BY <2>2, <2>7
    <3> QED
      BY <2>3, <2>5, <3>1 DEF NoGameInv, game
  <2>9. ASSUME Cares', ~News', id'
        PROVE  /\ summary' = version' \/ \E k \in Load : Latest(load[k], "summary")'
               /\ list' = version' \/ \E k \in Load : Listing(load[k])'
               /\ ended' => status' = "finished"
    BY <2>2, <2>3, <2>5, <2>6, <2>7, <2>9 DEF ShownInv, Latest, Listing, game, shown
  <2> QED
    BY <2>8, <2>9 DEF ShownInv
<1> QED
  BY <1>1, <1>3, <1>4, <1>5, <1>6, <1>7, <1>8, <1>9, <1>10, ReadNews, GotNews DEF PageStep

-----------------------------------------------------------------------------
LEMMA NextInv == LiveInv /\ [LiveNext]_vars => LiveInv'
<1> SUFFICES ASSUME LiveInv, [LiveNext]_vars PROVE LiveInv'
  OBVIOUS
<1>1. CASE LiveNext
  <2>1. LiveTypeOK' /\ HubInv' /\ ChannelInv' /\ LoadsInv' /\ SeenInv' /\ CutInv'
    BY <1>1, TypeStep, HubStep, ChannelStep, LoadsStep, SeenStep, CutStep DEF LiveInv, NewsInv
  <2>2. ShownInv' /\ NoGameInv'
    BY <1>1, ServerStep, PageNews DEF LiveInv, NewsInv
  <2> QED
    BY <2>1, <2>2 DEF LiveInv, NewsInv
<1>2. CASE UNCHANGED vars
  BY <1>2 DEF vars, server, phone, game, tasks, hub, conns, flags, view, shown, service, LiveInv,
     LiveTypeOK, HubTypeOK, HubInv, ChannelInv, LoadsInv, LocksAreHeld, Refreshes, Lists, SeenInv,
     NewsInv, CutInv, ShownInv, NoGameInv, Cares, News, ToHear, Latest, Listing
<1> QED
  BY <1>1, <1>2

\* LiveInv holds in every state of the hub and the phone, also when a change is not
\* broadcast: unless something was missed, what the page does not show is still on
\* its way to it.
THEOREM LiveInvariance == LiveSpec => []LiveInv
BY InitInv, NextInv, PTL DEF LiveSpec

\* Every variable keeps its type; no queue grows beyond its size.
THEOREM LiveTypeCorrect == LiveSpec => []LiveTypeOK
<1>1. LiveInv => LiveTypeOK
  BY DEF LiveInv
<1> QED
  BY <1>1, LiveInvariance, PTL

\* A client in the room can be sent to and will be unregistered.
THEOREM RoomStaysLive == LiveSpec => []RoomIsLive
<1>1. LiveInv => RoomIsLive
  BY DEF LiveInv, HubInv, RoomIsLive
<1> QED
  BY <1>1, LiveInvariance, PTL

\* After Close nobody is in the room and no channel stays open.
THEOREM ShutdownIsComplete == LiveSpec => []ClosedHubIsEmpty
<1>1. LiveInv => ClosedHubIsEmpty
  BY DEF LiveInv, HubInv, ClosedHubIsEmpty
<1> QED
  BY <1>1, LiveInvariance, PTL

\* A hidden page keeps no connection and no timer.
THEOREM HiddenPagesLetGo == LiveSpec => []HiddenIsDisconnected
<1>1. LiveInv => HiddenIsDisconnected
  BY LiveAssumption DEF LiveInv, ChannelInv, HiddenIsDisconnected
<1> QED
  BY <1>1, LiveInvariance, PTL

\* The loading flags are set exactly as long as a load will reset them.
THEOREM LocksStayHeld == LiveSpec => []LocksAreHeld
<1>1. LiveInv => LocksAreHeld
  BY DEF LiveInv, LoadsInv
<1> QED
  BY <1>1, LiveInvariance, PTL

\* A page at rest shows the game as it is, unless one of the five things that
\* missed stands for has happened since its last refresh.
THEOREM PagesCatchUp == LiveSpec => []UpToDateAtRest
<1>1. LiveInv => UpToDateAtRest
  <2> SUFFICES ASSUME LiveInv, AtRest, ~missed
               PROVE  IF id THEN summary = version /\ list = version /\ (status = "finished" <=> ended)
                      ELSE ended
    BY DEF UpToDateAtRest
  <2>1. \A l \in Load : load[l].step = "idle"
    BY DEF AtRest, Idle
  <2>2. ~ToHear
    BY HubAssumption DEF AtRest, LiveInv, HubInv, ToHear
  <2>3. ~News
    BY <2>1, <2>2 DEF News, ToRead, AtRest
  <2>4. CASE id
    BY <2>1, <2>3, <2>4 DEF LiveInv, NewsInv, ShownInv, SeenInv, Cares, AtRest, Latest, Listing
  <2>5. CASE ~id
    BY <2>1, <2>5 DEF LiveInv, NewsInv, NoGameInv, Cares, AtRest
  <2> QED
    BY <2>4, <2>5
<1> QED
  BY <1>1, LiveInvariance, PTL
=============================================================================
