------------------------------ MODULE LiveGame ------------------------------
(***************************************************************************)
(* Live updates end to end: RealtimeHub composed with one phone, its       *)
(* RealtimeService and the home page, which loads the game again on every  *)
(* event.                                                                  *)
(*                                                                         *)
(* What a load reads is the number of changes of the moment (GameReads     *)
(* has the content).  A load asks for the current game (when it refreshes  *)
(* the page), the summary, and then the transfers or the settlement; each  *)
(* answer may take any time, so loads overlap.  The phone's user stays a   *)
(* member, and the game ends by a settlement (what the page makes of a     *)
(* voided game, which is not "finished", is not modelled).  At its lower   *)
(* end the page loads older transfers.  That leaves the newest ones alone, *)
(* and they are what list is about, but while it runs the transfers are    *)
(* not reloaded.                                                           *)
(*                                                                         *)
(* missed is a history variable: since its last refresh, something has     *)
(* happened that can leave the page behind the game.  A change was not     *)
(* broadcast, a notification did not reach the page, a reload of the       *)
(* transfers was skipped, an old answer overtook a newer one, or a request *)
(* failed.  No action depends on it.                                       *)
(***************************************************************************)
EXTENDS RealtimeHub

CONSTANTS
  Load,   \* loads of the page; their number bounds those in flight
  None    \* no connection

ASSUME LiveAssumption == None \notin Conn

VARIABLES
  visible,     \* the page is shown
  refreshing,  \* the page's loading: a refreshHome is in progress
  id,          \* the page has a current game (its id)
  status,      \* game.status
  summary,     \* the change up to which scores and participants are shown
  list,        \* the change up to which transfers are shown
  listLoads,   \* isLoadingTransfers
  load,        \* the loads in flight
  channel,     \* the RealtimeService's socket
  timer,       \* reconnectTimer is set
  missed

shown == <<status, summary, list>>
view == <<id, shown>>
service == <<channel, timer>>
flags == <<visible, refreshing>>
phone == <<flags, view, listLoads, load, service, missed>>
vars == <<server, phone>>

Idle == [step |-> "idle"]

\* A request of a load is on its way, or its answer is: it saw change v.
Asks(what, refresh) == [step |-> "asked", what |-> what, refresh |-> refresh]
Answers(l) == [step |-> "answered", what |-> load[l].what, refresh |-> load[l].refresh,
               v |-> version, over |-> ended]

Requests == [step : {"asked"}, what : {"current", "summary", "list", "detail", "more"},
             refresh : BOOLEAN]
Replies == [step : {"answered"}, what : {"summary", "list"}, refresh : BOOLEAN,
            v : 0..MaxVersion, over : BOOLEAN]

\* Every variable has its type.
LiveTypeOK ==
  /\ HubTypeOK
  /\ {visible, refreshing, id, listLoads, timer, missed} \subseteq BOOLEAN
  /\ status \in {"active", "finished"}
  /\ summary \in 0..MaxVersion /\ list \in 0..MaxVersion
  /\ load \in [Load -> {Idle} \union Requests \union Replies]
  /\ channel \in Conn \union {None}

LiveInit ==
  /\ HubInit
  /\ visible = FALSE /\ refreshing = FALSE /\ id = FALSE
  /\ status = "active" /\ summary = 0 /\ list = 0 /\ listLoads = FALSE
  /\ load = [l \in Load |-> Idle]
  /\ channel = None /\ timer = FALSE
  /\ missed = FALSE

-----------------------------------------------------------------------------
(***************************************************************************)
(* RealtimeService.                                                        *)
(***************************************************************************)
Closed(c) == socket' = IF c = None THEN socket ELSE [socket EXCEPT ![c] = "none"]

Disconnect == Closed(channel) /\ channel' = None /\ timer' = FALSE

\* connect: a new socket
Connects ==
  /\ \E c \in Conn :
       Free(c) /\ socket' = [socket EXCEPT ![c] = "requested"] /\ channel' = c
  /\ timer' = FALSE

\* A load begins with this request.
Begins(request) ==
  \E l \in Load : load[l] = Idle /\ load' = [load EXCEPT ![l] = request]

\* A mistake that code like this invites: an event while the page is loading is
\* skipped.
HeardWhenIdle(c) ==
  /\ Write(c)
  /\ IF c = channel /\ \A l \in Load : load[l] = Idle
     THEN Begins(Asks("summary", FALSE))
     ELSE UNCHANGED load
  /\ UNCHANGED <<flags, view, listLoads, service, missed>>

\* onMessage of the current socket: loadGameData
Heard(c) ==
  /\ Write(c)
  /\ IF c = channel
     THEN Begins(Asks("summary", FALSE))
     ELSE UNCHANGED load
  /\ UNCHANGED <<flags, view, listLoads, service, missed>>

\* onClose or onError, when it is noticed: scheduleReconnect
NoticeClose ==
  /\ channel # None /\ socket[channel] = "none"
  /\ channel' = None /\ timer' = TRUE
  /\ UNCHANGED <<server, flags, view, listLoads, load, missed>>

\* 1.5 s later: connect, and nothing is loaded again
Reconnect ==
  /\ timer
  /\ Connects
  /\ UNCHANGED <<game, tasks, hub, queue, serving, flags, view, listLoads, load, missed>>

-----------------------------------------------------------------------------
(***************************************************************************)
(* The home page.                                                          *)
(***************************************************************************)
\* refreshHome from its call to the request for the current game
Refresh ==
  /\ Begins(Asks("current", TRUE))
  /\ refreshing' = TRUE /\ missed' = FALSE
  /\ Disconnect
  /\ UNCHANGED <<game, tasks, hub, queue, serving, id, shown, listLoads>>

\* onShow; a refresh still running is not repeated, although it may have read
\* the game before: then the page may have missed what happened meanwhile.
Show ==
  /\ ~visible /\ visible' = TRUE
  /\ IF refreshing THEN UNCHANGED <<server, refreshing, view, listLoads, load, service, missed>>
     ELSE Refresh

PullDown == visible /\ ~refreshing /\ Refresh /\ UNCHANGED visible

Hide ==
  /\ visible /\ visible' = FALSE
  /\ Disconnect
  /\ UNCHANGED <<game, tasks, hub, queue, serving, refreshing, view, listLoads, load, missed>>

\* onReachBottom of a page that is not loading: loadTransfers takes the next page
\* of older transfers, if there are more.  (A page whose last refresh failed does
\* not; here it may.)
LoadMore ==
  /\ visible /\ ~refreshing /\ id /\ status = "active" /\ ~listLoads
  /\ Begins(Asks("more", FALSE)) /\ listLoads' = TRUE
  /\ UNCHANGED <<server, flags, view, service, missed>>

-----------------------------------------------------------------------------
(***************************************************************************)
(* A load.                                                                 *)
(***************************************************************************)
\* The server reads the game for the request of the load, and answers.  For
\* the current game and the settlement, reading and showing are one step: of the
\* current game only its end matters, and the settlement of a game is final.
Read(l) ==
  /\ load[l].step = "asked" /\ load[l].what \in {"summary", "list"}
  /\ load' = [load EXCEPT ![l] = Answers(l)]
  /\ UNCHANGED <<server, flags, view, listLoads, service, missed>>

Asked(l, what) == load[l].step = "asked" /\ load[l].what = what
Answered(l, what) == load[l].step = "answered" /\ load[l].what = what
GoOn(l, what) == load' = [load EXCEPT ![l] = Asks(what, load[l].refresh)]

\* What the answer replaces is newer than the answer.
Overtaken(l, shownChange) == load[l].v < shownChange

\* Mistakes that code like this invites: the page connects although it has been
\* hidden; loading is reset only when all went well.
EndLoadAnyway(l, ok, now) ==
  /\ load' = [load EXCEPT ![l] = Idle]
  /\ IF ~load[l].refresh THEN UNCHANGED <<refreshing, service, socket>>
     ELSE /\ refreshing' = FALSE
          /\ IF ok /\ id' /\ now = "active"
             THEN Connects
             ELSE UNCHANGED <<service, socket>>
EndLoadIfOk(l, ok, now) ==
  /\ load' = [load EXCEPT ![l] = Idle]
  /\ IF ~load[l].refresh THEN UNCHANGED <<refreshing, service, socket>>
     ELSE /\ refreshing' = ~ok
          /\ IF ok /\ visible /\ id' /\ now = "active"
             THEN Connects
             ELSE UNCHANGED <<service, socket>>

\* The load is over; now is the status the page shows.  A refresh that
\* succeeded connects if the page is visible and its game is active.
EndLoad(l, ok, now) ==
  /\ load' = [load EXCEPT ![l] = Idle]
  /\ IF ~load[l].refresh THEN UNCHANGED <<refreshing, service, socket>>
     ELSE /\ refreshing' = FALSE
          /\ IF ok /\ visible /\ id' /\ now = "active"
             THEN Connects
             ELSE UNCHANGED <<service, socket>>

HubRest == UNCHANGED <<game, tasks, hub, queue, serving>>

\* getCurrentGame: null once the game has ended, the page then shows no game
GotCurrent(l) ==
  /\ Asked(l, "current")
  /\ id' = ~ended
  /\ IF ended THEN EndLoad(l, TRUE, status)
     ELSE GoOn(l, "summary") /\ UNCHANGED <<refreshing, service, socket>>
  /\ HubRest /\ UNCHANGED <<visible, shown, listLoads, missed>>

\* The summary of an active game: it is shown, and the transfers are reloaded
\* unless a load of them is in progress, older ones or the newest.
GotActive(l) ==
  /\ Answered(l, "summary") /\ ~load[l].over
  /\ status' = "active" /\ summary' = load[l].v
  /\ HubRest /\ UNCHANGED <<visible, id, list>>
  /\ IF listLoads
     THEN /\ missed' = TRUE
          /\ EndLoad(l, TRUE, "active") /\ UNCHANGED listLoads
     ELSE /\ missed' = (missed \/ Overtaken(l, summary))
          /\ GoOn(l, "list") /\ listLoads' = TRUE
          /\ UNCHANGED <<refreshing, service, socket>>

\* The summary of a finished game: disconnect, and ask for the settlement.
GotFinished(l) ==
  /\ Answered(l, "summary") /\ load[l].over
  /\ Disconnect
  /\ GoOn(l, "detail")
  /\ HubRest /\ UNCHANGED <<flags, view, listLoads, missed>>

GotList(l) ==
  /\ Answered(l, "list")
  /\ list' = load[l].v /\ listLoads' = FALSE
  /\ missed' = (missed \/ Overtaken(l, list))
  /\ HubRest /\ UNCHANGED <<visible, id, status, summary>>
  /\ EndLoad(l, TRUE, status)

\* The older transfers are appended, or could not be loaded.
GotMore(l) ==
  /\ Asked(l, "more")
  /\ listLoads' = FALSE
  /\ HubRest /\ UNCHANGED <<visible, view, missed>>
  /\ EndLoad(l, TRUE, status)

GotDetail(l) ==
  /\ Asked(l, "detail")
  /\ status' = "finished" /\ summary' = version /\ list' = version
  /\ HubRest /\ UNCHANGED <<visible, id, listLoads, missed>>
  /\ EndLoad(l, TRUE, "finished")

\* Another request fails, or its answer is lost.  Failing transfers and settlements
\* are caught where they are loaded: the load counts as done.
Fail(l) ==
  /\ load[l] # Idle /\ ~Asked(l, "more")
  /\ missed' = TRUE
  /\ listLoads' = (listLoads /\ load[l].what # "list")
  /\ HubRest /\ UNCHANGED <<visible, id, shown>>
  /\ EndLoad(l, load[l].what \in {"list", "detail"}, status)

-----------------------------------------------------------------------------
(***************************************************************************)
(* Steps of the server, and what the page misses by them.                  *)
(***************************************************************************)
\* Events on their way to the page's socket are lost.
Undelivered == channel # None /\ (queue[channel] > 0 \/ \E t \in Task : channel \in left[t])
Unheard(lost) == missed' = (missed \/ lost)

PhoneRest == UNCHANGED <<flags, view, listLoads, load, service>>

\* Who is in the room but has been cut does not hear either.
Copies(t) ==
  /\ CopyClients(t) /\ PhoneRest
  /\ Unheard(channel \notin room \/ socket[channel] # "open")

Unannounced(t) == NoBroadcast(t) /\ PhoneRest /\ Unheard(TRUE)

Sends(t) ==
  /\ \E c \in left[t] :
       \/ SendEvent(t, c) /\ Unheard(FALSE)
       \/ SendFull(t, c) /\ Unheard(c = channel)
       \/ SendPanics(t, c) /\ Unheard(channel \in left[t])
  /\ PhoneRest

Cuts(c) == socket[c] # "none" /\ Cut(c) /\ Unheard(c = channel /\ Undelivered) /\ PhoneRest

Stops ==
  /\ \/ CloseHub /\ Unheard(Undelivered)
     \/ Restart /\ Unheard(Undelivered \/ \E t \in Task : task[t] # "idle")
  /\ PhoneRest

LoopsEnds(c) == LoopsEnd(c) /\ PhoneRest /\ UNCHANGED missed

Serves == (\E t \in Task : Commit(t)) \/ (\E c \in Conn : Connect(c))

Got(l) == GotCurrent(l) \/ GotActive(l) \/ GotFinished(l) \/ GotList(l) \/ GotMore(l)
          \/ GotDetail(l)

LiveNext ==
  \/ Show \/ PullDown \/ Hide \/ LoadMore \/ NoticeClose \/ Reconnect
  \/ \E l \in Load : Read(l) \/ Got(l) \/ Fail(l)
  \/ \E c \in Conn : Heard(c) \/ Cuts(c) \/ LoopsEnds(c)
  \/ \E t \in Task : Copies(t) \/ Unannounced(t) \/ Sends(t)
  \/ Stops
  \/ Serves /\ PhoneRest /\ UNCHANGED missed

LiveSpec == LiveInit /\ [][LiveNext]_vars

-----------------------------------------------------------------------------
(***************************************************************************)
(* Properties.                                                             *)
(***************************************************************************)

\* game-scoring.md:335: a hidden page keeps no connection and no reconnect
\* timer, although a refresh may finish and a timer may be due after onHide.
HiddenIsDisconnected ==
  ~visible => channel = None /\ ~timer /\ \A c \in Conn : socket[c] = "none"

\* Nothing more happens to the page unless somebody acts.
AtRest ==
  /\ visible
  /\ \A l \in Load : load[l] = Idle
  /\ \A t \in Task : task[t] = "idle"
  /\ channel # None => queue[channel] = 0

\* game-scoring.md:326-332 promises more than the code keeps: a page at rest shows
\* the game as it is, the scores and the newest transfers alike, unless since its
\* last refresh a change was not broadcast, a notification did not reach it, a
\* reload of the transfers was skipped, an old answer overtook a newer one, or a
\* request failed: there is no sixth way to stay behind.
UpToDateAtRest ==
  AtRest /\ ~missed =>
    IF id THEN summary = version /\ list = version /\ (status = "finished" <=> ended) ELSE ended

\* A flag that makes the page refuse a refresh, or a load of transfers, is set as
\* long as a load in flight will reset it and no longer, whatever fails.
LocksAreHeld ==
  /\ refreshing <=> \E l \in Load : load[l] # Idle /\ load[l].refresh
  /\ listLoads <=> \E l \in Load : load[l] # Idle /\ load[l].what \in {"list", "more"}
=============================================================================
