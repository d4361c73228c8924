----------------------------- MODULE GameReads -----------------------------
(***************************************************************************)
(* What a member's phone reads of a game while GameSession goes on: the    *)
(* summary, the pages of transfers with the balances replayed from the     *)
(* ledger, and the settlement; and the list of transfers the page builds.  *)
(*                                                                         *)
(* A query is several statements outside a transaction: requests commit    *)
(* between them, so an answer can mix states.  read holds one answer as it *)
(* is put together; list is what the page shows.                           *)
(*                                                                         *)
(* Only the loads of the list exclude one another (isLoadingTransfers).  A *)
(* summary or a settlement is asked for and arrives whenever it likes,     *)
(* also while a load is in flight: what the page does with one             *)
(* (ShowActive, ShowSettlement) is a step on its own, and a query of these *)
(* kinds in read shows what its answer says.  The summary's statement for  *)
(* a pending finish request, before the one for the round, is left out:    *)
(* Settlement has those requests.  The page is of one game.                *)
(***************************************************************************)
EXTENDS GameSession

CONSTANT PageSize   \* the limit of one page of transfers
ASSUME PageAssumption == PageSize \in Nat \ {0}

VARIABLES
  read,      \* the query in progress
  list,      \* sequence numbers of the transfers on the page, newest first
  more,      \* hasMoreTransfers
  expanded,  \* showAllTransfers
  settled    \* the page shows the settlement (its game.status is "finished")

phone == <<list, more, expanded, settled>>

-----------------------------------------------------------------------------
(***************************************************************************)
(* projectTransferHistory: the balances after each of the first n entries, *)
(* by replaying them from the start.                                       *)
(***************************************************************************)
\* a reversal is replayed like the transfer it repeats
DeltaUnsigned(t, u) ==
  IF u = t.from THEN -(t.amt * Cardinality(t.rcv)) ELSE IF u \in t.rcv THEN t.amt ELSE 0

Delta(t, u) ==
  LET sign == IF t.kind = "reversal" THEN -1 ELSE 1 IN
  IF u = t.from THEN -(sign * t.amt * Cardinality(t.rcv))
  ELSE IF u \in t.rcv THEN sign * t.amt ELSE 0

Replayed(n) ==
  LET balance[i \in 0..n] ==
        [u \in User |-> IF i = 0 THEN 0 ELSE balance[i - 1][u] + Delta(ledger[i], u)]
  IN balance[n]

(***************************************************************************)
(* What the queries compute from the final scores.                         *)
(***************************************************************************)
Players == {u \in User : order[u] > 0}

\* ListHistoricalPlayersForUser: total_score DESC, joined_order ASC
Precedes(u, v) == score[u] > score[v] \/ (score[u] = score[v] /\ order[u] < order[v])

\* History's loop over the players in joined_order.
WinnerLast ==
  LET best[i \in 1..Cardinality(Players)] ==
        LET u == CHOOSE p \in Players : order[p] = i IN
        IF i = 1 THEN u ELSE IF score[u] >= score[best[i - 1]] THEN u ELSE best[i - 1]
  IN best[Cardinality(Players)]

Winner ==
  LET best[i \in 1..Cardinality(Players)] ==
        LET u == CHOOSE p \in Players : order[p] = i IN
        IF i = 1 THEN u ELSE IF score[u] > score[best[i - 1]] THEN u ELSE best[i - 1]
  IN best[Cardinality(Players)]

\* Performance: a win is a positive final score tied for the highest.
Wins(u) == score[u] > 0 /\ \A v \in Players : score[v] <= score[u]

-----------------------------------------------------------------------------
(***************************************************************************)
(* The statements of each query, in order, and what an answer consists of. *)
(***************************************************************************)
\* the players are read before the game, or the ledger before the page
StatementsPlayersFirst(kind) ==
  CASE kind = "summary" -> <<"players", "game", "round", "parts">>
    [] kind = "list"    -> <<"page", "players", "replay">>
    [] kind = "detail"  -> <<"game", "players", "page", "replay">>
    [] OTHER            -> <<>>
StatementsReplayFirst(kind) ==
  CASE kind = "summary" -> <<"game", "players", "round", "parts">>
    [] kind = "list"    -> <<"replay", "page", "players">>
    [] kind = "detail"  -> <<"game", "players", "page", "replay">>
    [] OTHER            -> <<>>

Statements(kind) ==
  CASE kind = "summary" -> <<"game", "players", "round", "parts">>
    [] kind = "list"    -> <<"page", "players", "replay">>
    [] kind = "detail"  -> <<"game", "players", "page", "replay">>
    [] OTHER            -> <<>>

NoRead == [kind |-> "none", done |-> 0, count |-> 0, people |-> <<>>, batch |-> <<>>,
           replayed |-> 0, round |-> 0, pending |-> {},
           reload |-> FALSE, before |-> 0, oldest |-> 0, rows |-> <<>>]

Query(kind) == [NoRead EXCEPT !.kind = kind]

Due(statement) ==
  LET s == Statements(read.kind) IN read.done < Len(s) /\ s[read.done + 1] = statement
Answered == read.kind # "none" /\ read.done = Len(Statements(read.kind))

\* the next statement of the query has been executed, with this result
Got(r) == read' = [r EXCEPT !.done = @ + 1] /\ UNCHANGED <<phone, vars>>

\* sequence_no < before (no bound if before is 0), newest first, at most PageSize
PageUnbounded(before) ==
  LET top == IF before = 0 THEN Len(ledger) ELSE before - 1
  IN [k \in 1..PageSize |-> top + 1 - k]
PageByOffset(before) ==
  LET top == IF before = 0 THEN Len(ledger) ELSE Max({0, Len(ledger) - Len(list)})
  IN [k \in 1..Min({PageSize, top}) |-> top + 1 - k]

Page(before) ==
  LET top == IF before = 0 THEN Len(ledger) ELSE before - 1
  IN [k \in 1..Min({PageSize, top}) |-> top + 1 - k]

-----------------------------------------------------------------------------
\* The summary takes any game, the settlement only a finished one.
ReadGameAny ==
  /\ Due("game")
  /\ Got([read EXCEPT !.count = Len(ledger)])

ReadGame ==
  /\ Due("game")
  /\ read.kind = "detail" => status = "finished"
  /\ Got([read EXCEPT !.count = Len(ledger)])

\* ListActivePlayers for the summary, ListHistoricalPlayers(ForUser) otherwise
ReadPlayers ==
  /\ Due("players")
  /\ LET shown == IF read.kind = "summary" THEN active ELSE Players
     IN Got([read EXCEPT !.people = [u \in shown |-> score[u]]])

ReadPage == Due("page") /\ Got([read EXCEPT !.batch = Page(read.before)])

ReadLedger == Due("replay") /\ Got([read EXCEPT !.replayed = Len(ledger)])

\* GetLatestRoundCycle, then the rows of that round
ReadRound == Due("round") /\ Got([read EXCEPT !.round = Len(rounds)])

ReadParts ==
  /\ Due("parts")
  /\ Got([read EXCEPT !.pending = {u \in User : rounds[read.round].part[u] = "pending"}])

-----------------------------------------------------------------------------
(***************************************************************************)
(* The phone.  A reload starts at the newest entry and, when the list is   *)
(* expanded, goes on to the oldest one shown; otherwise a load continues   *)
(* after the last entry of the list.                                       *)
(***************************************************************************)
Oldest(s) == IF s = <<>> THEN 0 ELSE s[Len(s)]

Ask(kind) ==
  /\ read = NoRead
  /\ read' = Query(kind)
  /\ UNCHANGED <<phone, vars>>

\* The first page of a load.
Load(reload) ==
  [Query("list") EXCEPT !.reload = reload,
     !.before = IF reload THEN 0 ELSE Oldest(list),
     !.oldest = IF reload /\ expanded THEN Oldest(list) ELSE 0]

\* onReachBottom
LoadMore ==
  /\ ~settled /\ more
  /\ read = NoRead
  /\ read' = Load(FALSE)
  /\ UNCHANGED <<phone, vars>>

\* loadGameData with the summary of a game that is not finished, read at any
\* earlier time: the page is active again, and the list is loaded again unless a
\* load is in flight.  (A summary or settlement in read has the place of the
\* reload: the step comes when it has gone.)
ShowActive ==
  /\ read.kind \in {"none", "list"}
  /\ settled' = FALSE /\ more' = TRUE
  /\ read' = IF read = NoRead THEN Load(TRUE) ELSE read
  /\ UNCHANGED <<list, expanded, vars>>

\* loadSettledGame shows the first page, whatever load is in flight.
ShowSettlement ==
  /\ status = "finished"
  /\ list' = Page(0) /\ more' = FALSE /\ expanded' = TRUE /\ settled' = TRUE
  /\ UNCHANGED <<read, vars>>

FullPage == Len(read.batch) = PageSize

GoesOnNever == FALSE
GoesOn == FullPage /\ read.oldest # 0 /\ Oldest(read.batch) > read.oldest

NextPage ==
  /\ Answered /\ read.kind = "list" /\ GoesOn
  /\ read' = [Query("list") EXCEPT !.reload = TRUE, !.oldest = read.oldest,
                !.before = Oldest(read.batch), !.rows = read.rows \o read.batch]
  /\ UNCHANGED <<phone, vars>>

\* The rows of a load that continues the list are put behind what it is now.
ShowList ==
  /\ Answered /\ read.kind = "list" /\ ~GoesOn
  /\ list' = IF read.reload THEN read.rows \o read.batch ELSE list \o read.batch
  /\ more' = FullPage
  /\ read' = NoRead
  /\ UNCHANGED <<expanded, settled, vars>>

\* toggleTransfers
Toggle == expanded' = ~expanded /\ UNCHANGED <<read, list, more, settled, vars>>

\* A query has failed or its answer is lost, or one that is not for the list is over.
EndRead ==
  /\ read # NoRead
  /\ read' = NoRead
  /\ UNCHANGED <<phone, vars>>

ReadsInit ==
  /\ Init
  /\ read = NoRead /\ list = <<>> /\ more = TRUE /\ expanded = FALSE /\ settled = FALSE

Phone ==
  \/ Ask("summary") \/ Ask("detail")
  \/ LoadMore \/ ShowActive \/ ShowSettlement
  \/ NextPage \/ ShowList \/ EndRead \/ Toggle

Reader ==
  \/ ReadGame \/ ReadPlayers \/ ReadPage \/ ReadLedger \/ ReadRound \/ ReadParts

ReadsNext ==
  \/ Phone \/ Reader
  \/ Next /\ UNCHANGED <<read, phone>>

ReadsSpec == ReadsInit /\ [][ReadsNext]_<<vars, read, phone>>

-----------------------------------------------------------------------------
(***************************************************************************)
(* Properties.  The first two and SummaryOfOneMoment rest on scores that   *)
(* agree with the ledger: they are checked with one request at a time      *)
(* (zero_sum shows how two break it).                                      *)
(***************************************************************************)

\* Every list, page and answer consists of entries of the ledger and of players.
ReadsTypeOK ==
  /\ list \in Seq(DOMAIN ledger) /\ read.batch \in Seq(DOMAIN ledger)
  /\ read.rows \in Seq(DOMAIN ledger)
  /\ more \in BOOLEAN /\ settled \in BOOLEAN /\ expanded \in BOOLEAN /\ read.reload \in BOOLEAN
  /\ read.kind \in {"none", "summary", "list", "detail"}
  /\ {read.before, read.oldest, read.count, read.replayed} \subseteq 0..Len(ledger)
  /\ read.round \in 0..Len(rounds) /\ read.pending \subseteq User
  /\ DOMAIN read.people \subseteq User

\* total_score is updated row by row and reset by a rejoin; the history is
\* replayed from the ledger alone: the two always come to the same.
ReplayAgreesWithScores == \A u \in User : order[u] > 0 => Replayed(Len(ledger))[u] = score[u]

\* The history names as winner whoever the settlement lists first, and counts a
\* win for that player, and for those with the same score, if it is positive.
WinnerLeadsSettlement ==
  /\ \A u \in Players \ {Winner} : Precedes(Winner, u)
  /\ \A u \in Players : Wins(u) <=> score[u] > 0 /\ score[u] = score[Winner]

\* A settlement's final scores are the balances after its last entry, although
\* they are read by two statements.
SettlementIsExplained ==
  Answered /\ read.kind = "detail" =>
    \A u \in DOMAIN read.people : read.people[u] = Replayed(read.replayed)[u]

\* Every row of an answer was replayed, and everyone it names was read: a
\* transfer that commits between the statements, of a player who has just
\* joined, leaves no row without its balances or names.
RowsAreExplained ==
  Answered /\ read.kind \in {"list", "detail"} =>
    \A k \in DOMAIN read.batch :
      LET t == ledger[read.batch[k]] IN
      /\ read.batch[k] <= read.replayed
      /\ {t.by, t.from} \union t.rcv \subseteq DOMAIN read.people

\* A summary may be torn, but its scores are those of one moment, not earlier
\* than the transfer count it says: a count is never ahead of the scores.
SummaryOfOneMoment ==
  Answered /\ read.kind = "summary" =>
    \E n \in read.count..Len(ledger) :
      \A u \in DOMAIN read.people : read.people[u] = Replayed(n)[u]

\* An entry follows the one before it.
NoGap(s) == \A k \in 1..Len(s) - 1 : s[k + 1] = s[k] - 1

\* However many transfers arrive while a load reads its pages, a reload leaves a
\* list without gap or repetition, and so does a load that continues the list, if
\* the list was such and still ends where the load began; it says "no more" only
\* when it ends at the first entry.
LoadsLeaveNoGap ==
  [][/\ read.kind = "list" /\ read' = NoRead /\ list' # list
     /\ read.reload \/ (NoGap(list) /\ Oldest(list) = read.before)
     => NoGap(list') /\ (list' # <<>> /\ ~more' => Oldest(list') = 1)]_<<list, read, more>>

\* game-scoring.md:192: a refresh of an expanded list keeps the range it showed,
\* also when a settlement has taken the list's place meanwhile.
RefreshKeepsRange ==
  [][read.oldest # 0 /\ read' = NoRead /\ list' # list
       => list' # <<>> /\ Oldest(list') <= read.oldest]_<<list, read>>

\* The list is whole and, unless it is a settlement, of which the page loads the
\* first page alone (game-scoring.md:386), says "no more" only at the first entry.
\* It need not be: a load that continues the list puts its rows behind the
\* settlement that has taken the list's place (page.ts:696).
ListHasNoGaps ==
  /\ NoGap(list)
  /\ list # <<>> /\ ~more /\ ~settled => Oldest(list) = 1

\* Only ShowSettlement changes a list while a load that continues it is in flight.
LoadingMore == read.kind = "list" /\ ~read.reload
UndisturbedLoads == [][LoadingMore /\ list' # list => read' = NoRead]_<<list, read>>
=============================================================================
