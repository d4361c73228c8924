# 1round: a verification development

1round ("OneRound") keeps the score of card games. A Go server
(`src/apps/server`) with one SQLite database serves a WeChat mini-program
(`src/apps/miniprogram`) over HTTP and tells connected pages over WebSocket that
something changed. This directory holds TLA+ modules translated from that code,
the TLC configurations that check them, and proofs checked by TLAPS.

## 1. The system

### Inventory

| Part | State it keeps | Operations | What makes it correct |
|---|---|---|---|
| Game membership (`app/game`, `app/player`) | `game_sessions`, `game_members`, `players` (active, joined_order, total_score) | Create, Join (new or return), Leave, UpdateMyProfile (`Add` is routed nowhere) | capacity, one owner who plays, one player row per user, unique names, one current game per user, leave only at score 0 |
| Score transfers (`app/scoretransfer`) | `score_transfers`, receivers, `total_score`, counters of the game | Submit, Reverse | one entry per idempotency key, true answers, a transfer reversed once, scores agree with the ledger and add up to 0, nothing after the end |
| Round cycle (`app/roundcycle`) | `round_cycles`, `round_participation_statuses` | EnsureActiveRound, MarkParticipantsSatisfied, ReopenFromReversal, the rows of Join and Leave | at most one active round, nobody who left is waited for, a satisfied row is backed by a live transfer |
| Settlement (`app/settlement`, `app/scheduler`) | status, settled_at, share token, `finish_requests` | FinishDirect, RequestFinish, Approve, Reject, SettleInactiveGames | one end, one link, one pending request, decisions are final, only unscored games are voided, the first end stands, forgotten games end |
| Accounts (`app/auth`) | `users` (open_id, display_name) | Login, default name; tokens | one row per openid, a default name for whoever has none |
| Queries (`app/query`) | none | Summary, ListScoreTransfers, History, SettlementDetail, Performance, ranking | pages neither skip nor repeat, the replayed ledger agrees with the scores, an answer of several statements is not torn where it matters |
| Realtime hub (`realtime`, `websocket_handler.go`) | rooms, clients and their queues, closed flag | Register, Unregister, BroadcastToGame, Close, read and write loops | who is in a room can be sent to, nothing is left after Close |
| Store (`infra/sqlite`) | the one connection | statements, `InTx` | a transaction runs alone and all or nothing |
| WeChat, config, HTTP API, middleware | none that actors share | decode, call one service, encode | (not modelled) |
| Mini-program realtime client and home page | the socket, the reconnect timer, the loaded game, loads in flight | onShow, onHide, pull-down, connect, reconnect, overlapping loads | a page at rest shows the game as it is or one of five things happened, a hidden page keeps no connection, no load lock is left behind |
| Mini-program lists (game page, history page) | the rows shown, their cursor, hasMore | load more, reload an expanded list | no gap, no repetition |
| Mini-program score input and join | the form, an idempotency key per press | submit, retry | (not modelled) |

### How the parts interact

An HTTP handler calls one service method. The method reads (each read a
statement of its own), decides, and then runs one transaction or one statement;
after the commit it broadcasts an event through the hub. The database has one
connection (`db.SetMaxOpenConns(1)`, `infra/sqlite/db.go:22`), so statements and
transactions never overlap, but requests of several users, repeated requests of
one user and the scheduler interleave *between* the reads and the transaction.
Round-cycle operations always run inside a caller's transaction. A query is
several statements without a transaction, so requests commit between them.
The broadcast copies the clients of the game's room and sends to them after
unlocking. A page looks at no field of an event: it loads the game again.

### Hard behaviours

* What a handler read is stale when its transaction runs: `Leave`
  (`player/service.go:148-182`) rechecks only that the player is active;
  `Submit`, `Reverse` and `Join` recheck more; `Approve` and `Reject` do not
  reread the request.
* Requests are repeated by clients that got no answer, and may overlap.
* Rounds are reopened by reversals long after other people joined or left.
* The server may stop between the reads and the transaction, or between the
  commit and the answer.
* The scheduler acts on a list it made earlier.
* Create and Join look for another current game, and Join and UpdateMyProfile for
  a taken name, before their transactions; two logins of one account may overlap.
* An answer can mix states: the summary, the list and the settlement are made of
  statements between which requests commit, and pages are asked for while the
  ledger grows.
* The hub sends to clients that were unregistered meanwhile; a queue may be full;
  Close runs while clients register, leave and are sent to.
* Loads of a page overlap and finish in any order, also after the page was
  hidden; connections are cut with events in them.

`PROJECT.json` lists each hazard at its line with the properties that cover it,
or the reason why none does.

## 2. Modules

| Module | What it is |
|---|---|
| `RoundCycle` | pure operators from round tables to round tables; one operator per round operation |
| `GameSession` | one game under concurrent requests: Create (`Init`), Submit, Reverse, Join, Leave, Finish, auto settlement, rollback, restart; its properties and its inductive invariant `IInv` |
| `ScoreBook` | the abstract score sheet: write, strike out once, close |
| `Settlement` | how one game ends: finish requests, the owner, the last to leave, the scheduler with a clock |
| `CurrentGame` | accounts and several games: Login, Create, Join, UpdateMyProfile, Leave; names and the one current game |
| `GameReads` | extends `GameSession` with a reader: the queries statement by statement, and the list of transfers a phone builds from their pages |
| `History` | the pages of a user's settled games, with times as texts, and the page that scrolls through them |
| `RealtimeHub` | the hub's room of one game, its connections, the goroutines that commit and broadcast, Close and a restart |
| `LiveGame` | extends `RealtimeHub` with a phone: the RealtimeService and the home page with its overlapping loads |
| `MCGameSession`, `MCSettlement`, `MCCurrentGame`, `MCGameReads`, `MCHistory`, `MCLiveGame` | model values and symmetry sets for TLC |
| `DataLemmas` | facts the proofs cite: least counterexamples, finite sets, sequences, and sums over finite sets |
| `RoundCycleProofs` | what each round operator preserves |
| `GameSessionProofs` | the theorems about `GameSession`, and the refinement of `ScoreBook` |
| `ScoreProofs` | the theorems about the scores of `GameSession`: the ledger they follow, their sum, and what keeps it |
| `SettlementProofs`, `CurrentGameProofs`, `GameReadsProofs`, `LiveGameProofs` | the theorems about the module each is named for |

**State and code in `GameSession`.** `status`, `owner` and `share` are columns
of `game_sessions` (`share` counts the tokens written); `role` is
`game_members.role`; `order`, `active` and `score` are columns of `players`;
`ledger` is `score_transfers` with its receivers in order of `sequence_no`;
`rounds` is the two round tables. `req[h]` is the local state of the goroutine
that serves a request: which handler, its arguments, and *only those reads that
its transaction uses later*. A handler is two or three actions: `XCall` (the
reads and checks before the transaction), sometimes a further read
(`JoinLookup`, `LeaveCheck`), and `XTx` (the whole transaction). `XValid` is
what the transaction checks itself, statements that fail included (`UPDATE ...
WHERE active = 1` with no row, unique indexes); when it does not hold the
request can only take `Rollback`. A request refused before its transaction
changes nothing and is simply not a step. `Restart` drops every request.

Reads that a transaction repeats are merged into one action; reads whose result
is used stale are actions of their own. `RoundCycle` is used by `GameSession`
(`EXTENDS`) because its operations run inside the callers' transactions.

**`Settlement`** has the same shape. It keeps of transfers only their number and
the time of the last one, and of people only who plays, who is a member and who
owns the game. `RequestFinish` inserts with a statement of its own,
`ApproveTx` updates the request and the game in one transaction,
`RejectUpdate` is one statement; `ListInactive` and `SettleOneInactive` are the
two halves of a scheduler tick. The next owner is any remaining player, which
includes the one the code picks. Scores are not kept, so `LeaveCall` admits
leaves that the score check would refuse: more behaviours, never fewer.

**`CurrentGame`** keeps of a game its status, who has a player row under which
name (`called`) and who plays (`playing`), and of a user the nickname. A handler
is again a call with its reads, sometimes a further read (`JoinCheck`), and a
transaction; what the unique indexes of `players` and `users` refuse is in
`EnterValid`, `RenameTx` and `LoginInsert`. `Leave` and `End` are one step each:
their interleavings are those of the other modules. The documents' rule of one current
game (`OneCurrentGame`) is refuted by `two_games`: Create and Join look for another game
outside their transactions. A login that read an unnamed account may also write the default
name over a nickname chosen meanwhile; no document speaks of that.

**`GameReads`** adds to `GameSession` one query in progress (`read`) and the phone's
list. `Statements(kind)` gives a query's statements in the order of the code;
each is an action, and any step of any request may come between two of them. Loads of the
list exclude one another (`isLoadingTransfers`); summaries and settlements do not take
that flag, so what the page does with their answers (`ShowActive`, `ShowSettlement`) are
steps of their own, which may come while a load is in flight. The summary's statement for
the pending finish request is left out (`Settlement` has those). An
answer records what its statements saw: the scores read, the page, and up to
which entry the ledger was replayed (`projectTransferHistory`, `Replayed`).
`Winner` is the loop of `History` over the players, `Wins` the test of `Performance`.

**`History`** models a time as second and fraction and compares the *texts* the
store holds, character by character after the minutes: RFC3339Nano drops a
fraction of zero and trailing zeros, and a cursor is cut to the second.

**`RealtimeHub` and `LiveGame`.** A channel is the number of events in it, the game
the number of changes (`version`) and whether it has ended. `CopyClients` is the
copy under the lock, `SendEvent`, `SendFull` and `SendPanics` the three outcomes
of one send afterwards; `LoopsEnd` is both loops of a connection returning and
`Unregister`. On the phone, `load[l]` is one call of `refreshHome` or
`loadGameData`: its request in flight or the answer on its way, with the change
the server had reached when it answered. `EndLoad` is the `finally` of a load. `NoBroadcast` is the
settlement whose re-read of the game fails after the commit: it returns without a
broadcast. `LoadMore` and `GotMore` are the load of older transfers, which takes the same
flag as a reload. `missed` is a history variable, on which no action depends: it names the
five things after which the page may stay behind the game (a change that was not broadcast, a
notification that did not arrive, a skipped reload, an old answer that overtook a newer
one, a failed request).

Definitions introduced by "Mistakes that code like this invites", and those
that stand just before the faithful definition under a longer form of its name
(`PageByOffset`, `StatementsReplayFirst`, ...), are variants of the model; no
specification uses them. Each property is shown to fail when one of them takes the place of the faithful definition (`mutants` in
`PROJECT.json`).

## 3. Runs

| Run | Bounds | What it shows |
|---|---|---|
| `session` | 3 users for 2 places, 2 keys, 2 requests in flight while the ledger has at most 1 entry (`OverlapEarly`), 2 entries (3 with the request already in flight) | rows, reversals, scores, keys, answers, capacity, owner and end survive every interleaving and what follows it, over several rounds; the ledger implements `ScoreBook`; `IInv` holds |
| `settlement` | 2 users, 2 requests in flight, 2 finish requests, threshold 2, clock to 4, 1 transfer, 1 restart | one pending request, approvals end the game, whatever ends the game first decides its outcome, a forgotten game ends |
| `current_game` | 2 accounts with the same default name, 2 games, 2 names, 2 requests in flight | names stay unique, an ended game takes nobody in |
| `game_reads` | 2 users, 1 request at a time, 2 entries, pages of 1 entry, one reader | replay, settlement, summary and winner agree with the scores; every row is explained; a load leaves no gap in the list and a refresh keeps its range |
| `live` | 2 connections, 2 goroutines, queue of 1, 2 changes, 2 loads in flight | the room holds live clients, Close is complete, a hidden page lets go, locks are released, a page at rest is up to date or one of five things happened |
| `zero_sum` (violation) | as `session`, 1 key | scores stop adding up to 0 |
| `owner_plays` (violation) | as `session`, 1 key | an owner who has left the game |
| `one_share_link` (violation) | as `session`, 1 key | a settled game settled again, its public link replaced |
| `reversal_accepted` (violation) | 3 users for 3 places, 1 request at a time, 3 entries, 2 keys | a receiver's legal reversal is refused |
| `decided_once` (violation) | as `settlement` | a decision on a finish request is replaced by another |
| `two_games` (violation) | as `current_game` | a user in two current games |
| `history_once` (violation) | 3 games, pages of 2, 2 seconds, 3 fractions | a game shown twice in the history |

*Why these bounds are enough for the questions asked.* A read becomes stale through one
other request, so two requests in flight suffice; a third person is needed when
two compete for a place, and when an owner leaves one of two behind. Two keys per user tell
a repeated request from a new one, and any user may repeat with the key of another. A
transfer with its reversal, or with a duplicate of it, are two entries; one more comes from
a request already in flight, because `MaxTransfers` only bounds the calls: that is the ledger in
which an old round is reopened after its rows were satisfied again. `OverlapEarly` is a
constraint of the run: two requests are in flight together only
while the ledger has at most one entry, and after that they come one by one. It
is what keeps the run short; the theorems have no such bound. With two places a transfer has
one receiver; several receivers are in `reversal_accepted`, and in the proofs. All amounts
are 1: the code compares amounts for equality and adds them, and the sign and the number of
receivers tell the cases apart. The unlimited game (`max_participants IS NULL`) is
`MaxParticipants >= Cardinality(User)`, as in `reversal_accepted`. In `current_game`, two requests are enough for a user to overlap
with himself or with another, two games for two current ones, and the names
collide by default and by choice. In `game_reads`, one request at a time is
deliberate: with two, scores stop agreeing with the ledger (`zero_sum`), which
says nothing about the queries; the reader itself interleaves with the request. Pages
of one entry make every load of the list a page boundary. In `live`, a queue of
one fills with the second change; one goroutine sends to a copy while the other
commits; a connection is cut and replaced while the old one is still in the room;
two loads overtake each other.

Deadlock is checked in the `GameSession` and `GameReads` runs and in
`history_once`; in `Settlement`, `CurrentGame` and `LiveGame` every game may be over
or a bound reached, so it is not checked there.

*Symmetry.* Users other than the creator, handlers and keys are interchangeable
in every formula of the safety runs (no ordering on them is used: `CHOOSE` in
`NextOwner` and `ActiveRound` has a single witness in reachable states). The
`settlement` run checks liveness and uses no symmetry. In `current_game` users are
interchangeable because both get the same default name; in `game_reads` only the
keys are, because the order of joining and the owner tell the users apart.

*Fairness.* Only `Settlement!FairSpec` states any: time passes (`Tick`) and the
scheduler goroutine, which `main.go` starts with the server and which only stops
with it, keeps listing and settling (`ListInactive`, `SettleOneInactive`). No
request is assumed to be sent or answered. People score only while the clock can
still reach the threshold (`MaxClock`), and the server stops `MaxRestarts`
times; both bounds say "finitely often", which is the hypothesis of the property.
`LiveGame` states no fairness: the network may fail for ever, and nothing in the
client retries a failed load, so "eventually up to date" is not a promise of this
code. What it does promise is safety and is checked as such: `UpToDateAtRest`
(when nothing is under way the page is right, or one of five named things has
happened) and `LocksAreHeld` (a page that refuses to load has a load in flight).

### What the code does and its documents do not say

Seven runs refute a statement of the repository's documents or comments; each is
quoted in `findings`. Five come from reads that are stale in a transaction
(`Leave`: score, owner, status; `Approve`/`Reject`: the request; `Create` and `Join`: the
current game). The sixth (`reversal_accepted`) needs no concurrency: debit and credit require every
player of the original transfer to be active, which the requirements exclude. The
seventh (`history_once`) needs none either: the history's cursor is a text in whole
seconds, and `05.123Z` sorts before `05Z`, so the last game of a page comes again.

Three more things the documents say are not kept, and have no run of their own: for
each, a passing run or a theorem states exactly when it is kept.

* *A game with scores is settled, not voided* (`docs/requirements/game-scoring.md:119` and
  `:278`). The last participant's Leave decides by a count it read before its transaction,
  so a game that was scored in meanwhile may be voided.
  `Settlement!ScoredIsNotVoided` states the rule and is refuted in 7 states;
  `ScoredGamesAreSettled` proves that this stale count is the only way.
* *The other participants see the latest scores and the settlement* (`:329` and `:331`). A page
  may stay behind after one of five things; `UpToDateAtRest` names them and says there is no
  sixth.
* *Scrolling loads the earlier entries* (`:195`). `loadSettledGame` replaces the list with no
  look at `isLoadingTransfers`. A load of older entries that is in flight then puts its rows
  behind the settlement's first page, which leaves a gap (`GameReads!ListHasNoGaps`, refuted in 13
  states); a reload in flight replaces the settlement's rows by older ones. That a settlement shows its
  first page only is documented (`:386`), the gap is not. `LoadsLeaveNoGap` says what
  a load does keep, and `ListsAreWhole` that this overlap is the only way to a gap.

Limits of the code that contradict no statement of its documents are in the
model and shape the properties: a send may panic on a channel closed after the copy, a client with
a full queue stays connected and hears nothing, an old answer may overtake a
newer one, a reload of transfers is skipped while another load of them runs, a refresh still
running when the page is shown again is not repeated, a login may replace a nickname
chosen meanwhile by the default one, and a game may be settled as inactive although it was
scored in after the scheduler made its list.

## 4. Proofs

All theorems hold for any set of users (finite), handlers, keys, any positive
amounts, any capacity and bounds, games, names, page size, connections, goroutines, loads and
queue sizes. The assumptions are `UsersAssumption`,
`AmountAssumption`, `BoundsAssumption` (`GameSession`), `UsersAreFinite`,
`BoundsAreNumbers` (`Settlement`), `NamesAssumption` (`CurrentGame`),
`PageAssumption` (`GameReads`) and `HubAssumption`, `LiveAssumption` (`RealtimeHub`, `LiveGame`), which TLC evaluates in
every run of the module.

**`GameSession`.** `IInv` is the conjunction of the invariants the runs check
and of what they rest on, in four groups so that an action need only re-prove
the groups it disturbs:

* `RequestsInv`: what requests in flight rely on (`ReadsStayTrue`: rows are
  never deleted, so a target of a reversal stays in the ledger and a returning
  user keeps a player row) and what answered ones say (`AnswersAreRecorded`).
* `LedgerInv`: authors (`AuthorsOK`), `OncePerKey`, `ReversedOnce`. `AuthorsOK`
  is why an answered submission is never mistaken for a reversal: the author
  of a reversal is one of its receivers, a sender never is.
* `RoundsInv`: `PendingPlayersCanPlay`, `SatisfiedByLiveTransfer` and
  `ByOnlyWhenSatisfied`, which makes the reset by transfer id find exactly the
  satisfied rows.
* `PeopleInv`: capacity, `OneOwner`, `HavePlayerRow`, and `VoidedIsEmpty`,
  needed for `TheEndIsFinal`: the only transaction that writes the status of an
  ended game is a late `Leave`, and it writes `finished` over `finished`
  because it has seen a transfer.

`RoundCycleProofs` proves once what each round operator does to `RowsOK`, its
type and the satisfied rows; the action lemmas cite it. `Invariance` combines
one lemma per transaction with a frame lemma for the calls; the other theorems
follow from `IInv`, or from it and one step (`TheEndIsFinal`).
`LedgerIsAScoreBook` maps `Init` to `Book!Init` and each step to a `Write`, an
`Undo`, the `Close`, or a stutter.

**Induction over data.** The library's induction rules take an operator as parameter,
which the provers cannot instantiate. `DataLemmas` has two rules about *sets* instead:
a non-empty set of natural numbers has a least element (`LeastNumber`), and a
non-empty set of subsets of a finite set has a minimal one (`LeastSubset`). A claim about a
recursive function is then proved for the least counterexample. Two things have to be
shown each time: that the recursion has a solution (a witness given in closed form), and that
every solution agrees with it, because a recursive function denotes *some* solution. The
sums of the model (`SumFunction`) take the elements of a set in an unspecified order, so
`DataLemmas` also proves that the order does not matter (`SumWithout`), and from it what
happens to a sum when one term changes, is added, or is split.

**`ScoreProofs`.** `ScoresInv` adds to `IInv` that nobody receives an own transfer
(`SenderApart`, in the ledger and in requests in flight) and `ScoresFollowLedger`: the score
of a player with a row is what the entries after some point of the ledger add up to.
It is preserved by every step (`FollowStep`): an entry is added to the ledger and its gains
to the scores in one transaction (`SubmitEnters`, `ReverseEnters`), and a return starts at
the present end of the ledger. `ScoresFollow` needs no hypothesis.

What `zero_sum`, `owner_plays` and `one_share_link` refute is proved under the hypothesis
that the transaction of a `Leave` or a return does not commit on a stale read:

| Theorem | Hypothesis on the steps | Conclusion |
|---|---|---|
| `ScoresAddUpToZero` | a Leave that commits is of a player with score 0, a return of a user outside (`LeavesAtZero`, `ReturnsOnce`) | `ZeroSum` |
| `TheOwnerPlays` | a Leave that commits knows who owns the game (`LeavesKnowOwner`) | `OwnerPlays` |
| `OneLinkOnly` | no Leave commits after the end (`LeavesWhileActive`) | `OneShareLink` |

Three theorems of other modules have the same form:

| Theorem | Hypothesis on the steps | Conclusion |
|---|---|---|
| `ScoredGamesAreSettled` | the last Leave to commit, if it has seen no transfer, is right (`LeavesKnowCount`) | `ScoredIsNotVoided` |
| `TwoGamesNeedTwoRequests` | the user never has two requests in flight (`Alone`) | that user is in one current game at most (`PlaysOne`) |
| `ListsAreWhole` | no settlement takes the list's place under a load that continues it (`UndisturbedLoads`) | `ListHasNoGaps` |

So each violation has that cause and no other, and rereading these values in
the transactions would remove those of the first table. The hypotheses are not vacuous: with one request at a
time (`OneAtATime`, at most one handler) the first two of that table hold (`NothingStale`), which gives
`AloneNothingBreaks`. The third does not hold even then: the scheduler may end the game
between a Leave's reads and its transaction. The invariant behind the first is
`WholeInv`: scores are those of the *whole* ledger, because a player leaves and returns with 0,
and each entry's gains cancel (`GainsCancel`).

**`Settlement`.** `EndInv` is inductive as it stands. Its argument: an approval
is written together with the end, a finished game stays finished, and nobody can
join or score in a game that is not active. `TheOutcomeStands` needs one thing more,
`SeenTransfers`: the last participant's Leave writes "finished" without looking at the
status, because it has seen a transfer; a game voided with people in it never had one.
`ScoredGamesAreSettled` has two cases: the scheduler voids by a count it reads in its own
transaction, the last Leave by the one it was given.
`AloneDecidesOnce` is the counterpart of `decided_once`: with one request at a time a
decision is about a pending request (`DecidesPending`).

**`CurrentGame`.** `IInv` is `TypeOK` and `NamesUnique`, which needs only the indexes;
`ClosedTakesNobody` follows from it and one step. `TwoGamesNeedTwoRequests` is about one
user: `PlaysOne` is not inductive, because a `CreateTx` adds a game to those the user
plays on the word of a check made earlier. `CheckStands` says that the check still
holds, and `Alone` why: nothing else acts for that user meanwhile.

**`LiveGame`.** `LiveInv` (in `LiveGameProofs`) adds to the checked invariants where
each connection can be (`ChannelInv`: the only open socket is the page's own, and there
is none while it refreshes or is hidden), what a load in flight can have seen (`LoadsInv`, `SeenInv`) and,
for `UpToDateAtRest`, that *news is on its way* (`NewsInv`): if the page is
behind the game and nothing was missed, then a load that will see the last change is in
flight, or an event is in the page's queue, or a goroutine still has to copy the
room or to send to the page's connection. Each action hands the news on to the next
carrier, or sets `missed`; `NoBroadcast` is the goroutine that drops it. At rest there is no carrier left.

**`GameReads`.** `ReadsInv` (in `GameReadsProofs`) rests on `GameSession`'s `IInv`, which
a reader cannot disturb, and on one lemma about every request (`RequestGrows`): entries
and player rows are never deleted, what an entry names does not change, and the end of
the game is the end of the ledger. `KnownInv` follows the statements of a query: the
list's players and ledger are read *after* its page, and a settlement's players before
it, but then the game has ended. `PagesInv` is about the load in
progress: the page in hand continues what was read before (`before` is the last entry of
that), and a page which is not full reaches the first entry. That gives `LoadsAreWhole` without any
condition. What is *shown* is in `ListInv`, which holds as long as no settlement takes the
list's place under a load that continues it; it gives `ListsAreWhole`.

Three properties compare answers with a replay of the ledger. `ReplayedIsUpto` says what
`projectTransferHistory` computes: the balance after *n* entries is what they add up to
(`Upto`), a reversal's sign and a sender who is no receiver included. `MomentInv` follows
the statements: a settlement's players and replay are read when the ledger no longer grows;
a summary's scores are `Upto(u, n)` for an *n* that is not before its count, and no later
request changes what the first *n* entries add up to (`RequestMoment`).
`ReplayFollowsScores`, `SettlementsAreExplained` and `SummariesAreOfOneMoment` hold as long
as `LeavesAtZero` and `ReturnsOnce` do (a score left behind by a stale Leave is in the ledger but no
longer in the row), and with one request at a time, as in the run, without a
condition (`AloneAnswersAgree`).

`WinnersLead` needs no condition. Its invariant is `Ranked`: the joined orders of the players are
1, 2, ..., n, since `MAX(joined_order) + 1` is n + 1 (`NextIsOneMore`). Then the loop of
`History` visits every player once, and after *i* steps holds the one that the
settlement's order puts first among the first *i* to join (`WinnerLeads`).

**Only model-checked.** `ForgottenGameEnds` is liveness under fairness, which the prover
cannot do; every other property of a passing run is also stated by a theorem, those of `game_reads`
that need one request at a time with that condition. The mutants
and the violation runs are TLC's, and `History` has no theorem: its one property is
refuted.

## 5. Not modelled, and why

* **HTTP API, middleware, DTOs, configuration, logging.** They decode, call one service
  method and encode; no state is shared through them. What Recover makes of a
  panic is part of `SendPanics`.
* **Tokens (JWT) and WeChat.** A pure computation on a secret, and stateless calls to an
  external service. Login itself (account and default name) is in `CurrentGame`.
* **Random values and settings**: invite codes, mini-program codes, preset scores, the
  text of share tokens. Nothing else in the system reads them back.
* **Parts of the queries**: the totals and ratios of Performance and the ranking (sums
  over finished games), the lookups of a public link, and the
  summary's statement for the pending finish request (`Settlement` has those).
* **The score-input and join pages.** A press is one request with a key of its own, so to
  the server it is `SubmitCall`; that a retry uses a new key is documented
  (`docs/requirements/game-scoring.md:389`).
* **Event contents.** A page looks at no field of an event, version included; only its
  arrival is modelled.
* **What a page shows of a voided game**: the pages know "finished" and treat anything
  else as going on. `LiveGame` ends games by settlement only.
* **A rename that commits after the settlement** (`UpdateMyProfile` checks the status
  before its transaction) is possible in `CurrentGame`; the documents call a settled
  game read-only but do not speak of names, so no property says either.
* **The scheduler's limit of 100 games a tick** needs as many games as the limit; a tick
  is modelled for one game.
* **Schema migrations**: their indexes and checks are guards of the transactions; the
  backfills run once on old data.
* Amounts have no upper bound in the code, and 64-bit sums are far from any score a game
  reaches; overflow is not modelled.

## 6. Plan

1. (done) Core: `RoundCycle`, `GameSession`, `ScoreBook`, their runs and proofs.
2. (done) `Settlement` and its proofs.
3. (done) `CurrentGame`: accounts, names, several games; its proofs.
4. (done) `GameReads` and `History`: queries over several statements, paging; the proofs
   about rows and lists.
5. (done) `RealtimeHub` and `LiveGame`: the hub, the connections and the home page; its
   proofs.
6. (done) Induction over data, the scores' theorems, replay and winner, the outcome of a
   game.
7. Left: an abstract "page shows a state of the game" that `LiveGame` refines between two
   refreshes; the scheduler over several games and its limit; the voided
   game on a page; public links and the
   settlement shown through them; and, should the documents come to promise it,
   the order of event versions.
