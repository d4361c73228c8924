---------------------------- MODULE CurrentGame ----------------------------
(***************************************************************************)
(* Accounts and the games they play: login, Create, Join, UpdateMyProfile  *)
(* and Leave over several games.  GameSession looks into one game; this    *)
(* module keeps of each game only whether it is going on, who has a player *)
(* row under which name, and who is playing, and looks across games and at *)
(* the names.  Scores, rounds, owners and capacity are GameSession's.      *)
(*                                                                         *)
(* The checks a handler makes before its transaction are statements of     *)
(* their own: other requests, of the same user too (a second phone, a      *)
(* repeated press), run between them and the transaction.                  *)
(***************************************************************************)
CONSTANTS
  User,         \* one per openid
  Game,         \* identities of the games that may be created
  Name,         \* display names
  DefaultName,  \* the name the server derives from a user id; not injective
  Handler,      \* the goroutines that serve requests
  NoRow, Unnamed  \* no row; a users row whose display_name is NULL

ASSUME NamesAssumption == /\ DefaultName \in [User -> Name]
                          /\ NoRow \notin Name /\ Unnamed \notin Name /\ NoRow # Unnamed

VARIABLES
  nick,       \* users.display_name
  status,     \* game_sessions.status; "over" is finished or voided
  called,     \* called[g][u]: players.display_name of u in g
  playing,    \* playing[g]: the users whose player row in g is active
  req         \* what each handler goroutine is doing

vars == <<nick, status, called, playing, req>>
games == <<status, called, playing>>

Idle == [at |-> "idle"]
Request == {Idle}
  \union [at : {"insertUser", "nameUser"}, user : User]
  \union [at : {"create", "join", "enterNew", "enterAgain", "rename"},
          user : User, game : Game, name : Name]

\* Every variable has its type; only a game that was created has players.
TypeOK ==
  /\ nick \in [User -> Name \union {NoRow, Unnamed}]
  /\ status \in [Game -> {"none", "active", "over"}]
  /\ called \in [Game -> [User -> Name \union {NoRow}]]
  /\ playing \in [Game -> SUBSET User]
  /\ req \in [Handler -> Request]
  /\ \A g \in Game, u \in User : status[g] = "none" => called[g][u] = NoRow

Init ==
  /\ nick = [u \in User |-> NoRow]
  /\ status = [g \in Game |-> "none"]
  /\ called = [g \in Game |-> [u \in User |-> NoRow]]
  /\ playing = [g \in Game |-> {}]
  /\ req = [h \in Handler |-> Idle]

-----------------------------------------------------------------------------
Goto(h, r) == req' = [req EXCEPT ![h] = r]

\* A handler starts on a request; a token was issued to its user before.
Start(h, r) == req[h] = Idle /\ Goto(h, r)

LoggedIn(u) == nick[u] \in Name

\* GetCurrentGameForUser: any of these (it takes the one updated last)
CurrentGames(u) == {g \in Game : status[g] = "active" /\ u \in playing[g]}

\* The names of the other historical participants of the game
TakenNames(g, u) == {called[g][v] : v \in User \ {u}} \ {NoRow}

-----------------------------------------------------------------------------
(***************************************************************************)
(* Mistakes that code like this invites, for the mutants.                  *)
(***************************************************************************)
\* the player row and the game are not written together
CreateTxRowOnly(h) ==
  LET r == req[h] IN
  /\ r.at = "create" /\ status[r.game] = "none"
  /\ called' = [called EXCEPT ![r.game][r.user] = r.name]
  /\ playing' = [playing EXCEPT ![r.game] = {r.user}]
  /\ Goto(h, Idle)
  /\ UNCHANGED <<nick, status>>

\* no unique index on the names; no look at the status in the transaction
EnterValidUnindexed(r) == status[r.game] = "active"
EnterValidAnyStatus(r) ==
  /\ r.name \notin TakenNames(r.game, r.user)
  /\ r.at = "enterNew" => called[r.game][r.user] = NoRow

-----------------------------------------------------------------------------
(***************************************************************************)
(* Login with a code WeChat accepts.  The row is looked up by openid; a    *)
(* missing one is inserted (open_id is UNIQUE); a row without a name gets  *)
(* the default one, by an UPDATE that does not look at it again.           *)
(***************************************************************************)
LoginCall(h, u) ==
  /\ ~LoggedIn(u)
  /\ Start(h, [at |-> IF nick[u] = NoRow THEN "insertUser" ELSE "nameUser", user |-> u])
  /\ UNCHANGED <<nick, games>>

LoginInsert(h) ==
  LET u == req[h].user IN
  /\ req[h].at = "insertUser" /\ nick[u] = NoRow
  /\ nick' = [nick EXCEPT ![u] = Unnamed]
  /\ Goto(h, [at |-> "nameUser", user |-> u])
  /\ UNCHANGED games

LoginName(h) ==
  LET u == req[h].user IN
  /\ req[h].at = "nameUser"
  /\ nick' = [nick EXCEPT ![u] = DefaultName[u]]
  /\ Goto(h, Idle)
  /\ UNCHANGED games

-----------------------------------------------------------------------------
(***************************************************************************)
(* Create: no current game, the creator's name; then the game, its owner's *)
(* player row and the first round in one transaction.                      *)
(***************************************************************************)
CreateCall(h, u, g) ==
  /\ LoggedIn(u) /\ status[g] = "none"
  /\ CurrentGames(u) = {}
  /\ Start(h, [at |-> "create", user |-> u, game |-> g, name |-> nick[u]])
  /\ UNCHANGED <<nick, games>>

\* The game's id is generated by this request: no other request has it.
CreateTx(h) ==
  LET r == req[h] IN
  /\ r.at = "create" /\ status[r.game] = "none"
  /\ status' = [status EXCEPT ![r.game] = "active"]
  /\ called' = [called EXCEPT ![r.game][r.user] = r.name]
  /\ playing' = [playing EXCEPT ![r.game] = {r.user}]
  /\ Goto(h, Idle)
  /\ UNCHANGED nick

(***************************************************************************)
(* Join: the invited game is active and the user not in it; then (another  *)
(* read) the current game is none or this one, the name is free, and the   *)
(* user has a player row here from before or not; then the transaction,    *)
(* which looks at the status again, and whose INSERT of a new row or       *)
(* UPDATE of the old one the two unique indexes of players guard.          *)
(***************************************************************************)
JoinCall(h, u, g, n) ==
  /\ LoggedIn(u)
  /\ status[g] = "active" /\ u \notin playing[g]
  /\ Start(h, [at |-> "join", user |-> u, game |-> g, name |-> n])
  /\ UNCHANGED <<nick, games>>

JoinCheck(h) ==
  LET r == req[h] IN
  /\ r.at = "join"
  /\ CurrentGames(r.user) = {} \/ r.game \in CurrentGames(r.user)
  /\ r.name \notin TakenNames(r.game, r.user)
  /\ Goto(h, [r EXCEPT !.at = IF called[r.game][r.user] = NoRow THEN "enterNew"
                                                              ELSE "enterAgain"])
  /\ UNCHANGED <<nick, games>>

EnterValid(r) ==
  /\ status[r.game] = "active"
  /\ r.name \notin TakenNames(r.game, r.user)
  /\ r.at = "enterNew" => called[r.game][r.user] = NoRow

EnterTx(h) ==
  LET r == req[h] IN
  /\ r.at \in {"enterNew", "enterAgain"} /\ EnterValid(r)
  /\ called' = [called EXCEPT ![r.game][r.user] = r.name]
  /\ playing' = [playing EXCEPT ![r.game] = @ \union {r.user}]
  /\ Goto(h, Idle)
  /\ UNCHANGED <<nick, status>>

-----------------------------------------------------------------------------
(***************************************************************************)
(* UpdateMyProfile: the game is going on, the user has a player row there  *)
(* (left or not) and the name is free; the transaction renames the player  *)
(* row and the account, and does not look at the game again.               *)
(***************************************************************************)
RenameCall(h, u, g, n) ==
  /\ LoggedIn(u)
  /\ status[g] = "active" /\ called[g][u] # NoRow
  /\ n \notin TakenNames(g, u)
  /\ Start(h, [at |-> "rename", user |-> u, game |-> g, name |-> n])
  /\ UNCHANGED <<nick, games>>

RenameTx(h) ==
  LET r == req[h] IN
  /\ r.at = "rename" /\ called[r.game][r.user] # NoRow
  /\ r.name \notin TakenNames(r.game, r.user)
  /\ called' = [called EXCEPT ![r.game][r.user] = r.name]
  /\ nick' = [nick EXCEPT ![r.user] = r.name]
  /\ Goto(h, Idle)
  /\ UNCHANGED <<status, playing>>

-----------------------------------------------------------------------------
(***************************************************************************)
(* What ends a participation or a game, each as one step: GameSession and  *)
(* Settlement have their interleavings.  The last to leave ends the game.  *)
(***************************************************************************)
Leave(u, g) ==
  /\ u \in playing[g] /\ status[g] = "active"
  /\ playing' = [playing EXCEPT ![g] = @ \ {u}]
  /\ status' = IF playing[g] = {u} THEN [status EXCEPT ![g] = "over"] ELSE status
  /\ UNCHANGED <<nick, called, req>>

End(g) ==
  /\ status[g] = "active"
  /\ status' = [status EXCEPT ![g] = "over"]
  /\ UNCHANGED <<nick, called, playing, req>>

\* A check or a constraint fails, or the caller is gone: nothing is written.
GiveUp(h) ==
  /\ req[h] # Idle
  /\ Goto(h, Idle)
  /\ UNCHANGED <<nick, games>>

Calls(h) ==
  \E u \in User :
    \/ LoginCall(h, u)
    \/ \E g \in Game :
         \/ CreateCall(h, u, g)
         \/ \E n \in Name : JoinCall(h, u, g, n) \/ RenameCall(h, u, g, n)

Steps(h) ==
  \/ LoginInsert(h) \/ LoginName(h)
  \/ CreateTx(h)
  \/ JoinCheck(h) \/ EnterTx(h)
  \/ RenameTx(h)
  \/ GiveUp(h)

Next ==
  \/ \E h \in Handler : Calls(h) \/ Steps(h)
  \/ \E g \in Game : End(g) \/ \E u \in User : Leave(u, g)

Spec == Init /\ [][Next]_vars

-----------------------------------------------------------------------------
(***************************************************************************)
(* Properties.                                                             *)
(***************************************************************************)
\* However joins and renames interleave, no two people of a game have one
\* name: what the handlers check before their transactions is stale by then.
NamesUnique ==
  \A g \in Game, u, v \in User :
    u # v /\ called[g][u] # NoRow => called[g][u] # called[g][v]

\* A game that is over takes nobody in, not even one whose join had passed its
\* checks while it was going on, or who played there before.
ClosedTakesNobody ==
  [][\A g \in Game : status[g] = "over" =>
       /\ playing'[g] \subseteq playing[g]
       /\ \A u \in User : called[g][u] = NoRow => called'[g][u] = NoRow]_vars

-----------------------------------------------------------------------------
\* game-scoring.md:28 and CONTEXT.md:16: a user has one current game at most.
\* Create and Join look for another one before their transactions, so a user
\* with two requests in flight (two phones, a repeated press) can be in two.
PlaysOne(u) == \A g, k \in CurrentGames(u) : g = k
OneCurrentGame == \A u \in User : PlaysOne(u)
=============================================================================
