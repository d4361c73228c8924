------------------------- MODULE CurrentGameProofs -------------------------
(***************************************************************************)
(* The invariants of CurrentGame, for any users, games, names and          *)
(* handlers, and the one way to two current games: two requests of one     *)
(* user in flight together.  The requests of other users are harmless,     *)
(* because only a user's own requests put that user into a game.           *)
(***************************************************************************)
EXTENDS CurrentGame, TLAPS

\* The inductive invariant.
IInv == TypeOK /\ NamesUnique

LEMMA InitInv == Init => IInv
BY NamesAssumption DEF Init, IInv, TypeOK, NamesUnique, Request, Idle

-----------------------------------------------------------------------------
\* Types.

LEMMA StartType ==
  ASSUME TypeOK, NEW h \in Handler, NEW r \in Request, r.at # "idle", r.user \in User,
         Start(h, r)
  PROVE  req' \in [Handler -> Request]
BY DEF TypeOK, Start, Goto

LEMMA CallType ==
  ASSUME TypeOK, NEW h \in Handler, Calls(h)
  PROVE  TypeOK'
<1>1. PICK u \in User :
        \/ LoginCall(h, u)
        \/ \E g \in Game : \/ CreateCall(h, u, g)
                           \/ \E n \in Name : JoinCall(h, u, g, n) \/ RenameCall(h, u, g, n)
  BY DEF Calls
<1>2. UNCHANGED <<nick, games>>
  BY <1>1 DEF LoginCall, CreateCall, JoinCall, RenameCall
<1>3. \E r \in Request : r.at # "idle" /\ r.user \in User /\ Start(h, r)
  <2>1. CASE LoginCall(h, u)
    BY <2>1 DEF LoginCall, Request
  <2>2. ASSUME NEW g \in Game, CreateCall(h, u, g)
        PROVE  \E r \in Request : r.at # "idle" /\ r.user \in User /\ Start(h, r)
    BY <2>2 DEF CreateCall, Request, LoggedIn
  <2>3. ASSUME NEW g \in Game, NEW n \in Name, JoinCall(h, u, g, n) \/ RenameCall(h, u, g, n)
        PROVE  \E r \in Request : r.at # "idle" /\ r.user \in User /\ Start(h, r)
    BY <2>3 DEF JoinCall, RenameCall, Request
  <2> QED
    BY <1>1, <2>1, <2>2, <2>3
<1>4. req' \in [Handler -> Request]
  BY <1>3, StartType
<1> QED
  BY <1>2, <1>4 DEF TypeOK, games

\* What a request in flight carries.
LEMMA Carried ==
  ASSUME TypeOK, NEW h \in Handler
  PROVE  /\ req[h].at # "idle" => req[h].user \in User
         /\ req[h].at \in {"create", "join", "enterNew", "enterAgain", "rename"}
              => req[h].game \in Game /\ req[h].name \in Name
BY DEF TypeOK, Request, Idle

LEMMA StepType ==
  ASSUME TypeOK, NEW h \in Handler, Steps(h)
  PROVE  TypeOK'
<1> USE NamesAssumption, Carried DEF Goto, games
<1>0. Idle \in Request
  BY DEF Request
<1>1. CASE LoginInsert(h)
  <2>1. [at |-> "nameUser", user |-> req[h].user] \in Request
    BY <1>1 DEF LoginInsert, Request
  <2> QED
    BY <1>1, <2>1 DEF LoginInsert, TypeOK
<1>2. CASE LoginName(h)
  BY <1>0, <1>2 DEF LoginName, TypeOK
<1>3. CASE CreateTx(h)
  BY <1>0, <1>3 DEF CreateTx, TypeOK
<1>4. CASE JoinCheck(h)
  <2>1. req[h] \in [at : {"create", "join", "enterNew", "enterAgain", "rename"},
                    user : User, game : Game, name : Name]
    BY <1>4 DEF JoinCheck, TypeOK, Request, Idle
  <2>2. \A a \in {"enterNew", "enterAgain"} : [req[h] EXCEPT !.at = a] \in Request
    BY <2>1 DEF Request
  <2> QED
    BY <1>4, <2>2 DEF JoinCheck, TypeOK
<1>5. CASE EnterTx(h)
  BY <1>0, <1>5 DEF EnterTx, EnterValid, TypeOK
<1>6. CASE RenameTx(h)
  <2>1. status[req[h].game] # "none"
    BY <1>6 DEF RenameTx, TypeOK
  <2> QED
    BY <1>0, <1>6, <2>1 DEF RenameTx, TypeOK
<1>7. CASE GiveUp(h)
  BY <1>0, <1>7 DEF GiveUp, TypeOK
<1> QED
  BY <1>1, <1>2, <1>3, <1>4, <1>5, <1>6, <1>7 DEF Steps

LEMMA EndType ==
  ASSUME TypeOK, NEW g \in Game, End(g) \/ \E u \in User : Leave(u, g)
  PROVE  TypeOK'
BY DEF TypeOK, End, Leave

-----------------------------------------------------------------------------
\* Names: one entry of called is written, with a name nobody else has.

LEMMA NameWritten ==
  ASSUME TypeOK, NamesUnique, NEW g \in Game, NEW u \in User, NEW n \in Name,
         called' = [called EXCEPT ![g][u] = n], n \notin TakenNames(g, u)
  PROVE  NamesUnique'
<1> SUFFICES ASSUME NEW k \in Game, NEW v \in User, NEW w \in User, v # w,
                    called'[k][v] # NoRow
             PROVE  called'[k][v] # called'[k][w]
  BY DEF NamesUnique
<1>1. CASE k # g \/ (v # u /\ w # u)
  BY <1>1 DEF NamesUnique, TypeOK
<1>2. CASE k = g /\ v = u
  BY <1>2, NamesAssumption DEF TypeOK, TakenNames
<1>3. CASE k = g /\ w = u
  <2>1. called'[k][v] = called[g][v] /\ called'[k][w] = n
    BY <1>3 DEF TypeOK
  <2>2. called[g][v] \in TakenNames(g, u)
    BY <1>3, <2>1 DEF TakenNames
  <2> QED
    BY <2>1, <2>2
<1> QED
  BY <1>1, <1>2, <1>3

LEMMA NamesStep ==
  ASSUME TypeOK, NamesUnique, Next
  PROVE  NamesUnique'
<1>1. ASSUME called' = called
      PROVE  NamesUnique'
  BY <1>1 DEF NamesUnique
<1>2. ASSUME NEW h \in Handler, Steps(h)
      PROVE  NamesUnique'
  <2> DEFINE r == req[h]
  <2>1. CASE CreateTx(h)
    <3>1. r.game \in Game /\ r.user \in User /\ r.name \in Name
      BY <2>1, Carried DEF CreateTx
    <3>2. r.name \notin TakenNames(r.game, r.user)
      BY <2>1, <3>1 DEF CreateTx, TakenNames, TypeOK
    <3> QED
      BY <2>1, <3>1, <3>2, NameWritten DEF CreateTx
  <2>2. CASE EnterTx(h)
    BY <2>2, Carried, NameWritten DEF EnterTx, EnterValid
  <2>3. CASE RenameTx(h)
    BY <2>3, Carried, NameWritten DEF RenameTx
  <2>4. CASE LoginInsert(h) \/ LoginName(h) \/ JoinCheck(h) \/ GiveUp(h)
    BY <2>4, <1>1 DEF LoginInsert, LoginName, JoinCheck, GiveUp, games
  <2> QED
    BY <1>2, <2>1, <2>2, <2>3, <2>4 DEF Steps
<1>3. ASSUME NEW h \in Handler, Calls(h)
      PROVE  NamesUnique'
  BY <1>1, <1>3 DEF Calls, LoginCall, CreateCall, JoinCall, RenameCall, games
<1>4. ASSUME NEW g \in Game, End(g) \/ \E u \in User : Leave(u, g)
      PROVE  NamesUnique'
  BY <1>1, <1>4 DEF End, Leave
<1> QED
  BY <1>2, <1>3, <1>4 DEF Next

-----------------------------------------------------------------------------
LEMMA NextInv == IInv /\ [Next]_vars => IInv'
<1> SUFFICES ASSUME IInv, [Next]_vars PROVE IInv'
  OBVIOUS
<1>1. CASE UNCHANGED vars
  BY <1>1 DEF IInv, TypeOK, NamesUnique, vars
<1>2. CASE Next
  BY <1>2, CallType, StepType, EndType, NamesStep DEF IInv, Next
<1> QED
  BY <1>1, <1>2

\* The inductive invariant holds in every reachable state.
THEOREM AccountsInvariance == Spec => []IInv
BY InitInv, NextInv, PTL DEF Spec

\* Every variable keeps its type.
THEOREM AccountsTypeCorrect == Spec => []TypeOK
<1>1. IInv => TypeOK
  BY DEF IInv
<1> QED
  BY <1>1, AccountsInvariance, PTL

\* No two people of a game have one name.
THEOREM NamesStayUnique == Spec => []NamesUnique
<1>1. IInv => NamesUnique
  BY DEF IInv
<1> QED
  BY <1>1, AccountsInvariance, PTL

\* A game that is over takes nobody in.
THEOREM OverIsOver == Spec => ClosedTakesNobody
<1> DEFINE A == \A g \in Game : status[g] = "over" =>
                  /\ playing'[g] \subseteq playing[g]
                  /\ \A u \in User : called[g][u] = NoRow => called'[g][u] = NoRow
<1>1. ASSUME IInv, Next
      PROVE  A
  <2> SUFFICES ASSUME NEW g \in Game, status[g] = "over"
               PROVE  /\ playing'[g] \subseteq playing[g]
                      /\ \A u \in User : called[g][u] = NoRow => called'[g][u] = NoRow
    OBVIOUS
  <2>1. ASSUME NEW h \in Handler, CreateTx(h) \/ EnterTx(h)
        PROVE  /\ req[h].game # g
               /\ playing'[g] = playing[g] /\ called'[g] = called[g]
    BY <1>1, <2>1, Carried DEF CreateTx, EnterTx, EnterValid, IInv, TypeOK
  <2>2. ASSUME NEW h \in Handler, RenameTx(h)
        PROVE  /\ playing'[g] = playing[g]
               /\ \A u \in User : called[g][u] = NoRow => called'[g][u] = NoRow
    BY <1>1, <2>2, Carried DEF RenameTx, IInv, TypeOK
  <2>3. ASSUME NEW h \in Handler, \/ Calls(h) \/ LoginInsert(h) \/ LoginName(h)
                                 \/ JoinCheck(h) \/ GiveUp(h)
        PROVE  UNCHANGED games
    BY <2>3 DEF Calls, LoginCall, CreateCall, JoinCall, RenameCall, LoginInsert, LoginName,
                JoinCheck, GiveUp
  <2>4. ASSUME NEW k \in Game, End(k) \/ \E u \in User : Leave(u, k)
        PROVE  playing'[g] \subseteq playing[g] /\ called' = called
    BY <1>1, <2>4 DEF End, Leave, IInv, TypeOK
  <2> QED
    BY <1>1, <2>1, <2>2, <2>3, <2>4 DEF Next, Steps, games
<1>2. ASSUME IInv, [Next]_vars
      PROVE  [A]_vars
  BY <1>1, <1>2
<1> QED
  BY <1>2, AccountsInvariance, PTL DEF Spec, ClosedTakesNobody
-----------------------------------------------------------------------------
(***************************************************************************)
(* One current game, for a user with one request in flight at a time: a    *)
(* check that request has passed still holds when its transaction runs.    *)
(***************************************************************************)
\* The user's requests do not overlap.
Alone(u) ==
  \A h, k \in Handler :
    /\ req[h].at # "idle" /\ req[h].user = u
    /\ req[k].at # "idle" /\ req[k].user = u
    => h = k

Checked == {"create", "enterNew", "enterAgain"}

CheckStands(u) ==
  \A h \in Handler :
    req[h].at \in Checked /\ req[h].user = u => CurrentGames(u) \subseteq {req[h].game}

\* A step that puts the user into no game, and passes a check only if it holds.
LEMMA NothingGrows ==
  ASSUME NEW u \in User, PlaysOne(u), CheckStands(u),
         CurrentGames(u)' \subseteq CurrentGames(u),
         \A h \in Handler : \/ req'[h] = req[h]
                            \/ req'[h].at \notin Checked
                            \/ req'[h].user # u
                            \/ CurrentGames(u) \subseteq {req'[h].game}
  PROVE  PlaysOne(u)' /\ CheckStands(u)'
BY DEF PlaysOne, CheckStands, Checked

\* Create's and Join's transactions put their own user into their own game.
LEMMA TakesIn ==
  ASSUME TypeOK, NEW u \in User, Alone(u), PlaysOne(u), CheckStands(u),
         NEW h \in Handler, CreateTx(h) \/ EnterTx(h)
  PROVE  PlaysOne(u)' /\ CheckStands(u)'
<1>1. /\ req[h].user \in User /\ req[h].game \in Game /\ req[h].at \in Checked
      /\ req[h].at # "idle" /\ Goto(h, Idle)
  BY Carried DEF CreateTx, EnterTx, Checked
<1>2. PICK v \in User, g \in Game : req[h].user = v /\ req[h].game = g
  BY <1>1
<1>3. req'[h].at \notin Checked /\ \A k \in Handler \ {h} : req'[k] = req[k]
  BY <1>1 DEF Goto, TypeOK, Idle, Checked
<1>4. CASE v # u
  <2>1. CurrentGames(u)' \subseteq CurrentGames(u)
    BY <1>2, <1>4 DEF CreateTx, EnterTx, CurrentGames, TypeOK
  <2> QED
    BY <1>3, <2>1, NothingGrows
<1>5. CASE v = u
  <2>1. CurrentGames(u)' \subseteq CurrentGames(u) \union {g}
    BY <1>2, <1>5 DEF CreateTx, EnterTx, CurrentGames, TypeOK
  <2>2. CurrentGames(u) \subseteq {g}
    BY <1>1, <1>2, <1>5 DEF CheckStands
  <2>3. PlaysOne(u)'
    BY <2>1, <2>2 DEF PlaysOne
  <2>4. \A k \in Handler : ~(req'[k].at \in Checked /\ req'[k].user = u)
    BY <1>1, <1>2, <1>3, <1>5 DEF Alone, Checked
  <2> QED
    BY <2>3, <2>4 DEF CheckStands
<1> QED
  BY <1>4, <1>5

LEMMA CurrentStep ==
  ASSUME TypeOK, NEW u \in User, Alone(u), PlaysOne(u), CheckStands(u), Next
  PROVE  PlaysOne(u)' /\ CheckStands(u)'
<1>1. ASSUME NEW h \in Handler, NEW v \in User, NEW g \in Game, CreateCall(h, v, g)
      PROVE  PlaysOne(u)' /\ CheckStands(u)'
  <2>1. CurrentGames(v) = {} /\ UNCHANGED games
    BY <1>1 DEF CreateCall
  <2>2. CurrentGames(u)' = CurrentGames(u)
    BY <2>1 DEF games, CurrentGames
  <2>3. \A k \in Handler : \/ req'[k] = req[k] \/ req'[k].user # u
                           \/ CurrentGames(u) \subseteq {req'[k].game}
    BY <1>1, <2>1 DEF CreateCall, Start, Goto, TypeOK
  <2> QED
    BY <2>2, <2>3, NothingGrows
<1>2. ASSUME NEW h \in Handler, JoinCheck(h)
      PROVE  PlaysOne(u)' /\ CheckStands(u)'
  <2>1. /\ UNCHANGED games
        /\ CurrentGames(req[h].user) = {} \/ req[h].game \in CurrentGames(req[h].user)
    BY <1>2 DEF JoinCheck
  <2>2. CurrentGames(u)' = CurrentGames(u)
    BY <2>1 DEF games, CurrentGames
  <2>3. req[h].user = u => CurrentGames(u) \subseteq {req[h].game}
    BY <2>1 DEF PlaysOne
  <2>4. req'[h].user = req[h].user /\ req'[h].game = req[h].game
        /\ \A k \in Handler \ {h} : req'[k] = req[k]
    <3>1. req[h] \in [at : {"create", "join", "enterNew", "enterAgain", "rename"},
                      user : User, game : Game, name : Name]
      BY <1>2 DEF JoinCheck, TypeOK, Request, Idle
    <3>2. \A a \in {"enterNew", "enterAgain"} : /\ [req[h] EXCEPT !.at = a].user = req[h].user
                                               /\ [req[h] EXCEPT !.at = a].game = req[h].game
      BY <3>1
    <3> QED
      BY <1>2, <3>2 DEF JoinCheck, Goto, TypeOK
  <2>5. \A k \in Handler : \/ req'[k] = req[k] \/ req'[k].user # u
                           \/ CurrentGames(u) \subseteq {req'[k].game}
    BY <2>3, <2>4
  <2> QED
    BY <2>2, <2>5, NothingGrows
<1>3. ASSUME NEW h \in Handler, LoginInsert(h) \/ LoginName(h) \/ RenameTx(h) \/ GiveUp(h)
      PROVE  PlaysOne(u)' /\ CheckStands(u)'
  <2>1. CurrentGames(u)' = CurrentGames(u)
    BY <1>3 DEF LoginInsert, LoginName, RenameTx, GiveUp, games, CurrentGames
  <2>2. \A k \in Handler : req'[k] = req[k] \/ req'[k].at \notin Checked
    BY <1>3 DEF LoginInsert, LoginName, RenameTx, GiveUp, Goto, Idle, Checked, TypeOK
  <2> QED
    BY <2>1, <2>2, NothingGrows
<1>4. ASSUME NEW h \in Handler, NEW v \in User,
             \/ LoginCall(h, v)
             \/ \E g \in Game, n \in Name : JoinCall(h, v, g, n) \/ RenameCall(h, v, g, n)
      PROVE  PlaysOne(u)' /\ CheckStands(u)'
  <2>1. CurrentGames(u)' = CurrentGames(u)
    BY <1>4 DEF LoginCall, JoinCall, RenameCall, games, CurrentGames
  <2>2. \A k \in Handler : req'[k] = req[k] \/ req'[k].at \notin Checked
    BY <1>4 DEF LoginCall, JoinCall, RenameCall, Start, Goto, Checked, TypeOK
  <2> QED
    BY <2>1, <2>2, NothingGrows
<1>5. ASSUME NEW g \in Game, End(g) \/ \E v \in User : Leave(v, g)
      PROVE  PlaysOne(u)' /\ CheckStands(u)'
  <2>1. CurrentGames(u)' \subseteq CurrentGames(u) /\ req' = req
    BY <1>5 DEF End, Leave, CurrentGames, TypeOK
  <2> QED
    BY <2>1, NothingGrows
<1> QED
  BY <1>1, <1>2, <1>3, <1>4, <1>5, TakesIn DEF Next, Calls, Steps

\* A user whose own requests do not overlap plays one game at most, whatever
\* the other users' requests do: what two_games shows has no other cause
\* (Create's and Join's look for a current game, before their transactions).
THEOREM TwoGamesNeedTwoRequests ==
  ASSUME NEW u \in User
  PROVE  Spec /\ []Alone(u) => []PlaysOne(u)
<1>1. Init => PlaysOne(u) /\ CheckStands(u)
  BY DEF Init, PlaysOne, CheckStands, Checked, CurrentGames, Idle
<1>2. IInv /\ Alone(u) /\ PlaysOne(u) /\ CheckStands(u) /\ [Next]_vars
        => PlaysOne(u)' /\ CheckStands(u)'
  <2>1. ASSUME UNCHANGED vars, PlaysOne(u), CheckStands(u)
        PROVE  PlaysOne(u)' /\ CheckStands(u)'
    BY <2>1 DEF PlaysOne, CheckStands, CurrentGames, vars
  <2> QED
    BY <2>1, CurrentStep DEF IInv
<1> QED
  BY <1>1, <1>2, AccountsInvariance, PTL DEF Spec

=============================================================================
