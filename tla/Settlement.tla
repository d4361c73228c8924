----------------------------- MODULE Settlement -----------------------------
(***************************************************************************)
(* How one game ends: by its owner, by a finish request that the owner     *)
(* approves, by its last participant leaving, or by the scheduler, which   *)
(* settles games nobody has scored in for a while and voids those nobody   *)
(* ever scored in.                                                         *)
(*                                                                         *)
(* As in GameSession, a handler reads first and then runs one statement or *)
(* one transaction (there is one SQLite connection), so other requests and *)
(* the scheduler interleave between the two.  Of a transfer only the count *)
(* and last_scored_at are kept here, and time is a clock of a few units.   *)
(***************************************************************************)
EXTENDS Integers, Sequences, FiniteSets

CONSTANTS
  User,
  Owner,         \* the creator of the game
  Handler,       \* the goroutines that serve this game's requests
  Threshold,     \* auto settlement threshold (24 hours by default)
  MaxClock,      \* bound of the model: the last instant
  MaxTransfers,  \* bound of the model: the transfers made
  MaxAsks,       \* bound of the model: the finish requests made
  MaxRestarts    \* bound of the model: the times the server stops

ASSUME UsersAreFinite == IsFiniteSet(User) /\ Owner \in User
ASSUME BoundsAreNumbers ==
  /\ Threshold \in Nat \ {0} /\ MaxClock \in Nat
  /\ MaxTransfers \in Nat /\ MaxAsks \in Nat /\ MaxRestarts \in Nat

VARIABLES
  status,    \* game_sessions.status
  owner,     \* game_sessions.owner_user_id
  players,   \* users whose player row has active = 1
  members,   \* users with a game_members row, once members for good
  count,     \* game_sessions.round_count: the number of transfers
  scoredAt,  \* game_sessions.last_scored_at (meaningful when count > 0)
  asks,      \* status of the finish_requests rows, in order of creation
  clock,     \* the time; the game is created at 0
  scan,      \* the scheduler: "picked" once it has read the game as a candidate
  restarts,  \* how often the server has stopped
  req        \* what each handler goroutine is doing

people == <<owner, players, members>>
vars == <<status, people, count, scoredAt, asks, clock, scan, restarts, req>>

Idle == [at |-> "idle"]

Request ==
  {Idle} \union [at : {"ask", "finish"}, user : User]
         \union [at : {"approve", "reject"}, user : User, ask : 1..MaxAsks]
         \union [at : {"leave"}, user : User, wasOwner : BOOLEAN, unscored : BOOLEAN]

TypeOK ==
  /\ status \in {"active", "finished", "voided"}
  /\ owner \in User /\ players \subseteq members /\ members \subseteq User
  /\ count \in 0..MaxTransfers
  /\ clock \in 0..MaxClock /\ scoredAt \in 0..clock
  /\ asks \in Seq({"pending", "approved", "rejected"}) /\ Len(asks) <= MaxAsks
  /\ scan \in {"waiting", "picked"}
  /\ restarts \in 0..MaxRestarts
  /\ req \in [Handler -> Request]

Init ==
  /\ status = "active"
  /\ owner = Owner /\ players = {Owner} /\ members = {Owner}
  /\ count = 0 /\ scoredAt = 0
  /\ asks = <<>>
  /\ clock = 0 /\ scan = "waiting" /\ restarts = 0
  /\ req = [h \in Handler |-> Idle]

Goto(h, r) == req' = [req EXCEPT ![h] = r]
Free(h) == req[h] = Idle

Pending == {i \in DOMAIN asks : asks[i] = "pending"}

-----------------------------------------------------------------------------
(***************************************************************************)
(* Mistakes that code like this invites, as variants of definitions below. *)
(***************************************************************************)
\* the unique index on pending rows is missing
CanAskAnyTime == Len(asks) < MaxAsks

\* a failed UPDATE of the game does not undo the one of the request
ApproveEvenIfEnded(h) ==
  /\ req[h].at = "approve"
  /\ asks' = [asks EXCEPT ![req[h].ask] = "approved"]
  /\ status' = IF status = "active" THEN "finished" ELSE status
  /\ Goto(h, Idle)
  /\ UNCHANGED <<people, count, scoredAt, clock, scan, restarts>>

\* only games that have been scored in are listed
InactiveAndScored == status = "active" /\ count > 0 /\ scoredAt <= clock - Threshold

\* the last participant's Leave does not check the status when it settles the game
LeaveValidAnyTime(r) == r.user \in players

\* the game_members row of a new player is forgotten
JoinWithoutMember(u) ==
  /\ status = "active" /\ u \notin players
  /\ players' = players \union {u}
  /\ UNCHANGED <<status, owner, members, count, scoredAt, asks, clock, scan, restarts, req>>

-----------------------------------------------------------------------------
(***************************************************************************)
(* Finish requests.  RequestFinish inserts its row with a statement of its *)
(* own, and does not read the game again; the partial unique index on      *)
(* pending rows makes the INSERT fail when there is one already.           *)
(***************************************************************************)
RequestFinish(h, u) ==
  /\ Free(h)
  /\ status = "active" /\ u \in players /\ u # owner /\ Pending = {}
  /\ Goto(h, [at |-> "ask", user |-> u])
  /\ UNCHANGED <<status, people, count, scoredAt, asks, clock, scan, restarts>>

CanAsk == Pending = {} /\ Len(asks) < MaxAsks

CreateFinishRequest(h) ==
  /\ req[h].at = "ask" /\ CanAsk
  /\ asks' = Append(asks, "pending")
  /\ Goto(h, Idle)
  /\ UNCHANGED <<status, people, count, scoredAt, clock, scan, restarts>>

\* ApproveFinishRequest and RejectFinishRequest begin with the same reads.
DecideCall(h, u, i, decision) ==
  /\ Free(h)
  /\ status = "active" /\ u = owner /\ u \in players /\ i \in Pending
  /\ Goto(h, [at |-> decision, user |-> u, ask |-> i])
  /\ UNCHANGED <<status, people, count, scoredAt, asks, clock, scan, restarts>>

\* One transaction: the row, whatever it says by now, and the game if active.
ApproveTx(h) ==
  /\ req[h].at = "approve" /\ status = "active"
  /\ asks' = [asks EXCEPT ![req[h].ask] = "approved"]
  /\ status' = "finished"
  /\ Goto(h, Idle)
  /\ UNCHANGED <<people, count, scoredAt, clock, scan, restarts>>

\* One statement: the row, whatever it says by now.
RejectUpdate(h) ==
  /\ req[h].at = "reject"
  /\ asks' = [asks EXCEPT ![req[h].ask] = "rejected"]
  /\ Goto(h, Idle)
  /\ UNCHANGED <<status, people, count, scoredAt, clock, scan, restarts>>

-----------------------------------------------------------------------------
(***************************************************************************)
(* The owner ends the game.                                                *)
(***************************************************************************)
FinishCall(h, u) ==
  /\ Free(h)
  /\ status = "active" /\ u \in members /\ u = owner
  /\ Goto(h, [at |-> "finish", user |-> u])
  /\ UNCHANGED <<status, people, count, scoredAt, asks, clock, scan, restarts>>

FinishUpdate(h) ==
  /\ req[h].at = "finish" /\ status = "active"
  /\ status' = "finished"
  /\ Goto(h, Idle)
  /\ UNCHANGED <<people, count, scoredAt, asks, clock, scan, restarts>>

(***************************************************************************)
(* A participant leaves (whose score is 0: scores are not kept here).  The *)
(* next owner is any participant here, the one who joined first in the     *)
(* code.                                                                   *)
(***************************************************************************)
LeaveCall(h, u) ==
  /\ Free(h)
  /\ status = "active" /\ u \in players
  /\ Goto(h, [at |-> "leave", user |-> u, wasOwner |-> owner = u, unscored |-> count = 0])
  /\ UNCHANGED <<status, people, count, scoredAt, asks, clock, scan, restarts>>

LeaveValid(r) == r.user \in players /\ (players = {r.user} /\ r.unscored => status = "active")

LeaveTx(h) ==
  LET r    == req[h]
      rest == players \ {r.user}
  IN /\ r.at = "leave" /\ LeaveValid(r)
     /\ players' = rest
     /\ IF r.wasOwner /\ rest # {} THEN owner' \in rest ELSE UNCHANGED owner
     /\ status' = IF rest # {} THEN status
                  ELSE IF r.unscored THEN "voided" ELSE "finished"
     /\ Goto(h, Idle)
     /\ UNCHANGED <<members, count, scoredAt, asks, clock, scan, restarts>>

\* A handler whose statement fails or whose transaction is rolled back.
Fail(h) ==
  LET r == req[h] IN
  /\ \/ r.at = "ask" /\ Pending # {}
     \/ r.at \in {"approve", "finish"} /\ status # "active"
     \/ r.at = "leave" /\ ~LeaveValid(r)
  /\ Goto(h, Idle)
  /\ UNCHANGED <<status, people, count, scoredAt, asks, clock, scan, restarts>>

-----------------------------------------------------------------------------
(***************************************************************************)
(* What else happens to the game: somebody joins or returns, a transfer or *)
(* a reversal is recorded.  People stop scoring early enough for the clock *)
(* to reach the threshold within the bound.                                *)
(***************************************************************************)
Join(u) ==
  /\ status = "active" /\ u \notin players
  /\ players' = players \union {u} /\ members' = members \union {u}
  /\ UNCHANGED <<status, owner, count, scoredAt, asks, clock, scan, restarts, req>>

Score ==
  /\ status = "active" /\ Cardinality(players) > 1
  /\ count < MaxTransfers /\ clock + Threshold <= MaxClock
  /\ count' = count + 1 /\ scoredAt' = clock
  /\ UNCHANGED <<status, people, asks, clock, scan, restarts, req>>

-----------------------------------------------------------------------------
(***************************************************************************)
(* The scheduler: a tick lists the inactive games, then settles them one   *)
(* by one; each settlement reads the status and the count again, and not   *)
(* the time of the last transfer.                                          *)
(***************************************************************************)
Inactive ==
  /\ status = "active"
  /\ IF count = 0 THEN 0 <= clock - Threshold ELSE scoredAt <= clock - Threshold

ListInactive ==
  /\ scan = "waiting" /\ Inactive
  /\ scan' = "picked"
  /\ UNCHANGED <<status, people, count, scoredAt, asks, clock, restarts, req>>

SettleOneInactive ==
  /\ scan = "picked"
  /\ scan' = "waiting"
  /\ status' = IF status # "active" THEN status
               ELSE IF count = 0 THEN "voided" ELSE "finished"
  /\ UNCHANGED <<people, count, scoredAt, asks, clock, restarts, req>>

Tick ==
  /\ clock < MaxClock /\ clock' = clock + 1
  /\ UNCHANGED <<status, people, count, scoredAt, asks, scan, restarts, req>>

\* The server stops and starts again: requests and the scheduler's list are lost.
Restart ==
  /\ restarts < MaxRestarts /\ restarts' = restarts + 1
  /\ scan' = "waiting" /\ req' = [h \in Handler |-> Idle]
  /\ UNCHANGED <<status, people, count, scoredAt, asks, clock>>

Calls(h) ==
  \E u \in User :
    \/ RequestFinish(h, u) \/ FinishCall(h, u) \/ LeaveCall(h, u)
    \/ \E i \in DOMAIN asks, decision \in {"approve", "reject"} : DecideCall(h, u, i, decision)

Steps(h) ==
  \/ CreateFinishRequest(h) \/ ApproveTx(h) \/ RejectUpdate(h)
  \/ FinishUpdate(h) \/ LeaveTx(h) \/ Fail(h)

Next ==
  \/ \E h \in Handler : Calls(h) \/ Steps(h)
  \/ \E u \in User : Join(u)
  \/ Score \/ ListInactive \/ SettleOneInactive \/ Tick \/ Restart

Spec == Init /\ [][Next]_vars

\* Time passes and the scheduler runs; no request is ever owed an end.
FairSpec == Spec /\ WF_vars(Tick) /\ WF_vars(ListInactive) /\ WF_vars(SettleOneInactive)

-----------------------------------------------------------------------------
(***************************************************************************)
(* Properties.                                                             *)
(***************************************************************************)

\* Two participants who both saw no pending request leave one pending row.
OnePendingAsk == Cardinality(Pending) <= 1

\* An approval and the end of the game stand or fall together, whoever else
\* ends the game between the owner's reads and the transaction.
ApprovalEndsTheGame == (\E i \in DOMAIN asks : asks[i] = "approved") => status = "finished"

\* The first end of a game is its only one: an approval, a finish, a settlement
\* or the last participant's Leave that read an active game changes no outcome,
\* neither from settled to voided nor the other way.
OutcomeStands == [][status # "active" => status' = status]_vars

\* A game everybody has forgotten ends, with or without transfers, with or
\* without a pending request, and across restarts of the server.
ForgottenGameEnds == <>(status # "active")

-----------------------------------------------------------------------------
(***************************************************************************)
(* What documents and comments say and the code does not keep.             *)
(***************************************************************************)
\* game-scoring.md:119 and 278: a game that was ever scored in is settled, never
\* voided.  The last participant's Leave decides from a count it read earlier.
ScoredIsNotVoided == status = "voided" => count = 0

\* app/settlement/service.go:211 and 277 (comments): the owner approves, and
\* rejects, a pending finish request: a decision already made is not replaced.
OnlyPendingIsDecided ==
  [][\A i \in DOMAIN asks : asks[i] # "pending" => asks'[i] = asks[i]]_vars
=============================================================================
