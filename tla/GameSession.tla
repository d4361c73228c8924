---------------------------- MODULE GameSession ----------------------------
(***************************************************************************)
(* One game session of the 1round server: its players, its ledger of score *)
(* transfers, its rounds and its end, under concurrent HTTP requests.      *)
(*                                                                         *)
(* The store has one SQLite connection (db.SetMaxOpenConns(1)): a          *)
(* statement is atomic and a transaction (Store.InTx) runs alone and rolls *)
(* back as a whole on error.  A handler first reads with its own           *)
(* statements and then runs one transaction, so other requests interleave  *)
(* between its reads and its transaction.  A request in flight is the      *)
(* record req[h] of the goroutine h that serves it, and keeps what the     *)
(* handler has read and uses later.                                        *)
(*                                                                         *)
(* A handler that fails a check before its transaction changes nothing:    *)
(* it is the absence of a step, or a return to Idle.  Versions, names,     *)
(* broadcasts and clocks are left to other modules.                        *)
(***************************************************************************)
EXTENDS RoundCycle, FiniteSets, FiniteSetsExt

CONSTANTS
  Owner,            \* the user who creates the game
  Key,              \* idempotency keys the clients send
  Amount,           \* amounts the clients send
  MaxParticipants,  \* capacity of the game
  MaxTransfers,     \* bound of the model: no call once the ledger is this long
  Handler           \* the goroutines that serve this game's requests

ASSUME UsersAssumption == IsFiniteSet(User) /\ Owner \in User
ASSUME AmountAssumption == Amount \subseteq Nat \ {0}
ASSUME BoundsAssumption == MaxParticipants \in Nat \ {0} /\ MaxTransfers \in Nat

VARIABLES
  status,   \* game_sessions.status
  owner,    \* game_sessions.owner_user_id
  share,    \* public_share_token: 0 for NULL, n for the n-th token written
  role,     \* game_members.role, "none" without a row
  order,    \* players.joined_order, 0 without a row
  active,   \* users whose player row has active = 1
  score,    \* players.total_score
  ledger,   \* score_transfers and their receivers, in order of sequence_no
  rounds,   \* round_cycles and round_participation_statuses
  req       \* what each handler goroutine is doing

people == <<owner, role, order, active>>
vars == <<status, owner, share, role, order, active, score, ledger, rounds, req>>

-----------------------------------------------------------------------------
(***************************************************************************)
(* Types.  A transfer's id is its sequence_no.                             *)
(***************************************************************************)
Transfer == [kind : {"normal", "reversal"}, from : User, rcv : SUBSET User,
             amt : Amount, by : User, key : Key, of : Nat, round : Nat,
             reversed : BOOLEAN]

Idle == [at |-> "idle"]

SubmitRequest ==
  [at : {"submit", "submitted"}, user : User, rcv : SUBSET User, amt : Amount,
   key : Key, id : Nat]
ReverseRequest ==
  [at : {"reverse", "reversed"}, user : User, target : Nat, key : Key, id : Nat]
JoinRequest  == [at : {"join", "joinNew", "rejoin"}, user : User]
LeaveRequest == [at : {"leaving", "leave"}, user : User, wasOwner : BOOLEAN,
                 unscored : BOOLEAN]
FinishRequest == [at : {"finish"}, user : User]

Request == {Idle} \union SubmitRequest \union ReverseRequest \union JoinRequest
             \union LeaveRequest \union FinishRequest

\* Every variable has its type; a request in flight is one of the handlers'.
TypeOK ==
  /\ status \in {"active", "finished", "voided"}
  /\ owner \in User
  /\ share \in Nat
  /\ role \in [User -> {"none", "member", "owner"}]
  /\ order \in [User -> Nat]
  /\ active \subseteq User
  /\ score \in [User -> Int]
  /\ ledger \in Seq(Transfer)
  /\ rounds \in Seq(Round)
  /\ req \in [Handler -> Request]

-----------------------------------------------------------------------------
(***************************************************************************)
(* Create: the creator is the owner, the first player and the only pending *)
(* row of round 1.                                                         *)
(***************************************************************************)
Init ==
  /\ status = "active"
  /\ owner = Owner
  /\ share = 0
  /\ role = [u \in User |-> IF u = Owner THEN "owner" ELSE "none"]
  /\ order = [u \in User |-> IF u = Owner THEN 1 ELSE 0]
  /\ active = {Owner}
  /\ score = [u \in User |-> 0]
  /\ ledger = <<>>
  /\ rounds = <<NewRound({Owner})>>
  /\ req = [h \in Handler |-> Idle]

\* A goroutine keeps its last answer until it serves the next request.
Free(h) == req[h].at \in {"idle", "submitted", "reversed"}
Goto(h, r) == req' = [req EXCEPT ![h] = r]

-----------------------------------------------------------------------------
\* The entries found by GetScoreTransferByIdempotencyKey; the same triple (one
\* game here) is a unique index of score_transfers.
SameKey(u, k) == {i \in DOMAIN ledger : ledger[i].by = u /\ ledger[i].key = k}

-----------------------------------------------------------------------------
(***************************************************************************)
(* Mistakes that code like this invites, as variants of definitions below. *)
(* No action uses them; each property is shown to notice one of them.      *)
(***************************************************************************)
\* a reversal is booked like the transfer it undoes
MovedUnsigned(from, rcv, amt, sign) ==
  [u \in User |-> score[u] + (IF u \in rcv THEN amt ELSE 0)
                           - (IF u = from THEN amt * Cardinality(rcv) ELSE 0)]

\* only the rows of current players are rebuilt
MovedActiveOnly(from, rcv, amt, sign) ==
  [u \in active |-> score[u] + (IF u \in rcv THEN sign * amt ELSE 0)
                             - (IF u = from THEN sign * (amt * Cardinality(rcv)) ELSE 0)]

\* the receivers of a repeated key are not compared
SameAmount(t, rcv, amt) == t.amt = amt

\* the unique index on (user, key) is missing
SubmitValidAnyKey(r) ==
  /\ status = "active" /\ r.user \in active /\ r.rcv \subseteq active

\* the status is read before the transaction only
SubmitValidAnyStatus(r) ==
  /\ r.user \in active /\ r.rcv \subseteq active
  /\ SameKey(r.user, r.key) = {}

\* a transfer can be reversed again
ReversibleAgain(u, i) ==
  /\ status = "active" /\ u \in active
  /\ ledger[i].kind = "normal" /\ u \in ledger[i].rcv

\* scores of players who left are changed too
ReverseValidAnyPlayers(r) ==
  LET o == ledger[r.target] IN
  /\ status = "active" /\ r.user \in active \intersect o.rcv
  /\ o.kind = "normal" /\ ~o.reversed
  /\ SameKey(r.user, r.key) = {}
  /\ CanReopen(rounds, o.round)

\* the capacity is read before the transaction only
RejoinValidAnyCount == status = "active"

\* the former owner keeps the role
TransferOwnershipAddsRole(u) ==
  /\ owner' = u
  /\ role' = [role EXCEPT ![u] = "owner"]

-----------------------------------------------------------------------------
(***************************************************************************)
(* Submit: debit the sender, credit the receivers, satisfy their rows.     *)
(***************************************************************************)

\* score changes of a transfer: each receiver +amt, the sender -amt for each
Moved(from, rcv, amt, sign) ==
  [u \in User |-> score[u]
     + (IF u \in rcv THEN sign * amt ELSE 0)
     - (IF u = from THEN sign * (amt * Cardinality(rcv)) ELSE 0)]

SamePayload(t, rcv, amt) == t.amt = amt /\ t.rcv = rcv

\* The checks before the transaction, then the lookup of the key: a recorded
\* transfer with the same payload is the answer, another payload a conflict.
SubmitCall(h, u, rcv, amt, k) ==
  /\ Free(h)
  /\ status = "active"
  /\ u \in active /\ u \notin rcv /\ rcv # {} /\ rcv \subseteq active
  /\ \/ /\ SameKey(u, k) = {} /\ Len(ledger) < MaxTransfers
        /\ Goto(h, [at |-> "submit", user |-> u, rcv |-> rcv, amt |-> amt,
                    key |-> k, id |-> 0])
     \/ \E i \in SameKey(u, k) :
          /\ SamePayload(ledger[i], rcv, amt)
          /\ Goto(h, [at |-> "submitted", user |-> u, rcv |-> rcv, amt |-> amt,
                      key |-> k, id |-> i])
  /\ UNCHANGED <<status, share, people, score, ledger, rounds>>

SubmitValid(r) ==
  /\ status = "active"
  /\ r.user \in active /\ r.rcv \subseteq active
  /\ SameKey(r.user, r.key) = {}

SubmitTx(h) ==
  LET r  == req[h]
      t  == Len(ledger) + 1                         \* NextScoreTransferSequence
      rs == EnsureActiveRound(rounds, active)
      n  == ActiveRound(rs)
  IN /\ r.at = "submit" /\ SubmitValid(r)
     /\ ledger' = Append(ledger,
          [kind |-> "normal", from |-> r.user, rcv |-> r.rcv, amt |-> r.amt,
           by |-> r.user, key |-> r.key, of |-> NoTransfer, round |-> n,
           reversed |-> FALSE])
     /\ score' = Moved(r.user, r.rcv, r.amt, 1)
     /\ rounds' = MarkParticipantsSatisfied(rs, {r.user} \union r.rcv, t)
     /\ Goto(h, [r EXCEPT !.at = "submitted", !.id = t])
     /\ UNCHANGED <<status, share, people>>

-----------------------------------------------------------------------------
(***************************************************************************)
(* Reverse: a receiver undoes a transfer.  The reversal is recorded in the *)
(* round of the original, which it reopens.                                *)
(***************************************************************************)
ReverseCall(h, u, i, k) ==
  /\ Free(h)
  /\ status = "active" /\ u \in active
  /\ \/ /\ SameKey(u, k) = {} /\ Len(ledger) < MaxTransfers
        /\ Goto(h, [at |-> "reverse", user |-> u, target |-> i, key |-> k, id |-> 0])
     \/ \E j \in SameKey(u, k) :
          /\ ledger[j].kind = "reversal" /\ ledger[j].of = i
          /\ Goto(h, [at |-> "reversed", user |-> u, target |-> i, key |-> k, id |-> j])
  /\ UNCHANGED <<status, share, people, score, ledger, rounds>>

\* What a participant may undo: a transfer received, not yet reversed.
Reversible(u, i) ==
  /\ status = "active" /\ u \in active
  /\ ledger[i].kind = "normal" /\ ~ledger[i].reversed /\ u \in ledger[i].rcv

\* ... and what the statements of the transaction need to succeed: the key is
\* new, every player is active (Debit and Credit update rows with active = 1)
\* and the round can become active.
ReverseValid(r) ==
  LET o == ledger[r.target] IN
  /\ Reversible(r.user, r.target)
  /\ SameKey(r.user, r.key) = {}
  /\ {o.from} \union o.rcv \subseteq active
  /\ CanReopen(rounds, o.round)

ReverseTx(h) ==
  LET r == req[h]
      o == ledger[r.target]
  IN /\ r.at = "reverse" /\ ReverseValid(r)
     /\ ledger' = Append([ledger EXCEPT ![r.target].reversed = TRUE],
          [kind |-> "reversal", from |-> o.from, rcv |-> o.rcv, amt |-> o.amt,
           by |-> r.user, key |-> r.key, of |-> r.target, round |-> o.round,
           reversed |-> FALSE])
     /\ score' = Moved(o.from, o.rcv, o.amt, -1)
     /\ rounds' = ReopenFromReversal(rounds, o.round, r.target)
     /\ Goto(h, [r EXCEPT !.at = "reversed", !.id = Len(ledger) + 1])
     /\ UNCHANGED <<status, share, people>>

-----------------------------------------------------------------------------
(***************************************************************************)
(* Join.  The handler reads that the caller is not active, then whether    *)
(* the caller has a player row: a row is reactivated, with its score reset *)
(* to 0 and whatever its state then is; without one a player is created,   *)
(* and a second row for the same user violates a unique index.             *)
(***************************************************************************)
JoinCall(h, u) ==
  /\ Free(h)
  /\ status = "active" /\ u \notin active
  /\ Goto(h, [at |-> "join", user |-> u])
  /\ UNCHANGED <<status, share, people, score, ledger, rounds>>

JoinLookup(h) ==
  /\ req[h].at = "join"
  /\ Goto(h, [req[h] EXCEPT !.at = IF order[req[h].user] > 0 THEN "rejoin" ELSE "joinNew"])
  /\ UNCHANGED <<status, share, people, score, ledger, rounds>>

NextJoinedOrder == Max({order[u] : u \in User}) + 1

RejoinValid == status = "active" /\ Cardinality(active) < MaxParticipants
JoinNewValid(u) == RejoinValid /\ order[u] = 0

JoinNewTx(h) ==
  LET u == req[h].user IN
  /\ req[h].at = "joinNew" /\ JoinNewValid(u)
  /\ order' = [order EXCEPT ![u] = NextJoinedOrder]
  /\ active' = active \union {u}
  /\ role' = [role EXCEPT ![u] = "member"]
  /\ rounds' = AwaitInActiveRound(rounds, u)
  /\ Goto(h, Idle)
  /\ UNCHANGED <<status, share, owner, score, ledger>>

RejoinTx(h) ==
  LET u == req[h].user IN
  /\ req[h].at = "rejoin" /\ RejoinValid
  /\ active' = active \union {u}
  /\ score' = [score EXCEPT ![u] = 0]
  /\ rounds' = AwaitInActiveRound(rounds, u)
  /\ Goto(h, Idle)
  /\ UNCHANGED <<status, share, owner, role, order, ledger>>

-----------------------------------------------------------------------------
(***************************************************************************)
(* Leave: one read of the game (status, owner, number of transfers), one   *)
(* of the player (active, score 0), then the transaction, which uses what  *)
(* the reads returned and checks only that the player is still active.     *)
(***************************************************************************)
LeaveCall(h, u) ==
  /\ Free(h)
  /\ status = "active" /\ order[u] > 0
  /\ Goto(h, [at |-> "leaving", user |-> u, wasOwner |-> owner = u,
              unscored |-> ledger = <<>>])
  /\ UNCHANGED <<status, share, people, score, ledger, rounds>>

LeaveCheck(h) ==
  LET u == req[h].user IN
  /\ req[h].at = "leaving"
  /\ Goto(h, IF u \in active /\ score[u] = 0
             THEN [req[h] EXCEPT !.at = "leave"] ELSE Idle)
  /\ UNCHANGED <<status, share, people, score, ledger, rounds>>

\* GetNextOwner: the active player with the lowest joined_order
NextOwner(ps) == CHOOSE u \in ps : \A v \in ps : order[u] <= order[v]

\* VoidGameSession needs an active game; FinishGameSessionWithSettle does not.
LeaveValid(r) ==
  /\ r.user \in active
  /\ active = {r.user} /\ r.unscored => status = "active"

TransferOwnership(u) ==
  /\ owner' = u
  /\ role' = [v \in User |-> IF v = u THEN "owner"
                             ELSE IF role[v] = "owner" THEN "member" ELSE role[v]]

LeaveTx(h) ==
  LET r    == req[h]
      rest == active \ {r.user}
  IN /\ r.at = "leave" /\ LeaveValid(r)
     /\ active' = rest
     /\ rounds' = ExemptInActiveRound(rounds, r.user)
     /\ IF r.wasOwner /\ rest # {}
        THEN TransferOwnership(NextOwner(rest)) ELSE UNCHANGED <<owner, role>>
     /\ status' = IF rest # {} THEN status
                  ELSE IF r.unscored THEN "voided" ELSE "finished"
     /\ share' = IF rest = {} /\ ~r.unscored THEN share + 1 ELSE share
     /\ Goto(h, Idle)
     /\ UNCHANGED <<order, score, ledger>>

-----------------------------------------------------------------------------
(***************************************************************************)
(* The end of the game: by its owner, or by the scheduler, which may act   *)
(* on any active game once the clock says it is inactive (the clock is     *)
(* left free here).                                                        *)
(***************************************************************************)
FinishCall(h, u) ==
  /\ Free(h)
  /\ status = "active" /\ owner = u
  /\ Goto(h, [at |-> "finish", user |-> u])
  /\ UNCHANGED <<status, share, people, score, ledger, rounds>>

FinishTx(h) ==
  /\ req[h].at = "finish" /\ status = "active"
  /\ status' = "finished"
  /\ share' = share + 1
  /\ Goto(h, Idle)
  /\ UNCHANGED <<people, score, ledger, rounds>>

SettleInactive ==
  /\ status = "active"
  /\ IF ledger = <<>> THEN status' = "voided" /\ UNCHANGED share
                      ELSE status' = "finished" /\ share' = share + 1
  /\ UNCHANGED <<people, score, ledger, rounds, req>>

-----------------------------------------------------------------------------
(***************************************************************************)
(* A transaction whose checks or statements fail is rolled back.  When the *)
(* server stops, the requests in flight are lost; the database stays.      *)
(***************************************************************************)
Rollback(h) ==
  LET r == req[h] IN
  /\ \/ r.at = "submit"  /\ ~SubmitValid(r)
     \/ r.at = "reverse" /\ ~ReverseValid(r)
     \/ r.at = "joinNew" /\ ~JoinNewValid(r.user)
     \/ r.at = "rejoin"  /\ ~RejoinValid
     \/ r.at = "leave"   /\ ~LeaveValid(r)
     \/ r.at = "finish"  /\ status # "active"
  /\ Goto(h, Idle)
  /\ UNCHANGED <<status, share, people, score, ledger, rounds>>

Restart ==
  /\ req' = [h \in Handler |-> Idle]
  /\ UNCHANGED <<status, share, people, score, ledger, rounds>>

Calls(h) ==
  \E u \in User :
    \/ \E rcv \in SUBSET User, amt \in Amount, k \in Key : SubmitCall(h, u, rcv, amt, k)
    \/ \E i \in DOMAIN ledger, k \in Key : ReverseCall(h, u, i, k)
    \/ JoinCall(h, u)
    \/ LeaveCall(h, u)
    \/ FinishCall(h, u)

Steps(h) ==
  \/ SubmitTx(h) \/ ReverseTx(h)
  \/ JoinLookup(h) \/ JoinNewTx(h) \/ RejoinTx(h)
  \/ LeaveCheck(h) \/ LeaveTx(h)
  \/ FinishTx(h) \/ Rollback(h)

Next ==
  \/ \E h \in Handler : Calls(h) \/ Steps(h)
  \/ SettleInactive
  \/ Restart

Spec == Init /\ [][Next]_vars

-----------------------------------------------------------------------------
(***************************************************************************)
(* Safety.                                                                 *)
(***************************************************************************)

\* A round with a pending row is active, there is at most one such round, and
\* whoever is pending in it still plays: a transfer never waits on, and a round
\* is never held open by, somebody who left.  Join, Leave, Submit and Reverse
\* all rewrite these rows, and a reversal may reopen any old round.
PendingPlayersCanPlay ==
  /\ \A r, s \in ActiveRounds(rounds) : r = s
  /\ \A r \in DOMAIN rounds, u \in User :
       rounds[r].part[u] = "pending" => rounds[r].status = "active" /\ u \in active

\* A satisfied row names a transfer of that same round that involves the player
\* and has not been reversed: MarkParticipantsSatisfied overwrites older rows,
\* and ResetRoundParticipationAfterReversal finds rows by that name only.
SatisfiedByLiveTransfer ==
  \A r \in DOMAIN rounds, u \in User :
    rounds[r].part[u] = "satisfied" =>
      LET t == rounds[r].by[u] IN
      /\ t \in DOMAIN ledger
      /\ ledger[t].kind = "normal" /\ ~ledger[t].reversed
      /\ ledger[t].round = r
      /\ u \in {ledger[t].from} \union ledger[t].rcv

\* A user's idempotency key is used by one entry of the ledger, however the
\* lookup before the transaction interleaves with a duplicate of the request.
OncePerKey ==
  \A i, j \in DOMAIN ledger :
    ledger[i].by = ledger[j].by /\ ledger[i].key = ledger[j].key => i = j

\* A transfer is marked reversed exactly when one later entry reverses it, made
\* by one of its receivers, and nothing reverses a reversal.
ReversedOnce ==
  \A i \in DOMAIN ledger :
    LET undo == {j \in DOMAIN ledger : ledger[j].of = i} IN
    /\ ledger[i].reversed <=> undo # {}
    /\ \A j, k \in undo : j = k
    /\ \A j \in undo : /\ i < j /\ ledger[i].kind = "normal"
                       /\ ledger[j].kind = "reversal" /\ ledger[j].by \in ledger[i].rcv

\* What an answer to request r says is in the ledger.
AnswerOK(r) ==
  /\ r.at = "submitted" =>
       /\ r.id \in DOMAIN ledger
       /\ ledger[r.id].kind = "normal" /\ ledger[r.id].from = r.user
       /\ ledger[r.id].by = r.user /\ ledger[r.id].key = r.key
       /\ SamePayload(ledger[r.id], r.rcv, r.amt)
  /\ r.at = "reversed" =>
       /\ r.id \in DOMAIN ledger
       /\ ledger[r.id].of = r.target
       /\ ledger[r.id].by = r.user /\ ledger[r.id].key = r.key

\* An answer names a recorded entry that says what the request asked: a key sent
\* again is answered with the caller's own transfer and never with a reversal
\* (a reversal's author is among its receivers, a sender never is).
AnswersAreRecorded == \A h \in Handler : AnswerOK(req[h])

\* Never more current participants than the game has places, whatever joins
\* and rejoins passed their reads together.
CapacityRespected == Cardinality(active) <= MaxParticipants

\* game_sessions.owner_user_id and game_members.role name the same, single owner.
OneOwner == \A u \in User : role[u] = "owner" <=> u = owner

\* What entry t adds to the score of u.
Gain(t, u) ==
  LET sign == IF t.kind = "normal" THEN 1 ELSE -1 IN
  sign * ((IF u \in t.rcv THEN t.amt ELSE 0)
            - (IF u = t.from THEN t.amt * Cardinality(t.rcv) ELSE 0))

\* total_score is kept up to date, not recomputed: it is what the entries of the
\* ledger after some point (the player's last return to the game) add up to.
ScoresFollowLedger ==
  \A u \in User : \E s \in 0..Len(ledger) :
    score[u] = SumFunction([i \in s+1..Len(ledger) |-> Gain(ledger[i], u)])

\* Once a game is finished or voided it keeps that end, and no transfer,
\* reversal, rejoin or late transaction changes its ledger or a score.
EndIsFinal ==
  [][status # "active" => status' = status /\ UNCHANGED <<ledger, score>>]_vars

-----------------------------------------------------------------------------
(***************************************************************************)
(* The inductive invariant: the properties above, except the one about     *)
(* scores, and what they rest on.                                          *)
(***************************************************************************)

\* What a handler has read and still relies on in its transaction.  Rows of
\* players and of the ledger are never deleted, so these reads stay true.
ReadOK(r) ==
  /\ r.at = "reverse" => r.target \in DOMAIN ledger
  /\ r.at = "rejoin" => order[r.user] > 0
  /\ r.at \in {"leaving", "leave"} /\ ~r.unscored => ledger # <<>>

ReadsStayTrue == \A h \in Handler : ReadOK(req[h])

\* Who may be the author of an entry.
AuthorsOK ==
  \A i \in DOMAIN ledger :
    LET t == ledger[i] IN
    /\ t.kind = "normal" => t.of = NoTransfer /\ t.by = t.from
    /\ t.kind = "reversal" => t.of \in DOMAIN ledger /\ t.by \in t.rcv

\* satisfied_by_transfer_id is set in satisfied rows only.
ByOnlyWhenSatisfied ==
  \A r \in DOMAIN rounds, u \in User :
    rounds[r].by[u] # NoTransfer => rounds[r].part[u] = "satisfied"

\* Current participants and the owner have a player row.
HavePlayerRow == \A u \in User : u \in active \/ u = owner => order[u] > 0

\* A voided game is one without transfers, or one that everybody has left (a
\* Leave that read no transfer voids the game even if there is one by then).
VoidedIsEmpty == status = "voided" => active = {} \/ ledger = <<>>

\* The inductive invariant, in the groups its proof uses.
RequestsInv == ReadsStayTrue /\ AnswersAreRecorded
LedgerInv   == AuthorsOK /\ OncePerKey /\ ReversedOnce
RoundsInv   == PendingPlayersCanPlay /\ SatisfiedByLiveTransfer /\ ByOnlyWhenSatisfied
PeopleInv   == CapacityRespected /\ HavePlayerRow /\ OneOwner /\ VoidedIsEmpty

IInv == TypeOK /\ RequestsInv /\ LedgerInv /\ RoundsInv /\ PeopleInv

-----------------------------------------------------------------------------
(***************************************************************************)
(* The game implements a score sheet: the ledger is the book, and it is    *)
(* open as long as the game is active.                                     *)
(***************************************************************************)
Statement(t) == [from |-> t.from, rcv |-> t.rcv, amt |-> t.amt]

Written(t) == [slip |-> <<t.by, t.key>>, what |-> Statement(t), undoes |-> t.of,
               undone |-> t.reversed]

Book == INSTANCE ScoreBook WITH
          Slip <- User \X Key,
          What <- [from : User, rcv : SUBSET User, amt : Amount],
          book <- [i \in DOMAIN ledger |-> Written(ledger[i])],
          open <- status = "active"

\* Concurrent, duplicated and late requests leave a score sheet: append-only,
\* each entry struck out at most once, each key entered once, fixed at the end.
ImplementsScoreBook == Book!Spec

-----------------------------------------------------------------------------
(***************************************************************************)
(* What the documents promise and the code does not keep.                  *)
(***************************************************************************)

\* docs/requirements/game-scoring.md:249: the scores of all players who ever
\* took part always add up to 0.
ZeroSum == SumFunction(score) = 0

\* game-scoring.md:117: the owner's rights pass on when the owner leaves, so
\* while a game goes on its owner is one of its current participants.
OwnerPlays == status = "active" => owner \in active

\* game-scoring.md:251 and 308: a settled game is read-only and its public link
\* stays valid, so the link written at settlement is never replaced.
OneShareLink == share <= 1

\* game-scoring.md:168 and 391: a reversal only needs its caller to be a current
\* participant who received the transfer; no such request is refused for the
\* other players' sake or for a later round's.
EligibleReversalIsAccepted ==
  \A h \in Handler :
    LET r == req[h] IN
    r.at = "reverse" /\ Reversible(r.user, r.target) /\ SameKey(r.user, r.key) = {}
      => ReverseValid(r)
=============================================================================
