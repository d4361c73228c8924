----------------------------- MODULE RoundCycle -----------------------------
(***************************************************************************)
(* A round ("lun") of a game: every current participant is pending in it   *)
(* until a score transfer that involves the participant satisfies the      *)
(* row, or leaving exempts it; a round with no pending row is complete.    *)
(*                                                                         *)
(* These are the round_cycles and round_participation_statuses tables and  *)
(* the operations of internal/app/roundcycle on them.  They always run     *)
(* inside the transaction of a caller (Submit, Reverse, Join, Leave), so   *)
(* they are operators from tables to tables; a round's id is its round_no, *)
(* its index in the sequence "rounds".                                     *)
(***************************************************************************)
EXTENDS Integers, Sequences

CONSTANT User       \* the users; a user has at most one player row per game

NoTransfer == 0     \* satisfied_by_transfer_id IS NULL

Participation == {"none", "pending", "satisfied", "exempt"}  \* none: no row

Round == [status : {"active", "complete"},
          part   : [User -> Participation],
          by     : [User -> Nat]]

(***************************************************************************)
(* GetActiveRoundCycle: the row with status 'active'.                      *)
(***************************************************************************)
ActiveRounds(rounds) == {r \in DOMAIN rounds : rounds[r].status = "active"}

HasActiveRound(rounds) == ActiveRounds(rounds) # {}

ActiveRound(rounds) == CHOOSE r \in DOMAIN rounds : rounds[r].status = "active"

(***************************************************************************)
(* CreateRoundCycle and the pending rows inserted with it.                 *)
(***************************************************************************)
NewRound(players) ==
  [status |-> "active",
   part   |-> [u \in User |-> IF u \in players THEN "pending" ELSE "none"],
   by     |-> [u \in User |-> NoTransfer]]

\* A variant of the next definition: only the status of the row is overwritten.
UpsertStatusOnly(round, ps, st, t) ==
  [round EXCEPT !.part = [u \in User |-> IF u \in ps THEN st ELSE round.part[u]],
                !.by   = [u \in User |-> IF u \in ps /\ t # NoTransfer THEN t ELSE round.by[u]]]

(***************************************************************************)
(* UpsertRoundParticipationStatus, for each player of ps: insert the row,  *)
(* or overwrite its status and satisfied_by_transfer_id.                   *)
(***************************************************************************)
Upsert(round, ps, st, t) ==
  [round EXCEPT !.part = [u \in User |-> IF u \in ps THEN st ELSE round.part[u]],
                !.by   = [u \in User |-> IF u \in ps THEN t ELSE round.by[u]]]

EnsureActiveRound(rounds, players) ==
  IF HasActiveRound(rounds) THEN rounds ELSE Append(rounds, NewRound(players))

RoundComplete(round) == \A u \in User : round.part[u] # "pending"

CompleteIfDone(round) ==
  IF RoundComplete(round) THEN [round EXCEPT !.status = "complete"] ELSE round

MarkParticipantsSatisfied(rounds, ps, t) ==
  [rounds EXCEPT ![ActiveRound(rounds)] = CompleteIfDone(Upsert(@, ps, "satisfied", t))]

-----------------------------------------------------------------------------
\* A mistake that code like this invites (a variant of a definition below): the
\* round is reopened, the rows stay satisfied by the reversed transfer
ReopenOnly(rounds, r, t) == [rounds EXCEPT ![r].status = "active"]
-----------------------------------------------------------------------------

(***************************************************************************)
(* A player joins or leaves: the row of the active round, if there is one, *)
(* becomes pending, or exempt (which may complete the round).              *)
(***************************************************************************)
AwaitInActiveRound(rounds, u) ==
  IF HasActiveRound(rounds)
  THEN [rounds EXCEPT ![ActiveRound(rounds)] = Upsert(@, {u}, "pending", NoTransfer)]
  ELSE rounds

ExemptInActiveRound(rounds, u) ==
  IF HasActiveRound(rounds)
  THEN [rounds EXCEPT ![ActiveRound(rounds)] =
                         CompleteIfDone(Upsert(@, {u}, "exempt", NoTransfer))]
  ELSE rounds

(***************************************************************************)
(* ReopenFromReversal: the rows the reversed transfer t satisfied become   *)
(* pending and the round becomes active.  The partial unique index on      *)
(* active rounds makes the UPDATE fail when another round is active.       *)
(***************************************************************************)
CanReopen(rounds, r) == ActiveRounds(rounds) \subseteq {r}

ReopenFromReversal(rounds, r, t) ==
  [rounds EXCEPT ![r] =
     [Upsert(@, {u \in User : @.by[u] = t}, "pending", NoTransfer) EXCEPT !.status = "active"]]
=============================================================================
