-------------------------- MODULE RoundCycleProofs --------------------------
(***************************************************************************)
(* What the operations on rounds return: each yields a well-formed list of *)
(* rounds, keeps the rounds consistent with the players (RowsOK), and      *)
(* changes no rows but those it is meant to change.                        *)
(***************************************************************************)
EXTENDS RoundCycle, TLAPS

\* One active round at most, whose pending rows belong to players; pending rows
\* in no other round.
RowsOK(rounds, players) ==
  /\ \A r, s \in ActiveRounds(rounds) : r = s
  /\ \A r \in DOMAIN rounds, u \in User :
       rounds[r].part[u] = "pending" => rounds[r].status = "active" /\ u \in players

LEMMA NewRoundType ==
  ASSUME NEW players
  PROVE  NewRound(players) \in Round
BY DEF NewRound, Round, Participation, NoTransfer

LEMMA UpsertType ==
  ASSUME NEW round \in Round, NEW ps, NEW st \in Participation, NEW t \in Nat
  PROVE  /\ Upsert(round, ps, st, t) \in Round
         /\ Upsert(round, ps, st, t).status = round.status
BY DEF Upsert, Round

LEMMA UpsertRows ==
  ASSUME NEW round \in Round, NEW ps, NEW st \in Participation, NEW t \in Nat
  PROVE  \A u \in User :
           /\ Upsert(round, ps, st, t).part[u] = IF u \in ps THEN st ELSE round.part[u]
           /\ Upsert(round, ps, st, t).by[u] = IF u \in ps THEN t ELSE round.by[u]
BY DEF Upsert, Round

LEMMA CompleteIfDoneType ==
  ASSUME NEW round \in Round
  PROVE  /\ CompleteIfDone(round) \in Round
         /\ CompleteIfDone(round).part = round.part
         /\ CompleteIfDone(round).by = round.by
         /\ \/ CompleteIfDone(round).status = round.status
            \/ /\ CompleteIfDone(round).status = "complete"
               /\ \A u \in User : round.part[u] # "pending"
BY DEF CompleteIfDone, RoundComplete, Round

LEMMA ActiveRoundIsOne ==
  ASSUME NEW rounds, HasActiveRound(rounds)
  PROVE  ActiveRound(rounds) \in ActiveRounds(rounds)
BY DEF HasActiveRound, ActiveRounds, ActiveRound

LEMMA EnsureActiveRoundOK ==
  ASSUME NEW rounds \in Seq(Round), NEW players \in SUBSET User, RowsOK(rounds, players)
  PROVE  LET rs == EnsureActiveRound(rounds, players) IN
         /\ rs \in Seq(Round) /\ HasActiveRound(rs) /\ RowsOK(rs, players)
         /\ DOMAIN rounds \subseteq DOMAIN rs
         /\ \A r \in DOMAIN rounds : rs[r] = rounds[r]
         /\ \A r \in DOMAIN rs \ DOMAIN rounds, u \in User :
              rs[r].part[u] # "satisfied" /\ rs[r].by[u] = NoTransfer
<1> DEFINE rs == EnsureActiveRound(rounds, players)
<1>1. CASE HasActiveRound(rounds)
  BY <1>1 DEF EnsureActiveRound
<1>2. CASE ~HasActiveRound(rounds)
  <2> DEFINE n == NewRound(players)
  <2>1. n \in Round /\ rs = Append(rounds, n)
    BY <1>2, NewRoundType DEF EnsureActiveRound
  <2>2. /\ n.status = "active"
        /\ \A u \in User : /\ n.part[u] = (IF u \in players THEN "pending" ELSE "none")
                           /\ n.by[u] = NoTransfer
    BY DEF NewRound
  <2> HIDE DEF n, rs
  <2>3. /\ rs \in Seq(Round) /\ Len(rs) = Len(rounds) + 1
        /\ \A r \in DOMAIN rounds : rs[r] = rounds[r]
        /\ rs[Len(rounds) + 1] = n
        /\ DOMAIN rs = DOMAIN rounds \union {Len(rounds) + 1}
        /\ Len(rounds) + 1 \notin DOMAIN rounds
    BY <2>1
  <2>4. ActiveRounds(rs) = {Len(rounds) + 1}
    BY <1>2, <2>2, <2>3 DEF HasActiveRound, ActiveRounds
  <2>5. RowsOK(rs, players)
    BY <2>2, <2>3, <2>4 DEF RowsOK
  <2> QED
    BY <2>2, <2>3, <2>4, <2>5 DEF HasActiveRound, rs
<1> QED
  BY <1>1, <1>2

\* Rewriting the row of the one active round keeps the rounds consistent.
LEMMA ActiveRowsOK ==
  ASSUME NEW rounds \in Seq(Round), NEW players, NEW players2, RowsOK(rounds, players),
         NEW n \in ActiveRounds(rounds), NEW round \in Round,
         \A u \in User : round.part[u] = "pending" =>
                           round.status = "active" /\ u \in players2
  PROVE  /\ [rounds EXCEPT ![n] = round] \in Seq(Round)
         /\ RowsOK([rounds EXCEPT ![n] = round], players2)
<1> DEFINE rs == [rounds EXCEPT ![n] = round]
<1>1. /\ rs \in Seq(Round) /\ DOMAIN rs = DOMAIN rounds
      /\ n \in DOMAIN rounds /\ rs[n] = round
      /\ \A r \in DOMAIN rounds \ {n} : rs[r] = rounds[r]
  BY DEF ActiveRounds
<1>2. \A r \in DOMAIN rounds \ {n} : rounds[r].status # "active"
  BY DEF RowsOK, ActiveRounds
<1> HIDE DEF rs
<1>3. ActiveRounds(rs) \subseteq {n}
  BY <1>1, <1>2 DEF ActiveRounds
<1>4. RowsOK(rs, players2)
  BY <1>1, <1>2, <1>3 DEF RowsOK
<1> QED
  BY <1>1, <1>4 DEF rs

\* A player joins: still one active round, and the new player may be pending.
LEMMA AwaitOK ==
  ASSUME NEW rounds \in Seq(Round), NEW players \in SUBSET User, NEW u \in User,
         RowsOK(rounds, players)
  PROVE  LET rs == AwaitInActiveRound(rounds, u) IN
         /\ rs \in Seq(Round) /\ RowsOK(rs, players \union {u})
         /\ DOMAIN rs = DOMAIN rounds
         /\ \A r \in DOMAIN rounds, v \in User :
              \/ rs[r].part[v] = rounds[r].part[v] /\ rs[r].by[v] = rounds[r].by[v]
              \/ rs[r].part[v] = "pending" /\ rs[r].by[v] = NoTransfer
<1> DEFINE rs == AwaitInActiveRound(rounds, u)
<1>1. CASE ~HasActiveRound(rounds)
  BY <1>1 DEF AwaitInActiveRound, RowsOK
<1>2. CASE HasActiveRound(rounds)
  <2> DEFINE n == ActiveRound(rounds)
             round == Upsert(rounds[n], {u}, "pending", NoTransfer)
  <2>1. n \in ActiveRounds(rounds) /\ n \in DOMAIN rounds /\ rounds[n].status = "active"
    BY <1>2, ActiveRoundIsOne DEF ActiveRounds
  <2>2. rs = [rounds EXCEPT ![n] = round]
    BY <1>2 DEF AwaitInActiveRound
  <2>3. /\ round \in Round /\ round.status = "active"
        /\ \A v \in User :
              /\ round.part[v] = IF v \in {u} THEN "pending" ELSE rounds[n].part[v]
              /\ round.by[v] = IF v \in {u} THEN NoTransfer ELSE rounds[n].by[v]
    <3>1. rounds[n] \in Round /\ "pending" \in Participation /\ NoTransfer \in Nat
      BY <2>1 DEF Participation, NoTransfer
    <3> HIDE DEF n
    <3>2. /\ round \in Round /\ round.status = rounds[n].status
          /\ \A v \in User :
                /\ round.part[v] = IF v \in {u} THEN "pending" ELSE rounds[n].part[v]
                /\ round.by[v] = IF v \in {u} THEN NoTransfer ELSE rounds[n].by[v]
      BY <3>1, UpsertType, UpsertRows DEF NoTransfer
    <3> QED
      BY <2>1, <3>2
  <2> HIDE DEF n, round, rs
  <2>4. \A v \in User : round.part[v] = "pending" =>
                          round.status = "active" /\ v \in players \union {u}
    BY <2>1, <2>3 DEF RowsOK
  <2>5. rs \in Seq(Round) /\ RowsOK(rs, players \union {u})
    BY <2>1, <2>2, <2>3, <2>4, ActiveRowsOK
  <2> QED
    BY <2>1, <2>2, <2>3, <2>5 DEF rs
<1> QED
  BY <1>1, <1>2

\* A player leaves: nobody who has left is pending, and an empty round is done.
LEMMA ExemptOK ==
  ASSUME NEW rounds \in Seq(Round), NEW players \in SUBSET User, NEW u \in User,
         RowsOK(rounds, players)
  PROVE  LET rs == ExemptInActiveRound(rounds, u) IN
         /\ rs \in Seq(Round) /\ RowsOK(rs, players \ {u})
         /\ DOMAIN rs = DOMAIN rounds
         /\ \A r \in DOMAIN rounds, v \in User :
              \/ rs[r].part[v] = rounds[r].part[v] /\ rs[r].by[v] = rounds[r].by[v]
              \/ rs[r].part[v] = "exempt" /\ rs[r].by[v] = NoTransfer
<1> DEFINE rs == ExemptInActiveRound(rounds, u)
<1>1. CASE ~HasActiveRound(rounds)
  BY <1>1 DEF ExemptInActiveRound, RowsOK, HasActiveRound, ActiveRounds
<1>2. CASE HasActiveRound(rounds)
  <2> DEFINE n == ActiveRound(rounds)
             row == Upsert(rounds[n], {u}, "exempt", NoTransfer)
             round == CompleteIfDone(row)
  <2>1. n \in ActiveRounds(rounds) /\ n \in DOMAIN rounds /\ rounds[n].status = "active"
    BY <1>2, ActiveRoundIsOne DEF ActiveRounds
  <2>2. rs = [rounds EXCEPT ![n] = round]
    BY <1>2 DEF ExemptInActiveRound
  <2>3. /\ row \in Round /\ row.status = "active"
        /\ \A v \in User :
              /\ row.part[v] = IF v \in {u} THEN "exempt" ELSE rounds[n].part[v]
              /\ row.by[v] = IF v \in {u} THEN NoTransfer ELSE rounds[n].by[v]
    <3>1. rounds[n] \in Round /\ "exempt" \in Participation /\ NoTransfer \in Nat
      BY <2>1 DEF Participation, NoTransfer
    <3> HIDE DEF n
    <3>2. /\ row \in Round /\ row.status = rounds[n].status
          /\ \A v \in User :
                /\ row.part[v] = IF v \in {u} THEN "exempt" ELSE rounds[n].part[v]
                /\ row.by[v] = IF v \in {u} THEN NoTransfer ELSE rounds[n].by[v]
      BY <3>1, UpsertType, UpsertRows DEF NoTransfer
    <3> QED
      BY <2>1, <3>2
  <2> HIDE DEF n, row
  <2>4. /\ round \in Round /\ round.part = row.part /\ round.by = row.by
        /\ \/ round.status = "active"
           \/ \A v \in User : row.part[v] # "pending"
    BY <2>3, CompleteIfDoneType
  <2> HIDE DEF round, rs
  <2>5. \A v \in User : round.part[v] = "pending" =>
                          round.status = "active" /\ v \in players \ {u}
    BY <2>1, <2>3, <2>4 DEF RowsOK
  <2>6. rs \in Seq(Round) /\ RowsOK(rs, players \ {u})
    BY <2>1, <2>2, <2>4, <2>5, ActiveRowsOK
  <2> QED
    BY <2>1, <2>2, <2>3, <2>4, <2>6 DEF rs
<1> QED
  BY <1>1, <1>2

\* A transfer t satisfies the rows of ps in the active round: the other rows of
\* the round stay, and the round is complete if none of them is pending.
LEMMA SatisfyOK ==
  ASSUME NEW rounds \in Seq(Round), NEW players \in SUBSET User,
         RowsOK(rounds, players), HasActiveRound(rounds),
         NEW ps \in SUBSET User, NEW t \in Nat
  PROVE  LET n  == ActiveRound(rounds)
             rs == MarkParticipantsSatisfied(rounds, ps, t) IN
         /\ rs \in Seq(Round) /\ RowsOK(rs, players)
         /\ n \in DOMAIN rounds /\ DOMAIN rs = DOMAIN rounds
         /\ \A r \in DOMAIN rounds, v \in User :
              IF r = n /\ v \in ps
              THEN rs[r].part[v] = "satisfied" /\ rs[r].by[v] = t
              ELSE rs[r].part[v] = rounds[r].part[v] /\ rs[r].by[v] = rounds[r].by[v]
<1> DEFINE n == ActiveRound(rounds)
           row == Upsert(rounds[n], ps, "satisfied", t)
           round == CompleteIfDone(row)
           rs == [rounds EXCEPT ![n] = round]
<1>1. n \in ActiveRounds(rounds) /\ n \in DOMAIN rounds /\ rounds[n].status = "active"
  BY ActiveRoundIsOne DEF ActiveRounds
<1>2. /\ row \in Round /\ row.status = "active"
      /\ \A v \in User :
            /\ row.part[v] = IF v \in ps THEN "satisfied" ELSE rounds[n].part[v]
            /\ row.by[v] = IF v \in ps THEN t ELSE rounds[n].by[v]
  <2>1. rounds[n] \in Round /\ "satisfied" \in Participation
    BY <1>1 DEF Participation
  <2> HIDE DEF n
  <2> QED
    BY <1>1, <2>1, UpsertType, UpsertRows
<1> HIDE DEF n, row
<1>3. /\ round \in Round /\ round.part = row.part /\ round.by = row.by
      /\ \/ round.status = "active"
         \/ \A v \in User : row.part[v] # "pending"
  BY <1>2, CompleteIfDoneType
<1> HIDE DEF round
<1>4. \A v \in User : round.part[v] = "pending" =>
                        round.status = "active" /\ v \in players
  BY <1>1, <1>2, <1>3 DEF RowsOK
<1>5. rs \in Seq(Round) /\ RowsOK(rs, players)
  BY <1>1, <1>3, <1>4, ActiveRowsOK
<1>6. \A r \in DOMAIN rounds, v \in User :
        IF r = n /\ v \in ps
        THEN rs[r].part[v] = "satisfied" /\ rs[r].by[v] = t
        ELSE rs[r].part[v] = rounds[r].part[v] /\ rs[r].by[v] = rounds[r].by[v]
  BY <1>1, <1>2, <1>3
<1> QED
  BY <1>1, <1>5, <1>6 DEF n, row, round, MarkParticipantsSatisfied

LEMMA SatisfyDomain ==
  ASSUME NEW rounds, NEW ps, NEW t
  PROVE  DOMAIN MarkParticipantsSatisfied(rounds, ps, t) = DOMAIN rounds
<1> DEFINE n == ActiveRound(rounds)
           round == CompleteIfDone(Upsert(rounds[n], ps, "satisfied", t))
<1>1. MarkParticipantsSatisfied(rounds, ps, t) = [rounds EXCEPT ![n] = round]
  BY DEF MarkParticipantsSatisfied
<1> HIDE DEF n, round
<1> QED
  BY <1>1

\* A reversal of t reopens round n: its rows satisfied by t are pending again.
LEMMA ReopenOK ==
  ASSUME NEW rounds \in Seq(Round), NEW players \in SUBSET User,
         RowsOK(rounds, players), NEW n, CanReopen(rounds, n), NEW t \in Nat \ {NoTransfer},
         n \in DOMAIN rounds => \A u \in User : rounds[n].by[u] = t => u \in players
  PROVE  LET rs == ReopenFromReversal(rounds, n, t) IN
         /\ rs \in Seq(Round) /\ RowsOK(rs, players)
         /\ DOMAIN rs = DOMAIN rounds
         /\ \A r \in DOMAIN rounds, v \in User :
              IF r = n /\ rounds[r].by[v] = t
              THEN rs[r].part[v] = "pending" /\ rs[r].by[v] = NoTransfer
              ELSE rs[r].part[v] = rounds[r].part[v] /\ rs[r].by[v] = rounds[r].by[v]
<1> DEFINE rs == ReopenFromReversal(rounds, n, t)
<1>1. CASE n \notin DOMAIN rounds
  <2> DEFINE row == Upsert(rounds[n], {u \in User : rounds[n].by[u] = t}, "pending", NoTransfer)
             round == [row EXCEPT !.status = "active"]
  <2>2. rs = [rounds EXCEPT ![n] = round]
    BY DEF ReopenFromReversal
  <2> HIDE DEF round
  <2>1. rs = rounds
    BY <1>1, <2>2
  <2> QED
    BY <1>1, <2>1
<1>2. CASE n \in DOMAIN rounds
  <2> DEFINE ps == {u \in User : rounds[n].by[u] = t}
             row == Upsert(rounds[n], ps, "pending", NoTransfer)
             round == [row EXCEPT !.status = "active"]
  <2>1. rs = [rounds EXCEPT ![n] = round]
    BY <1>2 DEF ReopenFromReversal
  <2>2. /\ row \in Round
        /\ \A v \in User :
              /\ row.part[v] = IF v \in ps THEN "pending" ELSE rounds[n].part[v]
              /\ row.by[v] = IF v \in ps THEN NoTransfer ELSE rounds[n].by[v]
    <3>1. rounds[n] \in Round /\ "pending" \in Participation /\ NoTransfer \in Nat
      BY <1>2 DEF Participation, NoTransfer
    <3> HIDE DEF ps
    <3>2. /\ row \in Round /\ row.status = rounds[n].status
          /\ \A v \in User :
                /\ row.part[v] = IF v \in ps THEN "pending" ELSE rounds[n].part[v]
                /\ row.by[v] = IF v \in ps THEN NoTransfer ELSE rounds[n].by[v]
      BY <3>1, UpsertType, UpsertRows DEF NoTransfer
    <3> QED
      BY <2>1, <3>2
  <2> HIDE DEF row
  <2>3. round \in Round /\ round.status = "active" /\ round.part = row.part /\ round.by = row.by
    BY <2>2 DEF Round
  <2> HIDE DEF round, rs
  <2>4. /\ rs \in Seq(Round) /\ DOMAIN rs = DOMAIN rounds /\ rs[n] = round
        /\ \A r \in DOMAIN rounds \ {n} : rs[r] = rounds[r]
    BY <1>2, <2>1, <2>3
  <2>5. ActiveRounds(rs) \subseteq {n}
    BY <1>2, <2>4 DEF CanReopen, ActiveRounds
  <2>6. RowsOK(rs, players)
    BY <1>2, <2>2, <2>3, <2>4, <2>5 DEF RowsOK
  <2> QED
    BY <1>2, <2>2, <2>3, <2>4, <2>6 DEF rs
<1> QED
  BY <1>1, <1>2
=============================================================================
