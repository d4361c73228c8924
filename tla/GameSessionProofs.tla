------------------------- MODULE GameSessionProofs -------------------------
(***************************************************************************)
(* The safety properties of a game session, for any number of users,       *)
(* handlers, keys and transfers: IInv is an inductive invariant of the     *)
(* specification, shown action by action.                                  *)
(***************************************************************************)
EXTENDS GameSession, RoundCycleProofs, DataLemmas

-----------------------------------------------------------------------------
(***************************************************************************)
(* Operators.                                                              *)
(***************************************************************************)

\* The kind of a request is known from the point it has reached.
LEMMA RequestKind ==
  ASSUME NEW r \in Request
  PROVE  /\ r.at \in {"submit", "submitted"} => r \in SubmitRequest
         /\ r.at \in {"reverse", "reversed"} => r \in ReverseRequest
         /\ r.at \in {"join", "joinNew", "rejoin"} => r \in JoinRequest
         /\ r.at \in {"leaving", "leave"} => r \in LeaveRequest
         /\ r.at = "finish" => r \in FinishRequest
BY DEF Request, Idle, SubmitRequest, ReverseRequest, JoinRequest, LeaveRequest, FinishRequest

LEMMA AppendFacts ==
  ASSUME NEW T, NEW s \in Seq(T), NEW e \in T
  PROVE  /\ Append(s, e) \in Seq(T)
         /\ DOMAIN Append(s, e) = DOMAIN s \union {Len(s) + 1} /\ Len(s) + 1 \notin DOMAIN s
         /\ Append(s, e)[Len(s) + 1] = e
         /\ \A i \in DOMAIN s : Append(s, e)[i] = s[i] /\ i \in Nat /\ i < Len(s) + 1
         /\ Len(s) + 1 \in Nat /\ Len(s) + 1 # 0
OBVIOUS

LEMMA AppendIs ==
  ASSUME NEW T, NEW s \in Seq(T), NEW e \in T
  PROVE  Append(s, e) = [i \in 1..Len(s)+1 |-> IF i = Len(s) + 1 THEN e ELSE s[i]]
<1> DEFINE q == Append(s, e)
<1>1. /\ q \in Seq(T) /\ Len(q) = Len(s) + 1 /\ Len(s) \in Nat
      /\ \A i \in 1..Len(s)+1 : q[i] = IF i = Len(s) + 1 THEN e ELSE s[i]
  OBVIOUS
<1> HIDE DEF q
<1>2. q = [i \in 1..Len(s)+1 |-> q[i]]
  BY <1>1
<1>3. q = [i \in 1..Len(s)+1 |-> IF i = Len(s) + 1 THEN e ELSE s[i]]
  BY <1>1, <1>2
<1> QED
  BY <1>3 DEF q

\* What the type of the ledger says of an entry.
LEMMA EntryType ==
  ASSUME TypeOK, NEW i \in DOMAIN ledger
  PROVE  /\ ledger[i] \in Transfer /\ i \in Nat \ {0}
         /\ ledger[i].kind \in {"normal", "reversal"}
         /\ ledger[i].from \in User /\ ledger[i].rcv \in SUBSET User
         /\ ledger[i].amt \in Amount /\ ledger[i].by \in User /\ ledger[i].key \in Key
         /\ ledger[i].of \in Nat /\ ledger[i].round \in Nat
<1>1. ledger[i] \in Transfer /\ i \in Nat \ {0}
  BY DEF TypeOK
<1> QED
  BY <1>1 DEF Transfer

LEMMA UsersAreFinite ==
  ASSUME NEW ps \in SUBSET User
  PROVE  IsFiniteSet(ps) /\ Cardinality(ps) \in Nat
BY UsersAssumption, FS_Subset, FS_CardinalityType

LEMMA OneMoreUser ==
  ASSUME NEW ps \in SUBSET User, NEW u \in User
  PROVE  /\ Cardinality(ps) \in Nat /\ Cardinality(ps \union {u}) \in Nat
         /\ Cardinality(ps \union {u}) <= Cardinality(ps) + 1
<1>1. IsFiniteSet(ps) /\ Cardinality(ps) \in Nat
  BY UsersAreFinite
<1>2. Cardinality(ps \union {u}) = IF u \in ps THEN Cardinality(ps) ELSE Cardinality(ps) + 1
  BY <1>1, FS_AddElement
<1> QED
  BY <1>1, <1>2

\* A transfer changes scores by integers.
LEMMA MovedType ==
  ASSUME score \in [User -> Int], NEW from \in User, NEW rcv \in SUBSET User,
         NEW amt \in Amount, NEW sign \in {1, -1}
  PROVE  Moved(from, rcv, amt, sign) \in [User -> Int]
<1>1. amt \in Int /\ Cardinality(rcv) \in Int /\ sign \in Int
  BY AmountAssumption, UsersAreFinite
<1>2. sign * amt \in Int /\ amt * Cardinality(rcv) \in Int
  BY <1>1
<1>3. sign * (amt * Cardinality(rcv)) \in Int
  BY <1>1, <1>2
<1> QED
  BY <1>2, <1>3 DEF Moved

\* The next joined_order is a positive number.
LEMMA NextJoinedOrderType ==
  ASSUME order \in [User -> Nat]
  PROVE  NextJoinedOrder \in Nat \ {0}
<1> DEFINE S == {order[u] : u \in User}
<1>1. S \in SUBSET Nat /\ S # {} /\ S \in SUBSET Int
  BY UsersAssumption
<1>2. order \in [User -> Int]
  OBVIOUS
<1>3. IsFiniteSet(S)
  BY <1>2, UsersAssumption, FiniteImage
<1> HIDE DEF S
<1>4. \E x \in S : \A y \in S : x >= y
  BY <1>1, <1>3, FiniteMax
<1>5. Max(S) \in S
  BY <1>4 DEF Max
<1>6. NextJoinedOrder = Max(S) + 1
  BY DEF NextJoinedOrder, S
<1>7. Max(S) \in Nat
  BY <1>1, <1>5
<1> QED
  BY <1>6, <1>7

\* Ownership passes to a participant who stays.
LEMMA NextOwnerStays ==
  ASSUME order \in [User -> Nat], NEW ps \in SUBSET User, ps # {}
  PROVE  NextOwner(ps) \in ps
<1> DEFINE f == [u \in ps |-> order[u]]
<1>1. f \in [ps -> Int] /\ IsFiniteSet(ps)
  BY UsersAreFinite
<1>2. \E u \in ps : \A v \in ps : f[u] <= f[v]
  BY <1>1, FiniteArgMin
<1>3. \E u \in ps : \A v \in ps : order[u] <= order[v]
  BY <1>2
<1> QED
  BY <1>3 DEF NextOwner

\* RowsOK of RoundCycleProofs is the invariant about pending players.
LEMMA PendingIsRowsOK == PendingPlayersCanPlay <=> RowsOK(rounds, active)
BY DEF PendingPlayersCanPlay, RowsOK

-----------------------------------------------------------------------------
(***************************************************************************)
(* Frames: what a step that leaves some tables alone preserves.            *)
(***************************************************************************)

\* Entries stay where they are and what they say; only marks are added.
Recorded ==
  /\ DOMAIN ledger \subseteq DOMAIN ledger'
  /\ \A i \in DOMAIN ledger :
       /\ ledger'[i].kind = ledger[i].kind /\ ledger'[i].from = ledger[i].from
       /\ ledger'[i].rcv = ledger[i].rcv /\ ledger'[i].amt = ledger[i].amt
       /\ ledger'[i].by = ledger[i].by /\ ledger'[i].key = ledger[i].key
       /\ ledger'[i].of = ledger[i].of /\ ledger'[i].round = ledger[i].round

PlayersKept == \A u \in User : order[u] > 0 => order'[u] > 0

\* The requests of the other handlers keep what they rely on.
LEMMA RequestStep ==
  ASSUME TypeOK, RequestsInv, NEW h \in Handler, NEW r \in Request, Goto(h, r),
         Recorded, PlayersKept, ReadOK(r)', AnswerOK(r)'
  PROVE  RequestsInv' /\ req' \in [Handler -> Request]
<1>1. req' \in [Handler -> Request] /\ req'[h] = r
      /\ \A g \in Handler \ {h} : req'[g] = req[g]
  BY DEF TypeOK, Goto
<1>2. ledger # <<>> => ledger' # <<>>
  <2>1. DOMAIN ledger \subseteq DOMAIN ledger'
    BY DEF Recorded
  <2>2. ledger # <<>> => 1 \in DOMAIN ledger
    BY DEF TypeOK
  <2> QED
    BY <2>1, <2>2
<1>3. ReadsStayTrue'
  <2> SUFFICES ASSUME NEW g \in Handler PROVE ReadOK(req[g])'
    BY DEF ReadsStayTrue
  <2>1. CASE g = h
    BY <1>1, <2>1 DEF ReadOK
  <2>2. CASE g # h
    <3>1. req'[g] = req[g] /\ req[g] \in Request /\ ReadOK(req[g])
      BY <1>1, <2>2 DEF TypeOK, RequestsInv, ReadsStayTrue
    <3>2. req[g].at = "rejoin" => req[g].user \in User
      BY <3>1, RequestKind DEF JoinRequest
    <3> QED
      BY <1>2, <3>1, <3>2 DEF ReadOK, Recorded, PlayersKept
  <2> QED
    BY <2>1, <2>2
<1>4. AnswersAreRecorded'
  <2> SUFFICES ASSUME NEW g \in Handler PROVE AnswerOK(req[g])'
    BY DEF AnswersAreRecorded
  <2>1. CASE g = h
    BY <1>1, <2>1 DEF AnswerOK, SamePayload
  <2>2. CASE g # h
    <3>1. req'[g] = req[g] /\ AnswerOK(req[g])
      BY <1>1, <2>2 DEF RequestsInv, AnswersAreRecorded
    <3> QED
      BY <3>1 DEF AnswerOK, Recorded, SamePayload
  <2> QED
    BY <2>1, <2>2
<1> QED
  BY <1>1, <1>3, <1>4 DEF RequestsInv

LEMMA LedgerFrame ==
  ASSUME LedgerInv, UNCHANGED ledger
  PROVE  LedgerInv' /\ Recorded
BY DEF LedgerInv, AuthorsOK, OncePerKey, ReversedOnce, Recorded

LEMMA RoundsFrame ==
  ASSUME RoundsInv, UNCHANGED <<ledger, rounds, active>>
  PROVE  RoundsInv'
BY DEF RoundsInv, PendingPlayersCanPlay, SatisfiedByLiveTransfer, ByOnlyWhenSatisfied,
       ActiveRounds

LEMMA PeopleFrame ==
  ASSUME PeopleInv, UNCHANGED people, UNCHANGED status, UNCHANGED ledger
  PROVE  PeopleInv' /\ PlayersKept
BY DEF PeopleInv, people, CapacityRespected, HavePlayerRow, OneOwner, VoidedIsEmpty,
       PlayersKept

\* A step that only moves a request: a call, a read, a roll-back.
LEMMA OnlyRequest ==
  ASSUME IInv, NEW h \in Handler, NEW r \in Request, Goto(h, r),
         UNCHANGED <<status, share, people, score, ledger, rounds>>,
         ReadOK(r), AnswerOK(r)
  PROVE  IInv'
<1>1. LedgerInv' /\ Recorded
  BY LedgerFrame DEF IInv
<1>2. RoundsInv'
  BY RoundsFrame DEF IInv, people
<1>3. PeopleInv' /\ PlayersKept
  BY PeopleFrame DEF IInv
<1>4. ReadOK(r)' /\ AnswerOK(r)'
  BY DEF ReadOK, AnswerOK, SamePayload, people
<1>5. RequestsInv' /\ req' \in [Handler -> Request]
  BY <1>1, <1>3, <1>4, RequestStep DEF IInv
<1>6. TypeOK'
  BY <1>5 DEF IInv, TypeOK, people
<1> QED
  BY <1>1, <1>2, <1>3, <1>5, <1>6 DEF IInv

-----------------------------------------------------------------------------
(***************************************************************************)
(* Init, the calls, the reads and the roll-backs.                          *)
(***************************************************************************)

LEMMA InitInv == Init => IInv
<1> SUFFICES ASSUME Init PROVE IInv
  OBVIOUS
<1>1. NewRound({Owner}) \in Round
  BY NewRoundType
<1>2. TypeOK
  BY <1>1, UsersAssumption DEF Init, TypeOK, Request
<1>3. RequestsInv
  BY DEF Init, RequestsInv, ReadsStayTrue, ReadOK, AnswersAreRecorded, AnswerOK, Idle
<1>4. LedgerInv
  BY DEF Init, LedgerInv, AuthorsOK, OncePerKey, ReversedOnce
<1>5. RoundsInv
  <2>1. /\ DOMAIN rounds = {1} /\ rounds[1].status = "active"
        /\ \A u \in User : /\ rounds[1].part[u] = IF u = Owner THEN "pending" ELSE "none"
                           /\ rounds[1].by[u] = NoTransfer
    <3>1. rounds = <<NewRound({Owner})>>
      BY DEF Init
    <3>2. DOMAIN rounds = {1} /\ rounds[1] = NewRound({Owner})
      BY <3>1
    <3> QED
      BY <3>2 DEF NewRound
  <2>2. active = {Owner}
    BY DEF Init
  <2> QED
    BY <2>1, <2>2 DEF RoundsInv, PendingPlayersCanPlay, SatisfiedByLiveTransfer,
                      ByOnlyWhenSatisfied, ActiveRounds
<1>6. PeopleInv
  <2>1. Cardinality({Owner}) = 1
    BY FS_Singleton
  <2> QED
    BY <2>1, BoundsAssumption
    DEF Init, PeopleInv, CapacityRespected, HavePlayerRow, OneOwner, VoidedIsEmpty
<1> QED
  BY <1>2, <1>3, <1>4, <1>5, <1>6 DEF IInv

LEMMA SubmitCallInv ==
  ASSUME IInv, NEW h \in Handler, NEW u \in User, NEW rcv \in SUBSET User,
         NEW amt \in Amount, NEW k \in Key, SubmitCall(h, u, rcv, amt, k)
  PROVE  IInv'
<1> DEFINE new == [at |-> "submit", user |-> u, rcv |-> rcv, amt |-> amt, key |-> k, id |-> 0]
           old(i) == [at |-> "submitted", user |-> u, rcv |-> rcv, amt |-> amt,
                      key |-> k, id |-> i]
<1>1. CASE Goto(h, new)
  <2>1. new \in Request /\ ReadOK(new) /\ AnswerOK(new)
    BY DEF Request, SubmitRequest, ReadOK, AnswerOK
  <2> HIDE DEF new
  <2> QED
    BY <1>1, <2>1, OnlyRequest DEF SubmitCall
<1>2. ASSUME NEW i \in SameKey(u, k), SamePayload(ledger[i], rcv, amt), Goto(h, old(i))
      PROVE  IInv'
  <2>1. i \in DOMAIN ledger /\ i \in Nat /\ ledger[i].by = u /\ ledger[i].key = k
        /\ ledger[i] \in Transfer
    BY <1>2 DEF SameKey, IInv, TypeOK
  <2>2. u \notin ledger[i].rcv /\ ledger[i].kind \in {"normal", "reversal"}
    BY <1>2, <2>1 DEF SubmitCall, SamePayload, Transfer
  <2>3. ledger[i].kind = "normal" /\ ledger[i].from = u
    BY <2>1, <2>2 DEF IInv, LedgerInv, AuthorsOK
  <2>4. old(i) \in Request
    BY <2>1 DEF Request, SubmitRequest
  <2>5. ReadOK(old(i)) /\ AnswerOK(old(i))
    BY <1>2, <2>1, <2>3 DEF ReadOK, AnswerOK
  <2> DEFINE r == old(i)
  <2>6. r \in Request /\ ReadOK(r) /\ AnswerOK(r) /\ Goto(h, r)
    BY <1>2, <2>4, <2>5
  <2> HIDE DEF r
  <2> QED
    BY <2>6, OnlyRequest DEF SubmitCall
<1> QED
  BY <1>1, <1>2 DEF SubmitCall

LEMMA ReverseCallInv ==
  ASSUME IInv, NEW h \in Handler, NEW u \in User, NEW i \in DOMAIN ledger, NEW k \in Key,
         ReverseCall(h, u, i, k)
  PROVE  IInv'
<1> DEFINE new == [at |-> "reverse", user |-> u, target |-> i, key |-> k, id |-> 0]
           old(j) == [at |-> "reversed", user |-> u, target |-> i, key |-> k, id |-> j]
<1>0. i \in Nat
  BY DEF IInv, TypeOK
<1>1. CASE Goto(h, new)
  <2>1. new \in Request /\ ReadOK(new) /\ AnswerOK(new)
    BY <1>0 DEF Request, ReverseRequest, ReadOK, AnswerOK
  <2> HIDE DEF new
  <2> QED
    BY <1>1, <2>1, OnlyRequest DEF ReverseCall
<1>2. ASSUME NEW j \in SameKey(u, k), ledger[j].kind = "reversal", ledger[j].of = i,
             Goto(h, old(j))
      PROVE  IInv'
  <2>1. j \in DOMAIN ledger /\ j \in Nat /\ ledger[j].by = u /\ ledger[j].key = k
    BY DEF SameKey, IInv, TypeOK
  <2> DEFINE r == old(j)
  <2>2. r \in Request
    BY <1>0, <2>1 DEF Request, ReverseRequest
  <2>3. ReadOK(r) /\ AnswerOK(r) /\ Goto(h, r)
    BY <1>2, <2>1 DEF ReadOK, AnswerOK
  <2> HIDE DEF r
  <2> QED
    BY <2>2, <2>3, OnlyRequest DEF ReverseCall
<1> QED
  BY <1>1, <1>2 DEF ReverseCall

\* The other calls, and the reads a handler makes before its transaction.
LEMMA OtherCallInv ==
  ASSUME IInv, NEW h \in Handler, NEW u \in User,
         JoinCall(h, u) \/ LeaveCall(h, u) \/ FinishCall(h, u)
  PROVE  IInv'
<1>1. CASE JoinCall(h, u)
  <2> DEFINE r == [at |-> "join", user |-> u]
  <2>1. r \in Request /\ ReadOK(r) /\ AnswerOK(r)
    BY DEF Request, JoinRequest, ReadOK, AnswerOK
  <2> HIDE DEF r
  <2> QED
    BY <1>1, <2>1, OnlyRequest DEF JoinCall, r
<1>2. CASE LeaveCall(h, u)
  <2> DEFINE r(o, n) == [at |-> "leaving", user |-> u, wasOwner |-> o, unscored |-> n]
  <2>1. PICK o \in BOOLEAN, n \in BOOLEAN :
          o = (owner = u) /\ n = (ledger = <<>>)
    OBVIOUS
  <2> DEFINE q == r(o, n)
  <2>2. q \in Request
    BY DEF Request, LeaveRequest
  <2>3. ReadOK(q) /\ AnswerOK(q)
    BY <2>1 DEF ReadOK, AnswerOK
  <2>4. Goto(h, q)
    BY <1>2, <2>1 DEF LeaveCall, Goto
  <2> HIDE DEF q
  <2> QED
    BY <1>2, <2>2, <2>3, <2>4, OnlyRequest DEF LeaveCall
<1>3. CASE FinishCall(h, u)
  <2> DEFINE r == [at |-> "finish", user |-> u]
  <2>1. r \in Request /\ ReadOK(r) /\ AnswerOK(r)
    BY DEF Request, FinishRequest, ReadOK, AnswerOK
  <2> HIDE DEF r
  <2> QED
    BY <1>3, <2>1, OnlyRequest DEF FinishCall, r
<1> QED
  BY <1>1, <1>2, <1>3

LEMMA ReadInv ==
  ASSUME IInv, NEW h \in Handler, JoinLookup(h) \/ LeaveCheck(h) \/ Rollback(h)
  PROVE  IInv'
<1>0. req[h] \in Request /\ ReadOK(req[h])
  BY DEF IInv, TypeOK, RequestsInv, ReadsStayTrue
<1>1. Idle \in Request /\ ReadOK(Idle) /\ AnswerOK(Idle)
  BY DEF Request, Idle, ReadOK, AnswerOK
<1>2. CASE JoinLookup(h)
  <2>1. req[h] \in JoinRequest
    BY <1>0, <1>2, RequestKind DEF JoinLookup
  <2>2. PICK r \in JoinRequest :
          /\ r = [req[h] EXCEPT !.at = IF order[req[h].user] > 0 THEN "rejoin" ELSE "joinNew"]
          /\ Goto(h, r)
    BY <1>2, <2>1 DEF JoinLookup, JoinRequest
  <2>3. r \in Request
    BY DEF Request
  <2>4. ReadOK(r) /\ AnswerOK(r)
    BY <2>1, <2>2 DEF ReadOK, AnswerOK, JoinRequest
  <2> QED
    BY <1>2, <2>2, <2>3, <2>4, OnlyRequest DEF JoinLookup
<1>3. CASE LeaveCheck(h)
  <2>1. req[h] \in LeaveRequest
    BY <1>0, <1>3, RequestKind DEF LeaveCheck
  <2>2. CASE Goto(h, Idle)
    BY <1>1, <1>3, <2>2, OnlyRequest DEF LeaveCheck
  <2>3. CASE Goto(h, [req[h] EXCEPT !.at = "leave"])
    <3>1. PICK r \in LeaveRequest : r = [req[h] EXCEPT !.at = "leave"] /\ Goto(h, r)
      BY <2>1, <2>3 DEF LeaveRequest
    <3>2. r \in Request
      BY DEF Request
    <3>3. ReadOK(r) /\ AnswerOK(r)
      BY <1>0, <1>3, <2>1, <3>1 DEF ReadOK, AnswerOK, LeaveRequest, LeaveCheck
    <3> QED
      BY <1>3, <3>1, <3>2, <3>3, OnlyRequest DEF LeaveCheck
  <2> QED
    BY <1>3, <2>2, <2>3 DEF LeaveCheck
<1>4. CASE Rollback(h)
  BY <1>1, <1>4, OnlyRequest DEF Rollback
<1> QED
  BY <1>2, <1>3, <1>4

-----------------------------------------------------------------------------
(***************************************************************************)
(* The transaction of Submit.                                              *)
(***************************************************************************)

LEMMA SubmitTxLedger ==
  ASSUME IInv, NEW r \in SubmitRequest, SubmitValid(r), NEW n \in Nat,
         ledger' = Append(ledger,
           [kind |-> "normal", from |-> r.user, rcv |-> r.rcv, amt |-> r.amt,
            by |-> r.user, key |-> r.key, of |-> NoTransfer, round |-> n,
            reversed |-> FALSE])
  PROVE  /\ ledger' \in Seq(Transfer) /\ Recorded /\ LedgerInv'
         /\ DOMAIN ledger' = DOMAIN ledger \union {Len(ledger) + 1}
         /\ \A i \in DOMAIN ledger : ledger'[i] = ledger[i]
         /\ ledger'[Len(ledger) + 1].kind = "normal"
         /\ ledger'[Len(ledger) + 1].from = r.user /\ ledger'[Len(ledger) + 1].by = r.user
         /\ ledger'[Len(ledger) + 1].rcv = r.rcv /\ ledger'[Len(ledger) + 1].amt = r.amt
         /\ ledger'[Len(ledger) + 1].key = r.key
         /\ ledger'[Len(ledger) + 1].round = n
         /\ ~ledger'[Len(ledger) + 1].reversed
<1> DEFINE e == [kind |-> "normal", from |-> r.user, rcv |-> r.rcv, amt |-> r.amt,
                 by |-> r.user, key |-> r.key, of |-> NoTransfer, round |-> n,
                 reversed |-> FALSE]
           t == Len(ledger) + 1
<1>1. /\ r.user \in User /\ r.rcv \in SUBSET User /\ r.amt \in Amount /\ r.key \in Key
  BY DEF SubmitRequest
<1>2. e \in Transfer
  BY <1>1 DEF Transfer, NoTransfer
<1>3. /\ e.kind = "normal" /\ e.from = r.user /\ e.by = r.user /\ e.rcv = r.rcv
      /\ e.amt = r.amt /\ e.key = r.key /\ e.of = NoTransfer /\ e.round = n
      /\ e.reversed = FALSE
  OBVIOUS
<1>4. ledger \in Seq(Transfer) /\ ledger' = Append(ledger, e)
  BY DEF IInv, TypeOK
<1> HIDE DEF e
<1>5. /\ ledger' \in Seq(Transfer)
      /\ DOMAIN ledger' = DOMAIN ledger \union {t} /\ t \notin DOMAIN ledger
      /\ ledger'[t] = e
      /\ \A i \in DOMAIN ledger : ledger'[i] = ledger[i] /\ i \in Nat /\ i < t
      /\ t \in Nat /\ t # 0
  BY <1>2, <1>4
<1> HIDE DEF t
<1>6. Recorded
  BY <1>5 DEF Recorded
<1>7. AuthorsOK'
  BY <1>3, <1>5 DEF IInv, LedgerInv, AuthorsOK
<1>8. OncePerKey'
  <2>1. \A i \in DOMAIN ledger : ~(ledger[i].by = e.by /\ ledger[i].key = e.key)
    BY <1>3 DEF SubmitValid, SameKey
  <2> QED
    BY <1>5, <2>1 DEF IInv, LedgerInv, OncePerKey
<1>9. ReversedOnce'
  <2>1. \A i \in DOMAIN ledger' : {j \in DOMAIN ledger' : ledger'[j].of = i}
                                 = {j \in DOMAIN ledger : ledger[j].of = i}
    BY <1>3, <1>5 DEF NoTransfer
  <2>2. {j \in DOMAIN ledger : ledger[j].of = t} = {}
    <3> SUFFICES ASSUME NEW j \in DOMAIN ledger PROVE ledger[j].of # t
      OBVIOUS
    <3>1. ledger[j].kind \in {"normal", "reversal"}
      BY EntryType DEF IInv
    <3>2. ledger[j].of = NoTransfer \/ ledger[j].of \in DOMAIN ledger
      BY <3>1 DEF IInv, LedgerInv, AuthorsOK
    <3> QED
      BY <1>5, <3>2 DEF NoTransfer
  <2> QED
    BY <1>3, <1>5, <2>1, <2>2 DEF IInv, LedgerInv, ReversedOnce
<1> QED
  BY <1>3, <1>5, <1>6, <1>7, <1>8, <1>9 DEF LedgerInv, t

\* The transfer satisfies the rows of its players in the active round.
LEMMA SubmitTxRounds ==
  ASSUME IInv, NEW r \in SubmitRequest, NEW t \in Nat, t \notin DOMAIN ledger, active' = active,
         DOMAIN ledger' = DOMAIN ledger \union {t},
         \A i \in DOMAIN ledger : ledger'[i] = ledger[i],
         ledger'[t].kind = "normal", ledger'[t].from = r.user, ledger'[t].rcv = r.rcv,
         ~ledger'[t].reversed,
         ledger'[t].round = ActiveRound(EnsureActiveRound(rounds, active)),
         rounds' = MarkParticipantsSatisfied(EnsureActiveRound(rounds, active),
                                             {r.user} \union r.rcv, t)
  PROVE  rounds' \in Seq(Round) /\ RoundsInv'
<1> DEFINE rs == EnsureActiveRound(rounds, active)
           n == ActiveRound(rs)
           ps == {r.user} \union r.rcv
<1>1. /\ rounds \in Seq(Round) /\ active \in SUBSET User /\ RowsOK(rounds, active)
  BY PendingIsRowsOK DEF IInv, TypeOK, RoundsInv
<1>2. /\ rs \in Seq(Round) /\ HasActiveRound(rs) /\ RowsOK(rs, active)
      /\ DOMAIN rounds \subseteq DOMAIN rs
      /\ \A s \in DOMAIN rounds : rs[s] = rounds[s]
      /\ \A s \in DOMAIN rs \ DOMAIN rounds, u \in User :
           rs[s].part[u] # "satisfied" /\ rs[s].by[u] = NoTransfer
  BY <1>1, EnsureActiveRoundOK
<1>3. ps \in SUBSET User
  BY DEF SubmitRequest
<1> HIDE DEF rs, ps
<1> DEFINE qs == MarkParticipantsSatisfied(rs, ps, t)
<1>4. rounds' = qs /\ active \in SUBSET User
  BY <1>1 DEF rs, ps
<1>5. qs \in Seq(Round)
  BY <1>2, <1>3, <1>4, SatisfyOK
<1>6. DOMAIN qs = DOMAIN rs
  BY SatisfyDomain
<1>7. RowsOK(qs, active)
  BY <1>2, <1>3, <1>4, SatisfyOK
<1>8. \A s \in DOMAIN rs, v \in User :
        IF s = n /\ v \in ps
        THEN qs[s].part[v] = "satisfied" /\ qs[s].by[v] = t
        ELSE qs[s].part[v] = rs[s].part[v] /\ qs[s].by[v] = rs[s].by[v]
  BY <1>2, <1>3, <1>4, SatisfyOK
<1>9. n \in DOMAIN rs
  BY <1>2, ActiveRoundIsOne DEF ActiveRounds
<1>10. ledger'[t].round = n
  BY DEF rs
<1> HIDE DEF n, qs
<1>11. PendingPlayersCanPlay'
  BY <1>4, <1>7 DEF RowsOK, PendingPlayersCanPlay, ActiveRounds
<1>12. SatisfiedByLiveTransfer'
  <2> SUFFICES ASSUME NEW s \in DOMAIN rs, NEW v \in User, qs[s].part[v] = "satisfied"
               PROVE  LET b == qs[s].by[v] IN
                      /\ b \in DOMAIN ledger'
                      /\ ledger'[b].kind = "normal" /\ ~ledger'[b].reversed
                      /\ ledger'[b].round = s
                      /\ v \in {ledger'[b].from} \union ledger'[b].rcv
    BY <1>4, <1>6 DEF SatisfiedByLiveTransfer
  <2>1. CASE s = n /\ v \in ps
    BY <1>8, <1>10, <2>1 DEF ps
  <2>2. CASE ~(s = n /\ v \in ps)
    <3>1. rs[s].part[v] = "satisfied" /\ qs[s].by[v] = rs[s].by[v]
      BY <1>8, <2>2
    <3>2. s \in DOMAIN rounds /\ rs[s] = rounds[s]
      BY <1>2, <3>1
    <3> QED
      BY <3>1, <3>2 DEF IInv, RoundsInv, SatisfiedByLiveTransfer
  <2> QED
    BY <2>1, <2>2
<1>13. ByOnlyWhenSatisfied'
  <2> SUFFICES ASSUME NEW s \in DOMAIN rs, NEW v \in User, qs[s].by[v] # NoTransfer
               PROVE  qs[s].part[v] = "satisfied"
    BY <1>4, <1>6 DEF ByOnlyWhenSatisfied
  <2>1. CASE s = n /\ v \in ps
    BY <1>8, <2>1
  <2>2. CASE ~(s = n /\ v \in ps)
    <3>1. rs[s].by[v] # NoTransfer /\ qs[s].part[v] = rs[s].part[v]
      BY <1>8, <2>2
    <3>2. s \in DOMAIN rounds /\ rs[s] = rounds[s]
      BY <1>2, <3>1
    <3> QED
      BY <3>1, <3>2 DEF IInv, RoundsInv, ByOnlyWhenSatisfied
  <2> QED
    BY <2>1, <2>2
<1>14. rounds' \in Seq(Round)
  BY <1>4, <1>5
<1> QED
  BY <1>11, <1>12, <1>13, <1>14 DEF RoundsInv

LEMMA SubmitTxInv ==
  ASSUME IInv, NEW h \in Handler, SubmitTx(h)
  PROVE  IInv'
<1> DEFINE r == req[h]
           t == Len(ledger) + 1
           n == ActiveRound(EnsureActiveRound(rounds, active))
<1>1. PICK q \in SubmitRequest : q = r
  BY RequestKind DEF SubmitTx, IInv, TypeOK
<1>2. SubmitValid(q)
  BY <1>1 DEF SubmitTx
<1>3. t \in Nat /\ t \notin DOMAIN ledger
  BY DEF IInv, TypeOK
<1>4. n \in Nat
  <2>1. /\ rounds \in Seq(Round) /\ active \in SUBSET User /\ RowsOK(rounds, active)
    BY PendingIsRowsOK DEF IInv, TypeOK, RoundsInv
  <2> DEFINE rs == EnsureActiveRound(rounds, active)
  <2>2. rs \in Seq(Round) /\ HasActiveRound(rs)
    BY <2>1, EnsureActiveRoundOK
  <2> HIDE DEF rs
  <2>3. ActiveRound(rs) \in DOMAIN rs
    BY <2>2, ActiveRoundIsOne DEF ActiveRounds
  <2> QED
    BY <2>2, <2>3 DEF rs
<1> HIDE DEF n
<1>5. ledger' = Append(ledger,
           [kind |-> "normal", from |-> q.user, rcv |-> q.rcv, amt |-> q.amt,
            by |-> q.user, key |-> q.key, of |-> NoTransfer, round |-> n,
            reversed |-> FALSE])
  BY <1>1 DEF SubmitTx, n
<1>6. /\ ledger' \in Seq(Transfer) /\ Recorded /\ LedgerInv'
      /\ DOMAIN ledger' = DOMAIN ledger \union {t}
      /\ \A i \in DOMAIN ledger : ledger'[i] = ledger[i]
      /\ ledger'[t].kind = "normal" /\ ledger'[t].from = q.user /\ ledger'[t].by = q.user
      /\ ledger'[t].rcv = q.rcv /\ ledger'[t].amt = q.amt /\ ledger'[t].key = q.key
      /\ ledger'[t].round = n /\ ~ledger'[t].reversed
  BY <1>2, <1>4, <1>5, SubmitTxLedger
<1>7. /\ UNCHANGED people /\ UNCHANGED <<status, share>> /\ status = "active"
      /\ score' = Moved(q.user, q.rcv, q.amt, 1)
      /\ Goto(h, [q EXCEPT !.at = "submitted", !.id = t])
  BY <1>1 DEF SubmitTx, SubmitValid
<1> HIDE DEF t
<1>8. rounds' \in Seq(Round) /\ RoundsInv'
  <2>1. rounds' = MarkParticipantsSatisfied(EnsureActiveRound(rounds, active),
                                            {q.user} \union q.rcv, t)
    BY <1>1 DEF SubmitTx, t
  <2>2. active' = active
    BY <1>7 DEF people
  <2> QED
    BY <1>3, <1>6, <2>1, <2>2, SubmitTxRounds DEF n
<1>9. PeopleInv' /\ PlayersKept
  BY <1>7 DEF IInv, PeopleInv, people, CapacityRespected, HavePlayerRow, OneOwner,
              VoidedIsEmpty, PlayersKept
<1>10. PICK a \in SubmitRequest : a = [q EXCEPT !.at = "submitted", !.id = t]
  BY <1>3 DEF SubmitRequest
<1>11. /\ a.at = "submitted" /\ a.id = t /\ a.user = q.user /\ a.rcv = q.rcv
       /\ a.amt = q.amt /\ a.key = q.key
  BY <1>10 DEF SubmitRequest
<1>12. a \in Request /\ ReadOK(a)' /\ AnswerOK(a)' /\ Goto(h, a)
  BY <1>6, <1>7, <1>10, <1>11 DEF Request, ReadOK, AnswerOK, SamePayload
<1>13. RequestsInv' /\ req' \in [Handler -> Request]
  BY <1>6, <1>9, <1>12, RequestStep DEF IInv
<1>14. score' \in [User -> Int]
  <2>1. q.user \in User /\ q.rcv \in SUBSET User /\ q.amt \in Amount /\ score \in [User -> Int]
    BY DEF SubmitRequest, IInv, TypeOK
  <2> QED
    BY <1>7, <2>1, MovedType
<1>15. TypeOK'
  BY <1>6, <1>7, <1>8, <1>13, <1>14 DEF IInv, TypeOK, people
<1> QED
  BY <1>6, <1>8, <1>9, <1>13, <1>15 DEF IInv
-----------------------------------------------------------------------------
(***************************************************************************)
(* The transaction of Reverse.                                             *)
(***************************************************************************)

LEMMA ReverseTxLedger ==
  ASSUME IInv, NEW r \in ReverseRequest, NEW x \in DOMAIN ledger, x = r.target,
         ReverseValid(r),
         ledger' = Append([ledger EXCEPT ![x].reversed = TRUE],
           [kind |-> "reversal", from |-> ledger[x].from, rcv |-> ledger[x].rcv,
            amt |-> ledger[x].amt, by |-> r.user, key |-> r.key, of |-> x,
            round |-> ledger[x].round, reversed |-> FALSE])
  PROVE  /\ ledger' \in Seq(Transfer) /\ Recorded /\ LedgerInv'
         /\ DOMAIN ledger' = DOMAIN ledger \union {Len(ledger) + 1}
         /\ \A i \in DOMAIN ledger \ {x} : ledger'[i] = ledger[i]
         /\ ledger'[Len(ledger) + 1].of = x
         /\ ledger'[Len(ledger) + 1].by = r.user /\ ledger'[Len(ledger) + 1].key = r.key
<1> DEFINE e == [kind |-> "reversal", from |-> ledger[x].from, rcv |-> ledger[x].rcv,
                 amt |-> ledger[x].amt, by |-> r.user, key |-> r.key, of |-> x,
                 round |-> ledger[x].round, reversed |-> FALSE]
           o == [ledger[x] EXCEPT !.reversed = TRUE]
           t == Len(ledger) + 1
<1>1. /\ r.user \in User /\ r.key \in Key
      /\ ledger[x].kind = "normal" /\ ~ledger[x].reversed /\ r.user \in ledger[x].rcv
      /\ SameKey(r.user, r.key) = {}
  BY DEF ReverseRequest, ReverseValid, Reversible
<1>2. /\ ledger \in Seq(Transfer) /\ ledger[x] \in Transfer /\ x \in Nat \ {0}
      /\ ledger[x].from \in User /\ ledger[x].rcv \in SUBSET User
      /\ ledger[x].amt \in Amount /\ ledger[x].round \in Nat
  BY EntryType DEF IInv, TypeOK
<1>3. e \in Transfer /\ o \in Transfer
  BY <1>1, <1>2 DEF Transfer
<1>4. /\ e.kind = "reversal" /\ e.by = r.user /\ e.key = r.key /\ e.of = x
      /\ e.reversed = FALSE /\ e.rcv = ledger[x].rcv
  OBVIOUS
<1>5. /\ o.kind = ledger[x].kind /\ o.from = ledger[x].from /\ o.rcv = ledger[x].rcv
      /\ o.amt = ledger[x].amt /\ o.by = ledger[x].by /\ o.key = ledger[x].key
      /\ o.of = ledger[x].of /\ o.round = ledger[x].round /\ o.reversed = TRUE
  BY <1>2 DEF Transfer
<1> DEFINE l == [ledger EXCEPT ![x] = o]
<1>6. ledger' = Append(l, e)
  OBVIOUS
<1> HIDE DEF e, o
<1>7. /\ l \in Seq(Transfer) /\ Len(l) = Len(ledger) /\ DOMAIN l = DOMAIN ledger
      /\ l[x] = o /\ \A i \in DOMAIN ledger \ {x} : l[i] = ledger[i]
  BY <1>2, <1>3
<1> HIDE DEF l
<1>8. /\ ledger' \in Seq(Transfer)
      /\ DOMAIN ledger' = DOMAIN ledger \union {t} /\ t \notin DOMAIN ledger
      /\ ledger'[t] = e
      /\ \A i \in DOMAIN ledger : ledger'[i] = l[i] /\ i \in Nat /\ i < t
      /\ t \in Nat /\ t # 0
  <2>1. t = Len(l) + 1
    BY <1>7
  <2>2. /\ Append(l, e) \in Seq(Transfer)
        /\ DOMAIN Append(l, e) = DOMAIN l \union {Len(l) + 1} /\ Len(l) + 1 \notin DOMAIN l
        /\ Append(l, e)[Len(l) + 1] = e
        /\ \A i \in DOMAIN l : Append(l, e)[i] = l[i] /\ i \in Nat /\ i < Len(l) + 1
        /\ Len(l) + 1 \in Nat /\ Len(l) + 1 # 0
    BY <1>3, <1>7, AppendFacts, Zenon
  <2> QED
    BY <1>6, <1>7, <2>1, <2>2, Zenon
<1>9. ledger'[x] = o /\ \A i \in DOMAIN ledger \ {x} : ledger'[i] = ledger[i]
  BY <1>7, <1>8
<1> HIDE DEF t
<1>10. Recorded
  BY <1>5, <1>8, <1>9 DEF Recorded
<1>11. AuthorsOK'
  BY <1>1, <1>4, <1>5, <1>8, <1>9 DEF IInv, LedgerInv, AuthorsOK
<1>12. OncePerKey'
  <2>1. \A i \in DOMAIN ledger : ~(ledger[i].by = e.by /\ ledger[i].key = e.key)
    BY <1>1, <1>4 DEF SameKey
  <2>2. \A i \in DOMAIN ledger : ledger'[i].by = ledger[i].by /\ ledger'[i].key = ledger[i].key
    BY <1>5, <1>9
  <2> QED
    BY <1>8, <2>1, <2>2 DEF IInv, LedgerInv, OncePerKey
<1>13. ReversedOnce'
  <2>1. \A j \in DOMAIN ledger : /\ ledger'[j].of = ledger[j].of /\ ledger'[j].by = ledger[j].by
                                 /\ ledger'[j].kind = ledger[j].kind
                                 /\ ledger'[j].rcv = ledger[j].rcv
    BY <1>5, <1>9
  <2>2. \A j \in DOMAIN ledger : ledger[j].of # t
    <3> SUFFICES ASSUME NEW j \in DOMAIN ledger PROVE ledger[j].of # t
      OBVIOUS
    <3>1. ledger[j].kind \in {"normal", "reversal"}
      BY EntryType DEF IInv
    <3>2. ledger[j].of = NoTransfer \/ ledger[j].of \in DOMAIN ledger
      BY <3>1 DEF IInv, LedgerInv, AuthorsOK
    <3> QED
      BY <1>8, <3>2 DEF NoTransfer
  <2>3. \A j \in DOMAIN ledger : ledger[j].of # x
    BY <1>1 DEF IInv, LedgerInv, ReversedOnce
  <2> SUFFICES ASSUME NEW i \in DOMAIN ledger'
               PROVE  LET undo == {j \in DOMAIN ledger' : ledger'[j].of = i} IN
                      /\ ledger'[i].reversed <=> undo # {}
                      /\ \A j, k \in undo : j = k
                      /\ \A j \in undo : /\ i < j /\ ledger'[i].kind = "normal"
                                         /\ ledger'[j].kind = "reversal"
                                         /\ ledger'[j].by \in ledger'[i].rcv
    BY DEF ReversedOnce
  <2> DEFINE undo == {j \in DOMAIN ledger' : ledger'[j].of = i}
  <2>4. CASE i = t
    <3>1. undo = {}
      BY <1>4, <1>8, <2>1, <2>2, <2>4
    <3> QED
      BY <1>4, <1>8, <2>4, <3>1
  <2>5. CASE i = x
    <3>1. undo = {t}
      BY <1>4, <1>8, <2>1, <2>3, <2>5
    <3>2. ledger'[i].reversed = TRUE /\ i < t
      BY <1>5, <1>8, <1>9, <2>5
    <3> HIDE DEF undo
    <3> QED
      BY <1>1, <1>4, <1>8, <2>1, <2>5, <3>1, <3>2 DEF undo
  <2>6. CASE i # t /\ i # x
    <3>1. i \in DOMAIN ledger /\ ledger'[i] = ledger[i]
      BY <1>8, <1>9, <2>6
    <3>2. undo = {j \in DOMAIN ledger : ledger[j].of = i}
      BY <1>4, <1>8, <2>1, <2>6
    <3> HIDE DEF undo
    <3>3. /\ ledger[i].reversed <=> undo # {}
          /\ \A j, k \in undo : j = k
          /\ \A j \in undo : /\ i < j /\ ledger[i].kind = "normal"
                             /\ ledger[j].kind = "reversal"
                             /\ ledger[j].by \in ledger[i].rcv
      BY <3>1, <3>2 DEF IInv, LedgerInv, ReversedOnce
    <3>4. \A j \in undo : j \in DOMAIN ledger
      BY <3>2
    <3> QED
      BY <2>1, <3>1, <3>3, <3>4 DEF undo
  <2> QED
    BY <2>4, <2>5, <2>6
<1> QED
  BY <1>4, <1>8, <1>9, <1>10, <1>11, <1>12, <1>13 DEF LedgerInv, t
\* The rows the reversed transfer satisfied are pending again, and their players
\* are all current participants, because Debit and Credit need active rows.
LEMMA ReverseTxRounds ==
  ASSUME IInv, NEW r \in ReverseRequest, NEW x \in DOMAIN ledger, x = r.target,
         ReverseValid(r), active' = active,
         DOMAIN ledger \subseteq DOMAIN ledger',
         \A i \in DOMAIN ledger \ {x} : ledger'[i] = ledger[i],
         rounds' = ReopenFromReversal(rounds, ledger[x].round, x)
  PROVE  rounds' \in Seq(Round) /\ RoundsInv'
<1> DEFINE n == ledger[x].round
           rs == ReopenFromReversal(rounds, n, x)
<1>1. /\ rounds \in Seq(Round) /\ active \in SUBSET User /\ RowsOK(rounds, active)
      /\ x \in Nat \ {NoTransfer}
  BY PendingIsRowsOK, EntryType DEF IInv, TypeOK, RoundsInv, NoTransfer
<1>2. CanReopen(rounds, n) /\ {ledger[x].from} \union ledger[x].rcv \subseteq active
  BY DEF ReverseValid
<1>3. \A s \in DOMAIN rounds, v \in User :
        rounds[s].by[v] = x => s = n /\ v \in {ledger[x].from} \union ledger[x].rcv
  BY <1>1 DEF IInv, RoundsInv, ByOnlyWhenSatisfied, SatisfiedByLiveTransfer
<1>4. n \in DOMAIN rounds => \A v \in User : rounds[n].by[v] = x => v \in active
  BY <1>2, <1>3
<1> HIDE DEF n
<1>5. /\ rs \in Seq(Round) /\ RowsOK(rs, active)
      /\ DOMAIN rs = DOMAIN rounds
      /\ \A s \in DOMAIN rounds, v \in User :
           IF s = n /\ rounds[s].by[v] = x
           THEN rs[s].part[v] = "pending" /\ rs[s].by[v] = NoTransfer
           ELSE rs[s].part[v] = rounds[s].part[v] /\ rs[s].by[v] = rounds[s].by[v]
  BY <1>1, <1>2, <1>4, ReopenOK
<1>6. rounds' = rs
  BY DEF n
<1> HIDE DEF rs
<1>7. PendingPlayersCanPlay'
  BY <1>5, <1>6 DEF RowsOK, PendingPlayersCanPlay, ActiveRounds
<1>8. SatisfiedByLiveTransfer'
  <2> SUFFICES ASSUME NEW s \in DOMAIN rounds, NEW v \in User, rs[s].part[v] = "satisfied"
               PROVE  LET b == rs[s].by[v] IN
                      /\ b \in DOMAIN ledger'
                      /\ ledger'[b].kind = "normal" /\ ~ledger'[b].reversed
                      /\ ledger'[b].round = s
                      /\ v \in {ledger'[b].from} \union ledger'[b].rcv
    BY <1>5, <1>6 DEF SatisfiedByLiveTransfer
  <2>1. /\ rounds[s].part[v] = "satisfied" /\ rs[s].by[v] = rounds[s].by[v]
        /\ rounds[s].by[v] # x
    BY <1>3, <1>5
  <2> QED
    BY <2>1 DEF IInv, RoundsInv, SatisfiedByLiveTransfer
<1>9. ByOnlyWhenSatisfied'
  <2> SUFFICES ASSUME NEW s \in DOMAIN rounds, NEW v \in User, rs[s].by[v] # NoTransfer
               PROVE  rs[s].part[v] = "satisfied"
    BY <1>5, <1>6 DEF ByOnlyWhenSatisfied
  <2>1. rs[s].part[v] = rounds[s].part[v] /\ rs[s].by[v] = rounds[s].by[v]
    BY <1>5
  <2> QED
    BY <2>1 DEF IInv, RoundsInv, ByOnlyWhenSatisfied
<1>10. rounds' \in Seq(Round)
  BY <1>5, <1>6
<1> QED
  BY <1>7, <1>8, <1>9, <1>10 DEF RoundsInv

LEMMA ReverseTxInv ==
  ASSUME IInv, NEW h \in Handler, ReverseTx(h)
  PROVE  IInv'
<1> DEFINE t == Len(ledger) + 1
<1>1. PICK q \in ReverseRequest : q = req[h]
  BY RequestKind DEF ReverseTx, IInv, TypeOK
<1>2. ReverseValid(q)
  BY <1>1 DEF ReverseTx
<1>3. PICK x \in DOMAIN ledger : x = q.target
  BY <1>1 DEF ReverseTx, IInv, RequestsInv, ReadsStayTrue, ReadOK
<1>4. ledger' = Append([ledger EXCEPT ![x].reversed = TRUE],
           [kind |-> "reversal", from |-> ledger[x].from, rcv |-> ledger[x].rcv,
            amt |-> ledger[x].amt, by |-> q.user, key |-> q.key, of |-> x,
            round |-> ledger[x].round, reversed |-> FALSE])
  BY <1>1, <1>3 DEF ReverseTx
<1>5. /\ ledger' \in Seq(Transfer) /\ Recorded /\ LedgerInv'
      /\ DOMAIN ledger' = DOMAIN ledger \union {t}
      /\ \A i \in DOMAIN ledger \ {x} : ledger'[i] = ledger[i]
      /\ ledger'[t].of = x /\ ledger'[t].by = q.user /\ ledger'[t].key = q.key
  BY <1>2, <1>3, <1>4, ReverseTxLedger
<1>6. t \in Nat
  BY DEF IInv, TypeOK
<1>7. /\ UNCHANGED people /\ UNCHANGED <<status, share>> /\ status = "active"
      /\ score' = Moved(ledger[x].from, ledger[x].rcv, ledger[x].amt, -1)
      /\ Goto(h, [q EXCEPT !.at = "reversed", !.id = t])
      /\ rounds' = ReopenFromReversal(rounds, ledger[x].round, x)
  BY <1>1, <1>3 DEF ReverseTx, ReverseValid, Reversible
<1> HIDE DEF t
<1>8. rounds' \in Seq(Round) /\ RoundsInv'
  <2>1. active' = active
    BY <1>7 DEF people
  <2> QED
    BY <1>2, <1>3, <1>5, <1>7, <2>1, ReverseTxRounds
<1>9. PeopleInv' /\ PlayersKept
  BY <1>7 DEF IInv, PeopleInv, people, CapacityRespected, HavePlayerRow, OneOwner,
              VoidedIsEmpty, PlayersKept
<1>10. PICK a \in ReverseRequest : a = [q EXCEPT !.at = "reversed", !.id = t]
  BY <1>6 DEF ReverseRequest
<1>11. a.at = "reversed" /\ a.id = t /\ a.user = q.user /\ a.target = x /\ a.key = q.key
  BY <1>3, <1>10 DEF ReverseRequest
<1>12. a \in Request /\ ReadOK(a)' /\ AnswerOK(a)' /\ Goto(h, a)
  BY <1>5, <1>7, <1>10, <1>11 DEF Request, ReadOK, AnswerOK
<1>13. RequestsInv' /\ req' \in [Handler -> Request]
  BY <1>5, <1>9, <1>12, RequestStep DEF IInv
<1>14. score' \in [User -> Int]
  <2>1. /\ ledger[x].from \in User /\ ledger[x].rcv \in SUBSET User
        /\ ledger[x].amt \in Amount /\ score \in [User -> Int]
    BY EntryType DEF IInv, TypeOK
  <2> QED
    BY <1>7, <2>1, MovedType
<1>15. TypeOK'
  BY <1>5, <1>7, <1>8, <1>13, <1>14 DEF IInv, TypeOK, people
<1> QED
  BY <1>5, <1>8, <1>9, <1>13, <1>15 DEF IInv
-----------------------------------------------------------------------------
(***************************************************************************)
(* The transactions of Join and Leave.                                     *)
(***************************************************************************)

\* Rows are changed only to rows that no transfer satisfies.
LEMMA RowsLoosened ==
  ASSUME RoundsInv, UNCHANGED ledger, DOMAIN rounds' = DOMAIN rounds,
         RowsOK(rounds', active'),
         \A s \in DOMAIN rounds, v \in User :
           \/ rounds'[s].part[v] = rounds[s].part[v] /\ rounds'[s].by[v] = rounds[s].by[v]
           \/ rounds'[s].part[v] # "satisfied" /\ rounds'[s].by[v] = NoTransfer
  PROVE  RoundsInv'
<1>1. PendingPlayersCanPlay'
  BY DEF RowsOK, PendingPlayersCanPlay, ActiveRounds
<1>2. SatisfiedByLiveTransfer'
  <2> SUFFICES ASSUME NEW s \in DOMAIN rounds, NEW v \in User, rounds'[s].part[v] = "satisfied"
               PROVE  LET b == rounds'[s].by[v] IN
                      /\ b \in DOMAIN ledger
                      /\ ledger[b].kind = "normal" /\ ~ledger[b].reversed
                      /\ ledger[b].round = s
                      /\ v \in {ledger[b].from} \union ledger[b].rcv
    BY DEF SatisfiedByLiveTransfer
  <2>1. rounds[s].part[v] = "satisfied" /\ rounds'[s].by[v] = rounds[s].by[v]
    OBVIOUS
  <2> QED
    BY <2>1 DEF RoundsInv, SatisfiedByLiveTransfer
<1>3. ByOnlyWhenSatisfied'
  BY DEF RoundsInv, ByOnlyWhenSatisfied
<1> QED
  BY <1>1, <1>2, <1>3 DEF RoundsInv

\* A participant comes (back): what Join's two transactions have in common.
LEMMA Joined ==
  ASSUME IInv, NEW u \in User, active' = active \union {u}, RejoinValid,
         rounds' = AwaitInActiveRound(rounds, u), UNCHANGED ledger
  PROVE  rounds' \in Seq(Round) /\ RoundsInv' /\ CapacityRespected'
<1>1. /\ rounds \in Seq(Round) /\ active \in SUBSET User /\ RowsOK(rounds, active)
  BY PendingIsRowsOK DEF IInv, TypeOK, RoundsInv
<1> DEFINE rs == AwaitInActiveRound(rounds, u)
           ps == active \union {u}
<1>2. /\ rs \in Seq(Round) /\ RowsOK(rs, ps)
      /\ DOMAIN rs = DOMAIN rounds
      /\ \A s \in DOMAIN rounds, v \in User :
           \/ rs[s].part[v] = rounds[s].part[v] /\ rs[s].by[v] = rounds[s].by[v]
           \/ rs[s].part[v] = "pending" /\ rs[s].by[v] = NoTransfer
  BY <1>1, AwaitOK
<1>3. rounds' = rs /\ active' = ps
  OBVIOUS
<1>4. /\ Cardinality(active) \in Nat /\ Cardinality(ps) \in Nat
      /\ Cardinality(ps) <= Cardinality(active) + 1
  BY <1>1, OneMoreUser
<1>5. CapacityRespected'
  <2>1. Cardinality(active) < MaxParticipants /\ MaxParticipants \in Nat
    BY BoundsAssumption DEF RejoinValid
  <2>2. Cardinality(ps) <= MaxParticipants
    BY <1>4, <2>1
  <2> QED
    BY <1>3, <2>2 DEF CapacityRespected
<1> HIDE DEF rs, ps
<1>6. RoundsInv'
  BY <1>2, <1>3, RowsLoosened DEF IInv
<1> QED
  BY <1>2, <1>3, <1>5, <1>6

LEMMA JoinNewTxInv ==
  ASSUME IInv, NEW h \in Handler, JoinNewTx(h)
  PROVE  IInv'
<1> DEFINE u == req[h].user
<1>1. PICK v \in User : v = u
  BY RequestKind DEF JoinNewTx, IInv, TypeOK, JoinRequest
<1>2. /\ JoinNewValid(v) /\ order' = [order EXCEPT ![v] = NextJoinedOrder]
      /\ active' = active \union {v} /\ role' = [role EXCEPT ![v] = "member"]
      /\ rounds' = AwaitInActiveRound(rounds, v) /\ Goto(h, Idle)
      /\ UNCHANGED <<status, share, owner, score, ledger>>
  BY <1>1 DEF JoinNewTx
<1> HIDE DEF u
<1>3. rounds' \in Seq(Round) /\ RoundsInv' /\ CapacityRespected'
  BY <1>2, Joined DEF JoinNewValid
<1>4. LedgerInv' /\ Recorded
  BY <1>2, LedgerFrame DEF IInv
<1>5. order' \in [User -> Nat] /\ order'[v] > 0 /\ \A w \in User \ {v} : order'[w] = order[w]
  BY <1>2, NextJoinedOrderType DEF IInv, TypeOK
<1>6. PlayersKept /\ HavePlayerRow'
  BY <1>2, <1>5 DEF IInv, PeopleInv, HavePlayerRow, PlayersKept
<1>7. OneOwner'
  <2>1. v # owner
    BY <1>2 DEF JoinNewValid, IInv, PeopleInv, HavePlayerRow
  <2>2. role'[v] = "member" /\ \A w \in User \ {v} : role'[w] = role[w]
    BY <1>2 DEF IInv, TypeOK
  <2> QED
    BY <1>2, <2>1, <2>2 DEF IInv, PeopleInv, OneOwner
<1>8. VoidedIsEmpty'
  BY <1>2 DEF VoidedIsEmpty, JoinNewValid, RejoinValid
<1>9. Idle \in Request /\ ReadOK(Idle)' /\ AnswerOK(Idle)'
  BY DEF Request, Idle, ReadOK, AnswerOK
<1>10. RequestsInv' /\ req' \in [Handler -> Request]
  BY <1>2, <1>4, <1>6, <1>9, RequestStep DEF IInv
<1>11. TypeOK'
  BY <1>2, <1>3, <1>5, <1>10 DEF IInv, TypeOK
<1> QED
  BY <1>3, <1>4, <1>6, <1>7, <1>8, <1>10, <1>11 DEF IInv, PeopleInv

LEMMA RejoinTxInv ==
  ASSUME IInv, NEW h \in Handler, RejoinTx(h)
  PROVE  IInv'
<1> DEFINE u == req[h].user
<1>1. PICK v \in User : v = u
  BY RequestKind DEF RejoinTx, IInv, TypeOK, JoinRequest
<1>2. /\ RejoinValid /\ active' = active \union {v} /\ score' = [score EXCEPT ![v] = 0]
      /\ rounds' = AwaitInActiveRound(rounds, v) /\ Goto(h, Idle)
      /\ UNCHANGED <<status, share, owner, role, order, ledger>>
  BY <1>1 DEF RejoinTx
<1>3. order[v] > 0
  BY <1>1 DEF RejoinTx, IInv, RequestsInv, ReadsStayTrue, ReadOK
<1> HIDE DEF u
<1>4. rounds' \in Seq(Round) /\ RoundsInv' /\ CapacityRespected'
  BY <1>2, Joined
<1>5. LedgerInv' /\ Recorded
  BY <1>2, LedgerFrame DEF IInv
<1>6. PlayersKept /\ HavePlayerRow' /\ OneOwner'
  BY <1>2, <1>3 DEF IInv, PeopleInv, HavePlayerRow, PlayersKept, OneOwner
<1>7. VoidedIsEmpty'
  BY <1>2 DEF VoidedIsEmpty, RejoinValid
<1>8. Idle \in Request /\ ReadOK(Idle)' /\ AnswerOK(Idle)'
  BY DEF Request, Idle, ReadOK, AnswerOK
<1>9. RequestsInv' /\ req' \in [Handler -> Request]
  BY <1>2, <1>5, <1>6, <1>8, RequestStep DEF IInv
<1>10. TypeOK'
  BY <1>2, <1>4, <1>9 DEF IInv, TypeOK
<1> QED
  BY <1>4, <1>5, <1>6, <1>7, <1>9, <1>10 DEF IInv, PeopleInv
\* Leaving: the ownership the handler saw passes on, nobody who left is pending.
LEMMA LeaveTxInv ==
  ASSUME IInv, NEW h \in Handler, LeaveTx(h)
  PROVE  IInv'
<1>1. PICK q \in LeaveRequest : q = req[h]
  BY RequestKind DEF LeaveTx, IInv, TypeOK
<1> DEFINE u == q.user
           rest == active \ {u}
<1>2. /\ u \in active /\ active' = rest /\ rounds' = ExemptInActiveRound(rounds, u)
      /\ active = {u} /\ q.unscored => status = "active"
      /\ IF q.wasOwner /\ rest # {}
         THEN TransferOwnership(NextOwner(rest)) ELSE UNCHANGED <<owner, role>>
      /\ status' = IF rest # {} THEN status ELSE IF q.unscored THEN "voided" ELSE "finished"
      /\ share' = IF rest = {} /\ ~q.unscored THEN share + 1 ELSE share
      /\ Goto(h, Idle) /\ UNCHANGED <<order, score, ledger>>
  BY <1>1 DEF LeaveTx, LeaveValid
<1>3. /\ rounds \in Seq(Round) /\ active \in SUBSET User /\ RowsOK(rounds, active)
      /\ u \in User /\ rest \in SUBSET User
  BY PendingIsRowsOK DEF IInv, TypeOK, RoundsInv, LeaveRequest
<1>4. rounds' \in Seq(Round) /\ RoundsInv'
  <2> DEFINE rs == ExemptInActiveRound(rounds, u)
  <2>1. /\ rs \in Seq(Round) /\ RowsOK(rs, rest)
        /\ DOMAIN rs = DOMAIN rounds
        /\ \A s \in DOMAIN rounds, v \in User :
             \/ rs[s].part[v] = rounds[s].part[v] /\ rs[s].by[v] = rounds[s].by[v]
             \/ rs[s].part[v] = "exempt" /\ rs[s].by[v] = NoTransfer
    BY <1>3, ExemptOK
  <2>2. rounds' = rs /\ active' = rest /\ UNCHANGED ledger
    BY <1>2
  <2> HIDE DEF rs, rest
  <2> QED
    BY <2>1, <2>2, RowsLoosened DEF IInv
<1>5. LedgerInv' /\ Recorded
  BY <1>2, LedgerFrame DEF IInv
<1>6. HavePlayerRow' /\ PlayersKept /\ OneOwner' /\ owner' \in User
      /\ role' \in [User -> {"none", "member", "owner"}]
  <2>1. CASE q.wasOwner /\ rest # {}
    <3>1. TransferOwnership(NextOwner(rest)) /\ NextOwner(rest) \in rest
      BY <1>2, <1>3, <2>1, NextOwnerStays DEF IInv, TypeOK
    <3> DEFINE w == NextOwner(rest)
    <3> HIDE DEF w
    <3>2. /\ w \in active /\ w \in User /\ owner' = w
          /\ role' = [v \in User |-> IF v = w THEN "owner"
                                    ELSE IF role[v] = "owner" THEN "member" ELSE role[v]]
      BY <1>3, <3>1 DEF TransferOwnership, w
    <3>3. order[w] > 0
      BY <3>2 DEF IInv, PeopleInv, HavePlayerRow
    <3> QED
      BY <1>2, <3>2, <3>3 DEF IInv, TypeOK, PeopleInv, HavePlayerRow, PlayersKept, OneOwner
  <2>2. CASE ~(q.wasOwner /\ rest # {})
    BY <1>2, <2>2 DEF IInv, TypeOK, PeopleInv, HavePlayerRow, PlayersKept, OneOwner
  <2> QED
    BY <2>1, <2>2
<1>7. CapacityRespected'
  <2>1. Cardinality(rest) <= Cardinality(active)
    BY <1>3, UsersAreFinite, FS_Subset
  <2>2. Cardinality(active) <= MaxParticipants
    BY DEF IInv, PeopleInv, CapacityRespected
  <2>3. Cardinality(rest) \in Nat /\ Cardinality(active) \in Nat /\ MaxParticipants \in Nat
    BY <1>3, UsersAreFinite, BoundsAssumption
  <2> HIDE DEF rest
  <2>4. Cardinality(rest) <= MaxParticipants
    BY <2>1, <2>2, <2>3
  <2> QED
    BY <1>2, <2>4 DEF CapacityRespected
<1>8. VoidedIsEmpty'
  BY <1>2 DEF IInv, PeopleInv, VoidedIsEmpty
<1>9. Idle \in Request /\ ReadOK(Idle)' /\ AnswerOK(Idle)'
  BY DEF Request, Idle, ReadOK, AnswerOK
<1>10. RequestsInv' /\ req' \in [Handler -> Request]
  BY <1>2, <1>5, <1>6, <1>9, RequestStep DEF IInv
<1>11. TypeOK'
  BY <1>2, <1>3, <1>4, <1>6, <1>10 DEF IInv, TypeOK
<1> QED
  BY <1>4, <1>5, <1>6, <1>7, <1>8, <1>10, <1>11 DEF IInv, PeopleInv

-----------------------------------------------------------------------------
(***************************************************************************)
(* The end of the game, and restarts.                                      *)
(***************************************************************************)

LEMMA EndInv ==
  ASSUME IInv, \/ \E h \in Handler : FinishTx(h)
               \/ SettleInactive
               \/ Restart
  PROVE  IInv'
<1>1. /\ UNCHANGED <<people, score, ledger, rounds>> /\ share' \in {share, share + 1}
      /\ status' \in {"active", "finished", "voided"}
      /\ status' = "voided" => status = "voided" \/ ledger = <<>>
  BY DEF FinishTx, SettleInactive, Restart, IInv, TypeOK
<1>2. LedgerInv' /\ Recorded
  BY <1>1, LedgerFrame DEF IInv
<1>3. RoundsInv'
  BY <1>1, RoundsFrame DEF IInv, people
<1>4. PeopleInv' /\ PlayersKept
  BY <1>1 DEF IInv, PeopleInv, people, CapacityRespected, HavePlayerRow, OneOwner,
              VoidedIsEmpty, PlayersKept
<1>5. Idle \in Request /\ ReadOK(Idle)' /\ AnswerOK(Idle)'
  BY DEF Request, Idle, ReadOK, AnswerOK
<1>6. RequestsInv' /\ req' \in [Handler -> Request]
  <2>1. CASE \E h \in Handler : FinishTx(h)
    <3>1. PICK h \in Handler : Goto(h, Idle)
      BY <2>1 DEF FinishTx
    <3> QED
      BY <1>2, <1>4, <1>5, <3>1, RequestStep DEF IInv
  <2>2. CASE SettleInactive
    BY <1>1, <2>2 DEF SettleInactive, IInv, TypeOK, RequestsInv, ReadsStayTrue, ReadOK,
                      AnswersAreRecorded, AnswerOK, SamePayload, people
  <2>3. CASE Restart
    BY <1>5, <2>3 DEF Restart, RequestsInv, ReadsStayTrue, ReadOK, AnswersAreRecorded,
                      AnswerOK, Idle
  <2> QED
    BY <2>1, <2>2, <2>3
<1>7. TypeOK'
  BY <1>1, <1>6 DEF IInv, TypeOK, people
<1> QED
  BY <1>2, <1>3, <1>4, <1>6, <1>7 DEF IInv
-----------------------------------------------------------------------------
(***************************************************************************)
(* The theorems.                                                           *)
(***************************************************************************)

LEMMA NextInv ==
  ASSUME IInv, [Next]_vars
  PROVE  IInv'
<1>1. CASE UNCHANGED vars
  <2>1. UNCHANGED <<status, people, share, score, ledger, rounds, req>>
    BY <1>1 DEF vars, people
  <2>2. LedgerInv' /\ RoundsInv' /\ PeopleInv'
    BY <2>1, LedgerFrame, RoundsFrame, PeopleFrame DEF IInv, people
  <2>3. TypeOK' /\ RequestsInv'
    BY <2>1 DEF IInv, people, TypeOK, RequestsInv, ReadsStayTrue, ReadOK,
                AnswersAreRecorded, AnswerOK, SamePayload
  <2> QED
    BY <2>2, <2>3 DEF IInv
<1>2. ASSUME NEW h \in Handler, Calls(h) PROVE IInv'
  <2>1. PICK u \in User :
          \/ \E rcv \in SUBSET User, amt \in Amount, k \in Key : SubmitCall(h, u, rcv, amt, k)
          \/ \E i \in DOMAIN ledger, k \in Key : ReverseCall(h, u, i, k)
          \/ JoinCall(h, u) \/ LeaveCall(h, u) \/ FinishCall(h, u)
    BY <1>2 DEF Calls
  <2> QED
    BY <2>1, SubmitCallInv, ReverseCallInv, OtherCallInv
<1>3. ASSUME NEW h \in Handler, Steps(h) PROVE IInv'
  <2>1. CASE SubmitTx(h)
    BY <2>1, SubmitTxInv
  <2>2. CASE ReverseTx(h)
    BY <2>2, ReverseTxInv
  <2>3. CASE JoinNewTx(h)
    BY <2>3, JoinNewTxInv
  <2>4. CASE RejoinTx(h)
    BY <2>4, RejoinTxInv
  <2>5. CASE LeaveTx(h)
    BY <2>5, LeaveTxInv
  <2>6. CASE FinishTx(h)
    BY <2>6, EndInv
  <2>7. CASE JoinLookup(h) \/ LeaveCheck(h) \/ Rollback(h)
    BY <2>7, ReadInv
  <2> QED
    BY <1>3, <2>1, <2>2, <2>3, <2>4, <2>5, <2>6, <2>7 DEF Steps
<1>4. CASE SettleInactive \/ Restart
  BY <1>4, EndInv
<1> QED
  BY <1>1, <1>2, <1>3, <1>4 DEF Next

\* Every reachable state of a game, whatever the number of users and of requests
\* in flight, satisfies the inductive invariant: its conjuncts are the safety
\* properties the runs check on small instances.
THEOREM Invariance == Spec => []IInv
<1>1. IInv /\ [Next]_vars => IInv'
  BY NextInv
<1> QED
  BY <1>1, InitInv, PTL DEF Spec

\* Types, for any number of users, handlers, keys and transfers.
THEOREM TypeCorrect == Spec => []TypeOK
<1>1. IInv => TypeOK
  BY DEF IInv
<1> QED
  BY <1>1, Invariance, PTL

\* A round never waits for somebody who has left: pending rows are rows of the
\* one active round and of current participants (Join, Leave, Submit, Reverse).
THEOREM RoundsNeverStuckOnLeavers == Spec => []PendingPlayersCanPlay
<1>1. IInv => PendingPlayersCanPlay
  BY DEF IInv, RoundsInv
<1> QED
  BY <1>1, Invariance, PTL

\* A satisfied row always names a transfer of its round that involves its player
\* and has not been reversed, so a reversal finds every row it has to reopen.
THEOREM SatisfactionIsEarned == Spec => []SatisfiedByLiveTransfer
<1>1. IInv => SatisfiedByLiveTransfer
  BY DEF IInv, RoundsInv
<1> QED
  BY <1>1, Invariance, PTL

\* No interleaving of duplicates of a request records its key twice.
THEOREM KeysAreUsedOnce == Spec => []OncePerKey
<1>1. IInv => OncePerKey
  BY DEF IInv, LedgerInv
<1> QED
  BY <1>1, Invariance, PTL

\* Transfers are reversed at most once, by a receiver; reversals never are.
THEOREM ReversalsAreUnique == Spec => []ReversedOnce
<1>1. IInv => ReversedOnce
  BY DEF IInv, LedgerInv
<1> QED
  BY <1>1, Invariance, PTL

\* An answer to Submit or Reverse names the caller's own recorded entry.
THEOREM AnswersAreTrue == Spec => []AnswersAreRecorded
<1>1. IInv => AnswersAreRecorded
  BY DEF IInv, RequestsInv
<1> QED
  BY <1>1, Invariance, PTL

\* The capacity holds however many joins passed their reads together.
THEOREM CapacityIsKept == Spec => []CapacityRespected
<1>1. IInv => CapacityRespected
  BY DEF IInv, PeopleInv
<1> QED
  BY <1>1, Invariance, PTL

\* The two records of who owns the game agree.
THEOREM OwnerIsUnique == Spec => []OneOwner
<1>1. IInv => OneOwner
  BY DEF IInv, PeopleInv
<1> QED
  BY <1>1, Invariance, PTL
-----------------------------------------------------------------------------
(***************************************************************************)
(* Steps: the end of a game, and the score sheet.                          *)
(***************************************************************************)

\* The only transaction that writes the status of an ended game is a late Leave,
\* and it finds a game whose transfers it has seen, hence not a voided one.
LEMMA EndedStep ==
  ASSUME IInv, Next, status # "active"
  PROVE  status' = status /\ UNCHANGED <<ledger, score>>
<1>1. ASSUME NEW h \in Handler, Calls(h)
      PROVE  status' = status /\ UNCHANGED <<ledger, score>>
  BY <1>1 DEF Calls, SubmitCall, ReverseCall, JoinCall, LeaveCall, FinishCall
<1>2. ASSUME NEW h \in Handler, LeaveTx(h)
      PROVE  status' = status /\ UNCHANGED <<ledger, score>>
  <2>1. req[h].user \in active /\ UNCHANGED <<ledger, score>> /\ req[h].at = "leave"
    BY <1>2 DEF LeaveTx, LeaveValid
  <2>2. CASE active \ {req[h].user} # {}
    BY <1>2, <2>1, <2>2 DEF LeaveTx
  <2>3. CASE active \ {req[h].user} = {}
    <3>1. ~req[h].unscored /\ status' = "finished"
      BY <1>2, <2>1, <2>3 DEF LeaveTx, LeaveValid
    <3>2. ledger # <<>>
      BY <2>1, <3>1 DEF IInv, RequestsInv, ReadsStayTrue, ReadOK
    <3>3. status = "finished"
      BY <2>1, <3>2 DEF IInv, TypeOK, PeopleInv, VoidedIsEmpty
    <3> QED
      BY <2>1, <3>1, <3>3
  <2> QED
    BY <2>2, <2>3
<1>3. ASSUME NEW h \in Handler, Steps(h), ~LeaveTx(h)
      PROVE  status' = status /\ UNCHANGED <<ledger, score>>
  BY <1>3 DEF Steps, SubmitTx, SubmitValid, ReverseTx, ReverseValid, Reversible, JoinLookup,
              JoinNewTx, JoinNewValid, RejoinTx, RejoinValid, LeaveCheck, FinishTx, Rollback
<1>4. CASE SettleInactive \/ Restart
  BY <1>4 DEF SettleInactive, Restart
<1> QED
  BY <1>1, <1>2, <1>3, <1>4 DEF Next

\* A finished or voided game stays as it ended.
THEOREM TheEndIsFinal == Spec => EndIsFinal
<1>1. IInv /\ [Next]_vars =>
        [status # "active" => status' = status /\ UNCHANGED <<ledger, score>>]_vars
  BY EndedStep
<1> QED
  BY <1>1, Invariance, PTL DEF Spec, EndIsFinal

\* The ledger as a book of ScoreBook.
TheBook == [i \in DOMAIN ledger |-> Written(ledger[i])]
Entries == {Written(t) : t \in Transfer}

LEMMA BookType ==
  ASSUME ledger \in Seq(Transfer)
  PROVE  TheBook \in Seq(Entries) /\ Len(TheBook) = Len(ledger) /\ DOMAIN TheBook = DOMAIN ledger
<1>1. Len(ledger) \in Nat /\ DOMAIN ledger = 1..Len(ledger)
  OBVIOUS
<1>2. \A i \in DOMAIN ledger : Written(ledger[i]) \in Entries
  BY DEF Entries
<1>3. TheBook \in [1..Len(ledger) -> Entries]
  BY <1>1, <1>2 DEF TheBook
<1> QED
  BY <1>1, <1>3
\* A recorded transfer is a Write of its author's slip.
LEMMA SubmitWrites ==
  ASSUME IInv, IInv', NEW h \in Handler, SubmitTx(h)
  PROVE  Book!Next
<1> DEFINE t == Len(ledger) + 1
           n == ActiveRound(EnsureActiveRound(rounds, active))
<1>1. PICK q \in SubmitRequest : q = req[h]
  BY RequestKind DEF SubmitTx, IInv, TypeOK
<1> DEFINE e == [kind |-> "normal", from |-> q.user, rcv |-> q.rcv, amt |-> q.amt,
                 by |-> q.user, key |-> q.key, of |-> NoTransfer, round |-> n,
                 reversed |-> FALSE]
           slip == <<q.user, q.key>>
           what == [from |-> q.user, rcv |-> q.rcv, amt |-> q.amt]
<1>2. /\ ledger' = Append(ledger, e) /\ status = "active" /\ UNCHANGED status
      /\ SameKey(q.user, q.key) = {}
  BY <1>1 DEF SubmitTx, SubmitValid
<1>3. /\ slip \in User \X Key
      /\ what \in [from : User, rcv : SUBSET User, amt : Amount]
  BY DEF SubmitRequest
<1>4. Written(e) = [slip |-> slip, what |-> what, undoes |-> 0, undone |-> FALSE]
  BY DEF Written, Statement, NoTransfer
<1> HIDE DEF e
<1>5. \A i \in DOMAIN TheBook : TheBook[i].slip # slip
  BY <1>2 DEF TheBook, Written, SameKey
<1>6. TheBook' = Append(TheBook, Written(e))
  <2>1. ledger \in Seq(Transfer) /\ ledger' \in Seq(Transfer)
    BY DEF IInv, TypeOK
  <2>2. TheBook \in Seq(Entries) /\ Len(TheBook) = Len(ledger) /\ DOMAIN TheBook = DOMAIN ledger
    BY <2>1, BookType
  <2>3. /\ DOMAIN ledger = 1..Len(ledger) /\ Len(ledger) \in Nat
        /\ DOMAIN ledger' = 1..Len(ledger)+1
        /\ ledger'[Len(ledger)+1] = e
        /\ \A i \in DOMAIN ledger : ledger'[i] = ledger[i]
    BY <1>2, <2>1
  <2>4. TheBook' = [i \in 1..Len(ledger)+1 |-> Written(ledger'[i])]
    BY <2>3 DEF TheBook, Written, Statement
  <2>5. \A i \in 1..Len(ledger)+1 :
          Written(ledger'[i]) = IF i = Len(ledger) + 1 THEN Written(e) ELSE TheBook[i]
    BY <2>3 DEF TheBook
  <2>6. Append(TheBook, Written(e))
          = [i \in 1..Len(ledger)+1 |-> IF i = Len(ledger) + 1 THEN Written(e) ELSE TheBook[i]]
    <3>1. e \in Transfer
      BY <2>1, <2>3
    <3>2. Written(e) \in Entries
      BY <3>1 DEF Entries
    <3> QED
      BY <2>2, <3>2, AppendIs
  <2> QED
    BY <2>4, <2>5, <2>6
<1>7. Book!Write(slip, what)
  BY <1>2, <1>4, <1>5, <1>6 DEF Book!Write, Book!Fresh, Book!Entry, TheBook
<1>8. TheBook' # TheBook
  <2>1. ledger \in Seq(Transfer) /\ ledger' \in Seq(Transfer) /\ Len(ledger') = Len(ledger) + 1
    BY <1>2 DEF IInv, TypeOK
  <2>2. DOMAIN TheBook = 1..Len(ledger) /\ DOMAIN TheBook' = 1..Len(ledger)+1 /\ Len(ledger) \in Nat
    BY <2>1 DEF TheBook
  <2> QED
    BY <2>2
<1> QED
  BY <1>3, <1>7, <1>8 DEF Book!Next, TheBook
\* A recorded reversal is an Undo of the transfer it reverses.
LEMMA ReverseUndoes ==
  ASSUME IInv, IInv', NEW h \in Handler, ReverseTx(h)
  PROVE  Book!Next
<1> DEFINE t == Len(ledger) + 1
<1>1. PICK q \in ReverseRequest : q = req[h]
  BY RequestKind DEF ReverseTx, IInv, TypeOK
<1>2. PICK x \in DOMAIN ledger : x = q.target
  BY <1>1 DEF ReverseTx, IInv, RequestsInv, ReadsStayTrue, ReadOK
<1> DEFINE e == [kind |-> "reversal", from |-> ledger[x].from, rcv |-> ledger[x].rcv,
                 amt |-> ledger[x].amt, by |-> q.user, key |-> q.key, of |-> x,
                 round |-> ledger[x].round, reversed |-> FALSE]
           o == [ledger[x] EXCEPT !.reversed = TRUE]
           l == [ledger EXCEPT ![x] = o]
           slip == <<q.user, q.key>>
           struck == [TheBook EXCEPT ![x].undone = TRUE]
           entry == [slip |-> slip, what |-> TheBook[x].what, undoes |-> x, undone |-> FALSE]
<1>3. /\ ledger' = Append(l, e) /\ status = "active" /\ UNCHANGED status
      /\ ledger[x].kind = "normal" /\ ~ledger[x].reversed
      /\ SameKey(q.user, q.key) = {}
  BY <1>1, <1>2 DEF ReverseTx, ReverseValid, Reversible
<1>4. slip \in User \X Key
  BY DEF ReverseRequest
<1>5. /\ ledger \in Seq(Transfer) /\ ledger' \in Seq(Transfer)
      /\ DOMAIN ledger = 1..Len(ledger) /\ Len(ledger) \in Nat
      /\ TheBook \in Seq(Entries) /\ Len(TheBook) = Len(ledger) /\ DOMAIN TheBook = DOMAIN ledger
  BY BookType DEF IInv, TypeOK
<1>6. ledger[x] \in Transfer /\ o \in Transfer /\ o.reversed = TRUE
      /\ Statement(o) = Statement(ledger[x]) /\ o.of = ledger[x].of
      /\ o.by = ledger[x].by /\ o.key = ledger[x].key
  BY EntryType DEF IInv, Transfer, Statement
<1>7. ledger[x].of = NoTransfer
  BY <1>3 DEF IInv, LedgerInv, AuthorsOK
<1>8. TheBook[x] = [slip |-> <<ledger[x].by, ledger[x].key>>, what |-> Statement(ledger[x]),
                    undoes |-> 0, undone |-> ledger[x].reversed]
  BY <1>7 DEF TheBook, Written, NoTransfer
<1>9. \A i \in DOMAIN TheBook : TheBook[i].slip # slip
  BY <1>3 DEF TheBook, Written, SameKey
<1>10. Written(o) = [TheBook[x] EXCEPT !.undone = TRUE]
  <2>1. Written(o) = [slip |-> <<ledger[x].by, ledger[x].key>>, what |-> Statement(ledger[x]),
                      undoes |-> 0, undone |-> TRUE]
    <3> HIDE DEF o
    <3>1. Written(o) = [slip |-> <<o.by, o.key>>, what |-> Statement(o),
                        undoes |-> o.of, undone |-> o.reversed]
      BY Zenon DEF Written
    <3> QED
      BY <1>6, <1>7, <3>1, Zenon DEF NoTransfer
  <2> HIDE DEF o
  <2>2. [TheBook[x] EXCEPT !.undone = TRUE]
          = [slip |-> <<ledger[x].by, ledger[x].key>>, what |-> Statement(ledger[x]),
             undoes |-> 0, undone |-> TRUE]
    <3> DEFINE b == TheBook[x]
               s == <<ledger[x].by, ledger[x].key>>
               w == Statement(ledger[x])
               u == ledger[x].reversed
               yes == TRUE
    <3>1. b = [slip |-> s, what |-> w, undoes |-> 0, undone |-> u]
      BY <1>8
    <3> HIDE DEF b, s, w, u, yes
    <3>2. [b EXCEPT !.undone = yes] = [slip |-> s, what |-> w, undoes |-> 0, undone |-> yes]
      BY <3>1
    <3> QED
      BY <3>2, Zenon DEF b, s, w, yes
  <2> QED
    BY <2>1, <2>2, Zenon
<1>11. Written(e) = entry
  BY <1>8 DEF Written, Statement
<1> HIDE DEF o, e, entry
<1>12. l = [ledger EXCEPT ![x] = o] /\ ledger' = Append(l, e)
       /\ ledger \in Seq(Transfer) /\ o \in Transfer
  BY <1>3, <1>5, <1>6
<1> HIDE DEF l
<1>13. /\ l \in Seq(Transfer) /\ Len(l) = Len(ledger) /\ l[x] = o
       /\ \A i \in DOMAIN ledger \ {x} : l[i] = ledger[i]
       /\ DOMAIN ledger' = 1..Len(ledger)+1 /\ ledger'[Len(ledger)+1] = e
       /\ \A i \in DOMAIN ledger : ledger'[i] = l[i]
  BY <1>12, ReplacedThenAppended
<1>14. struck = [i \in DOMAIN ledger |-> Written(l[i])]
  <2>1. struck = [TheBook EXCEPT ![x] = Written(o)]
    BY <1>10
  <2>2. struck = [i \in DOMAIN ledger |-> IF i = x THEN Written(o) ELSE TheBook[i]]
    BY <1>5, <2>1 DEF TheBook
  <2>3. \A i \in DOMAIN ledger : Written(l[i]) = IF i = x THEN Written(o) ELSE TheBook[i]
    BY <1>13 DEF TheBook
  <2> QED
    BY <2>2, <2>3
<1>15. struck \in Seq(Entries) /\ Len(struck) = Len(ledger)
  <2>1. \A i \in DOMAIN ledger : Written(l[i]) \in Entries
    BY <1>5, <1>13 DEF Entries
  <2>2. struck \in [1..Len(ledger) -> Entries]
    BY <1>5, <1>14, <2>1
  <2> HIDE DEF struck
  <2> QED
    BY <1>5, <2>2
<1> HIDE DEF struck
<1>16. TheBook' = Append(struck, entry)
  <2>1. TheBook' = [i \in 1..Len(ledger)+1 |-> Written(ledger'[i])]
    BY <1>13 DEF TheBook, Written, Statement
  <2>2. \A i \in 1..Len(ledger)+1 :
          Written(ledger'[i]) = IF i = Len(ledger) + 1 THEN entry ELSE struck[i]
    BY <1>5, <1>11, <1>13, <1>14
  <2>3. entry \in Entries
    BY <1>5, <1>11, <1>13 DEF Entries
  <2>4. Append(struck, entry)
          = [i \in 1..Len(ledger)+1 |-> IF i = Len(ledger) + 1 THEN entry ELSE struck[i]]
    BY <1>15, <2>3, AppendIs
  <2> QED
    BY <2>1, <2>2, <2>4
<1>17. Book!Undo(slip, x)
  <2>1. TheBook[x].undoes = 0 /\ ~TheBook[x].undone
    BY <1>3, <1>8
  <2> QED
    BY <1>3, <1>9, <1>16, <2>1 DEF Book!Undo, Book!Fresh, Book!Entry, TheBook, struck, entry
<1>18. x \in DOMAIN TheBook
  BY <1>5
<1>19. TheBook' # TheBook
  <2>1. Len(TheBook') = Len(ledger) + 1 /\ Len(ledger) \in Nat /\ DOMAIN TheBook = 1..Len(ledger)
    BY <1>5, <1>15, <1>16 DEF TheBook
  <2>2. Len(TheBook) = Len(ledger)
    BY <2>1 DEF TheBook
  <2> QED
    BY <2>1, <2>2
<1> QED
  BY <1>4, <1>17, <1>18, <1>19 DEF Book!Next, TheBook

\* A step that writes no transfer leaves the book, and may close it.
LEMMA BookKept ==
  ASSUME UNCHANGED ledger, status' = status \/ (status = "active" /\ status' # "active")
  PROVE  [Book!Next]_<<TheBook, status = "active">>
<1>1. TheBook' = TheBook
  BY DEF TheBook, Written, Statement
<1>2. CASE status' = status
  BY <1>1, <1>2
<1>3. CASE status = "active" /\ status' # "active"
  <2>1. Book!Close
    BY <1>1, <1>3 DEF Book!Close, TheBook
  <2> QED
    BY <2>1 DEF Book!Next
<1> QED
  BY <1>2, <1>3

\* Every step of the game is a step of the book.
LEMMA BookStep ==
  ASSUME IInv, IInv', [Next]_vars
  PROVE  [Book!Next]_<<TheBook, status = "active">>
<1>1. CASE \E h \in Handler : SubmitTx(h)
  BY <1>1, SubmitWrites
<1>2. CASE \E h \in Handler : ReverseTx(h)
  BY <1>2, ReverseUndoes
<1>3. ASSUME NEW h \in Handler, Calls(h)
      PROVE  UNCHANGED <<ledger, status>>
  BY <1>3 DEF Calls, SubmitCall, ReverseCall, JoinCall, LeaveCall, FinishCall
<1>4. ASSUME NEW h \in Handler, Steps(h), ~SubmitTx(h), ~ReverseTx(h)
      PROVE  UNCHANGED ledger
  BY <1>4 DEF Steps, JoinLookup, JoinNewTx, RejoinTx, LeaveCheck, LeaveTx, FinishTx, Rollback
<1>5. ASSUME SettleInactive \/ Restart \/ UNCHANGED vars
      PROVE  UNCHANGED ledger
  BY <1>5 DEF SettleInactive, Restart, vars
<1>6. CASE UNCHANGED ledger
  <2>1. Next /\ status # "active" => status' = status
    BY EndedStep
  <2>2. status' = status \/ (status = "active" /\ status' # "active")
    BY <2>1 DEF vars
  <2> QED
    BY <1>6, <2>2, BookKept
<1> QED
  BY <1>1, <1>2, <1>3, <1>4, <1>5, <1>6 DEF Next

\* Requests that interleave, repeat or come too late leave a score sheet: entries
\* only added at the end, struck out once, one per key, none after the end.
THEOREM LedgerIsAScoreBook == Spec => ImplementsScoreBook
<1>1. Init => Book!Init
  BY DEF Init, Book!Init
<1>2. IInv /\ IInv' /\ [Next]_vars => [Book!Next]_<<TheBook, status = "active">>
  BY BookStep
<1> QED
  BY <1>1, <1>2, Invariance, PTL DEF Spec, ImplementsScoreBook, Book!Spec, TheBook
=============================================================================
