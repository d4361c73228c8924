-------------------------- MODULE GameReadsProofs --------------------------
(***************************************************************************)
(* What a reader of a game session can rely on, for any number of users,   *)
(* requests, transfers and for any page size: rows that are explained, and *)
(* a list without gaps, whatever the requests commit between the reader's  *)
(* statements and between its pages.                                       *)
(***************************************************************************)
EXTENDS GameReads, ScoreProofs, SequenceTheorems

readsVars == <<vars, read, phone>>

Names(i) == {ledger[i].by, ledger[i].from} \union ledger[i].rcv

\* Everyone an entry names has a player row, and keeps it.
NamedPlayed == \A i \in DOMAIN ledger : Names(i) \subseteq Players

\* The fields of a query.
Shape ==
  /\ DOMAIN read = {"kind", "done", "count", "people", "batch", "replayed", "round",
                    "pending", "reload", "before", "oldest", "rows"}
  /\ read.done \in 0..4

\* The page has been read.
Paged == (read.kind = "list" /\ read.done >= 1) \/ (read.kind = "detail" /\ read.done >= 3)

\* Each page of a load continues those before; one that is not full reaches the
\* first entry.
PagesInv ==
  /\ NoGap(read.rows) /\ NoGap(read.batch)
  /\ read.batch # <<>> /\ read.before # 0 => read.batch[1] = read.before - 1
  /\ Paged /\ ~FullPage =>
       IF read.batch # <<>> THEN Oldest(read.batch) = 1
       ELSE read.before = 1 \/ (read.before = 0 /\ read.oldest = 0)
  /\ read.kind = "list" /\ read.reload => read.before = Oldest(read.rows)
  /\ read.oldest # 0 => read.kind = "list" /\ read.reload

\* What the statements so far have made known of the people and the balances.
KnownInv ==
  /\ read.kind = "list" /\ read.done >= 2 =>
       \A k \in DOMAIN read.batch : Names(read.batch[k]) \subseteq DOMAIN read.people
  /\ read.kind = "list" /\ read.done >= 3 =>
       \A k \in DOMAIN read.batch : read.batch[k] <= read.replayed
  /\ read.kind = "detail" /\ read.done >= 1 => status = "finished"
  /\ read.kind = "detail" /\ read.done >= 2 =>
       \A i \in DOMAIN ledger : Names(i) \subseteq DOMAIN read.people
  /\ read.kind = "detail" /\ read.done >= 4 =>
       \A k \in DOMAIN read.batch : read.batch[k] <= read.replayed

ReadsInv == IInv /\ NamedPlayed /\ Shape /\ ReadsTypeOK /\ PagesInv /\ KnownInv

\* As long as no settlement takes the list's place under a load that continues it:
\* that load begins where the list ends.
ListInv ==
  /\ NoGap(list)
  /\ LoadingMore => read.before = Oldest(list)
  /\ list # <<>> /\ ~more /\ ~settled => Oldest(list) = 1

-----------------------------------------------------------------------------
(***************************************************************************)
(* Operators.                                                              *)
(***************************************************************************)
LEMMA MinOfTwo ==
  ASSUME NEW a \in Nat, NEW b \in Nat
  PROVE  Min({a, b}) = IF a <= b THEN a ELSE b
<1>1. \E x \in {a, b} : \A y \in {a, b} : x =< y
  OBVIOUS
<1>2. Min({a, b}) \in {a, b} /\ \A y \in {a, b} : Min({a, b}) =< y
  BY <1>1 DEF Min
<1> QED
  BY <1>2

\* A page is the segment of the ledger that ends before an entry.
LEMMA PageIs ==
  ASSUME TypeOK, NEW before \in 0..Len(ledger)
  PROVE  /\ Page(before) \in Seq(DOMAIN ledger) /\ NoGap(Page(before))
         /\ Page(before) # <<>> /\ before # 0 => Page(before)[1] = before - 1
         /\ Len(Page(before)) # PageSize =>
              IF Page(before) # <<>> THEN Oldest(Page(before)) = 1
              ELSE before = 1 \/ (before = 0 /\ Len(ledger) = 0)
<1> DEFINE top == IF before = 0 THEN Len(ledger) ELSE before - 1
           n == IF PageSize <= top THEN PageSize ELSE top
           p == [k \in 1..n |-> top + 1 - k]
<1>0. ledger \in Seq(Transfer) /\ Len(ledger) \in Nat /\ DOMAIN ledger = 1..Len(ledger)
  BY DEF TypeOK
<1>1. top \in 0..Len(ledger) /\ n \in 0..top /\ PageSize \in Nat \ {0}
  BY <1>0, PageAssumption
<1>2. Page(before) = p
  <2>1. Min({PageSize, top}) = n
    BY <1>1, MinOfTwo
  <2> QED
    BY <2>1 DEF Page
<1>3. p \in Seq(DOMAIN ledger) /\ Len(p) = n /\ \A k \in 1..n : p[k] = top + 1 - k
  <2>1. \A k \in 1..n : top + 1 - k \in DOMAIN ledger
    BY <1>0, <1>1
  <2> HIDE DEF n, top
  <2>2. n \in Nat
    BY <1>1
  <2> QED
    BY <2>1, <2>2
<1>4. p # <<>> <=> n # 0
  BY <1>1, <1>3
<1> HIDE DEF p
<1>5. NoGap(p)
  <2> HIDE DEF top, n
  <2> QED
    BY <1>1, <1>3 DEF NoGap
<1>6. p # <<>> /\ before # 0 => p[1] = before - 1
  BY <1>1, <1>3, <1>4
<1>7. ASSUME n # PageSize
      PROVE  IF p # <<>> THEN Oldest(p) = 1 ELSE before = 1 \/ (before = 0 /\ Len(ledger) = 0)
  <2>1. n = top
    BY <1>7
  <2>2. p # <<>> => Oldest(p) = 1
    BY <2>1, <1>1, <1>3, <1>4 DEF Oldest
  <2>3. top = 0 => before = 1 \/ (before = 0 /\ Len(ledger) = 0)
    BY <1>0
  <2> QED
    BY <2>1, <2>2, <2>3, <1>4
<1> QED
  BY <1>2, <1>3, <1>5, <1>6, <1>7

\* A segment continued by another one.
LEMMA Continued ==
  ASSUME NEW D \in SUBSET (Nat \ {0}), NEW s \in Seq(D), NEW p \in Seq(D),
         NoGap(s), NoGap(p),
         p # <<>> /\ Oldest(s) # 0 => p[1] = Oldest(s) - 1
  PROVE  /\ s \o p \in Seq(D) /\ NoGap(s \o p)
         /\ p # <<>> => s \o p # <<>> /\ Oldest(s \o p) = Oldest(p)
         /\ p = <<>> => s \o p = s
<1> DEFINE m == Len(s)
           n == Len(p)
           q == s \o p
<1>1. /\ q \in Seq(D) /\ Len(q) = m + n /\ m \in Nat /\ n \in Nat
      /\ \A k \in 1..m+n : q[k] = IF k <= m THEN s[k] ELSE p[k - m]
  OBVIOUS
<1>2. p = <<>> => q = s
  OBVIOUS
<1>3. (p # <<>> <=> n # 0) /\ (s # <<>> <=> m # 0) /\ (q # <<>> <=> m + n # 0)
  BY <1>1
<1>4. /\ \A k \in 1..m : s[k] \in Nat \ {0}
      /\ \A k \in 1..n : p[k] \in Nat \ {0}
  <2>1. (\A k \in 1..m : s[k] \in D) /\ (\A k \in 1..n : p[k] \in D)
    OBVIOUS
  <2> QED
    BY <2>1
<1>5. /\ \A k \in 1..m-1 : s[k + 1] = s[k] - 1
      /\ \A k \in 1..n-1 : p[k + 1] = p[k] - 1
  BY DEF NoGap
<1>6. m # 0 => Oldest(s) = s[m] /\ Oldest(s) # 0
  BY <1>1, <1>3, <1>4 DEF Oldest
<1>7. n # 0 => Oldest(p) = p[n] /\ Oldest(q) = q[m + n] /\ q[m + n] = p[n]
  BY <1>1, <1>3 DEF Oldest
<1>8. n # 0 /\ m # 0 => p[1] = s[m] - 1
  BY <1>3, <1>6
<1> HIDE DEF m, n, q
<1>9. ASSUME NEW k \in 1..m+n-1 PROVE q[k + 1] = q[k] - 1
  <2>1. k \in 1..m+n /\ k + 1 \in 1..m+n
    BY <1>1
  <2>2. CASE k < m
    BY <1>1, <1>5, <2>1, <2>2
  <2>3. CASE k = m
    <3>1. n # 0 /\ m # 0 /\ k + 1 - m = 1
      BY <1>1, <2>3
    <3> QED
      BY <1>1, <1>8, <2>1, <2>3, <3>1
  <2>4. CASE k > m
    <3>1. k - m \in 1..n-1 /\ k + 1 - m = (k - m) + 1
      BY <1>1, <2>4
    <3> QED
      BY <1>1, <1>5, <2>1, <2>4, <3>1
  <2> QED
    BY <1>1, <2>2, <2>3, <2>4
<1>10. NoGap(q)
  BY <1>1, <1>9 DEF NoGap
<1> QED
  BY <1>1, <1>2, <1>3, <1>7, <1>10 DEF n, q

\* Which statement is due, by kind and number.
LEMMA DueIs ==
  ASSUME read.kind \in {"none", "summary", "list", "detail"}, read.done \in 0..4
  PROVE  /\ Due("game") => read.kind \in {"summary", "detail"} /\ read.done = 0
         /\ Due("players") => read.kind \in {"summary", "list", "detail"} /\ read.done = 1
         /\ Due("page") => \/ read.kind = "list" /\ read.done = 0
                           \/ read.kind = "detail" /\ read.done = 2
         /\ Due("replay") => \/ read.kind = "list" /\ read.done = 2
                             \/ read.kind = "detail" /\ read.done = 3
         /\ Due("round") => read.kind = "summary" /\ read.done = 2
         /\ Due("parts") => read.kind = "summary" /\ read.done = 3
         /\ Answered => \/ read.kind = "list" /\ read.done = 3
                        \/ read.kind \in {"summary", "detail"} /\ read.done = 4
<1>1. CASE read.kind = "none"
  BY <1>1 DEF Due, Answered, Statements
<1>2. CASE read.kind = "summary"
  BY <1>2 DEF Due, Answered, Statements
<1>3. CASE read.kind = "list"
  BY <1>3 DEF Due, Answered, Statements
<1>4. CASE read.kind = "detail"
  BY <1>4 DEF Due, Answered, Statements
<1> QED
  BY <1>1, <1>2, <1>3, <1>4

-----------------------------------------------------------------------------
(***************************************************************************)
(* The requests.                                                           *)
(***************************************************************************)
\* What a step of a request does to what a reader has read: entries and rows are
\* never deleted, and the end of the game is the end of the ledger.
Grows ==
  /\ Len(ledger) <= Len(ledger')
  /\ \A i \in DOMAIN ledger : Names(i)' = Names(i)
  /\ Len(rounds) <= Len(rounds')
  /\ status # "active" => status' = status /\ ledger' = ledger

LEMMA LongerSeq ==
  ASSUME NEW S, NEW s \in Seq(S), NEW t \in Seq(S), DOMAIN s \subseteq DOMAIN t
  PROVE  Len(s) <= Len(t)
<1>1. Len(s) \in Nat /\ Len(t) \in Nat /\ DOMAIN s = 1..Len(s) /\ DOMAIN t = 1..Len(t)
  OBVIOUS
<1> QED
  BY <1>1

\* A step that writes no entry.
LEMMA NoEntry ==
  ASSUME IInv, IInv', NamedPlayed, UNCHANGED ledger, DOMAIN rounds \subseteq DOMAIN rounds',
         \A u \in User : order[u] > 0 => order'[u] > 0,
         status # "active" => status' = status
  PROVE  Grows /\ NamedPlayed'
<1>1. rounds \in Seq(Round) /\ rounds' \in Seq(Round) /\ ledger \in Seq(Transfer)
  BY DEF IInv, TypeOK
<1>2. Len(rounds) <= Len(rounds')
  BY <1>1, LongerSeq
<1>3. Len(ledger) \in Nat
  BY <1>1
<1>4. \A i : Names(i)' = Names(i)
  BY DEF Names
<1>5. Players \subseteq Players'
  BY DEF Players
<1>6. NamedPlayed'
  BY <1>4, <1>5 DEF NamedPlayed
<1> QED
  BY <1>2, <1>3, <1>4, <1>6 DEF Grows

\* A step that appends an entry: everyone it names has a player row.
LEMMA OneEntry ==
  ASSUME IInv, IInv', NamedPlayed, status = "active", UNCHANGED order,
         DOMAIN rounds \subseteq DOMAIN rounds',
         NEW t, t = Len(ledger) + 1, DOMAIN ledger' = 1..t,
         \A i \in DOMAIN ledger : Names(i)' = Names(i),
         Names(t)' \subseteq Players
  PROVE  Grows /\ NamedPlayed'
<1>1. /\ rounds \in Seq(Round) /\ rounds' \in Seq(Round)
      /\ ledger \in Seq(Transfer) /\ ledger' \in Seq(Transfer)
  BY DEF IInv, TypeOK
<1>2. Len(rounds) <= Len(rounds')
  BY <1>1, LongerSeq
<1>3. Len(ledger) \in Nat /\ DOMAIN ledger = 1..Len(ledger)
  BY <1>1
<1>4. Len(ledger) <= Len(ledger')
  BY <1>1, <1>3, LongerSeq
<1>5. Players' = Players
  BY DEF Players
<1>6. ASSUME NEW i \in DOMAIN ledger' PROVE Names(i)' \subseteq Players
  <2>1. i \in DOMAIN ledger \/ i = t
    BY <1>3
  <2> QED
    BY <2>1 DEF NamedPlayed
<1>7. NamedPlayed'
  BY <1>5, <1>6 DEF NamedPlayed
<1> QED
  BY <1>2, <1>4, <1>7 DEF Grows

LEMMA PlayersNow ==
  ASSUME IInv
  PROVE  active \subseteq Players
BY DEF IInv, TypeOK, PeopleInv, HavePlayerRow, Players

LEMMA SubmitGrows ==
  ASSUME IInv, IInv', NamedPlayed, NEW h \in Handler, SubmitTx(h)
  PROVE  Grows /\ NamedPlayed'
<1>0. PICK t : t = Len(ledger) + 1
  OBVIOUS
<1> DEFINE r == req[h]
           rs == EnsureActiveRound(rounds, active)
           n == ActiveRound(rs)
           e == [kind |-> "normal", from |-> r.user, rcv |-> r.rcv, amt |-> r.amt,
                 by |-> r.user, key |-> r.key, of |-> NoTransfer, round |-> n, reversed |-> FALSE]
<1>1. /\ SubmitValid(r) /\ ledger' = Append(ledger, e)
      /\ rounds' = MarkParticipantsSatisfied(rs, {r.user} \union r.rcv, t)
      /\ order' = order
  BY <1>0 DEF SubmitTx, people
<1>2. e.from = r.user /\ e.by = r.user /\ e.rcv = r.rcv
  OBVIOUS
<1>3. ledger \in Seq(Transfer) /\ rounds \in Seq(Round) /\ active \in SUBSET User
      /\ RowsOK(rounds, active)
  BY PendingIsRowsOK DEF IInv, TypeOK, RoundsInv
<1>4. DOMAIN rounds \subseteq DOMAIN rounds'
  BY <1>1, <1>3, EnsureActiveRoundOK, SatisfyDomain
<1> HIDE DEF e
<1>5. /\ DOMAIN ledger' = 1..t /\ ledger'[t] = e
      /\ \A i \in DOMAIN ledger : ledger'[i] = ledger[i]
  BY <1>0, <1>1, <1>3
<1>6. \A i \in DOMAIN ledger : Names(i)' = Names(i)
  BY <1>5 DEF Names
<1>7. Names(t)' \subseteq Players
  <2>1. Names(t)' = {r.user} \union r.rcv
    BY <1>2, <1>5 DEF Names
  <2> QED
    BY <2>1, <1>1, PlayersNow DEF SubmitValid
<1> QED
  BY <1>0, <1>1, <1>4, <1>5, <1>6, <1>7, OneEntry DEF SubmitValid

LEMMA ReverseGrows ==
  ASSUME IInv, IInv', NamedPlayed, NEW h \in Handler, ReverseTx(h)
  PROVE  Grows /\ NamedPlayed'
<1>0. PICK t : t = Len(ledger) + 1
  OBVIOUS
<1> DEFINE r == req[h]
           x == r.target
           o == ledger[x]
           d == [o EXCEPT !.reversed = TRUE]
           e == [kind |-> "reversal", from |-> o.from, rcv |-> o.rcv, amt |-> o.amt,
                 by |-> r.user, key |-> r.key, of |-> x, round |-> o.round, reversed |-> FALSE]
<1>1. /\ ReverseValid(r) /\ ledger' = Append([ledger EXCEPT ![x].reversed = TRUE], e)
      /\ rounds' = ReopenFromReversal(rounds, o.round, x)
      /\ order' = order
  BY DEF ReverseTx, people
<1>2. x \in DOMAIN ledger
  <2>1. ReadOK(r) /\ r.at = "reverse"
    BY DEF IInv, RequestsInv, ReadsStayTrue, ReverseTx
  <2> QED
    BY <2>1 DEF ReadOK
<1>3. ledger \in Seq(Transfer) /\ o \in Transfer
  BY <1>2, EntryType DEF IInv, TypeOK
<1>4. d \in Transfer /\ d.from = o.from /\ d.by = o.by /\ d.rcv = o.rcv
  BY <1>3 DEF Transfer
<1>5. e.from = o.from /\ e.by = r.user /\ e.rcv = o.rcv
  OBVIOUS
<1>6. ledger' = Append([ledger EXCEPT ![x] = d], e)
  BY <1>1
<1>7. DOMAIN rounds' = DOMAIN rounds
  BY <1>1 DEF ReopenFromReversal
<1> HIDE DEF d, e, o
<1>8. /\ DOMAIN ledger' = 1..t /\ ledger'[t] = e
      /\ \A i \in DOMAIN ledger : ledger'[i] = IF i = x THEN d ELSE ledger[i]
  BY <1>0, <1>2, <1>3, <1>4, <1>6, ReplacedThenAppended
<1>9. \A i \in DOMAIN ledger : Names(i)' = Names(i)
  BY <1>4, <1>8 DEF Names, o
<1>10. Names(t)' \subseteq Players
  <2>1. Names(t)' = {r.user, o.from} \union o.rcv
    BY <1>5, <1>8 DEF Names
  <2>2. r.user \in active /\ {o.from} \union o.rcv \subseteq active
    BY <1>1 DEF ReverseValid, Reversible, o
  <2> QED
    BY <2>1, <2>2, PlayersNow
<1>11. status = "active"
  BY <1>1 DEF ReverseValid, Reversible
<1> QED
  BY <1>0, <1>1, <1>7, <1>8, <1>9, <1>10, <1>11, OneEntry

LEMMA JoinNewGrows ==
  ASSUME IInv, IInv', NamedPlayed, NEW h \in Handler, JoinNewTx(h)
  PROVE  Grows /\ NamedPlayed'
<1>1. /\ order \in [User -> Nat] /\ rounds \in Seq(Round) /\ active \in SUBSET User
      /\ RowsOK(rounds, active)
  BY PendingIsRowsOK DEF IInv, TypeOK, RoundsInv
<1>2. PICK u \in User : u = req[h].user
  BY RequestKind DEF JoinNewTx, IInv, TypeOK, JoinRequest
<1>3. /\ order' = [order EXCEPT ![u] = NextJoinedOrder]
      /\ rounds' = AwaitInActiveRound(rounds, u) /\ UNCHANGED <<status, ledger>>
  BY <1>2 DEF JoinNewTx
<1>4. \A v \in User : order[v] > 0 => order'[v] > 0
  BY <1>1, <1>3, NextJoinedOrderType
<1>5. DOMAIN rounds \subseteq DOMAIN rounds'
  BY <1>1, <1>3, AwaitOK
<1> QED
  BY <1>3, <1>4, <1>5, NoEntry

LEMMA RequestGrows ==
  ASSUME IInv, NamedPlayed, [Next]_vars
  PROVE  Grows /\ NamedPlayed'
<1>0. IInv'
  BY NextInv
<1>1. /\ rounds \in Seq(Round) /\ active \in SUBSET User /\ RowsOK(rounds, active)
  BY PendingIsRowsOK DEF IInv, TypeOK, RoundsInv
<1>2. ASSUME UNCHANGED <<order, rounds, ledger>>, status # "active" => status' = status
      PROVE  Grows /\ NamedPlayed'
  BY <1>0, <1>2, NoEntry
<1>3. CASE UNCHANGED vars
  BY <1>2, <1>3 DEF vars
<1>4. ASSUME NEW h \in Handler, Calls(h) PROVE Grows /\ NamedPlayed'
  <2>1. UNCHANGED <<order, rounds, ledger, status>>
    BY <1>4 DEF Calls, SubmitCall, ReverseCall, JoinCall, LeaveCall, FinishCall, people
  <2> QED
    BY <1>2, <2>1
<1>5. ASSUME NEW h \in Handler, Steps(h) PROVE Grows /\ NamedPlayed'
  <2>1. CASE SubmitTx(h)
    BY <1>0, <2>1, SubmitGrows
  <2>2. CASE ReverseTx(h)
    BY <1>0, <2>2, ReverseGrows
  <2>3. CASE JoinNewTx(h)
    BY <1>0, <2>3, JoinNewGrows
  <2>4. CASE RejoinTx(h)
    <3>1. PICK u \in User : u = req[h].user
      BY <2>4, RequestKind DEF RejoinTx, IInv, TypeOK, JoinRequest
    <3>2. rounds' = AwaitInActiveRound(rounds, u) /\ UNCHANGED <<status, order, ledger>>
      BY <2>4, <3>1 DEF RejoinTx
    <3>3. DOMAIN rounds \subseteq DOMAIN rounds'
      BY <1>1, <3>2, AwaitOK
    <3> QED
      BY <1>0, <3>2, <3>3, NoEntry
  <2>5. CASE LeaveTx(h)
    <3>1. PICK q \in LeaveRequest : q = req[h]
      BY <2>5, RequestKind DEF LeaveTx, IInv, TypeOK
    <3>2. rounds' = ExemptInActiveRound(rounds, q.user) /\ UNCHANGED <<order, ledger>>
          /\ q.user \in User
      BY <2>5, <3>1 DEF LeaveTx, LeaveRequest
    <3>3. DOMAIN rounds \subseteq DOMAIN rounds'
      BY <1>1, <3>2, ExemptOK
    <3>4. status # "active" => status' = status
      BY <2>5, EndedStep DEF Next, Steps
    <3> QED
      BY <1>0, <3>2, <3>3, <3>4, NoEntry
  <2>6. CASE FinishTx(h)
    BY <1>2, <2>6 DEF FinishTx, people
  <2>7. CASE JoinLookup(h) \/ LeaveCheck(h) \/ Rollback(h)
    BY <1>2, <2>7 DEF JoinLookup, LeaveCheck, Rollback, people
  <2> QED
    BY <1>5, <2>1, <2>2, <2>3, <2>4, <2>5, <2>6, <2>7 DEF Steps
<1>6. CASE SettleInactive \/ Restart
  BY <1>2, <1>6 DEF SettleInactive, Restart, people
<1> QED
  BY <1>3, <1>4, <1>5, <1>6 DEF Next

\* A request's step leaves a reader with what it has read.
LEMMA RequestKeeps ==
  ASSUME ReadsInv, [Next]_vars, UNCHANGED <<read, phone>>
  PROVE  ReadsInv'
<1>1. IInv' /\ Grows /\ NamedPlayed'
  BY NextInv, RequestGrows DEF ReadsInv
<1>2. Shape'
  BY DEF ReadsInv, Shape
<1>3. ReadsTypeOK'
  <2>1. /\ Len(ledger) \in Nat /\ Len(ledger') \in Nat /\ Len(rounds) \in Nat /\ Len(rounds') \in Nat
        /\ DOMAIN ledger = 1..Len(ledger) /\ DOMAIN ledger' = 1..Len(ledger')
    BY <1>1 DEF ReadsInv, IInv, TypeOK
  <2>2. /\ DOMAIN ledger \subseteq DOMAIN ledger' /\ 0..Len(ledger) \subseteq 0..Len(ledger')
        /\ 0..Len(rounds) \subseteq 0..Len(rounds')
    BY <1>1, <2>1 DEF Grows
  <2>3. \A s \in Seq(DOMAIN ledger) : s \in Seq(DOMAIN ledger')
    BY <2>2, SeqMonotonic
  <2> QED
    BY <2>2, <2>3 DEF ReadsInv, ReadsTypeOK, phone
<1>4. PagesInv'
  BY DEF ReadsInv, PagesInv, phone, NoGap, Paged, FullPage, Oldest
<1>5. KnownInv'
  <2>1. read.batch \in Seq(DOMAIN ledger)
    BY DEF ReadsInv, ReadsTypeOK
  <2>2. \A k \in DOMAIN read.batch : read.batch[k] \in DOMAIN ledger
    BY <2>1
  <2>3. \A k \in DOMAIN read.batch : Names(read.batch[k])' = Names(read.batch[k])
    BY <1>1, <2>2 DEF Grows, Names
  <2>4. status = "finished" => status' = "finished" /\ ledger' = ledger
    BY <1>1 DEF Grows
  <2>5. ledger' = ledger => \A i \in DOMAIN ledger : Names(i)' = Names(i)
    BY DEF Names
  <2>6. KnownInv
    BY DEF ReadsInv
  <2>7. read.kind = "list" /\ read.done >= 2 =>
          \A k \in DOMAIN read.batch : Names(read.batch[k])' \subseteq DOMAIN read.people
    BY <2>3, <2>6 DEF KnownInv
  <2>8. read.kind = "detail" /\ read.done >= 1 => status' = "finished" /\ ledger' = ledger
    BY <2>4, <2>6 DEF KnownInv
  <2>9. read.done \in 0..4
    BY DEF ReadsInv, Shape
  <2>10. read.kind = "detail" /\ read.done >= 2 =>
           \A i \in DOMAIN ledger' : Names(i)' \subseteq DOMAIN read.people
    BY <2>5, <2>6, <2>8, <2>9 DEF KnownInv
  <2> QED
    BY <2>6, <2>7, <2>8, <2>10 DEF KnownInv, Names
<1> QED
  BY <1>1, <1>2, <1>3, <1>4, <1>5 DEF ReadsInv

-----------------------------------------------------------------------------
(***************************************************************************)
(* The statements of a query.                                              *)
(***************************************************************************)
\* A step of the reader or of the phone leaves the store as it is.
LEMMA StoreRests ==
  ASSUME IInv, NamedPlayed, UNCHANGED vars
  PROVE  /\ IInv' /\ NamedPlayed' /\ UNCHANGED <<status, ledger, rounds>>
         /\ \A i : Names(i)' = Names(i)
<1>1. IInv' /\ NamedPlayed'
  BY NextInv, RequestGrows
<1> QED
  BY <1>1 DEF vars, Names

\* The results of the statements before the page, and after it.
LEMMA StatementPages ==
  ASSUME Shape, PagesInv, UNCHANGED phone,
         read.kind \in {"none", "summary", "list", "detail"},
         read'.kind = read.kind, read'.done = read.done + 1, read'.batch = read.batch,
         read'.before = read.before, read'.oldest = read.oldest, read'.rows = read.rows,
         read'.reload = read.reload,
         ~(read.kind = "list" /\ read.done = 0), ~(read.kind = "detail" /\ read.done = 2)
  PROVE  PagesInv'
<1>1. Paged' => Paged
  BY DEF Paged, Shape
<1>2. FullPage' <=> FullPage
  BY DEF FullPage
<1> QED
  BY <1>1, <1>2 DEF PagesInv, phone, NoGap, Oldest

LEMMA ReadGameInv ==
  ASSUME ReadsInv, ReadGame
  PROVE  ReadsInv'
<1>1. /\ read.kind \in {"summary", "detail"} /\ read.done = 0
      /\ read.kind = "detail" => status = "finished"
  BY DueIs DEF ReadsInv, Shape, ReadsTypeOK, ReadGame
<1>2. PICK c : c = Len(ledger)
  OBVIOUS
<1>3. read' = [[read EXCEPT !.count = c] EXCEPT !.done = @ + 1] /\ UNCHANGED <<phone, vars>>
  BY <1>2 DEF ReadGame, Got
<1>4. /\ read'.kind = read.kind /\ read'.done = read.done + 1 /\ read'.count = c
      /\ read'.people = read.people /\ read'.batch = read.batch /\ read'.replayed = read.replayed
      /\ read'.round = read.round /\ read'.pending = read.pending /\ read'.reload = read.reload
      /\ read'.before = read.before /\ read'.oldest = read.oldest /\ read'.rows = read.rows
      /\ Shape'
  BY <1>1, <1>3 DEF ReadsInv, Shape
<1>5. IInv' /\ NamedPlayed' /\ UNCHANGED <<status, ledger, rounds>>
  BY <1>3, StoreRests DEF ReadsInv
<1>6. ReadsTypeOK'
  <2>1. c \in 0..Len(ledger)
    BY <1>2 DEF ReadsInv, IInv, TypeOK
  <2> QED
    BY <2>1, <1>3, <1>4, <1>5 DEF ReadsInv, ReadsTypeOK, phone
<1>7. PagesInv'
  BY <1>1, <1>3, <1>4, StatementPages DEF ReadsInv
<1>8. KnownInv'
  BY <1>1, <1>4, <1>5 DEF KnownInv
<1> QED
  BY <1>4, <1>5, <1>6, <1>7, <1>8 DEF ReadsInv

LEMMA ReadPlayersInv ==
  ASSUME ReadsInv, ReadPlayers
  PROVE  ReadsInv'
<1>1. read.kind \in {"summary", "list", "detail"} /\ read.done = 1
  BY DueIs DEF ReadsInv, Shape, ReadsTypeOK, ReadPlayers
<1>2. PICK people2 : people2 = [u \in (IF read.kind = "summary" THEN active ELSE Players) |-> score[u]]
  OBVIOUS
<1>3. read' = [[read EXCEPT !.people = people2] EXCEPT !.done = @ + 1] /\ UNCHANGED <<phone, vars>>
  BY <1>2 DEF ReadPlayers, Got
<1>4. /\ read'.kind = read.kind /\ read'.done = read.done + 1 /\ read'.count = read.count
      /\ read'.people = people2 /\ read'.batch = read.batch /\ read'.replayed = read.replayed
      /\ read'.round = read.round /\ read'.pending = read.pending /\ read'.reload = read.reload
      /\ read'.before = read.before /\ read'.oldest = read.oldest /\ read'.rows = read.rows
      /\ Shape'
  BY <1>1, <1>3 DEF ReadsInv, Shape
<1>5. /\ IInv' /\ NamedPlayed' /\ UNCHANGED <<status, ledger, rounds>>
      /\ \A i : Names(i)' = Names(i)
  BY <1>3, StoreRests DEF ReadsInv
<1>6. DOMAIN people2 = IF read.kind = "summary" THEN active ELSE Players
  BY <1>2
<1>7. ReadsTypeOK'
  <2>1. DOMAIN people2 \subseteq User
    BY <1>6 DEF ReadsInv, IInv, TypeOK, Players
  <2> QED
    BY <2>1, <1>3, <1>4, <1>5 DEF ReadsInv, ReadsTypeOK, phone
<1>8. PagesInv'
  BY <1>1, <1>3, <1>4, StatementPages DEF ReadsInv
<1>9. KnownInv'
  <2>1. \A k \in DOMAIN read.batch : read.batch[k] \in DOMAIN ledger
    <3>1. read.batch \in Seq(DOMAIN ledger)
      BY DEF ReadsInv, ReadsTypeOK
    <3> QED
      BY <3>1
  <2>2. \A i \in DOMAIN ledger : Names(i) \subseteq Players
    BY DEF ReadsInv, NamedPlayed
  <2>3. read.kind = "detail" => status = "finished"
    BY <1>1 DEF ReadsInv, KnownInv
  <2>4. read.kind # "summary" => DOMAIN people2 = Players
    BY <1>6
  <2>5. read.kind # "summary" => \A i \in DOMAIN ledger : Names(i)' \subseteq DOMAIN people2
    BY <1>5, <2>2, <2>4
  <2> QED
    BY <1>1, <1>4, <1>5, <2>1, <2>3, <2>5 DEF KnownInv, Names
<1> QED
  BY <1>4, <1>5, <1>7, <1>8, <1>9 DEF ReadsInv

LEMMA ReadPageInv ==
  ASSUME ReadsInv, ReadPage
  PROVE  ReadsInv'
<1>1. (read.kind = "list" /\ read.done = 0) \/ (read.kind = "detail" /\ read.done = 2)
  BY DueIs DEF ReadsInv, Shape, ReadsTypeOK, ReadPage
<1>2. PICK b : b = Page(read.before)
  OBVIOUS
<1>3. read' = [[read EXCEPT !.batch = b] EXCEPT !.done = @ + 1] /\ UNCHANGED <<phone, vars>>
  BY <1>2 DEF ReadPage, Got
<1>4. /\ read'.kind = read.kind /\ read'.done = read.done + 1 /\ read'.count = read.count
      /\ read'.people = read.people /\ read'.batch = b /\ read'.replayed = read.replayed
      /\ read'.round = read.round /\ read'.pending = read.pending /\ read'.reload = read.reload
      /\ read'.before = read.before /\ read'.oldest = read.oldest /\ read'.rows = read.rows
      /\ Shape'
  BY <1>1, <1>3 DEF ReadsInv, Shape
<1>5. /\ IInv' /\ NamedPlayed' /\ UNCHANGED <<status, ledger, rounds>>
      /\ \A i : Names(i)' = Names(i)
  BY <1>3, StoreRests DEF ReadsInv
<1>6. read.before \in 0..Len(ledger) /\ read.oldest \in 0..Len(ledger)
  BY DEF ReadsInv, ReadsTypeOK
<1>7. /\ b \in Seq(DOMAIN ledger) /\ NoGap(b)
      /\ b # <<>> /\ read.before # 0 => b[1] = read.before - 1
      /\ Len(b) # PageSize =>
           IF b # <<>> THEN Oldest(b) = 1
           ELSE read.before = 1 \/ (read.before = 0 /\ Len(ledger) = 0)
  BY <1>2, <1>6, PageIs DEF ReadsInv, IInv
<1>8. ReadsTypeOK'
  BY <1>3, <1>4, <1>5, <1>7 DEF ReadsInv, ReadsTypeOK, phone
<1>9. PagesInv'
  <2>1. Len(ledger) = 0 => read.oldest = 0
    BY <1>6
  <2>2. ~FullPage' => Len(b) # PageSize
    BY <1>4 DEF FullPage
  <2> QED
    BY <1>3, <1>4, <1>7, <2>1, <2>2 DEF ReadsInv, PagesInv, phone, NoGap, Oldest
<1>10. KnownInv'
  <2>1. KnownInv
    BY DEF ReadsInv
  <2> QED
    BY <1>1, <1>4, <1>5, <2>1 DEF KnownInv
<1> QED
  BY <1>4, <1>5, <1>8, <1>9, <1>10 DEF ReadsInv

LEMMA ReadLedgerInv ==
  ASSUME ReadsInv, ReadLedger
  PROVE  ReadsInv'
<1>1. (read.kind = "list" /\ read.done = 2) \/ (read.kind = "detail" /\ read.done = 3)
  BY DueIs DEF ReadsInv, Shape, ReadsTypeOK, ReadLedger
<1>2. PICK n : n = Len(ledger)
  OBVIOUS
<1>3. read' = [[read EXCEPT !.replayed = n] EXCEPT !.done = @ + 1] /\ UNCHANGED <<phone, vars>>
  BY <1>2 DEF ReadLedger, Got
<1>4. /\ read'.kind = read.kind /\ read'.done = read.done + 1 /\ read'.count = read.count
      /\ read'.people = read.people /\ read'.batch = read.batch /\ read'.replayed = n
      /\ read'.round = read.round /\ read'.pending = read.pending /\ read'.reload = read.reload
      /\ read'.before = read.before /\ read'.oldest = read.oldest /\ read'.rows = read.rows
      /\ Shape'
  BY <1>1, <1>3 DEF ReadsInv, Shape
<1>5. /\ IInv' /\ NamedPlayed' /\ UNCHANGED <<status, ledger, rounds>>
      /\ \A i : Names(i)' = Names(i)
  BY <1>3, StoreRests DEF ReadsInv
<1>6. n \in 0..Len(ledger) /\ DOMAIN ledger = 1..n
  BY <1>2 DEF ReadsInv, IInv, TypeOK
<1>7. ReadsTypeOK'
  BY <1>3, <1>4, <1>5, <1>6 DEF ReadsInv, ReadsTypeOK, phone
<1>8. PagesInv'
  BY <1>1, <1>3, <1>4, StatementPages DEF ReadsInv
<1>9. KnownInv'
  <2>1. KnownInv
    BY DEF ReadsInv
  <2>2. \A k \in DOMAIN read.batch : read.batch[k] <= n
    <3>1. read.batch \in Seq(1..n)
      BY <1>6 DEF ReadsInv, ReadsTypeOK
    <3>2. \A k \in DOMAIN read.batch : read.batch[k] \in 1..n
      BY <3>1, ElementOfSeq, LenProperties
    <3> QED
      BY <3>2
  <2>3. \A i : Names(i) = Names(i)'
    BY <1>5
  <2> QED
    BY <1>1, <1>4, <1>5, <2>1, <2>2, <2>3 DEF KnownInv, Names
<1> QED
  BY <1>4, <1>5, <1>7, <1>8, <1>9 DEF ReadsInv

LEMMA ReadRoundInv ==
  ASSUME ReadsInv, ReadRound \/ ReadParts
  PROVE  ReadsInv'
<1>1. read.kind = "summary" /\ read.done \in {2, 3}
  BY DueIs DEF ReadsInv, Shape, ReadsTypeOK, ReadRound, ReadParts
<1>2. PICK n, ps : /\ read' = [[read EXCEPT !.round = n, !.pending = ps] EXCEPT !.done = @ + 1]
                   /\ n \in 0..Len(rounds) /\ ps \subseteq User
  <2>1. Len(rounds) \in 0..Len(rounds) /\ read.round \in 0..Len(rounds) /\ read.pending \subseteq User
    BY DEF ReadsInv, IInv, TypeOK, ReadsTypeOK
  <2>2. CASE ReadRound
    <3>1. read' = [[read EXCEPT !.round = Len(rounds), !.pending = read.pending] EXCEPT !.done = @ + 1]
      BY <2>2 DEF ReadRound, Got, ReadsInv, Shape
    <3> QED
      BY <2>1, <3>1
  <2>3. CASE ReadParts
    <3>1. PICK ps : ps = {u \in User : rounds[read.round].part[u] = "pending"}
      OBVIOUS
    <3>2. read' = [[read EXCEPT !.round = read.round, !.pending = ps] EXCEPT !.done = @ + 1]
      BY <2>3, <3>1 DEF ReadParts, Got, ReadsInv, Shape
    <3>3. ps \subseteq User
      BY <3>1
    <3> QED
      BY <2>1, <3>2, <3>3
  <2> QED
    BY <2>2, <2>3
<1>3. UNCHANGED <<phone, vars>>
  BY DEF ReadRound, ReadParts, Got
<1>4. /\ read'.kind = read.kind /\ read'.done = read.done + 1 /\ read'.count = read.count
      /\ read'.people = read.people /\ read'.batch = read.batch /\ read'.replayed = read.replayed
      /\ read'.round = n /\ read'.pending = ps /\ read'.reload = read.reload
      /\ read'.before = read.before /\ read'.oldest = read.oldest /\ read'.rows = read.rows
      /\ Shape'
  BY <1>1, <1>2 DEF ReadsInv, Shape
<1>5. IInv' /\ NamedPlayed' /\ UNCHANGED <<status, ledger, rounds>>
  BY <1>3, StoreRests DEF ReadsInv
<1>6. ReadsTypeOK'
  BY <1>2, <1>3, <1>4, <1>5 DEF ReadsInv, ReadsTypeOK, phone
<1>7. PagesInv'
  BY <1>1, <1>3, <1>4, StatementPages DEF ReadsInv
<1>8. KnownInv'
  BY <1>1, <1>4 DEF KnownInv
<1> QED
  BY <1>4, <1>5, <1>6, <1>7, <1>8 DEF ReadsInv

-----------------------------------------------------------------------------
(***************************************************************************)
(* The phone.                                                              *)
(***************************************************************************)
\* A query has been asked (or, if kind is "none", there is none).
AskedFor(kind, reload, before, oldest, rows) ==
  /\ Shape'
  /\ read'.kind = kind /\ read'.done = 0 /\ read'.count = 0 /\ read'.people = <<>>
  /\ read'.batch = <<>> /\ read'.replayed = 0 /\ read'.round = 0 /\ read'.pending = {}
  /\ read'.reload = reload /\ read'.before = before /\ read'.oldest = oldest /\ read'.rows = rows

LEMMA AskedInv ==
  ASSUME IInv, NamedPlayed, UNCHANGED vars,
         NEW kind \in {"none", "summary", "list", "detail"}, NEW reload \in BOOLEAN,
         NEW before \in 0..Len(ledger), NEW oldest \in 0..Len(ledger), NEW rows \in Seq(DOMAIN ledger),
         AskedFor(kind, reload, before, oldest, rows),
         NoGap(rows), kind = "list" /\ reload => before = Oldest(rows),
         oldest # 0 => kind = "list" /\ reload,
         list' \in Seq(DOMAIN ledger), more' \in BOOLEAN, settled' \in BOOLEAN, expanded' \in BOOLEAN
  PROVE  ReadsInv'
<1>1. /\ read'.kind = kind /\ read'.done = 0 /\ read'.count = 0
      /\ read'.people = <<>> /\ read'.batch = <<>> /\ read'.replayed = 0
      /\ read'.round = 0 /\ read'.pending = {} /\ read'.reload = reload
      /\ read'.before = before /\ read'.oldest = oldest /\ read'.rows = rows
      /\ Shape'
  BY DEF AskedFor
<1>2. IInv' /\ NamedPlayed' /\ UNCHANGED <<status, ledger, rounds>>
  BY StoreRests
<1>3. ReadsTypeOK'
  <2>1. 0 \in 0..Len(ledger) /\ 0 \in 0..Len(rounds)
    BY DEF IInv, TypeOK
  <2>2. <<>> \in Seq(DOMAIN ledger) /\ DOMAIN <<>> = {}
    OBVIOUS
  <2> QED
    BY <1>1, <1>2, <2>1, <2>2 DEF ReadsTypeOK
<1>4. PagesInv'
  <2>1. ~Paged'
    BY <1>1 DEF Paged
  <2>2. NoGap(<<>>)
    BY DEF NoGap
  <2> QED
    BY <1>1, <2>1, <2>2 DEF PagesInv, NoGap, Oldest
<1>5. KnownInv'
  BY <1>1 DEF KnownInv
<1> QED
  BY <1>1, <1>2, <1>3, <1>4, <1>5 DEF ReadsInv

\* The same for no query.
LEMMA RestInv ==
  ASSUME IInv, NamedPlayed, UNCHANGED vars, read' = NoRead,
         list' \in Seq(DOMAIN ledger), more' \in BOOLEAN, settled' \in BOOLEAN, expanded' \in BOOLEAN
  PROVE  ReadsInv'
<1> DEFINE no == FALSE
<1>1. no \in BOOLEAN
  BY Zenon
<1>2. AskedFor("none", no, 0, 0, <<>>)
  BY DEF NoRead, AskedFor, Shape
<1> HIDE DEF no
<1>3. 0 \in 0..Len(ledger) /\ <<>> \in Seq(DOMAIN ledger) /\ NoGap(<<>>)
  BY DEF IInv, TypeOK, NoGap
<1> QED
  BY <1>1, <1>2, <1>3, AskedInv

LEMMA ListFacts ==
  ASSUME ReadsInv
  PROVE  /\ DOMAIN ledger \in SUBSET (Nat \ {0})
         /\ list \in Seq(DOMAIN ledger) /\ read.rows \in Seq(DOMAIN ledger)
         /\ read.batch \in Seq(DOMAIN ledger)
         /\ Oldest(list) \in 0..Len(ledger) /\ (Oldest(list) = 0 <=> list = <<>>)
         /\ Oldest(read.rows) \in 0..Len(ledger) /\ (Oldest(read.rows) = 0 <=> read.rows = <<>>)
         /\ Oldest(read.batch) \in 0..Len(ledger) /\ (Oldest(read.batch) = 0 <=> read.batch = <<>>)
<1>1. Len(ledger) \in Nat /\ DOMAIN ledger = 1..Len(ledger)
  BY DEF ReadsInv, IInv, TypeOK
<1>2. ASSUME NEW s \in Seq(1..Len(ledger))
      PROVE  Oldest(s) \in 0..Len(ledger) /\ (Oldest(s) = 0 <=> s = <<>>)
  <2>1. CASE s = <<>>
    BY <1>1, <2>1 DEF Oldest
  <2>2. CASE s # <<>>
    <3>1. Len(s) \in 1..Len(s)
      BY <2>2
    <3>2. s[Len(s)] \in 1..Len(ledger)
      BY <3>1, ElementOfSeq
    <3> QED
      BY <1>1, <2>2, <3>2 DEF Oldest
  <2> QED
    BY <2>1, <2>2
<1>3. /\ list \in Seq(1..Len(ledger)) /\ read.rows \in Seq(1..Len(ledger))
      /\ read.batch \in Seq(1..Len(ledger))
  BY <1>1 DEF ReadsInv, ReadsTypeOK
<1> QED
  BY <1>1, <1>2, <1>3

LEMMA AskInv ==
  ASSUME ReadsInv, NEW kind \in {"summary", "detail"}, Ask(kind)
  PROVE  ReadsInv'
<1> DEFINE no == FALSE
<1>1. no \in BOOLEAN
  BY Zenon
<1>2. AskedFor(kind, no, 0, 0, <<>>) /\ UNCHANGED <<phone, vars>>
  BY DEF Ask, Query, NoRead, AskedFor, Shape
<1> HIDE DEF no
<1>3. 0 \in 0..Len(ledger) /\ <<>> \in Seq(DOMAIN ledger) /\ NoGap(<<>>)
  BY DEF ReadsInv, IInv, TypeOK, NoGap
<1>4. /\ list' \in Seq(DOMAIN ledger) /\ more' \in BOOLEAN /\ settled' \in BOOLEAN
      /\ expanded' \in BOOLEAN
  BY <1>2 DEF ReadsInv, ReadsTypeOK, phone
<1>5. IInv /\ NamedPlayed
  BY DEF ReadsInv
<1> QED
  BY <1>1, <1>2, <1>3, <1>4, <1>5, AskedInv

\* The first page of a load has been asked for.
LEMMA LoadInv ==
  ASSUME ReadsInv, NEW reload \in BOOLEAN, read' = Load(reload), UNCHANGED vars,
         list' \in Seq(DOMAIN ledger), more' \in BOOLEAN, settled' \in BOOLEAN, expanded' \in BOOLEAN
  PROVE  ReadsInv'
<1> DEFINE before == IF reload THEN 0 ELSE Oldest(list)
           oldest == IF reload /\ expanded THEN Oldest(list) ELSE 0
<1>1. AskedFor("list", reload, before, oldest, <<>>)
  BY DEF Load, Query, NoRead, AskedFor, Shape
<1>2. 0 \in 0..Len(ledger) /\ <<>> \in Seq(DOMAIN ledger) /\ NoGap(<<>>) /\ Oldest(<<>>) = 0
  BY DEF ReadsInv, IInv, TypeOK, NoGap, Oldest
<1>3. before \in 0..Len(ledger) /\ oldest \in 0..Len(ledger)
  BY <1>2, ListFacts
<1>4. IInv /\ NamedPlayed
  BY DEF ReadsInv
<1>5. (reload => before = Oldest(<<>>)) /\ (oldest # 0 => reload)
  BY <1>2
<1> HIDE DEF before, oldest
<1> QED
  BY <1>1, <1>2, <1>3, <1>4, <1>5, AskedInv

\* The page alone has changed.
LEMMA PageChanges ==
  ASSUME ReadsInv, UNCHANGED <<read, vars>>,
         list' \in Seq(DOMAIN ledger), more' \in BOOLEAN, settled' \in BOOLEAN, expanded' \in BOOLEAN
  PROVE  ReadsInv'
<1>1. /\ IInv' /\ NamedPlayed' /\ UNCHANGED <<status, ledger, rounds>>
      /\ \A i : Names(i)' = Names(i)
  BY StoreRests DEF ReadsInv
<1>2. Shape' /\ ReadsTypeOK'
  BY <1>1 DEF ReadsInv, Shape, ReadsTypeOK
<1>3. PagesInv'
  BY DEF ReadsInv, PagesInv, NoGap, Oldest, Paged, FullPage
<1>4. KnownInv'
  BY <1>1 DEF ReadsInv, KnownInv, Names
<1> QED
  BY <1>1, <1>2, <1>3, <1>4 DEF ReadsInv

LEMMA LoadMoreInv ==
  ASSUME ReadsInv, LoadMore
  PROVE  ReadsInv'
<1> DEFINE no == FALSE
<1>1. no \in BOOLEAN
  BY Zenon
<1>2. read' = Load(no) /\ UNCHANGED <<phone, vars>>
  BY DEF LoadMore
<1> HIDE DEF no
<1> QED
  BY <1>1, <1>2, LoadInv DEF ReadsInv, ReadsTypeOK, phone

LEMMA ShowActiveInv ==
  ASSUME ReadsInv, ShowActive
  PROVE  ReadsInv'
<1> DEFINE yes == TRUE
           no == FALSE
<1>1. yes \in BOOLEAN /\ no \in BOOLEAN
  BY Zenon
<1>2. /\ settled' = no /\ more' = yes /\ UNCHANGED <<list, expanded, vars>>
      /\ read' = IF read = NoRead THEN Load(yes) ELSE read
  BY DEF ShowActive
<1> HIDE DEF yes, no
<1>3. list' \in Seq(DOMAIN ledger) /\ more' \in BOOLEAN /\ settled' \in BOOLEAN /\ expanded' \in BOOLEAN
  BY <1>1, <1>2 DEF ReadsInv, ReadsTypeOK
<1>4. CASE read = NoRead
  BY <1>1, <1>2, <1>3, <1>4, LoadInv
<1>5. CASE read # NoRead
  BY <1>2, <1>3, <1>5, PageChanges
<1> QED
  BY <1>4, <1>5

\* What a load has brought together, and what the list would be with it.
LEMMA Together ==
  ASSUME ReadsInv, Answered, read.kind = "list",
         read.reload \/ (NoGap(list) /\ Oldest(list) = read.before),
         NEW s, s = IF read.reload THEN read.rows \o read.batch ELSE list \o read.batch
  PROVE  /\ s \in Seq(DOMAIN ledger) /\ NoGap(s)
         /\ read.batch # <<>> => s # <<>> /\ Oldest(s) = Oldest(read.batch)
         /\ ~FullPage /\ s # <<>> => Oldest(s) = 1
         /\ ~FullPage /\ read.oldest # 0 => s # <<>>
<1> DEFINE t == IF read.reload THEN read.rows ELSE list
<1>1. /\ t \in Seq(DOMAIN ledger) /\ NoGap(t) /\ NoGap(read.batch)
      /\ read.before = Oldest(t) /\ (Oldest(t) = 0 <=> t = <<>>)
      /\ read.batch \in Seq(DOMAIN ledger)
  BY ListFacts DEF ReadsInv, PagesInv
<1>2. s = t \o read.batch
  OBVIOUS
<1> HIDE DEF t
<1>3. read.batch # <<>> /\ Oldest(t) # 0 => read.batch[1] = Oldest(t) - 1
  BY <1>1 DEF ReadsInv, PagesInv
<1>4. /\ s \in Seq(DOMAIN ledger) /\ NoGap(s)
      /\ read.batch # <<>> => s # <<>> /\ Oldest(s) = Oldest(read.batch)
      /\ read.batch = <<>> => s = t
  <2>1. PICK D, b : D = DOMAIN ledger /\ b = read.batch
    OBVIOUS
  <2>2. /\ D \in SUBSET (Nat \ {0}) /\ t \in Seq(D) /\ b \in Seq(D) /\ NoGap(t) /\ NoGap(b)
        /\ b # <<>> /\ Oldest(t) # 0 => b[1] = Oldest(t) - 1
    BY <1>1, <1>3, <2>1, ListFacts
  <2>3. /\ t \o b \in Seq(D) /\ NoGap(t \o b)
        /\ b # <<>> => t \o b # <<>> /\ Oldest(t \o b) = Oldest(b)
        /\ b = <<>> => t \o b = t
    BY <2>2, Continued
  <2> QED
    BY <1>2, <2>1, <2>3
<1>5. Paged
  BY DueIs DEF Paged, ReadsInv, Shape, ReadsTypeOK
<1>6. ~FullPage => IF read.batch # <<>> THEN Oldest(read.batch) = 1
                   ELSE read.before = 1 \/ (read.before = 0 /\ read.oldest = 0)
  BY <1>5 DEF ReadsInv, PagesInv
<1>7. CASE read.batch # <<>>
  BY <1>4, <1>6, <1>7
<1>8. CASE read.batch = <<>>
  <2>1. s = t
    BY <1>4, <1>8
  <2>2. ~FullPage => (Oldest(t) = 1 \/ (Oldest(t) = 0 /\ read.oldest = 0))
    BY <1>1, <1>6, <1>8
  <2> QED
    BY <1>1, <1>4, <1>8, <2>1, <2>2
<1> QED
  BY <1>7, <1>8

LEMMA NextPageInv ==
  ASSUME ReadsInv, NextPage
  PROVE  ReadsInv'
<1>1. PICK s : s = read.rows \o read.batch
  OBVIOUS
<1> DEFINE yes == TRUE
<1>2. yes \in BOOLEAN /\ yes
  BY Zenon
<1>3. Answered /\ read.kind = "list" /\ read.oldest # 0 /\ Oldest(read.batch) > read.oldest
  BY DEF NextPage, GoesOn
<1>4. read.reload
  BY <1>3 DEF ReadsInv, PagesInv
<1>5. read.batch # <<>> /\ read.oldest \in 0..Len(ledger) /\ Oldest(read.batch) \in 0..Len(ledger)
  <2>1. read.oldest \in 0..Len(ledger) /\ Oldest(read.batch) \in 0..Len(ledger)
        /\ (Oldest(read.batch) = 0 <=> read.batch = <<>>)
    BY ListFacts DEF ReadsInv, ReadsTypeOK
  <2>2. Len(ledger) \in Nat
    BY DEF ReadsInv, IInv, TypeOK
  <2> QED
    BY <1>3, <2>1, <2>2
<1>6. s \in Seq(DOMAIN ledger) /\ NoGap(s) /\ Oldest(s) = Oldest(read.batch)
  BY <1>1, <1>3, <1>4, <1>5, Together
<1> HIDE DEF yes
<1>7. AskedFor("list", yes, Oldest(read.batch), read.oldest, s) /\ UNCHANGED <<phone, vars>>
  <2>1. /\ read' = [Query("list") EXCEPT !.reload = yes, !.oldest = read.oldest,
                       !.before = Oldest(read.batch), !.rows = s]
        /\ UNCHANGED <<phone, vars>>
    BY <1>1 DEF NextPage, yes
  <2> QED
    BY <2>1 DEF Query, NoRead, AskedFor, Shape
<1>8. /\ list' \in Seq(DOMAIN ledger) /\ more' \in BOOLEAN /\ settled' \in BOOLEAN
      /\ expanded' \in BOOLEAN
  BY <1>7 DEF ReadsInv, ReadsTypeOK, phone
<1>9. IInv /\ NamedPlayed
  BY DEF ReadsInv
<1> QED
  BY <1>2, <1>4, <1>5, <1>6, <1>7, <1>8, <1>9, AskedInv

LEMMA ShowListInv ==
  ASSUME ReadsInv, ShowList
  PROVE  /\ ReadsInv'
         /\ read.reload \/ (NoGap(list) /\ Oldest(list) = read.before)
              => NoGap(list') /\ (list' # <<>> /\ ~more' => Oldest(list') = 1)
         /\ read.oldest # 0 => list' # <<>> /\ Oldest(list') <= read.oldest
<1>1. /\ Answered /\ read.kind = "list" /\ ~GoesOn /\ read' = NoRead
      /\ list' = IF read.reload THEN read.rows \o read.batch ELSE list \o read.batch
      /\ more' = FullPage /\ UNCHANGED <<expanded, settled, vars>>
  BY DEF ShowList
<1>2. ASSUME read.reload \/ (NoGap(list) /\ Oldest(list) = read.before)
      PROVE  /\ NoGap(list')
             /\ read.batch # <<>> => list' # <<>> /\ Oldest(list') = Oldest(read.batch)
             /\ ~FullPage /\ list' # <<>> => Oldest(list') = 1
             /\ ~FullPage /\ read.oldest # 0 => list' # <<>>
  BY <1>1, <1>2, Together
<1>3. ReadsInv'
  <2>1. more' \in BOOLEAN /\ settled' \in BOOLEAN /\ expanded' \in BOOLEAN
    BY <1>1 DEF ReadsInv, ReadsTypeOK, FullPage
  <2>2. IInv /\ NamedPlayed
    BY DEF ReadsInv
  <2>3. list' \in Seq(DOMAIN ledger)
    <3>1. \A D, s, b : s \in Seq(D) /\ b \in Seq(D) => s \o b \in Seq(D)
      OBVIOUS
    <3> QED
      BY <1>1, <3>1, ListFacts
  <2> QED
    BY <1>1, <2>1, <2>2, <2>3, RestInv
<1>4. ASSUME read.oldest # 0 PROVE list' # <<>> /\ Oldest(list') <= read.oldest
  <2>1. read.reload /\ read.oldest \in 1..Len(ledger) /\ Len(ledger) \in Nat
    BY <1>4 DEF ReadsInv, PagesInv, ReadsTypeOK, IInv, TypeOK
  <2>2. CASE FullPage
    <3>1. read.batch # <<>>
      BY <2>2, PageAssumption DEF FullPage
    <3>2. ~(Oldest(read.batch) > read.oldest)
      BY <1>1, <1>4, <2>2 DEF GoesOn
    <3>3. Oldest(read.batch) \in 0..Len(ledger)
      BY ListFacts
    <3> QED
      BY <1>2, <2>1, <3>1, <3>2, <3>3
  <2>3. CASE ~FullPage
    BY <1>2, <1>4, <2>1, <2>3
  <2> QED
    BY <2>2, <2>3
<1>5. ~more' => ~FullPage
  BY <1>1
<1> QED
  BY <1>2, <1>3, <1>4, <1>5

LEMMA ShowSettlementInv ==
  ASSUME ReadsInv, ShowSettlement
  PROVE  ReadsInv' /\ NoGap(list')
<1> DEFINE yes == TRUE
           no == FALSE
<1>1. yes \in BOOLEAN /\ no \in BOOLEAN
  BY Zenon
<1>2. /\ list' = Page(0) /\ more' = no /\ expanded' = yes /\ settled' = yes
      /\ UNCHANGED <<read, vars>>
  BY DEF ShowSettlement
<1> HIDE DEF yes, no
<1>3. list' \in Seq(DOMAIN ledger) /\ NoGap(list')
  <2>1. 0 \in 0..Len(ledger)
    BY DEF ReadsInv, IInv, TypeOK
  <2> QED
    BY <1>2, <2>1, PageIs DEF ReadsInv, IInv, NoGap
<1> QED
  BY <1>1, <1>2, <1>3, PageChanges

LEMMA EndReadInv ==
  ASSUME ReadsInv, EndRead
  PROVE  ReadsInv'
<1>1. read' = NoRead /\ UNCHANGED <<phone, vars>>
  BY DEF EndRead
<1> QED
  BY <1>1, RestInv DEF ReadsInv, ReadsTypeOK, phone

LEMMA ToggleInv ==
  ASSUME ReadsInv, Toggle
  PROVE  ReadsInv'
<1>1. UNCHANGED <<read, list, more, settled, vars>> /\ expanded' \in BOOLEAN
  BY DEF Toggle, ReadsInv, ReadsTypeOK
<1> QED
  BY <1>1, PageChanges DEF ReadsInv, ReadsTypeOK

-----------------------------------------------------------------------------
(***************************************************************************)
(* The theorems.                                                           *)
(***************************************************************************)
LEMMA ReadsInitInv == ReadsInit => ReadsInv
<1> SUFFICES ASSUME ReadsInit PROVE ReadsInv
  OBVIOUS
<1> DEFINE yes == TRUE
           no == FALSE
<1>1. yes \in BOOLEAN /\ yes /\ no \in BOOLEAN
  BY Zenon
<1>2. /\ read = NoRead /\ list = <<>> /\ more = yes /\ expanded = no /\ settled = no
      /\ ledger = <<>> /\ Init
  BY DEF ReadsInit, Init
<1>3. IInv
  BY <1>2, InitInv
<1>4. NamedPlayed
  BY <1>2 DEF NamedPlayed
<1>5. read.reload = no
  BY <1>2 DEF NoRead
<1>6. Shape /\ read.done = 0 /\ read.kind = "none" /\ read.batch = <<>> /\ read.rows = <<>>
      /\ read.before = 0 /\ read.oldest = 0 /\ read.count = 0 /\ read.replayed = 0
      /\ read.round = 0 /\ read.pending = {} /\ read.people = <<>>
  BY <1>2 DEF Shape, NoRead
<1> HIDE DEF yes, no
<1>7. ReadsTypeOK
  <2>1. 0 \in 0..Len(ledger) /\ 0 \in 0..Len(rounds)
    BY <1>3 DEF IInv, TypeOK
  <2>2. <<>> \in Seq(DOMAIN ledger) /\ DOMAIN <<>> = {}
    OBVIOUS
  <2> QED
    BY <1>1, <1>2, <1>5, <1>6, <2>1, <2>2 DEF ReadsTypeOK
<1>8. PagesInv
  <2>1. NoGap(<<>>)
    BY DEF NoGap
  <2> QED
    BY <1>2, <1>6, <2>1 DEF PagesInv, Paged
<1>9. KnownInv
  BY <1>6 DEF KnownInv
<1> QED
  BY <1>3, <1>4, <1>6, <1>7, <1>8, <1>9 DEF ReadsInv

LEMMA ReadsNextInv == ReadsInv /\ [ReadsNext]_readsVars => ReadsInv'
<1> SUFFICES ASSUME ReadsInv, [ReadsNext]_readsVars PROVE ReadsInv'
  OBVIOUS
<1>1. CASE UNCHANGED readsVars
  BY <1>1, RequestKeeps DEF readsVars
<1>2. CASE Next /\ UNCHANGED <<read, phone>>
  BY <1>2, RequestKeeps
<1>3. CASE Reader
  BY <1>3, ReadGameInv, ReadPlayersInv, ReadPageInv, ReadLedgerInv, ReadRoundInv DEF Reader
<1>4. CASE Phone
  <2>1. CASE Ask("summary") \/ Ask("detail")
    BY <2>1, AskInv
  <2>2. CASE LoadMore \/ ShowActive \/ ShowSettlement
    BY <2>2, LoadMoreInv, ShowActiveInv, ShowSettlementInv
  <2>3. CASE NextPage \/ ShowList \/ EndRead \/ Toggle
    BY <2>3, NextPageInv, ShowListInv, EndReadInv, ToggleInv
  <2> QED
    BY <1>4, <2>1, <2>2, <2>3 DEF Phone
<1> QED
  BY <1>1, <1>2, <1>3, <1>4 DEF ReadsNext

\* Whatever requests commit between the statements of a query and between pages,
\* a reader's state satisfies the inductive invariant.
THEOREM ReadsInvariance == ReadsSpec => []ReadsInv
<1>1. ReadsInv /\ [ReadsNext]_readsVars => ReadsInv'
  BY ReadsNextInv
<1> QED
  BY <1>1, ReadsInitInv, PTL DEF ReadsSpec, readsVars

\* Lists and answers name entries that exist.
THEOREM ReadsTypeCorrect == ReadsSpec => []ReadsTypeOK
<1>1. ReadsInv => ReadsTypeOK
  BY DEF ReadsInv
<1> QED
  BY <1>1, ReadsInvariance, PTL

\* Every row of an answer has its balances and its names, for any page size and
\* any requests between the statements: the players and the ledger are read
\* after the page, or when the game can no longer change.
THEOREM AnswersAreExplained == ReadsSpec => []RowsAreExplained
<1>1. ReadsInv => RowsAreExplained
  <2> SUFFICES ASSUME ReadsInv, Answered, read.kind \in {"list", "detail"},
                      NEW k \in DOMAIN read.batch
               PROVE  /\ read.batch[k] <= read.replayed
                      /\ Names(read.batch[k]) \subseteq DOMAIN read.people
    BY DEF RowsAreExplained, Names
  <2>1. \/ read.kind = "list" /\ read.done = 3
        \/ read.kind = "detail" /\ read.done = 4
    BY DueIs DEF ReadsInv, Shape, ReadsTypeOK
  <2>2. read.batch[k] \in DOMAIN ledger
    BY DEF ReadsInv, ReadsTypeOK
  <2> QED
    BY <2>1, <2>2 DEF ReadsInv, KnownInv
<1> QED
  BY <1>1, ReadsInvariance, PTL

\* Only two steps change the list, and only one of them ends a query.
LEMMA ListChanges ==
  ASSUME [ReadsNext]_readsVars, list' # list, read.kind # "none", read' = NoRead
  PROVE  ShowList
<1>1. ShowList \/ ShowSettlement
  BY DEF ReadsNext, readsVars, phone, Phone, Reader, Ask, LoadMore, ShowActive, NextPage,
         EndRead, Toggle, ReadGame, ReadPlayers, ReadPage, ReadLedger, ReadRound, ReadParts, Got
<1>2. ~ShowSettlement
  BY DEF ShowSettlement, NoRead
<1> QED
  BY <1>1, <1>2

\* A reload of any number of pages, and a load that continues a list which still
\* ends where it began, leave a list without gap, whatever commits meanwhile.
THEOREM LoadsAreWhole == ReadsSpec => LoadsLeaveNoGap
<1>1. ASSUME ReadsInv, [ReadsNext]_readsVars
      PROVE  [/\ read.kind = "list" /\ read' = NoRead /\ list' # list
              /\ read.reload \/ (NoGap(list) /\ Oldest(list) = read.before)
              => NoGap(list') /\ (list' # <<>> /\ ~more' => Oldest(list') = 1)]_<<list, read, more>>
  <2> SUFFICES ASSUME read.kind = "list", read' = NoRead, list' # list,
                      read.reload \/ (NoGap(list) /\ Oldest(list) = read.before)
               PROVE  NoGap(list') /\ (list' # <<>> /\ ~more' => Oldest(list') = 1)
    OBVIOUS
  <2>1. ShowList
    BY <1>1, ListChanges
  <2> QED
    BY <1>1, <2>1, ShowListInv
<1> QED
  BY <1>1, ReadsInvariance, PTL DEF ReadsSpec, readsVars, LoadsLeaveNoGap

\* A refresh of an expanded list reaches as far back as the list did.
THEOREM RangesAreKept == ReadsSpec => RefreshKeepsRange
<1>1. ASSUME ReadsInv, [ReadsNext]_readsVars
      PROVE  [read.oldest # 0 /\ read' = NoRead /\ list' # list
                => list' # <<>> /\ Oldest(list') <= read.oldest]_<<list, read>>
  <2> SUFFICES ASSUME read.oldest # 0, read' = NoRead, list' # list
               PROVE  list' # <<>> /\ Oldest(list') <= read.oldest
    OBVIOUS
  <2>1. read.kind # "none"
    BY <1>1 DEF ReadsInv, PagesInv
  <2>2. ShowList
    BY <1>1, <2>1, ListChanges
  <2> QED
    BY <1>1, <2>2, ShowListInv
<1> QED
  BY <1>1, ReadsInvariance, PTL DEF ReadsSpec, readsVars, RefreshKeepsRange

\* A statement leaves what the query was asked for.
LEMMA ReaderKeeps ==
  ASSUME Shape, Reader
  PROVE  /\ read'.kind = read.kind /\ read'.reload = read.reload /\ read'.before = read.before
         /\ UNCHANGED phone
<1>1. CASE ReadGame
  BY <1>1 DEF ReadGame, Got, Shape
<1>2. CASE ReadPlayers
  <2>1. PICK p : read' = [[read EXCEPT !.people = p] EXCEPT !.done = @ + 1] /\ UNCHANGED phone
    BY <1>2 DEF ReadPlayers, Got
  <2> QED
    BY <2>1 DEF Shape
<1>3. CASE ReadPage
  <2>1. PICK b : read' = [[read EXCEPT !.batch = b] EXCEPT !.done = @ + 1] /\ UNCHANGED phone
    BY <1>3 DEF ReadPage, Got
  <2> QED
    BY <2>1 DEF Shape
<1>4. CASE ReadLedger
  BY <1>4 DEF ReadLedger, Got, Shape
<1>5. CASE ReadRound
  BY <1>5 DEF ReadRound, Got, Shape
<1>6. CASE ReadParts
  <2>1. PICK q : read' = [[read EXCEPT !.pending = q] EXCEPT !.done = @ + 1] /\ UNCHANGED phone
    BY <1>6 DEF ReadParts, Got
  <2> QED
    BY <2>1 DEF Shape
<1> QED
  BY <1>1, <1>2, <1>3, <1>4, <1>5, <1>6 DEF Reader

LEMMA ListNext ==
  ASSUME ReadsInv, ListInv, [ReadsNext]_readsVars, LoadingMore /\ list' # list => read' = NoRead
  PROVE  ListInv'
<1>0. NoRead.kind = "none" /\ settled \in BOOLEAN /\ more \in BOOLEAN
  BY DEF NoRead, ReadsInv, ReadsTypeOK
<1>1. CASE [Next]_vars /\ UNCHANGED <<read, phone>>
  BY <1>1 DEF phone, ListInv, LoadingMore
<1>2. CASE Reader
  BY <1>2, ReaderKeeps DEF phone, ListInv, LoadingMore, ReadsInv
<1>3. CASE Ask("summary") \/ Ask("detail") \/ EndRead
  <2>1. read'.kind \in {"none", "summary", "detail"} /\ UNCHANGED phone
    BY <1>3 DEF Ask, EndRead, Query, NoRead
  <2> QED
    BY <2>1 DEF phone, ListInv, LoadingMore
<1>4. CASE LoadMore
  <2>1. read'.before = Oldest(list) /\ UNCHANGED phone
    BY <1>4 DEF LoadMore, Load, Query, NoRead
  <2> QED
    BY <2>1 DEF phone, ListInv, LoadingMore
<1>5. CASE ShowActive
  <2> DEFINE yes == TRUE
  <2>1. yes
    OBVIOUS
  <2>2. list' = list /\ more' = yes /\ (read' = Load(yes) \/ read' = read)
    BY <1>5 DEF ShowActive
  <2>3. Load(yes).reload = yes
    BY DEF Load, Query, NoRead
  <2> HIDE DEF yes
  <2>4. LoadingMore' => LoadingMore /\ read' = read
    BY <2>1, <2>2, <2>3 DEF LoadingMore
  <2> QED
    BY <2>1, <2>2, <2>4 DEF ListInv
<1>6. CASE ShowSettlement
  <2>1. NoGap(list') /\ read' = read /\ settled' /\ (LoadingMore' <=> LoadingMore)
    BY <1>6, ShowSettlementInv DEF ShowSettlement, LoadingMore
  <2>2. LoadingMore => list' = list
    BY <1>0, <2>1 DEF LoadingMore
  <2> QED
    BY <2>1, <2>2 DEF ListInv
<1>7. CASE NextPage
  <2>1. PICK old, before, rows :
          read' = [Query("list") EXCEPT !.reload = TRUE, !.oldest = old,
                     !.before = before, !.rows = rows]
    BY <1>7 DEF NextPage
  <2>2. read'.reload /\ UNCHANGED phone
    BY <1>7, <2>1 DEF Query, NoRead, NextPage
  <2> QED
    BY <2>2 DEF phone, ListInv, LoadingMore
<1>8. CASE ShowList
  <2>1. read.kind = "list" /\ read'.kind = "none"
    BY <1>0, <1>8 DEF ShowList
  <2>2. read.reload \/ (NoGap(list) /\ Oldest(list) = read.before)
    BY <2>1 DEF ListInv, LoadingMore
  <2>3. NoGap(list') /\ (list' # <<>> /\ ~more' => Oldest(list') = 1)
    BY <1>8, <2>2, ShowListInv
  <2> QED
    BY <2>1, <2>3 DEF ListInv, LoadingMore
<1>9. CASE Toggle
  BY <1>9 DEF Toggle, ListInv, LoadingMore
<1> QED
  BY <1>1, <1>2, <1>3, <1>4, <1>5, <1>6, <1>7, <1>8, <1>9 DEF ReadsNext, readsVars, Phone, vars, phone

\* As long as no settlement takes the list's place while a load that continues it is
\* in flight, the list a phone scrolls together has no gap and says "no more" only
\* at the first entry, however the ledger grows and however many loads fail.
THEOREM ListsAreWhole == ReadsSpec /\ UndisturbedLoads => []ListHasNoGaps
<1>1. ReadsInit => ListInv
  BY DEF ReadsInit, ListInv, LoadingMore, NoRead, NoGap
<1>2. ASSUME ReadsInv, ListInv, [ReadsNext]_readsVars,
             [LoadingMore /\ list' # list => read' = NoRead]_<<list, read>>
      PROVE  ListInv'
  <2>1. LoadingMore /\ list' # list => read' = NoRead
    BY <1>2
  <2> QED
    BY <1>2, <2>1, ListNext
<1>3. ListInv => ListHasNoGaps
  BY DEF ListInv, ListHasNoGaps
<1> QED
  BY <1>1, <1>2, <1>3, ReadsInvariance, PTL DEF ReadsSpec, readsVars, UndisturbedLoads

-----------------------------------------------------------------------------
(***************************************************************************)
(* The replay of the ledger.                                               *)
(***************************************************************************)
\* What the first n entries add to the score of u.
Upto(u, n) == SumFunction([i \in 1..n |-> Gain(ledger[i], u)])

\* Nobody receives an own transfer, so the replay's case distinction adds what
\* the entry adds.
LEMMA DeltaIsGain ==
  ASSUME NEW t \in Transfer, t.from \notin t.rcv, NEW u \in User
  PROVE  Delta(t, u) = Gain(t, u)
<1> DEFINE c == Cardinality(t.rcv)
           m == t.amt * c
<1>1. t.amt \in Nat /\ c \in Nat /\ t.kind \in {"normal", "reversal"}
  BY AmountAssumption, UsersAreFinite DEF Transfer
<1>2. m \in Int
  BY <1>1
<1>3. Gain(t, u) = (IF t.kind = "normal" THEN 1 ELSE -1)
                     * ((IF u \in t.rcv THEN t.amt ELSE 0) - (IF u = t.from THEN m ELSE 0))
  BY DEF Gain
<1>4. Delta(t, u) = IF u = t.from THEN -((IF t.kind = "reversal" THEN -1 ELSE 1) * t.amt * c)
                    ELSE IF u \in t.rcv THEN (IF t.kind = "reversal" THEN -1 ELSE 1) * t.amt ELSE 0
  BY DEF Delta
<1>5. 1 * t.amt * c = m /\ -1 * t.amt * c = -m
  BY <1>1
<1> HIDE DEF m, c
<1>6. CASE t.kind = "normal"
  BY <1>1, <1>2, <1>3, <1>4, <1>5, <1>6
<1>7. CASE t.kind = "reversal"
  BY <1>1, <1>2, <1>3, <1>4, <1>5, <1>7
<1> QED
  BY <1>1, <1>6, <1>7

LEMMA UptoIs ==
  ASSUME TypeOK, NEW u \in User
  PROVE  /\ Upto(u, 0) = 0
         /\ \A n \in 0..Len(ledger) : Upto(u, n) \in Int
         /\ \A n \in DOMAIN ledger : Upto(u, n) = Upto(u, n - 1) + Gain(ledger[n], u)
         /\ Upto(u, Len(ledger)) = Since(u, 0)
<1> DEFINE F(n) == [i \in 1..n |-> Gain(ledger[i], u)]
<1>1. Len(ledger) \in Nat /\ DOMAIN ledger = 1..Len(ledger)
  BY DEF TypeOK
<1>2. \A i \in DOMAIN ledger : Gain(ledger[i], u) \in Int
  BY GainType DEF TypeOK
<1>3. Upto(u, 0) = 0
  <2>1. DOMAIN F(0) = {}
    OBVIOUS
  <2> HIDE DEF F
  <2>2. SumFunction(F(0)) = 0
    BY <2>1, NoTerm
  <2> QED
    BY <2>2 DEF F, Upto
<1>4. ASSUME NEW n \in DOMAIN ledger
      PROVE  Upto(u, n) \in Int /\ Upto(u, n) = Upto(u, n - 1) + Gain(ledger[n], u)
             /\ Upto(u, n - 1) \in Int
  <2> DEFINE m == n - 1
             f == F(m)
             g == F(n)
  <2>1. m \in Nat /\ n = m + 1 /\ 0 \in Nat /\ 0 <= m /\ 0+1..m = 1..m /\ 0+1..m+1 = 1..n
    BY <1>1
  <2>2. /\ DOMAIN f = 1..m /\ DOMAIN g = 1..n
        /\ \A i \in 1..m : f[i] \in Int /\ g[i] = f[i]
        /\ g[m+1] \in Int /\ g[n] = Gain(ledger[n], u)
    BY <1>1, <1>2, <2>1
  <2> HIDE DEF f, g
  <2>3. SumFunction(f) \in Int /\ SumFunction(g) = SumFunction(f) + g[m+1]
    BY <2>1, <2>2, OneMoreTerm
  <2>4. Upto(u, n) = SumFunction(g) /\ Upto(u, n - 1) = SumFunction(f)
    BY DEF Upto, f, g
  <2> QED
    BY <2>1, <2>2, <2>3, <2>4
<1>5. \A n \in 0..Len(ledger) : Upto(u, n) \in Int
  BY <1>1, <1>3, <1>4
<1>6. Upto(u, Len(ledger)) = Since(u, 0)
  <2>1. PICK n \in Nat : n = Len(ledger)
    BY <1>1
  <2>2. 0+1..n = 1..n
    OBVIOUS
  <2> QED
    BY <2>1, <2>2 DEF Upto, Since
<1> QED
  BY <1>3, <1>4, <1>5, <1>6

\* b is the table of balances of the first n entries.
Balances(b, n) ==
  b = [i \in 0..n |-> [u \in User |-> IF i = 0 THEN 0 ELSE b[i - 1][u] + Delta(ledger[i], u)]]

LEMMA ReplayedIs ==
  ASSUME NEW n
  PROVE  Replayed(n) = (CHOOSE b : Balances(b, n))[n]
BY DEF Replayed, Balances

\* The recursion has one solution: the balance after n entries is what they add.
LEMMA ReplayedIsUpto ==
  ASSUME TypeOK, SenderApart, NEW n \in 0..Len(ledger)
  PROVE  \A u \in User : Replayed(n)[u] = Upto(u, n)
<1> DEFINE w == [i \in 0..n |-> [u \in User |-> Upto(u, i)]]
<1>1. n \in Nat /\ Len(ledger) \in Nat /\ DOMAIN ledger = 1..Len(ledger)
  BY DEF TypeOK
<1>2. \A i \in 1..n : i \in DOMAIN ledger /\ i - 1 \in 0..n
  BY <1>1
<1>3. \A i \in 1..n : \A u \in User : Delta(ledger[i], u) = Gain(ledger[i], u)
  <2>1. \A i \in 1..n : ledger[i] \in Transfer /\ ledger[i].from \notin ledger[i].rcv
    BY <1>2 DEF TypeOK, SenderApart
  <2> QED
    BY <2>1, DeltaIsGain
<1>4. \A i \in 0..n : \A u \in User :
        Upto(u, i) = IF i = 0 THEN 0 ELSE Upto(u, i - 1) + Delta(ledger[i], u)
  <2> SUFFICES ASSUME NEW i \in 0..n, NEW u \in User
               PROVE  Upto(u, i) = IF i = 0 THEN 0 ELSE Upto(u, i - 1) + Delta(ledger[i], u)
    OBVIOUS
  <2>1. CASE i = 0
    BY <2>1, UptoIs
  <2>2. CASE i # 0
    <3>1. i \in 1..n /\ i \in DOMAIN ledger
      BY <1>1, <1>2, <2>2
    <3>2. Upto(u, i) = Upto(u, i - 1) + Gain(ledger[i], u)
      BY <3>1, UptoIs
    <3> QED
      BY <1>3, <2>2, <3>1, <3>2
  <2> QED
    BY <2>1, <2>2
<1>5. Balances(w, n)
  <2>1. \A i \in 0..n : \A u \in User : i # 0 => w[i - 1][u] = Upto(u, i - 1)
    BY <1>2
  <2>2. w = [i \in 0..n |-> [u \in User |-> IF i = 0 THEN 0 ELSE w[i - 1][u] + Delta(ledger[i], u)]]
    BY <1>4, <2>1
  <2> QED
    BY <2>2 DEF Balances
<1>6. PICK b : Balances(b, n) /\ b = CHOOSE c : Balances(c, n)
  BY <1>5
<1> DEFINE Bad == {i \in 0..n : \E u \in User : b[i][u] # Upto(u, i)}
<1>7. Bad = {}
  <2> SUFFICES ASSUME Bad # {} PROVE FALSE
    OBVIOUS
  <2>1. Bad \in SUBSET Nat
    BY <1>1
  <2> HIDE DEF Bad
  <2>2. PICK i \in Bad : \A j \in 0..i-1 : j \notin Bad
    BY <2>1, LeastNumber
  <2>3. i \in 0..n
    BY DEF Bad
  <2>4. PICK u \in User : b[i][u] # Upto(u, i)
    BY DEF Bad
  <2> DEFINE v == [j \in 0..n |-> [x \in User |-> IF j = 0 THEN 0 ELSE b[j - 1][x] + Delta(ledger[j], x)]]
  <2>5. b = v
    BY <1>6 DEF Balances
  <2>6. v[i][u] = IF i = 0 THEN 0 ELSE b[i - 1][u] + Delta(ledger[i], u)
    BY <2>3
  <2> HIDE DEF v, w
  <2>7. i # 0 => b[i - 1][u] = Upto(u, i - 1)
    BY <1>1, <2>2, <2>3 DEF Bad
  <2> QED
    BY <1>4, <2>3, <2>4, <2>5, <2>6, <2>7
<1>8. \A u \in User : b[n][u] = Upto(u, n)
  BY <1>1, <1>7
<1> HIDE DEF w, Bad
<1>9. Replayed(n) = b[n]
  BY <1>6, ReplayedIs
<1> QED
  BY <1>8, <1>9

-----------------------------------------------------------------------------
(***************************************************************************)
(* Answers that agree with the ledger, although several statements read    *)
(* them.                                                                   *)
(***************************************************************************)
\* The scores of a settlement are the final ones, and its balances those of the
\* whole ledger; the scores of a summary are those of a moment, not before its
\* count of transfers.
MomentInv ==
  /\ read.kind = "detail" /\ read.done >= 2 =>
       \A u \in DOMAIN read.people : read.people[u] = score[u]
  /\ read.kind = "detail" /\ read.done >= 4 => read.replayed = Len(ledger)
  /\ read.kind = "summary" /\ read.done >= 2 =>
       \E n \in read.count..Len(ledger) :
         \A u \in DOMAIN read.people : read.people[u] = Upto(u, n)

LEMMA UptoKept ==
  ASSUME UNCHANGED ledger
  PROVE  \A u, n : Upto(u, n)' = Upto(u, n)
BY DEF Upto, Gain

LEMMA MomentSame ==
  ASSUME MomentInv, UNCHANGED <<ledger, score>>, read'.kind = read.kind, read'.done = read.done,
         read'.people = read.people, read'.replayed = read.replayed, read'.count = read.count
  PROVE  MomentInv'
<1>1. \A u, n : Upto(u, n)' = Upto(u, n)
  BY UptoKept
<1> QED
  BY <1>1 DEF MomentInv

LEMMA ReaderMoment ==
  ASSUME ReadsInv, WholeInv, MomentInv, Reader
  PROVE  MomentInv'
<1>1. /\ Shape /\ read.kind \in {"none", "summary", "list", "detail"} /\ read.done \in 0..4
      /\ read.count \in 0..Len(ledger) /\ Len(ledger) \in Nat /\ TypeOK
  BY DEF ReadsInv, Shape, ReadsTypeOK, IInv, TypeOK
<1>2. UNCHANGED <<ledger, score>>
  BY DEF Reader, ReadGame, ReadPlayers, ReadPage, ReadLedger, ReadRound, ReadParts, Got, vars
<1>3. \A u, n : Upto(u, n)' = Upto(u, n)
  BY <1>2, UptoKept
<1>4. CASE ReadGame
  <2>1. read.done = 0
    BY <1>1, <1>4, DueIs DEF ReadGame
  <2>2. read'.done = 1
    BY <1>1, <1>4, <2>1 DEF ReadGame, Got, Shape
  <2> QED
    BY <2>2 DEF MomentInv
<1>5. CASE ReadPlayers
  <2>1. read.done = 1 /\ read.kind \in {"summary", "list", "detail"}
    BY <1>1, <1>5, DueIs DEF ReadPlayers
  <2>2. PICK p, D : /\ p = [u \in D |-> score[u]]
                    /\ D = IF read.kind = "summary" THEN active ELSE Players
    OBVIOUS
  <2>3. read' = [[read EXCEPT !.people = p] EXCEPT !.done = @ + 1]
    BY <1>5, <2>2 DEF ReadPlayers, Got
  <2>4. read'.people = p /\ read'.done = 2 /\ read'.kind = read.kind /\ read'.count = read.count
    BY <1>1, <2>1, <2>3 DEF Shape
  <2>5. \A u \in DOMAIN p : u \in User /\ p[u] = score[u]
    BY <1>1, <2>2 DEF TypeOK, Players
  <2>6. PICK n \in read.count..Len(ledger) : n = Len(ledger)
    BY <1>1
  <2>7. \A u \in DOMAIN p : p[u] = Upto(u, n)
    BY <1>1, <2>5, <2>6, UptoIs DEF WholeInv, ScoresWhole
  <2>8. n \in read'.count..Len(ledger')
    BY <1>2, <2>4
  <2>9. \A u \in DOMAIN p : p[u] = score'[u] /\ p[u] = Upto(u, n)'
    BY <1>2, <1>3, <2>5, <2>7
  <2> QED
    BY <2>4, <2>8, <2>9 DEF MomentInv
<1>6. CASE ReadPage
  <2>1. PICK b : read' = [[read EXCEPT !.batch = b] EXCEPT !.done = @ + 1]
    BY <1>6 DEF ReadPage, Got
  <2>2. /\ read'.people = read.people /\ read'.kind = read.kind
        /\ read'.done = read.done + 1 /\ read.kind \in {"list", "detail"}
        /\ read.kind = "detail" => read.done = 2
    BY <1>1, <1>6, <2>1, DueIs DEF Shape, ReadPage
  <2> QED
    BY <1>1, <1>2, <2>2 DEF MomentInv
<1>7. CASE ReadLedger
  <2>1. PICK n : n = Len(ledger)
    OBVIOUS
  <2>2. read' = [[read EXCEPT !.replayed = n] EXCEPT !.done = @ + 1]
    BY <1>7, <2>1 DEF ReadLedger, Got
  <2>3. /\ read'.people = read.people /\ read'.kind = read.kind /\ read'.replayed = n
        /\ read'.done = read.done + 1 /\ read.kind \in {"list", "detail"}
        /\ read.kind = "detail" => read.done = 3
    BY <1>1, <1>7, <2>2, DueIs DEF Shape, ReadLedger
  <2> QED
    BY <1>1, <1>2, <2>1, <2>3 DEF MomentInv
<1>8. CASE ReadRound \/ ReadParts
  <2>1. \/ \E n : read' = [[read EXCEPT !.round = n] EXCEPT !.done = @ + 1]
        \/ \E n : read' = [[read EXCEPT !.pending = n] EXCEPT !.done = @ + 1]
    BY <1>8 DEF ReadRound, ReadParts, Got
  <2>2. read.kind = "summary" /\ read.done \in {2, 3}
    BY <1>1, <1>8, DueIs DEF ReadRound, ReadParts
  <2>3. /\ read'.people = read.people /\ read'.kind = read.kind /\ read'.count = read.count
        /\ read'.done = read.done + 1
    BY <1>1, <2>1, <2>2 DEF Shape
  <2> QED
    BY <1>2, <1>3, <2>2, <2>3 DEF MomentInv
<1> QED
  BY <1>4, <1>5, <1>6, <1>7, <1>8 DEF Reader

LEMMA PhoneMoment ==
  ASSUME MomentInv, Phone
  PROVE  MomentInv'
<1>1. CASE UNCHANGED read
  <2>1. UNCHANGED vars
    BY DEF Phone, Ask, LoadMore, ShowActive, ShowSettlement, NextPage, ShowList, EndRead, Toggle
  <2> QED
    BY <1>1, <2>1, MomentSame DEF vars
<1>2. CASE ~UNCHANGED read
  <2>1. NoRead.done = 0
    BY DEF NoRead
  <2>2. \A kind : Query(kind).done = 0
    BY DEF Query, NoRead
  <2>3. \A reload : Load(reload).done = 0
    BY DEF Load, Query, NoRead
  <2>4. ASSUME NextPage
        PROVE  read'.done = 0
    <3>1. PICK old, before, rows :
            read' = [Query("list") EXCEPT !.reload = TRUE, !.oldest = old,
                       !.before = before, !.rows = rows]
      BY <2>4 DEF NextPage
    <3> QED
      BY <3>1 DEF Query, NoRead
  <2>5. \/ read' = NoRead \/ (\E kind : read' = Query(kind))
        \/ (\E reload : read' = Load(reload)) \/ NextPage
    BY <1>2 DEF Phone, Ask, LoadMore, ShowActive, ShowList, ShowSettlement, EndRead, Toggle
  <2>6. read'.done = 0
    BY <1>2, <2>1, <2>2, <2>3, <2>4, <2>5
  <2> QED
    BY <2>6 DEF MomentInv
<1> QED
  BY <1>1, <1>2

\* A request leaves what has been read: a settlement's game has ended, and what
\* the first n entries add up to does not change.
LEMMA RequestMoment ==
  ASSUME ReadsInv, ScoresInv, MomentInv, [Next]_vars, UNCHANGED read
  PROVE  MomentInv'
<1>1. TypeOK /\ Len(ledger) \in Nat /\ DOMAIN ledger = 1..Len(ledger)
      /\ read.count \in 0..Len(ledger)
  BY DEF ReadsInv, IInv, TypeOK, ReadsTypeOK
<1>2. CASE UNCHANGED <<ledger, score>>
  BY <1>2, MomentSame
<1>3. CASE ~UNCHANGED <<ledger, score>>
  <2>1. IInv /\ IInv' /\ SenderApart /\ Next
    BY <1>3, NextInv DEF ReadsInv, ScoresInv, vars
  <2>2. status = "active"
    BY <1>3, <2>1, EndedStep
  <2>3. ~(read.kind = "detail" /\ read.done >= 1)
    BY <2>2 DEF ReadsInv, KnownInv
  <2>4. Len(ledger') \in Nat /\ Len(ledger) <= Len(ledger')
        /\ \A n \in 0..Len(ledger) : \A u \in User : Upto(u, n)' = Upto(u, n)
    <3>1. CASE UNCHANGED ledger
      BY <1>1, <3>1, UptoKept
    <3>2. CASE Entered
      <4>1. Len(ledger') = Len(ledger) + 1
        BY <2>1, <3>2 DEF Entered, IInv, TypeOK
      <4>2. \A i \in DOMAIN ledger : \A u \in User : Gain(ledger'[i], u) = Gain(ledger[i], u)
        BY <3>2 DEF Entered, Gain
      <4>3. ASSUME NEW n \in 0..Len(ledger), NEW u \in User
            PROVE  Upto(u, n)' = Upto(u, n)
        <5>1. Upto(u, n)' = SumFunction([i \in 1..n |-> Gain(ledger'[i], u)])
          BY DEF Upto, Gain
        <5>2. [i \in 1..n |-> Gain(ledger'[i], u)] = [i \in 1..n |-> Gain(ledger[i], u)]
          BY <1>1, <4>2
        <5> QED
          BY <5>1, <5>2 DEF Upto
      <4> QED
        BY <1>1, <4>1, <4>3
    <3> QED
      BY <2>1, <3>1, <3>2, SubmitEnters, ReverseEnters, NothingEntered
  <2>5. DOMAIN read.people \subseteq User
    BY DEF ReadsInv, ReadsTypeOK
  <2>6. ASSUME read.kind = "summary", read.done >= 2
        PROVE  \E n \in read.count..Len(ledger') :
                 \A u \in DOMAIN read.people : read.people[u] = Upto(u, n)'
    <3>1. PICK n \in read.count..Len(ledger) :
            \A u \in DOMAIN read.people : read.people[u] = Upto(u, n)
      BY <2>6 DEF MomentInv
    <3>2. n \in 0..Len(ledger) /\ n \in read.count..Len(ledger')
      BY <1>1, <2>4
    <3>3. \A u \in DOMAIN read.people : read.people[u] = Upto(u, n)'
      BY <2>4, <2>5, <3>1, <3>2
    <3> QED
      BY <3>2, <3>3
  <2>7. ~(read.kind = "detail" /\ read.done >= 2) /\ ~(read.kind = "detail" /\ read.done >= 4)
    BY <2>3 DEF ReadsInv, Shape
  <2> QED
    BY <2>6, <2>7 DEF MomentInv
<1> QED
  BY <1>2, <1>3

LEMMA MomentNext ==
  ReadsInv /\ WholeInv /\ MomentInv /\ [ReadsNext]_readsVars => MomentInv'
<1> SUFFICES ASSUME ReadsInv, WholeInv, MomentInv, [ReadsNext]_readsVars PROVE MomentInv'
  OBVIOUS
<1>1. CASE Reader
  BY <1>1, ReaderMoment
<1>2. CASE Phone
  BY <1>2, PhoneMoment
<1>3. CASE [Next]_vars /\ UNCHANGED read
  BY <1>3, RequestMoment DEF WholeInv
<1> QED
  BY <1>1, <1>2, <1>3 DEF ReadsNext, readsVars

\* The reader adds nothing to what the requests do.
LEMMA ReadsSpecIsSpec == ReadsSpec => Spec
<1>1. ReadsInit => Init
  BY DEF ReadsInit
<1>2. [ReadsNext]_readsVars => [Next]_vars
  BY DEF ReadsNext, readsVars, Phone, Reader, Ask, LoadMore, ShowActive, NextPage, ShowList, ShowSettlement,
         EndRead, Toggle, ReadGame, ReadPlayers, ReadPage, ReadLedger, ReadRound, ReadParts,
         Got
<1> QED
  BY <1>1, <1>2, PTL DEF ReadsSpec, Spec, readsVars

LEMMA MomentInvariance ==
  ReadsSpec /\ [][LeavesAtZero /\ ReturnsOnce]_vars => [](ReadsInv /\ WholeInv /\ MomentInv)
<1>1. ReadsInit => MomentInv
  <2>1. NoRead.done = 0
    BY DEF NoRead
  <2> QED
    BY <2>1 DEF ReadsInit, MomentInv
<1>2. ReadsInv /\ WholeInv /\ MomentInv /\ [ReadsNext]_readsVars => MomentInv'
  BY MomentNext
<1> QED
  BY <1>1, <1>2, ReadsSpecIsSpec, WholeInvariance, ReadsInvariance, PTL DEF ReadsSpec, readsVars

-----------------------------------------------------------------------------
(***************************************************************************)
(* What the answers say of the scores.                                     *)
(***************************************************************************)
\* The score of every player row is what the whole ledger comes to.
LEMMA ScoresReplayed ==
  ASSUME WholeInv, NEW u \in User
  PROVE  Replayed(Len(ledger))[u] = score[u]
<1>1. TypeOK /\ SenderApart
  BY DEF WholeInv, ScoresInv, IInv
<1>2. PICK n \in 0..Len(ledger) : n = Len(ledger)
  BY <1>1 DEF TypeOK
<1>3. Replayed(n)[u] = Upto(u, n)
  BY <1>1, ReplayedIsUpto
<1> QED
  BY <1>1, <1>2, <1>3, UptoIs DEF WholeInv, ScoresWhole

LEMMA MomentExplains ==
  ASSUME ReadsInv, WholeInv, MomentInv
  PROVE  ReplayAgreesWithScores /\ SettlementIsExplained /\ SummaryOfOneMoment
<1>1. TypeOK /\ SenderApart /\ DOMAIN read.people \subseteq User /\ Len(ledger) \in Nat
      /\ read.count \in 0..Len(ledger)
  BY DEF ReadsInv, ReadsTypeOK, WholeInv, ScoresInv, IInv, TypeOK
<1>2. Answered => \/ read.kind = "list"
                  \/ read.kind \in {"summary", "detail"} /\ read.done = 4
  BY DueIs DEF ReadsInv, Shape, ReadsTypeOK
<1>3. ReplayAgreesWithScores
  BY ScoresReplayed DEF ReplayAgreesWithScores
<1>4. SettlementIsExplained
  <2> SUFFICES ASSUME Answered, read.kind = "detail", NEW u \in DOMAIN read.people
               PROVE  read.people[u] = Replayed(read.replayed)[u]
    BY DEF SettlementIsExplained
  <2>1. read.people[u] = score[u] /\ read.replayed = Len(ledger)
    BY <1>2 DEF MomentInv
  <2> QED
    BY <1>1, <2>1, ScoresReplayed
<1>5. SummaryOfOneMoment
  <2> SUFFICES ASSUME Answered, read.kind = "summary"
               PROVE  \E n \in read.count..Len(ledger) :
                        \A u \in DOMAIN read.people : read.people[u] = Replayed(n)[u]
    BY DEF SummaryOfOneMoment
  <2>1. PICK n \in read.count..Len(ledger) :
          \A u \in DOMAIN read.people : read.people[u] = Upto(u, n)
    BY <1>2 DEF MomentInv
  <2>2. n \in 0..Len(ledger)
    BY <1>1
  <2>3. \A u \in User : Replayed(n)[u] = Upto(u, n)
    BY <1>1, <2>2, ReplayedIsUpto
  <2> QED
    BY <1>1, <2>1, <2>3
<1> QED
  BY <1>3, <1>4, <1>5

LEMMA Explained ==
  ReadsSpec /\ [][LeavesAtZero /\ ReturnsOnce]_vars =>
    []ReplayAgreesWithScores /\ []SettlementIsExplained /\ []SummaryOfOneMoment
<1>1. ReadsInv /\ WholeInv /\ MomentInv =>
        ReplayAgreesWithScores /\ SettlementIsExplained /\ SummaryOfOneMoment
  BY MomentExplains
<1> QED
  BY <1>1, MomentInvariance, PTL

\* The scores of the player rows and the balances replayed from the ledger come
\* to the same after any number of transfers, reversals, leaves and returns, as
\* long as a Leave that commits is of a player whose score is still 0 and a
\* return of a user who is still outside.
THEOREM ReplayFollowsScores ==
  ReadsSpec /\ [][LeavesAtZero /\ ReturnsOnce]_vars => []ReplayAgreesWithScores
BY Explained, PTL

\* Under the same condition a settlement's final scores are the balances after
\* its last entry, whatever commits between its statements.
THEOREM SettlementsAreExplained ==
  ReadsSpec /\ [][LeavesAtZero /\ ReturnsOnce]_vars => []SettlementIsExplained
BY Explained, PTL

\* Under the same condition the scores of a summary are those of one moment, not
\* earlier than the transfer count it gives.
THEOREM SummariesAreOfOneMoment ==
  ReadsSpec /\ [][LeavesAtZero /\ ReturnsOnce]_vars => []SummaryOfOneMoment
BY Explained, PTL

\* With one request at a time all three hold without a condition, wherever a
\* reader's statements fall between the requests.
THEOREM AloneAnswersAgree ==
  ASSUME OneAtATime
  PROVE  ReadsSpec => []ReplayAgreesWithScores /\ []SettlementIsExplained /\ []SummaryOfOneMoment
BY Explained, ReadsSpecIsSpec, NothingStale, PTL

-----------------------------------------------------------------------------
(***************************************************************************)
(* The winner.                                                             *)
(***************************************************************************)
\* The joined orders of the players are 1, 2, ... without a gap, in every game.
Ranked ==
  /\ \A u \in Players : order[u] \in 1..Cardinality(Players)
  /\ \A u, v \in Players : order[u] = order[v] => u = v
  /\ \A i \in 1..Cardinality(Players) : \E u \in Players : order[u] = i

LEMMA PlayersAreFinite ==
  ASSUME TypeOK
  PROVE  /\ IsFiniteSet(Players) /\ Cardinality(Players) \in Nat
         /\ \A u \in Players : u \in User /\ order[u] \in Nat /\ score[u] \in Int
<1>1. IsFiniteSet(Players)
  BY UsersAssumption, FS_Subset DEF Players
<1> QED
  BY <1>1, FS_CardinalityType DEF TypeOK, Players

LEMMA NextIsOneMore ==
  ASSUME TypeOK, Ranked
  PROVE  NextJoinedOrder = Cardinality(Players) + 1
<1> DEFINE n == Cardinality(Players)
           S == {order[u] : u \in User}
<1>1. n \in Nat /\ S \subseteq Nat
  BY PlayersAreFinite DEF TypeOK
<1>2. ASSUME NEW u \in User
      PROVE  order[u] <= n
  <2>1. CASE u \in Players
    BY <1>1, <2>1 DEF Ranked
  <2>2. CASE u \notin Players
    BY <1>1, <2>2 DEF Players, TypeOK
  <2> QED
    BY <2>1, <2>2
<1>3. n \in S
  <2>1. CASE n = 0
    <3>1. Owner \notin Players
      BY <2>1, PlayersAreFinite, FS_EmptySet
    <3>2. order[Owner] = 0
      BY <3>1, UsersAssumption DEF Players, TypeOK
    <3> QED
      BY <2>1, <3>2, UsersAssumption
  <2>2. CASE n # 0
    <3>1. n \in 1..n
      BY <1>1, <2>2
    <3>2. PICK u \in Players : order[u] = n
      BY <3>1 DEF Ranked
    <3> QED
      BY <3>2 DEF Players
  <2> QED
    BY <2>1, <2>2
<1>4. \A x \in S : n >= x
  BY <1>1, <1>2
<1> HIDE DEF n, S
<1>5. PICK m : m = Max(S) /\ m \in S /\ \A x \in S : m >= x
  BY <1>3, <1>4 DEF Max
<1>6. m \in Nat /\ n >= m /\ m >= n
  BY <1>1, <1>3, <1>4, <1>5
<1>7. Max(S) = n
  BY <1>1, <1>5, <1>6
<1> QED
  BY <1>7 DEF NextJoinedOrder, n, S

LEMMA RankedStep ==
  ASSUME IInv, Ranked, [Next]_vars
  PROVE  Ranked'
<1> TypeOK
  BY DEF IInv
<1>1. ASSUME NEW h \in Handler, JoinNewTx(h)
      PROVE  Ranked'
  <2> DEFINE n == Cardinality(Players)
  <2>1. PICK u : u = req[h].user
    OBVIOUS
  <2>2. order[u] = 0 /\ order' = [order EXCEPT ![u] = n + 1]
    BY <1>1, <2>1, NextIsOneMore DEF JoinNewTx, JoinNewValid
  <2>3. n \in Nat /\ IsFiniteSet(Players)
    BY PlayersAreFinite
  <2>4. CASE u \in User
    <3>1. order'[u] = n + 1 /\ \A v \in User \ {u} : order'[v] = order[v]
      BY <2>2, <2>4 DEF TypeOK
    <3>2. u \notin Players /\ Players' = Players \cup {u}
          /\ order'[u] = n + 1 /\ \A v \in Players : order'[v] = order[v]
      BY <2>2, <2>3, <2>4, <3>1 DEF Players
    <3>3. Cardinality(Players') = n + 1
      BY <2>3, <3>2, FS_AddElement
    <3>4. \A v \in Players' : order'[v] \in 1..n+1 /\ (order'[v] = n + 1 <=> v = u)
      BY <2>3, <3>2 DEF Ranked
    <3>5. \A i \in 1..n+1 : \E v \in Players' : order'[v] = i
      <4>1. \A i \in 1..n+1 : i = n + 1 \/ i \in 1..n
        BY <2>3
      <4> QED
        BY <3>2, <4>1 DEF Ranked
    <3> HIDE DEF n
    <3>6. \A v, w \in Players' : order'[v] = order'[w] => v = w
      BY <2>3, <3>2, <3>4 DEF Ranked
    <3> QED
      BY <3>3, <3>4, <3>5, <3>6 DEF Ranked
  <2>5. CASE u \notin User
    <3>1. order' = order
      BY <2>2, <2>5 DEF TypeOK
    <3> QED
      BY <3>1 DEF Ranked, Players
  <2> QED
    BY <2>4, <2>5
<1>2. CASE UNCHANGED order
  BY <1>2 DEF Ranked, Players
<1>3. UNCHANGED order \/ \E h \in Handler : JoinNewTx(h)
  <2>1. ASSUME NEW h \in Handler, Calls(h)
        PROVE  UNCHANGED order
    BY <2>1, CallReaches DEF people
  <2>2. ASSUME NEW h \in Handler, Steps(h), ~JoinNewTx(h)
        PROVE  UNCHANGED order
    BY <2>2 DEF Steps, SubmitTx, ReverseTx, JoinLookup, RejoinTx, LeaveCheck, LeaveTx, FinishTx,
                Rollback, people
  <2>3. SettleInactive \/ Restart \/ UNCHANGED vars => UNCHANGED order
    BY DEF SettleInactive, Restart, vars, people
  <2> QED
    BY <2>1, <2>2, <2>3 DEF Next
<1> QED
  BY <1>1, <1>2, <1>3

\* The player with this joined order, and the first of the settlement's list
\* among those with an order up to i.
At(i) == CHOOSE p \in Players : order[p] = i
Leads(p, i) ==
  /\ p \in Players /\ order[p] <= i
  /\ \A v \in Players \ {p} : order[v] <= i => Precedes(p, v)

\* b is the table of the winners among the first 1, 2, ..., n to join.
Best(b, i) == IF i = 1 THEN At(i) ELSE IF score[At(i)] > score[b[i - 1]] THEN At(i) ELSE b[i - 1]
Bests(b, n) == b = [i \in 1..n |-> Best(b, i)]

LEMMA WinnerIs == Winner = (CHOOSE b : Bests(b, Cardinality(Players)))[Cardinality(Players)]
BY DEF Winner, Bests, Best, At

LEMMA OneLeads ==
  ASSUME TypeOK, NEW i, NEW p, NEW q, Leads(p, i), Leads(q, i)
  PROVE  p = q
<1>1. p \in User /\ q \in User /\ score[p] \in Int /\ score[q] \in Int
      /\ order[p] \in Nat /\ order[q] \in Nat
  BY PlayersAreFinite DEF Leads
<1> SUFFICES ASSUME p # q PROVE FALSE
  OBVIOUS
<1>2. Precedes(p, q) /\ Precedes(q, p)
  BY DEF Leads
<1> QED
  BY <1>1, <1>2 DEF Precedes

\* The loop's step: who led among the first i - 1 stays unless the next player
\* has a higher score.
LEMMA BestLeads ==
  ASSUME TypeOK, Ranked, NEW i \in 1..Cardinality(Players), NEW b,
         i # 1 => Leads(b[i - 1], i - 1)
  PROVE  Leads(Best(b, i), i)
<1> DEFINE a == At(i)
<1>1. /\ \A u \in Players : u \in User /\ order[u] \in Nat /\ order[u] >= 1 /\ score[u] \in Int
      /\ \A u, v \in Players : order[u] = order[v] => u = v
      /\ i \in Nat /\ i >= 1
  BY PlayersAreFinite DEF Ranked
<1>2. a \in Players /\ order[a] = i
  BY DEF Ranked, At
<1> HIDE DEF a
<1>3. \A v \in Players \ {a} : order[v] <= i => order[v] <= i - 1
  BY <1>1, <1>2
<1>4. CASE i = 1
  <2>1. Best(b, i) = a
    BY <1>4 DEF Best, a
  <2> QED
    BY <1>1, <1>2, <1>3, <1>4, <2>1 DEF Leads
<1>5. CASE i # 1
  <2> DEFINE p == b[i - 1]
  <2>1. Leads(p, i - 1) /\ Best(b, i) = IF score[a] > score[p] THEN a ELSE p
    BY <1>5 DEF Best, a
  <2> HIDE DEF p
  <2>2. p \in Players /\ order[p] < i /\ p # a
    BY <1>1, <1>2, <2>1 DEF Leads
  <2>3. \A v \in Players \ {p} : order[v] <= i - 1 => Precedes(p, v)
    BY <2>1 DEF Leads
  <2>4. CASE score[a] > score[p]
    <3>1. \A v \in Players \ {a} : order[v] <= i => Precedes(a, v)
      <4> SUFFICES ASSUME NEW v \in Players \ {a}, order[v] <= i PROVE Precedes(a, v)
        OBVIOUS
      <4>1. v = p \/ Precedes(p, v)
        BY <1>3, <2>3
      <4> QED
        BY <1>1, <1>2, <2>2, <2>4, <4>1 DEF Precedes
    <3> QED
      BY <1>1, <1>2, <2>1, <2>4, <3>1 DEF Leads
  <2>5. CASE ~(score[a] > score[p])
    <3>1. Precedes(p, a)
      BY <1>1, <1>2, <2>2, <2>5 DEF Precedes
    <3>2. \A v \in Players \ {p} : order[v] <= i => Precedes(p, v)
      BY <1>3, <2>3, <3>1
    <3> QED
      BY <1>1, <2>1, <2>2, <2>5, <3>2 DEF Leads
  <2> QED
    BY <2>4, <2>5
<1> QED
  BY <1>4, <1>5

LEMMA SomeoneLeads ==
  ASSUME TypeOK, Ranked, NEW i \in 1..Cardinality(Players)
  PROVE  \E p : Leads(p, i)
<1> DEFINE Bad == {j \in 1..Cardinality(Players) : ~ \E p : Leads(p, j)}
<1>1. Bad = {}
  <2> SUFFICES ASSUME Bad # {} PROVE FALSE
    OBVIOUS
  <2>1. Bad \in SUBSET Nat
    OBVIOUS
  <2> HIDE DEF Bad
  <2>2. PICK j \in Bad : \A k \in 0..j-1 : k \notin Bad
    BY <2>1, LeastNumber
  <2>3. j \in 1..Cardinality(Players) /\ ~ \E p : Leads(p, j)
    BY DEF Bad
  <2>4. CASE j = 1
    BY <2>3, <2>4, BestLeads
  <2>5. CASE j # 1
    <3>1. j - 1 \in 1..Cardinality(Players) /\ j - 1 \in 0..j-1
      BY <2>3, <2>5, PlayersAreFinite
    <3>2. PICK p : Leads(p, j - 1)
      BY <2>2, <3>1 DEF Bad
    <3> DEFINE b == [k \in {j - 1} |-> p]
    <3>3. b[j - 1] = p
      OBVIOUS
    <3> HIDE DEF b
    <3> QED
      BY <2>3, <3>2, <3>3, BestLeads
  <2> QED
    BY <2>4, <2>5
<1> QED
  BY <1>1

\* The recursion has one solution: the winner is the first of the list.
LEMMA WinnerLeads ==
  ASSUME TypeOK, Ranked, Players # {}
  PROVE  Leads(Winner, Cardinality(Players))
<1> DEFINE n == Cardinality(Players)
           w == [i \in 1..n |-> CHOOSE p : Leads(p, i)]
<1>1. n \in Nat /\ n # 0
  BY PlayersAreFinite, FS_EmptySet
<1>2. \A i \in 1..n : Leads(w[i], i)
  BY SomeoneLeads
<1>3. \A i \in 1..n : i # 1 => i - 1 \in 1..n
  BY <1>1
<1> HIDE DEF w
<1>4. \A i \in 1..n : Best(w, i) = w[i]
  BY <1>2, <1>3, BestLeads, OneLeads
<1>5. Bests(w, n)
  BY <1>4 DEF Bests, w
<1>6. PICK b : Bests(b, n) /\ b = CHOOSE c : Bests(c, n)
  BY <1>5
<1> DEFINE Bad == {i \in 1..n : ~ Leads(b[i], i)}
<1>7. Bad = {}
  <2> SUFFICES ASSUME Bad # {} PROVE FALSE
    OBVIOUS
  <2>1. Bad \in SUBSET Nat
    OBVIOUS
  <2> HIDE DEF Bad
  <2>2. PICK i \in Bad : \A j \in 0..i-1 : j \notin Bad
    BY <2>1, LeastNumber
  <2>3. i \in 1..n /\ ~ Leads(b[i], i)
    BY DEF Bad
  <2>4. i # 1 => i - 1 \in 1..n /\ i - 1 \in 0..i-1
    BY <1>1, <2>3
  <2>5. i # 1 => Leads(b[i - 1], i - 1)
    BY <2>2, <2>4 DEF Bad
  <2>6. b[i] = Best(b, i)
    BY <1>6, <2>3 DEF Bests
  <2> QED
    BY <2>3, <2>5, <2>6, BestLeads
<1>8. Leads(b[n], n)
  BY <1>1, <1>7
<1> QED
  BY <1>6, <1>8, WinnerIs

LEMMA RankedLeads ==
  ASSUME TypeOK, Ranked
  PROVE  WinnerLeadsSettlement
<1>1. CASE Players = {}
  BY <1>1 DEF WinnerLeadsSettlement
<1>2. CASE Players # {}
  <2>1. PICK p : p = Winner
    OBVIOUS
  <2>2. p \in Players /\ \A u \in Players \ {p} : Precedes(p, u)
    BY <1>2, <2>1, WinnerLeads DEF Leads, Ranked
  <2>3. \A u \in Players : score[u] \in Int /\ score[u] <= score[p]
    BY <2>2, PlayersAreFinite DEF Precedes
  <2>4. \A u \in Players : Wins(u) <=> score[u] > 0 /\ score[u] = score[p]
    BY <2>2, <2>3 DEF Wins
  <2> QED
    BY <2>1, <2>2, <2>4 DEF WinnerLeadsSettlement
<1> QED
  BY <1>1, <1>2

\* The winner that the history's loop finds is the player whom the settlement
\* lists first, and a win is counted for exactly those with that player's score,
\* if it is positive: for every number of players and whatever their scores.
THEOREM WinnersLead == ReadsSpec => []WinnerLeadsSettlement
<1>1. Init => Ranked
  <2> SUFFICES ASSUME Init PROVE Ranked
    OBVIOUS
  <2>1. \A u \in User : order[u] = IF u = Owner THEN 1 ELSE 0
    BY DEF Init
  <2>2. Players = {Owner} /\ order[Owner] = 1
    BY <2>1, UsersAssumption DEF Players
  <2>3. Cardinality(Players) = 1
    BY <2>2, FS_Singleton
  <2> QED
    BY <2>2, <2>3 DEF Ranked
<1>2. IInv /\ Ranked /\ [Next]_vars => Ranked'
  BY RankedStep
<1>3. IInv /\ Ranked => WinnerLeadsSettlement
  BY RankedLeads DEF IInv
<1> QED
  BY <1>1, <1>2, <1>3, ReadsSpecIsSpec, Invariance, PTL DEF Spec

=============================================================================
