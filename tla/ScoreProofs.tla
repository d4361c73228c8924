---------------------------- MODULE ScoreProofs ----------------------------
(***************************************************************************)
(* The scores of a game session, for any number of users, requests, keys   *)
(* and transfers.                                                          *)
(*                                                                         *)
(* Always: a score is what the entries of the ledger after some point add  *)
(* up to.  As long as no Leave and no return commits on a read that has    *)
(* become stale: a score is what the whole ledger adds up to, the scores   *)
(* add up to 0, the owner plays, and there is one public link.  These are  *)
(* the properties that the runs zero_sum, owner_plays and one_share_link   *)
(* see violated; each theorem names the stale read that is the only cause. *)
(***************************************************************************)
EXTENDS GameSessionProofs

-----------------------------------------------------------------------------
(***************************************************************************)
(* What an entry adds to a score.                                          *)
(***************************************************************************)

\* What the entries after the first s add to the score of u.
Since(u, s) == SumFunction([i \in s+1..Len(ledger) |-> Gain(ledger[i], u)])

\* Nobody is a receiver of an own transfer: Submit refuses it.
SenderApart ==
  /\ \A i \in DOMAIN ledger : ledger[i].from \notin ledger[i].rcv
  /\ \A h \in Handler : req[h].at = "submit" => req[h].user \notin req[h].rcv

LEMMA GainType ==
  ASSUME NEW t \in Transfer, NEW u \in User
  PROVE  Gain(t, u) \in Int
<1> DEFINE m == t.amt * Cardinality(t.rcv)
<1>1. t.amt \in Nat /\ Cardinality(t.rcv) \in Nat
  BY AmountAssumption, UsersAreFinite DEF Transfer
<1>2. m \in Int
  BY <1>1
<1> HIDE DEF m
<1>3. Gain(t, u) = (IF t.kind = "normal" THEN 1 ELSE -1)
                      * ((IF u \in t.rcv THEN t.amt ELSE 0) - (IF u = t.from THEN m ELSE 0))
  BY DEF Gain, m
<1> QED
  BY <1>1, <1>2, <1>3

\* A recorded entry changes the scores by what it adds; the players it names
\* play, and the entries before it keep what they add.
Entered ==
  /\ DOMAIN ledger' = 1..Len(ledger)+1
  /\ \A i \in DOMAIN ledger :
       /\ ledger'[i].kind = ledger[i].kind /\ ledger'[i].from = ledger[i].from
       /\ ledger'[i].rcv = ledger[i].rcv /\ ledger'[i].amt = ledger[i].amt
  /\ LET t == ledger'[Len(ledger)+1] IN
       /\ \A u \in User : score'[u] = score[u] + Gain(t, u)
       /\ {t.from} \union t.rcv \subseteq active
       /\ t.from \notin t.rcv
  /\ UNCHANGED <<status, share, people>>

\* What Moved does is what the entry says.
LEMMA MovedIsGain ==
  ASSUME score \in [User -> Int], NEW t, NEW sign \in {1, -1},
         sign = IF t.kind = "normal" THEN 1 ELSE -1,
         t.from \in User, t.rcv \in SUBSET User, t.amt \in Amount, NEW u \in User
  PROVE  Moved(t.from, t.rcv, t.amt, sign)[u] = score[u] + Gain(t, u)
<1> DEFINE c == Cardinality(t.rcv)
           x == IF u \in t.rcv THEN t.amt ELSE 0
           y == IF u = t.from THEN t.amt * c ELSE 0
<1>1. t.amt \in Nat /\ c \in Nat
  BY AmountAssumption, UsersAreFinite
<1>2. t.amt * c \in Int
  BY <1>1
<1>3. x \in Int /\ y \in Int /\ score[u] \in Int
  BY <1>1, <1>2
<1>4. Gain(t, u) = sign * (x - y)
  BY DEF Gain
<1>5. Moved(t.from, t.rcv, t.amt, sign)[u]
        = score[u] + (IF u \in t.rcv THEN sign * t.amt ELSE 0)
                   - (IF u = t.from THEN sign * (t.amt * c) ELSE 0)
  BY DEF Moved
<1>6. Moved(t.from, t.rcv, t.amt, sign)[u] = score[u] + sign * x - sign * y
  BY <1>1, <1>2, <1>5
<1> HIDE DEF x, y
<1>7. sign * (x - y) = sign * x - sign * y
  BY <1>3
<1> QED
  BY <1>3, <1>4, <1>6, <1>7

LEMMA SubmitEnters ==
  ASSUME IInv, SenderApart, NEW h \in Handler, SubmitTx(h)
  PROVE  Entered
<1> DEFINE n == ActiveRound(EnsureActiveRound(rounds, active))
<1>1. PICK q \in SubmitRequest : q = req[h]
  BY RequestKind DEF SubmitTx, IInv, TypeOK
<1> DEFINE e == [kind |-> "normal", from |-> q.user, rcv |-> q.rcv, amt |-> q.amt,
                 by |-> q.user, key |-> q.key, of |-> NoTransfer, round |-> n,
                 reversed |-> FALSE]
<1>2. /\ ledger' = Append(ledger, e) /\ score' = Moved(q.user, q.rcv, q.amt, 1)
      /\ UNCHANGED <<status, share, people>>
      /\ q.user \in active /\ q.rcv \subseteq active
  BY <1>1 DEF SubmitTx, SubmitValid
<1>3. e.kind = "normal" /\ e.from = q.user /\ e.rcv = q.rcv /\ e.amt = q.amt
  OBVIOUS
<1>4. q.user \in User /\ q.rcv \in SUBSET User /\ q.amt \in Amount
  BY DEF SubmitRequest
<1>5. q.user \notin q.rcv
  BY <1>1 DEF SenderApart, SubmitTx
<1> HIDE DEF e
<1>6. ledger \in Seq(Transfer) /\ score \in [User -> Int]
  BY DEF IInv, TypeOK
<1>7. /\ DOMAIN ledger' = 1..Len(ledger)+1 /\ ledger'[Len(ledger)+1] = e
      /\ \A i \in DOMAIN ledger : ledger'[i] = ledger[i]
  BY <1>2, <1>6
<1>8. \A u \in User : score'[u] = score[u] + Gain(e, u)
  BY <1>2, <1>3, <1>4, <1>6, MovedIsGain
<1> QED
  BY <1>2, <1>3, <1>5, <1>7, <1>8 DEF Entered

LEMMA ReverseEnters ==
  ASSUME IInv, SenderApart, NEW h \in Handler, ReverseTx(h)
  PROVE  Entered
<1>1. PICK q \in ReverseRequest : q = req[h]
  BY RequestKind DEF ReverseTx, IInv, TypeOK
<1>2. PICK x \in DOMAIN ledger : x = q.target
  BY <1>1 DEF ReverseTx, IInv, RequestsInv, ReadsStayTrue, ReadOK
<1> DEFINE o == ledger[x]
           d == [o EXCEPT !.reversed = TRUE]
           e == [kind |-> "reversal", from |-> o.from, rcv |-> o.rcv, amt |-> o.amt,
                 by |-> q.user, key |-> q.key, of |-> x, round |-> o.round, reversed |-> FALSE]
           l == [ledger EXCEPT ![x] = d]
<1>3. /\ ledger' = Append(l, e) /\ score' = Moved(o.from, o.rcv, o.amt, -1)
      /\ UNCHANGED <<status, share, people>>
      /\ {o.from} \union o.rcv \subseteq active
  BY <1>1, <1>2 DEF ReverseTx, ReverseValid
<1>4. ledger \in Seq(Transfer) /\ score \in [User -> Int]
  BY DEF IInv, TypeOK
<1>5. /\ o \in Transfer /\ o.from \in User /\ o.rcv \in SUBSET User /\ o.amt \in Amount
      /\ o.from \notin o.rcv
  BY EntryType DEF IInv, SenderApart
<1>6. /\ d \in Transfer /\ d.kind = o.kind /\ d.from = o.from /\ d.rcv = o.rcv /\ d.amt = o.amt
      /\ e.kind = "reversal" /\ e.from = o.from /\ e.rcv = o.rcv /\ e.amt = o.amt
  BY <1>5 DEF Transfer
<1> HIDE DEF d, e
<1>7. /\ l[x] = d /\ DOMAIN ledger' = 1..Len(ledger)+1 /\ ledger'[Len(ledger)+1] = e
      /\ \A j \in DOMAIN ledger \ {x} : l[j] = ledger[j]
      /\ \A j \in DOMAIN ledger : ledger'[j] = l[j]
  BY <1>3, <1>4, <1>6, ReplacedThenAppended
<1> HIDE DEF l
<1>8. \A u \in User : score'[u] = score[u] + Gain(e, u)
  BY <1>3, <1>4, <1>5, <1>6, MovedIsGain
<1>9. \A i \in DOMAIN ledger :
        /\ ledger'[i].kind = ledger[i].kind /\ ledger'[i].from = ledger[i].from
        /\ ledger'[i].rcv = ledger[i].rcv /\ ledger'[i].amt = ledger[i].amt
  BY <1>6, <1>7
<1> QED
  BY <1>3, <1>5, <1>6, <1>7, <1>8, <1>9 DEF Entered

\* The other steps of a request record nothing.
LEMMA NothingEntered ==
  ASSUME IInv, [Next]_vars, \A h \in Handler : ~SubmitTx(h) /\ ~ReverseTx(h)
  PROVE  UNCHANGED ledger /\ (UNCHANGED score \/ \E h \in Handler : RejoinTx(h))
<1>1. ASSUME NEW h \in Handler, Calls(h)
      PROVE  UNCHANGED <<ledger, score>>
  BY <1>1 DEF Calls, SubmitCall, ReverseCall, JoinCall, LeaveCall, FinishCall
<1>2. ASSUME NEW h \in Handler, Steps(h), ~SubmitTx(h), ~ReverseTx(h)
      PROVE  UNCHANGED ledger /\ (UNCHANGED score \/ RejoinTx(h))
  BY <1>2 DEF Steps, JoinLookup, JoinNewTx, RejoinTx, LeaveCheck, LeaveTx, FinishTx, Rollback
<1>3. ASSUME SettleInactive \/ Restart \/ UNCHANGED vars
      PROVE  UNCHANGED <<ledger, score>>
  BY <1>3 DEF SettleInactive, Restart, vars
<1> QED
  BY <1>1, <1>2, <1>3 DEF Next

LEMMA SinceGrows ==
  ASSUME TypeOK, TypeOK', Entered, NEW u \in User, NEW s \in 0..Len(ledger)
  PROVE  /\ Since(u, s) \in Int
         /\ Since(u, s)' = Since(u, s) + Gain(ledger'[Len(ledger)+1], u)
<1>0. PICK n \in Nat : n = Len(ledger)
  BY DEF TypeOK
<1>1. s \in Nat /\ s <= n /\ DOMAIN ledger = 1..n
  BY <1>0 DEF TypeOK
<1>2. Len(ledger') = n + 1 /\ DOMAIN ledger' = 1..n+1
  BY <1>0 DEF Entered, TypeOK
<1> DEFINE f == [i \in s+1..n |-> Gain(ledger[i], u)]
           g == [i \in s+1..n+1 |-> Gain(ledger'[i], u)]
<1>3. \A i \in s+1..n : i \in DOMAIN ledger /\ Gain(ledger[i], u) \in Int
  <2>1. \A i \in s+1..n : i \in DOMAIN ledger /\ ledger[i] \in Transfer
    BY <1>1 DEF TypeOK
  <2> QED
    BY <2>1, GainType
<1>4. \A i \in s+1..n : Gain(ledger'[i], u) = Gain(ledger[i], u)
  BY <1>3 DEF Entered, Gain
<1>5. Gain(ledger'[n+1], u) \in Int
  <2>1. ledger'[n+1] \in Transfer
    BY <1>2 DEF TypeOK
  <2> QED
    BY <2>1, GainType
<1>6. /\ DOMAIN f = s+1..n /\ DOMAIN g = s+1..n+1
      /\ \A i \in s+1..n : f[i] \in Int /\ g[i] = f[i]
      /\ g[n+1] = Gain(ledger'[n+1], u)
  BY <1>1, <1>3, <1>4
<1>7. Since(u, s) = SumFunction(f)
  BY <1>0 DEF Since
<1>8. Since(u, s)' = SumFunction(g)
  BY <1>2 DEF Since, Gain
<1> HIDE DEF f, g
<1>9. SumFunction(f) \in Int /\ SumFunction(g) = SumFunction(f) + g[n+1]
  BY <1>1, <1>5, <1>6, OneMoreTerm
<1> QED
  BY <1>0, <1>6, <1>7, <1>8, <1>9

LEMMA SinceNone ==
  ASSUME TypeOK, NEW u \in User
  PROVE  Since(u, Len(ledger)) = 0
<1>1. PICK n \in Nat : n = Len(ledger)
  BY DEF TypeOK
<1> DEFINE f == [i \in n+1..n |-> Gain(ledger[i], u)]
<1>2. DOMAIN f = {}
  OBVIOUS
<1>3. Since(u, Len(ledger)) = SumFunction(f)
  BY <1>1 DEF Since
<1> HIDE DEF f
<1> QED
  BY <1>2, <1>3, NoTerm

\* A sum of entries changes when the ledger does.
LEMMA SinceKept ==
  ASSUME UNCHANGED ledger
  PROVE  \A u \in User : \A s \in 0..Len(ledger) : Since(u, s)' = Since(u, s)
BY DEF Since, Gain

-----------------------------------------------------------------------------
(***************************************************************************)
(* A score is what the ledger adds up to since the player's last return.   *)
(***************************************************************************)

\* What a request q is after a step of its handler that began as r: each point it
\* may reach comes with what the handler has just read.
Reached(r, q) ==
  \/ q.at = "submit" /\ q.user \notin q.rcv
  \/ q.at = "join" /\ q.user \notin active
  \/ q.at = "leaving" /\ q.wasOwner = (owner = q.user)
  \/ q.at = "rejoin" /\ r.at = "join" /\ q.user = r.user
  \/ /\ q.at = "leave" /\ r.at = "leaving" /\ q.user = r.user /\ q.wasOwner = r.wasOwner
     /\ q.user \in active /\ score[q.user] = 0
  \/ q.at \notin {"submit", "join", "leaving", "rejoin", "leave"}

LEMMA OneMoves ==
  ASSUME req \in [Handler -> Request], NEW h \in Handler, NEW q,
         req' = [req EXCEPT ![h] = q]
  PROVE  req'[h] = q /\ \A j \in Handler \ {h} : req'[j] = req[j]
OBVIOUS

LEMMA CallReaches ==
  ASSUME IInv, NEW h \in Handler, Calls(h)
  PROVE  /\ \A j \in Handler \ {h} : req'[j] = req[j]
         /\ Reached(req[h], req'[h]) /\ UNCHANGED <<people, score>>
<1>1. req \in [Handler -> Request]
  BY DEF IInv, TypeOK
<1>2. PICK u \in User :
        \/ \E rcv \in SUBSET User, amt \in Amount, k \in Key : SubmitCall(h, u, rcv, amt, k)
        \/ \E i \in DOMAIN ledger, k \in Key : ReverseCall(h, u, i, k)
        \/ JoinCall(h, u)
        \/ LeaveCall(h, u)
        \/ FinishCall(h, u)
  BY DEF Calls
<1>3. UNCHANGED <<people, score>>
  BY <1>2 DEF SubmitCall, ReverseCall, JoinCall, LeaveCall, FinishCall
<1>4. ASSUME NEW q, req' = [req EXCEPT ![h] = q], Reached(req[h], q)
      PROVE  /\ \A j \in Handler \ {h} : req'[j] = req[j]
             /\ Reached(req[h], req'[h])
  BY <1>1, <1>4, OneMoves
<1>5. ASSUME NEW rcv \in SUBSET User, NEW amt \in Amount, NEW k \in Key,
             SubmitCall(h, u, rcv, amt, k)
      PROVE  /\ \A j \in Handler \ {h} : req'[j] = req[j]
             /\ Reached(req[h], req'[h])
  <2> DEFINE q(i) == [at |-> IF i = 0 THEN "submit" ELSE "submitted", user |-> u, rcv |-> rcv,
                      amt |-> amt, key |-> k, id |-> i]
  <2>1. u \notin rcv /\ \E i \in {0} \union SameKey(u, k) : req' = [req EXCEPT ![h] = q(i)]
    BY <1>5 DEF SubmitCall, Goto, SameKey, IInv, TypeOK
  <2>2. PICK i \in {0} \union SameKey(u, k) : req' = [req EXCEPT ![h] = q(i)]
    BY <2>1
  <2>3. /\ q(i).user = u /\ q(i).rcv = rcv
        /\ q(i).at = "submit" \/ q(i).at = "submitted"
    OBVIOUS
  <2> HIDE DEF q
  <2>4. Reached(req[h], q(i))
    BY <2>1, <2>3 DEF Reached
  <2> QED
    BY <1>4, <2>2, <2>4
<1>6. ASSUME NEW i \in DOMAIN ledger, NEW k \in Key, ReverseCall(h, u, i, k)
      PROVE  /\ \A j \in Handler \ {h} : req'[j] = req[j]
             /\ Reached(req[h], req'[h])
  <2> DEFINE q(j) == [at |-> IF j = 0 THEN "reverse" ELSE "reversed", user |-> u, target |-> i,
                      key |-> k, id |-> j]
  <2>1. \E j \in {0} \union SameKey(u, k) : req' = [req EXCEPT ![h] = q(j)]
    BY <1>6 DEF ReverseCall, Goto, SameKey, IInv, TypeOK
  <2>2. PICK j \in {0} \union SameKey(u, k) : req' = [req EXCEPT ![h] = q(j)]
    BY <2>1
  <2>3. q(j).at = "reverse" \/ q(j).at = "reversed"
    OBVIOUS
  <2> HIDE DEF q
  <2>4. Reached(req[h], q(j))
    BY <2>3 DEF Reached
  <2> QED
    BY <1>4, <2>2, <2>4
<1>7. ASSUME JoinCall(h, u)
      PROVE  /\ \A j \in Handler \ {h} : req'[j] = req[j]
             /\ Reached(req[h], req'[h])
  <2> DEFINE q == [at |-> "join", user |-> u]
  <2>1. u \notin active /\ req' = [req EXCEPT ![h] = q] /\ q.at = "join" /\ q.user = u
    BY <1>7 DEF JoinCall, Goto
  <2> HIDE DEF q
  <2>2. Reached(req[h], q)
    BY <2>1 DEF Reached
  <2> QED
    BY <1>4, <2>1, <2>2
<1>8. ASSUME LeaveCall(h, u)
      PROVE  /\ \A j \in Handler \ {h} : req'[j] = req[j]
             /\ Reached(req[h], req'[h])
  <2> DEFINE w == owner = u
             e == ledger = <<>>
  <2> HIDE DEF w, e
  <2> DEFINE q == [at |-> "leaving", user |-> u, wasOwner |-> w, unscored |-> e]
  <2>1. req' = [req EXCEPT ![h] = q]
    BY <1>8 DEF LeaveCall, Goto, w, e
  <2>2. q.at = "leaving" /\ q.user = u /\ q.wasOwner = w
    OBVIOUS
  <2> HIDE DEF q
  <2>3. q.wasOwner = (owner = q.user)
    BY <2>2, Zenon DEF w
  <2>4. Reached(req[h], q)
    BY <2>2, <2>3, Zenon DEF Reached
  <2> QED
    BY <1>4, <2>1, <2>4
<1>9. ASSUME FinishCall(h, u)
      PROVE  /\ \A j \in Handler \ {h} : req'[j] = req[j]
             /\ Reached(req[h], req'[h])
  <2> DEFINE q == [at |-> "finish", user |-> u]
  <2>1. req' = [req EXCEPT ![h] = q] /\ q.at = "finish"
    BY <1>9 DEF FinishCall, Goto
  <2> HIDE DEF q
  <2>2. Reached(req[h], q)
    BY <2>1 DEF Reached
  <2> QED
    BY <1>4, <2>1, <2>2
<1> QED
  BY <1>2, <1>3, <1>5, <1>6, <1>7, <1>8, <1>9

LEMMA StepReaches ==
  ASSUME IInv, NEW h \in Handler, Steps(h)
  PROVE  /\ \A j \in Handler \ {h} : req'[j] = req[j]
         /\ Reached(req[h], req'[h])
         /\ UNCHANGED <<people, score>> \/ req'[h].at \in {"idle", "submitted", "reversed"}
<1> DEFINE G == /\ \A j \in Handler \ {h} : req'[j] = req[j]
                /\ Reached(req[h], req'[h])
                /\ UNCHANGED <<people, score>> \/ req'[h].at \in {"idle", "submitted", "reversed"}
<1> SUFFICES G
  OBVIOUS
<1>1. req \in [Handler -> Request] /\ req[h] \in Request
  BY DEF IInv, TypeOK
<1>2. ASSUME NEW q, req' = [req EXCEPT ![h] = q], Reached(req[h], q),
             UNCHANGED <<people, score>> \/ q.at \in {"idle", "submitted", "reversed"}
      PROVE  G
  BY <1>1, <1>2, OneMoves
<1> HIDE DEF G
<1>3. CASE SubmitTx(h)
  <2>1. PICK r \in SubmitRequest : r = req[h]
    BY <1>1, <1>3, RequestKind DEF SubmitTx
  <2> DEFINE q == [r EXCEPT !.at = "submitted", !.id = Len(ledger) + 1]
  <2>2. q.at = "submitted" /\ req' = [req EXCEPT ![h] = q]
    BY <1>3, <2>1 DEF SubmitTx, Goto, SubmitRequest
  <2> HIDE DEF q
  <2>3. Reached(req[h], q)
    BY <2>2 DEF Reached
  <2> QED
    BY <1>2, <2>2, <2>3
<1>4. CASE ReverseTx(h)
  <2>1. PICK r \in ReverseRequest : r = req[h]
    BY <1>1, <1>4, RequestKind DEF ReverseTx
  <2> DEFINE q == [r EXCEPT !.at = "reversed", !.id = Len(ledger) + 1]
  <2>2. q.at = "reversed" /\ req' = [req EXCEPT ![h] = q]
    BY <1>4, <2>1 DEF ReverseTx, Goto, ReverseRequest
  <2> HIDE DEF q
  <2>3. Reached(req[h], q)
    BY <2>2 DEF Reached
  <2> QED
    BY <1>2, <2>2, <2>3
<1>5. CASE JoinLookup(h)
  <2>1. PICK r \in JoinRequest : r = req[h]
    BY <1>1, <1>5, RequestKind DEF JoinLookup
  <2> DEFINE q == [r EXCEPT !.at = IF order[r.user] > 0 THEN "rejoin" ELSE "joinNew"]
  <2>2. /\ q.at \in {"rejoin", "joinNew"} /\ q.user = r.user
        /\ r.at = "join" /\ req' = [req EXCEPT ![h] = q] /\ UNCHANGED <<people, score>>
    BY <1>5, <2>1 DEF JoinLookup, Goto, JoinRequest
  <2> HIDE DEF q
  <2>3. Reached(req[h], q)
    BY <2>1, <2>2 DEF Reached
  <2> QED
    BY <1>2, <2>2, <2>3
<1>6. CASE LeaveCheck(h)
  <2>1. PICK r \in LeaveRequest : r = req[h]
    BY <1>1, <1>6, RequestKind DEF LeaveCheck
  <2> DEFINE q == [r EXCEPT !.at = "leave"]
  <2>2. /\ q.at = "leave" /\ q.user = r.user /\ q.wasOwner = r.wasOwner
        /\ r.at = "leaving" /\ UNCHANGED <<people, score>>
        /\ req' = [req EXCEPT ![h] = IF r.user \in active /\ score[r.user] = 0 THEN q ELSE Idle]
    BY <1>6, <2>1 DEF LeaveCheck, Goto, LeaveRequest
  <2> HIDE DEF q
  <2>3. CASE r.user \in active /\ score[r.user] = 0
    <3>1. Reached(req[h], q)
      BY <2>1, <2>2, <2>3, Zenon DEF Reached
    <3> QED
      BY <1>2, <2>2, <2>3, <3>1
  <2>4. CASE ~(r.user \in active /\ score[r.user] = 0)
    <3>1. req' = [req EXCEPT ![h] = Idle] /\ Idle.at = "idle"
      BY <2>2, <2>4 DEF Idle
    <3>2. Reached(req[h], Idle)
      BY <3>1 DEF Reached
    <3> QED
      BY <1>2, <3>1, <3>2
  <2> QED
    BY <2>3, <2>4
<1>7. CASE JoinNewTx(h) \/ RejoinTx(h) \/ LeaveTx(h) \/ FinishTx(h) \/ Rollback(h)
  <2>1. req' = [req EXCEPT ![h] = Idle] /\ Idle.at = "idle"
    BY <1>7 DEF JoinNewTx, RejoinTx, LeaveTx, FinishTx, Rollback, Goto, Idle
  <2>2. Reached(req[h], Idle)
    BY <2>1 DEF Reached
  <2> QED
    BY <1>2, <2>1, <2>2
<1> QED
  BY <1>3, <1>4, <1>5, <1>6, <1>7 DEF Steps

LEMMA ApartStep ==
  ASSUME IInv, SenderApart, [Next]_vars
  PROVE  SenderApart'
<1>1. ASSUME Entered
      PROVE  \A i \in DOMAIN ledger' : ledger'[i].from \notin ledger'[i].rcv
  <2>1. DOMAIN ledger = 1..Len(ledger) /\ Len(ledger) \in Nat
    BY DEF IInv, TypeOK
  <2> QED
    BY <1>1, <2>1 DEF Entered, SenderApart
<1>2. \A i \in DOMAIN ledger' : ledger'[i].from \notin ledger'[i].rcv
  <2>1. CASE \E h \in Handler : SubmitTx(h) \/ ReverseTx(h)
    BY <1>1, <2>1, SubmitEnters, ReverseEnters
  <2>2. CASE \A h \in Handler : ~SubmitTx(h) /\ ~ReverseTx(h)
    BY <2>2, NothingEntered DEF SenderApart
  <2> QED
    BY <2>1, <2>2
<1>3. \A h \in Handler : req'[h].at = "submit" => req'[h].user \notin req'[h].rcv
  <2>1. ASSUME NEW h \in Handler, Calls(h) \/ Steps(h)
        PROVE  \A j \in Handler : req'[j].at = "submit" => req'[j].user \notin req'[j].rcv
    <3>1. (\A j \in Handler \ {h} : req'[j] = req[j]) /\ Reached(req[h], req'[h])
      BY <2>1, CallReaches, StepReaches
    <3> QED
      BY <3>1 DEF SenderApart, Reached
  <2>2. CASE SettleInactive \/ UNCHANGED vars
    BY <2>2 DEF SettleInactive, vars, SenderApart
  <2>3. CASE Restart
    BY <2>3 DEF Restart, Idle
  <2> QED
    BY <2>1, <2>2, <2>3 DEF Next
<1> QED
  BY <1>2, <1>3 DEF SenderApart

ScoresInv == IInv /\ SenderApart /\ ScoresFollowLedger

LEMMA FollowIs ==
  ScoresFollowLedger <=> \A u \in User : \E s \in 0..Len(ledger) : score[u] = Since(u, s)
BY DEF ScoresFollowLedger, Since

LEMMA FollowStep ==
  ASSUME IInv, IInv', SenderApart, ScoresFollowLedger, [Next]_vars
  PROVE  ScoresFollowLedger'
<1>1. /\ ledger \in Seq(Transfer) /\ Len(ledger) \in Nat /\ score \in [User -> Int]
      /\ TypeOK /\ TypeOK'
  BY DEF IInv, TypeOK
<1> SUFFICES ASSUME NEW u \in User
             PROVE  \E s \in 0..Len(ledger') : score'[u] = Since(u, s)'
  BY DEF ScoresFollowLedger, Since, Gain
<1>2. PICK s \in 0..Len(ledger) : score[u] = Since(u, s)
  BY FollowIs
<1>3. CASE \E h \in Handler : SubmitTx(h) \/ ReverseTx(h)
  <2>1. Entered
    BY <1>3, SubmitEnters, ReverseEnters
  <2>2. Since(u, s)' = Since(u, s) + Gain(ledger'[Len(ledger)+1], u)
    BY <1>1, <2>1, SinceGrows
  <2>3. score'[u] = score[u] + Gain(ledger'[Len(ledger)+1], u)
    BY <2>1 DEF Entered
  <2>4. s \in 0..Len(ledger')
    BY <1>1, <2>1 DEF Entered, TypeOK
  <2> QED
    BY <1>2, <2>2, <2>3, <2>4
<1>4. CASE \A h \in Handler : ~SubmitTx(h) /\ ~ReverseTx(h)
  <2>1. UNCHANGED ledger /\ (UNCHANGED score \/ \E h \in Handler : RejoinTx(h))
    BY <1>4, NothingEntered
  <2>2. \A n \in 0..Len(ledger) : Since(u, n)' = Since(u, n) /\ n \in 0..Len(ledger')
    BY <2>1, SinceKept
  <2>3. CASE score'[u] = score[u]
    BY <1>2, <2>2, <2>3
  <2>4. CASE score'[u] = 0
    <3>1. PICK n \in 0..Len(ledger) : n = Len(ledger)
      BY <1>1
    <3>2. Since(u, n) = 0
      BY <1>1, <3>1, SinceNone
    <3> QED
      BY <2>2, <2>4, <3>2
  <2>5. score'[u] = score[u] \/ score'[u] = 0
    BY <1>1, <2>1 DEF RejoinTx
  <2> QED
    BY <2>3, <2>4, <2>5
<1> QED
  BY <1>3, <1>4

LEMMA ScoresInitInv == Init => SenderApart /\ ScoresFollowLedger
<1> SUFFICES ASSUME Init PROVE SenderApart /\ ScoresFollowLedger
  OBVIOUS
<1>1. SenderApart
  BY DEF Init, SenderApart, Idle
<1>2. TypeOK /\ Len(ledger) = 0 /\ \A u \in User : score[u] = 0
  BY InitInv DEF IInv, Init
<1>3. \A u \in User : Since(u, Len(ledger)) = 0
  BY <1>2, SinceNone
<1>4. PICK n \in 0..Len(ledger) : n = Len(ledger)
  BY <1>2
<1>5. \A u \in User : score[u] = Since(u, n)
  BY <1>2, <1>3, <1>4
<1> QED
  BY <1>1, <1>5, FollowIs

LEMMA ScoresInvariance == Spec => []ScoresInv
<1>1. Init => ScoresInv
  BY InitInv, ScoresInitInv DEF ScoresInv
<1>2. ScoresInv /\ [Next]_vars => ScoresInv'
  BY NextInv, ApartStep, FollowStep DEF ScoresInv
<1> QED
  BY <1>1, <1>2, PTL DEF Spec

\* Whatever the requests in flight do, a score is what the entries of the ledger
\* since the player's last return add up to: total_score, which Submit and
\* Reverse update and Join resets, never loses or repeats an entry.
THEOREM ScoresFollow == Spec => []ScoresFollowLedger
<1>1. ScoresInv => ScoresFollowLedger
  BY DEF ScoresInv
<1> QED
  BY <1>1, ScoresInvariance, PTL

-----------------------------------------------------------------------------
(***************************************************************************)
(* The sum of the scores.                                                  *)
(***************************************************************************)

\* What an entry takes from the sender is what it gives the receivers.
LEMMA GainsCancel ==
  ASSUME NEW t \in Transfer
  PROVE  SumFunctionOnSet([u \in User |-> Gain(t, u)], User) = 0
<1> DEFINE c == Cardinality(t.rcv)
           a == IF t.kind = "normal" THEN t.amt ELSE -t.amt
           b == -(a * c)
           p == [u \in User |-> IF u \in t.rcv THEN a ELSE 0]
           q == [u \in User |-> IF u \in {t.from} THEN b ELSE 0]
           g == [u \in User |-> Gain(t, u)]
<1>1. /\ t.amt \in Nat /\ t.from \in User /\ t.rcv \in SUBSET User /\ c \in Nat
      /\ {t.from} \in SUBSET User
  BY AmountAssumption, UsersAreFinite DEF Transfer
<1>2. a \in Int /\ b \in Int
  BY <1>1
<1>3. \A u \in User : g[u] = p[u] + q[u] /\ p[u] \in Int /\ q[u] \in Int
  <2> SUFFICES ASSUME NEW u \in User
               PROVE  g[u] = p[u] + q[u] /\ p[u] \in Int /\ q[u] \in Int
    OBVIOUS
  <2> DEFINE m == t.amt * c
  <2>1. m \in Int
    BY <1>1
  <2>2. b = IF t.kind = "normal" THEN -m ELSE m
    BY <1>1
  <2>3. Gain(t, u) = (IF t.kind = "normal" THEN 1 ELSE -1)
                       * ((IF u \in t.rcv THEN t.amt ELSE 0) - (IF u = t.from THEN m ELSE 0))
    BY DEF Gain
  <2>4. p[u] = (IF u \in t.rcv THEN a ELSE 0) /\ q[u] = IF u = t.from THEN b ELSE 0
    OBVIOUS
  <2>5. p[u] \in Int /\ q[u] \in Int
    BY <1>2, <2>4
  <2> HIDE DEF m, b, p, q
  <2>6. g[u] = p[u] + q[u]
    BY <1>1, <2>1, <2>2, <2>3, <2>4
  <2> QED
    BY <2>5, <2>6
<1>4. IsFiniteSet(User) /\ User \in SUBSET User
  BY UsersAssumption
<1>5. /\ \A u \in User : p[u] = IF u \in t.rcv THEN a ELSE 0
      /\ \A u \in User : q[u] = IF u \in {t.from} THEN b ELSE 0
  OBVIOUS
<1> HIDE DEF p, q, g, a, b
<1>6. SumFunctionOnSet(g, User) = SumFunctionOnSet(p, User) + SumFunctionOnSet(q, User)
  BY <1>3, <1>4, SumOfTwo
<1>7. SumFunctionOnSet(p, User) = a * c
  BY <1>1, <1>2, <1>4, <1>5, SumOfShares
<1>8. SumFunctionOnSet(q, User) = b * Cardinality({t.from})
  BY <1>1, <1>2, <1>4, <1>5, SumOfShares
<1>9. Cardinality({t.from}) = 1
  BY FS_Singleton
<1>10. a * c \in Int /\ b = -(a * c) /\ b * 1 = b
  BY <1>1, <1>2 DEF b
<1>11. SumFunctionOnSet(g, User) = 0
  BY <1>6, <1>7, <1>8, <1>9, <1>10
<1> QED
  BY <1>11 DEF g

LEMMA SumKept ==
  ASSUME TypeOK, TypeOK', Entered
  PROVE  SumFunction(score') = SumFunction(score)
<1>1. PICK n \in Nat : n = Len(ledger)
  BY DEF TypeOK
<1>2. PICK t \in Transfer : t = ledger'[n+1]
  BY <1>1 DEF Entered, TypeOK
<1> DEFINE g == [u \in User |-> Gain(t, u)]
<1>3. \A u \in User : score[u] \in Int /\ g[u] \in Int /\ score'[u] = score[u] + g[u]
  BY <1>1, <1>2, GainType DEF Entered, TypeOK
<1>4. IsFiniteSet(User) /\ User \in SUBSET User
  BY UsersAssumption
<1>5. SumFunctionOnSet(g, User) = 0
  BY GainsCancel
<1> HIDE DEF g
<1>6. SumFunctionOnSet(score', User) = SumFunctionOnSet(score, User) + SumFunctionOnSet(g, User)
  BY <1>3, <1>4, SumOfTwo
<1>7. SumFunctionOnSet(score, User) \in Int
  BY <1>3, <1>4, SumType
<1>8. DOMAIN score = User /\ DOMAIN score' = User
  BY DEF TypeOK
<1> QED
  BY <1>5, <1>6, <1>7, <1>8 DEF SumFunction

-----------------------------------------------------------------------------
(***************************************************************************)
(* Reads that are stale when they are used.  Leave checks the score, the   *)
(* owner and the status before its transaction, Join whether the caller    *)
(* plays; the transactions do not look again.  Each condition says of a    *)
(* step that what such a transaction relies on still holds.                *)
(***************************************************************************)
LeavesAtZero == \A h \in Handler : LeaveTx(h) => score[req[h].user] = 0
ReturnsOnce == \A h \in Handler : RejoinTx(h) => req[h].user \notin active
LeavesKnowOwner == \A h \in Handler : LeaveTx(h) => req[h].wasOwner = (owner = req[h].user)
LeavesWhileActive == \A h \in Handler : LeaveTx(h) => status = "active"

\* Scores are those of the whole ledger, and whoever does not play has none.
ScoresWhole ==
  \A u \in User : score[u] = Since(u, 0) /\ (u \notin active => score[u] = 0)

LEMMA WholeStep ==
  ASSUME IInv, IInv', SenderApart, ScoresWhole, [Next]_vars, LeavesAtZero, ReturnsOnce
  PROVE  ScoresWhole' /\ SumFunction(score') = SumFunction(score)
<1>1. /\ ledger \in Seq(Transfer) /\ Len(ledger) \in Nat /\ score \in [User -> Int]
      /\ active \in SUBSET User /\ TypeOK /\ TypeOK' /\ 0 \in 0..Len(ledger)
  BY DEF IInv, TypeOK
<1>2. CASE \E h \in Handler : SubmitTx(h) \/ ReverseTx(h)
  <2>1. Entered
    BY <1>2, SubmitEnters, ReverseEnters
  <2>2. ASSUME NEW u \in User
        PROVE  (score[u] = Since(u, 0))' /\ (u \notin active => score[u] = 0)'
    <3>1. PICK t : t = ledger'[Len(ledger)+1]
      OBVIOUS
    <3>2. Since(u, 0)' = Since(u, 0) + Gain(t, u) /\ score'[u] = score[u] + Gain(t, u)
      BY <1>1, <2>1, <3>1, SinceGrows DEF Entered
    <3>3. u \notin active => Gain(t, u) = 0
      BY <2>1, <3>1 DEF Entered, Gain
    <3>4. active' = active
      BY <2>1 DEF Entered, people
    <3> QED
      BY <3>2, <3>3, <3>4 DEF ScoresWhole
  <2> QED
    BY <1>1, <2>1, <2>2, SumKept DEF ScoresWhole
<1>3. CASE \A h \in Handler : ~SubmitTx(h) /\ ~ReverseTx(h)
  <2>1. UNCHANGED ledger /\ (UNCHANGED score \/ \E h \in Handler : RejoinTx(h))
    BY <1>3, NothingEntered
  <2>2. UNCHANGED score
    <3>1. ASSUME NEW h \in Handler, RejoinTx(h)
          PROVE  UNCHANGED score
      <4>1. PICK r \in JoinRequest : r = req[h]
        BY <3>1, RequestKind DEF RejoinTx, IInv, TypeOK
      <4>2. r.user \in User
        BY DEF JoinRequest
      <4>3. score[r.user] = 0 /\ score' = [score EXCEPT ![r.user] = 0]
        BY <3>1, <4>1, <4>2 DEF ReturnsOnce, RejoinTx, ScoresWhole
      <4> QED
        BY <1>1, <4>3
    <3> QED
      BY <2>1, <3>1
  <2>3. \A u \in User : u \notin active' => u \notin active \/ score[u] = 0
    <3>1. ASSUME NEW h \in Handler, Calls(h)
          PROVE  active' = active
      BY <3>1, CallReaches DEF people
    <3>2. ASSUME NEW h \in Handler, Steps(h), ~LeaveTx(h)
          PROVE  active \subseteq active'
      BY <3>2 DEF Steps, SubmitTx, ReverseTx, JoinLookup, JoinNewTx, RejoinTx, LeaveCheck, FinishTx,
                  Rollback, people
    <3>3. ASSUME NEW h \in Handler, LeaveTx(h)
          PROVE  active' = active \ {req[h].user} /\ score[req[h].user] = 0
      BY <3>3 DEF LeaveTx, LeavesAtZero
    <3>4. CASE SettleInactive \/ Restart \/ UNCHANGED vars
      BY <3>4 DEF SettleInactive, Restart, vars, people
    <3> QED
      BY <3>1, <3>2, <3>3, <3>4 DEF Next
  <2>4. \A u \in User : Since(u, 0)' = Since(u, 0)
    BY <1>1, <2>1, SinceKept
  <2> QED
    BY <2>2, <2>3, <2>4 DEF ScoresWhole
<1> QED
  BY <1>2, <1>3

WholeInv == ScoresInv /\ ScoresWhole /\ ZeroSum

LEMMA WholeNext ==
  WholeInv /\ [Next]_vars /\ [LeavesAtZero /\ ReturnsOnce]_vars => WholeInv'
<1> SUFFICES ASSUME WholeInv, [Next]_vars, [LeavesAtZero /\ ReturnsOnce]_vars
             PROVE  WholeInv'
  OBVIOUS
<1>1. ScoresInv'
  BY NextInv, ApartStep, FollowStep DEF ScoresInv, WholeInv
<1>2. ScoresWhole' /\ SumFunction(score') = SumFunction(score)
  <2>1. CASE LeavesAtZero /\ ReturnsOnce
    BY <1>1, <2>1, WholeStep DEF ScoresInv, WholeInv
  <2>2. CASE UNCHANGED vars
    <3>1. UNCHANGED <<ledger, score, active>> /\ ScoresWhole
      BY <2>2 DEF vars, people, WholeInv
    <3> QED
      BY <3>1 DEF ScoresWhole, Since, Gain
  <2> QED
    BY <2>1, <2>2
<1> QED
  BY <1>1, <1>2 DEF WholeInv, ZeroSum

LEMMA WholeInit == Init => WholeInv
<1> SUFFICES ASSUME Init PROVE WholeInv
  OBVIOUS
<1>1. ScoresInv
  BY InitInv, ScoresInitInv DEF ScoresInv
<1>2. TypeOK /\ Len(ledger) = 0 /\ \A u \in User : score[u] = 0
  BY InitInv DEF IInv, Init
<1>3. ScoresWhole
  BY <1>2, SinceNone DEF ScoresWhole
<1>4. ZeroSum
  <2>1. IsFiniteSet(User) /\ {} \in SUBSET User /\ DOMAIN score = User /\ 0 \in Int
        /\ \A u \in User : score[u] = IF u \in {} THEN 0 ELSE 0
    BY <1>2, UsersAssumption DEF TypeOK
  <2>2. SumFunctionOnSet(score, User) = 0 * Cardinality({})
    BY <2>1, SumOfShares
  <2>3. Cardinality({}) = 0
    BY FS_EmptySet
  <2> QED
    BY <2>1, <2>2, <2>3 DEF ZeroSum, SumFunction
<1> QED
  BY <1>1, <1>3, <1>4 DEF WholeInv

LEMMA WholeInvariance == Spec /\ [][LeavesAtZero /\ ReturnsOnce]_vars => []WholeInv
BY WholeInit, WholeNext, PTL DEF Spec

\* The scores add up to 0 as long as every Leave that commits is of a player
\* whose score is still 0 and every return of a user who is still outside: the
\* two reads are the only way to the violation that the run zero_sum finds.
THEOREM ScoresAddUpToZero == Spec /\ [][LeavesAtZero /\ ReturnsOnce]_vars => []ZeroSum
<1>1. WholeInv => ZeroSum
  BY DEF WholeInv
<1> QED
  BY <1>1, WholeInvariance, PTL

\* A game in progress has its owner among its players as long as every Leave
\* that commits still knows whether it is the owner's: that read is the only way
\* to the violation that the run owner_plays finds.
THEOREM TheOwnerPlays == Spec /\ [][LeavesKnowOwner]_vars => []OwnerPlays
<1>1. Init => OwnerPlays
  BY DEF Init, OwnerPlays
<1>2. IInv /\ OwnerPlays /\ [Next]_vars /\ [LeavesKnowOwner]_vars => OwnerPlays'
  <2> SUFFICES ASSUME IInv, OwnerPlays, [Next]_vars, [LeavesKnowOwner]_vars
               PROVE  OwnerPlays'
    OBVIOUS
  <2>1. CASE UNCHANGED vars
    BY <2>1 DEF vars, people, OwnerPlays
  <2>2. ASSUME NEW h \in Handler, Calls(h)
        PROVE  OwnerPlays'
    BY <2>2 DEF Calls, SubmitCall, ReverseCall, JoinCall, LeaveCall, FinishCall, OwnerPlays, people
  <2>3. ASSUME NEW h \in Handler, Steps(h), ~LeaveTx(h)
        PROVE  OwnerPlays'
    BY <2>3 DEF Steps, SubmitTx, ReverseTx, JoinLookup, JoinNewTx, RejoinTx, LeaveCheck, FinishTx,
                Rollback, OwnerPlays, people
  <2>4. ASSUME NEW h \in Handler, LeaveTx(h), LeavesKnowOwner
        PROVE  OwnerPlays'
    <3> DEFINE rest == active \ {req[h].user}
    <3>1. active' = rest /\ rest \in SUBSET User
      BY <2>4 DEF LeaveTx, IInv, TypeOK
    <3>2. CASE rest = {}
      BY <2>4, <3>2 DEF LeaveTx, OwnerPlays
    <3>3. CASE rest # {} /\ req[h].wasOwner
      <4>1. owner' = NextOwner(rest)
        BY <2>4, <3>3 DEF LeaveTx, TransferOwnership
      <4>2. NextOwner(rest) \in rest
        BY <3>1, <3>3, NextOwnerStays DEF IInv, TypeOK
      <4> QED
        BY <3>1, <4>1, <4>2 DEF OwnerPlays
    <3>4. CASE rest # {} /\ ~req[h].wasOwner
      BY <2>4, <3>1, <3>4 DEF LeaveTx, OwnerPlays, LeavesKnowOwner
    <3> QED
      BY <3>2, <3>3, <3>4
  <2>5. CASE SettleInactive \/ Restart
    BY <2>5 DEF SettleInactive, Restart, OwnerPlays, people
  <2> QED
    BY <2>1, <2>2, <2>3, <2>4, <2>5 DEF Next, vars
<1> QED
  BY <1>1, <1>2, Invariance, PTL DEF Spec

\* The public link is written once as long as no Leave commits after the game's
\* end: that is the only way to the violation that the run one_share_link finds.
THEOREM OneLinkOnly == Spec /\ [][LeavesWhileActive]_vars => []OneShareLink
<1> DEFINE Inv == share <= 1 /\ (status = "active" => share = 0)
<1>1. Init => Inv
  BY DEF Init
<1>2. IInv /\ Inv /\ [Next]_vars /\ [LeavesWhileActive]_vars => Inv'
  <2> SUFFICES ASSUME IInv, Inv, [Next]_vars, [LeavesWhileActive]_vars
               PROVE  Inv'
    OBVIOUS
  <2>1. share \in Nat
    BY DEF IInv, TypeOK
  <2>2. CASE UNCHANGED vars
    BY <2>2 DEF vars
  <2>3. ASSUME NEW h \in Handler, Calls(h)
        PROVE  Inv'
    BY <2>3 DEF Calls, SubmitCall, ReverseCall, JoinCall, LeaveCall, FinishCall
  <2>4. ASSUME NEW h \in Handler, Steps(h), ~LeaveTx(h)
        PROVE  Inv'
    BY <2>1, <2>4 DEF Steps, SubmitTx, ReverseTx, JoinLookup, JoinNewTx, RejoinTx, LeaveCheck,
                      FinishTx, Rollback
  <2>5. ASSUME NEW h \in Handler, LeaveTx(h), LeavesWhileActive
        PROVE  Inv'
    <3>1. status = "active" /\ share = 0
      BY <2>5 DEF LeavesWhileActive
    <3> DEFINE rest == active \ {req[h].user}
    <3>2. /\ rest # {} => status' = status /\ share' = share
          /\ rest = {} => status' \in {"voided", "finished"} /\ share' \in {share, share + 1}
      BY <2>5 DEF LeaveTx
    <3> HIDE DEF rest
    <3> QED
      BY <3>1, <3>2
  <2>6. CASE SettleInactive \/ Restart
    BY <2>1, <2>6 DEF SettleInactive, Restart
  <2> QED
    BY <2>2, <2>3, <2>4, <2>5, <2>6 DEF Next, vars
<1>3. Inv => OneShareLink
  BY DEF OneShareLink
<1> QED
  BY <1>1, <1>2, <1>3, Invariance, PTL DEF Spec

-----------------------------------------------------------------------------
(***************************************************************************)
(* One request at a time: nothing a handler has read becomes stale.        *)
(***************************************************************************)
OneAtATime == \A h, k \in Handler : h = k

\* What a request has read is still so.
StillSo(r) ==
  /\ r.at = "leave" => r.user \in active /\ score[r.user] = 0
  /\ r.at \in {"leaving", "leave"} => r.wasOwner = (owner = r.user)
  /\ r.at \in {"join", "rejoin"} => r.user \notin active

ReadsStillSo == \A h \in Handler : StillSo(req[h])

LEMMA StillSoStep ==
  ASSUME OneAtATime, IInv, ReadsStillSo, [Next]_vars
  PROVE  ReadsStillSo'
<1>1. ASSUME NEW h \in Handler, Calls(h) \/ Steps(h)
      PROVE  ReadsStillSo'
  <2>1. \A j \in Handler : j = h
    BY DEF OneAtATime
  <2> DEFINE r == req[h]
             q == req'[h]
  <2>2. /\ Reached(r, q) /\ StillSo(r)
        /\ UNCHANGED <<people, score>> \/ q.at \in {"idle", "submitted", "reversed"}
    BY <1>1, CallReaches, StepReaches DEF ReadsStillSo
  <2> HIDE DEF q
  <2>3. CASE q.at \in {"idle", "submitted", "reversed"}
    BY <2>1, <2>3 DEF ReadsStillSo, StillSo, q
  <2>4. CASE UNCHANGED <<people, score>>
    <3>1. owner' = owner /\ active' = active /\ score' = score
      BY <2>4 DEF people
    <3>2. StillSo(q)
      BY <2>2 DEF Reached, StillSo
    <3>3. StillSo(req[h])'
      BY <3>1, <3>2 DEF StillSo, q
    <3> QED
      BY <2>1, <3>3 DEF ReadsStillSo
  <2> QED
    BY <2>2, <2>3, <2>4
<1>2. CASE SettleInactive \/ UNCHANGED vars
  BY <1>2 DEF SettleInactive, vars, people, ReadsStillSo, StillSo
<1>3. CASE Restart
  BY <1>3 DEF Restart, Idle, ReadsStillSo, StillSo
<1> QED
  BY <1>1, <1>2, <1>3 DEF Next

LEMMA NothingStale ==
  ASSUME OneAtATime
  PROVE  Spec => [][LeavesAtZero /\ ReturnsOnce]_vars /\ [][LeavesKnowOwner]_vars
<1>1. Init => ReadsStillSo
  BY DEF Init, Idle, ReadsStillSo, StillSo
<1>2. IInv /\ ReadsStillSo /\ [Next]_vars => ReadsStillSo'
  BY StillSoStep
<1>3. ReadsStillSo => LeavesAtZero /\ ReturnsOnce /\ LeavesKnowOwner
  BY DEF ReadsStillSo, StillSo, LeavesAtZero, ReturnsOnce, LeavesKnowOwner, LeaveTx, RejoinTx
<1>4. ReadsStillSo => [LeavesAtZero /\ ReturnsOnce]_vars /\ [LeavesKnowOwner]_vars
  BY <1>3
<1> QED
  BY <1>1, <1>2, <1>4, Invariance, PTL DEF Spec

\* With one request at a time the scores always add up to 0 and a game in
\* progress has its owner among its players: only concurrency breaks them.
THEOREM AloneNothingBreaks ==
  ASSUME OneAtATime
  PROVE  Spec => []ZeroSum /\ []OwnerPlays
BY NothingStale, ScoresAddUpToZero, TheOwnerPlays, PTL
=============================================================================
