-------------------------- MODULE SettlementProofs --------------------------
(***************************************************************************)
(* The invariants of Settlement, for any users, handlers and bounds.       *)
(* Together with the types they are inductive: an approval is only written *)
(* with the end of the game, and a game that has ended is never active     *)
(* again, so nothing can be recorded or voided after it.                   *)
(***************************************************************************)
EXTENDS Settlement, DataLemmas, FiniteSetTheorems, TLAPS

\* A game that is voided with players in it, as the scheduler does, never had a
\* transfer.
VoidedInUse == status = "voided" /\ players # {} => count = 0

\* The inductive invariant.
EndInv == TypeOK /\ OnePendingAsk /\ ApprovalEndsTheGame /\ VoidedInUse

LEMMA InitInv == Init => EndInv
<1> SUFFICES ASSUME Init PROVE EndInv
  OBVIOUS
<1>1. TypeOK
  BY UsersAreFinite, BoundsAreNumbers DEF Init, TypeOK, Request, Idle
<1>2. OnePendingAsk
  <2>1. Pending = {}
    BY DEF Init, Pending
  <2> QED
    BY <2>1, FS_EmptySet DEF OnePendingAsk
<1> QED
  BY <1>1, <1>2 DEF EndInv, Init, ApprovalEndsTheGame, VoidedInUse

-----------------------------------------------------------------------------
\* Types.

LEMMA AskStep ==
  ASSUME TypeOK, NEW h \in Handler,
         CreateFinishRequest(h) \/ ApproveTx(h) \/ RejectUpdate(h)
  PROVE  asks' \in Seq({"pending", "approved", "rejected"}) /\ Len(asks') <= MaxAsks
<1>1. CASE CreateFinishRequest(h)
  BY <1>1, BoundsAreNumbers DEF TypeOK, CreateFinishRequest, CanAsk
<1>2. ASSUME NEW d \in {"approved", "rejected"}, asks' = [asks EXCEPT ![req[h].ask] = d]
      PROVE  asks' \in Seq({"pending", "approved", "rejected"}) /\ Len(asks') <= MaxAsks
  <2> DEFINE i == req[h].ask
             S == {"pending", "approved", "rejected"}
  <2>1. asks \in Seq(S) /\ Len(asks) <= MaxAsks /\ d \in S
    BY DEF TypeOK
  <2> HIDE DEF i, S
  <2>2. [asks EXCEPT ![i] = d] \in Seq(S) /\ Len([asks EXCEPT ![i] = d]) = Len(asks)
    BY <2>1, OneReplaced
  <2> QED
    BY <1>2, <2>1, <2>2 DEF i, S
<1> QED
  BY <1>1, <1>2 DEF ApproveTx, RejectUpdate

LEMMA CallType ==
  ASSUME TypeOK, NEW h \in Handler, Calls(h)
  PROVE  TypeOK'
<1> USE DEF TypeOK, people
<1>1. PICK u \in User : \/ RequestFinish(h, u) \/ FinishCall(h, u) \/ LeaveCall(h, u)
                        \/ \E i \in DOMAIN asks, decision \in {"approve", "reject"} :
                             DecideCall(h, u, i, decision)
  BY DEF Calls
<1>2. CASE RequestFinish(h, u)
  BY <1>2 DEF RequestFinish, Goto, Request
<1>3. CASE FinishCall(h, u)
  BY <1>3 DEF FinishCall, Goto, Request
<1>4. CASE LeaveCall(h, u)
  BY <1>4 DEF LeaveCall, Goto, Request
<1>5. ASSUME NEW i \in DOMAIN asks, NEW decision \in {"approve", "reject"},
             DecideCall(h, u, i, decision)
      PROVE  TypeOK'
  <2>1. i \in 1..MaxAsks
    BY BoundsAreNumbers
  <2> QED
    BY <1>5, <2>1 DEF DecideCall, Goto, Request
<1> QED
  BY <1>1, <1>2, <1>3, <1>4, <1>5

LEMMA StepType ==
  ASSUME TypeOK, NEW h \in Handler, Steps(h)
  PROVE  TypeOK'
<1>1. req' \in [Handler -> Request]
  BY DEF Steps, CreateFinishRequest, ApproveTx, RejectUpdate, FinishUpdate, LeaveTx, Fail,
         Goto, Request, TypeOK
<1>2. CASE CreateFinishRequest(h) \/ ApproveTx(h) \/ RejectUpdate(h)
  BY <1>1, <1>2, AskStep DEF CreateFinishRequest, ApproveTx, RejectUpdate, TypeOK, people
<1>3. CASE FinishUpdate(h) \/ Fail(h)
  BY <1>1, <1>3 DEF FinishUpdate, Fail, TypeOK, people
<1>4. CASE LeaveTx(h)
  BY <1>1, <1>4 DEF LeaveTx, TypeOK, people
<1> QED
  BY <1>2, <1>3, <1>4 DEF Steps

LEMMA WorldType ==
  ASSUME TypeOK, \/ \E u \in User : Join(u)
                 \/ Score \/ ListInactive \/ SettleOneInactive \/ Tick \/ Restart
  PROVE  TypeOK'
<1> USE DEF TypeOK, people
<1>1. CASE \E u \in User : Join(u)
  BY <1>1 DEF Join
<1>2. CASE Score
  BY <1>2, BoundsAreNumbers DEF Score
<1>3. CASE ListInactive \/ SettleOneInactive
  BY <1>3 DEF ListInactive, SettleOneInactive
<1>4. CASE Tick
  BY <1>4, BoundsAreNumbers DEF Tick
<1>5. CASE Restart
  BY <1>5, BoundsAreNumbers DEF Restart, Request
<1> QED
  BY <1>1, <1>2, <1>3, <1>4, <1>5

LEMMA NextType ==
  ASSUME TypeOK, [Next]_vars
  PROVE  TypeOK'
<1>1. CASE UNCHANGED vars
  BY <1>1 DEF vars, people, TypeOK
<1> QED
  BY <1>1, CallType, StepType, WorldType DEF Next

-----------------------------------------------------------------------------
\* A row is only added when none is pending, and no row becomes pending again.
LEMMA NextPending ==
  ASSUME TypeOK, OnePendingAsk, [Next]_vars
  PROVE  OnePendingAsk'
<1>1. IsFiniteSet(Pending)
  <2>1. Len(asks) \in Nat /\ Pending \subseteq 1..Len(asks)
    BY DEF TypeOK, Pending
  <2>2. IsFiniteSet(1..Len(asks))
    BY <2>1, FS_Interval
  <2> QED
    BY <2>1, <2>2, FS_Subset
<1>2. ASSUME Pending' \subseteq Pending
      PROVE  OnePendingAsk'
  <2>1. Cardinality(Pending') <= Cardinality(Pending) /\ IsFiniteSet(Pending')
    BY <1>1, <1>2, FS_Subset
  <2>2. Cardinality(Pending') \in Nat /\ Cardinality(Pending) \in Nat
    BY <1>1, <2>1, FS_CardinalityType
  <2> QED
    BY <2>1, <2>2 DEF OnePendingAsk
<1>3. ASSUME NEW h \in Handler, CreateFinishRequest(h)
      PROVE  OnePendingAsk'
  <2>1. Pending = {} /\ asks' = Append(asks, "pending")
    BY <1>3 DEF CreateFinishRequest, CanAsk
  <2>2. Pending' = {Len(asks) + 1}
    BY <2>1 DEF Pending, TypeOK
  <2>3. Cardinality({Len(asks) + 1}) = 1
    BY FS_Singleton
  <2> QED
    BY <2>2, <2>3 DEF OnePendingAsk
<1>4. ASSUME NEW h \in Handler, ApproveTx(h) \/ RejectUpdate(h)
      PROVE  Pending' \subseteq Pending
  BY <1>4 DEF ApproveTx, RejectUpdate, Pending, TypeOK
<1>5. ASSUME UNCHANGED asks
      PROVE  Pending' \subseteq Pending
  BY <1>5 DEF Pending
<1>6. \/ UNCHANGED asks
      \/ \E h \in Handler : CreateFinishRequest(h) \/ ApproveTx(h) \/ RejectUpdate(h)
  BY DEF Next, vars, Calls, Steps, RequestFinish, DecideCall, FinishCall, LeaveCall,
         FinishUpdate, LeaveTx, Fail, Join, Score, ListInactive, SettleOneInactive, Tick, Restart
<1> QED
  BY <1>2, <1>3, <1>4, <1>5, <1>6

-----------------------------------------------------------------------------
\* What the end of the game rests on: a finished game stays finished, a voided
\* game with players in it stays as it is, and only ApproveTx approves.
LEMMA NextEnd ==
  ASSUME TypeOK, ApprovalEndsTheGame, VoidedInUse, [Next]_vars
  PROVE  ApprovalEndsTheGame' /\ VoidedInUse'
<1> DEFINE Approved == \E i \in DOMAIN asks : asks[i] = "approved"
<1>1. status = "finished" => status' = "finished"
  BY DEF Next, vars, Calls, Steps, RequestFinish, CreateFinishRequest, DecideCall, ApproveTx,
         RejectUpdate, FinishCall, FinishUpdate, LeaveCall, LeaveTx, LeaveValid, Fail, Join,
         Score, ListInactive, SettleOneInactive, Tick, Restart
<1>2. Approved' => Approved \/ status' = "finished"
  <2>1. CASE UNCHANGED asks
    BY <2>1
  <2>2. ASSUME NEW h \in Handler, CreateFinishRequest(h) \/ RejectUpdate(h)
        PROVE  Approved' => Approved
    BY <2>2 DEF CreateFinishRequest, RejectUpdate, TypeOK
  <2>3. ASSUME NEW h \in Handler, ApproveTx(h)
        PROVE  status' = "finished"
    BY <2>3 DEF ApproveTx
  <2>4. \/ UNCHANGED asks
        \/ \E h \in Handler : CreateFinishRequest(h) \/ ApproveTx(h) \/ RejectUpdate(h)
    BY DEF Next, vars, Calls, Steps, RequestFinish, DecideCall, FinishCall, LeaveCall,
           FinishUpdate, LeaveTx, Fail, Join, Score, ListInactive, SettleOneInactive, Tick, Restart
  <2> QED
    BY <2>1, <2>2, <2>3, <2>4
<1>3. ApprovalEndsTheGame'
  BY <1>1, <1>2 DEF ApprovalEndsTheGame
<1>4. VoidedInUse'
  <2>1. CASE status' # "voided"
    BY <2>1 DEF VoidedInUse
  <2>2. CASE status' = "voided" /\ status = "voided"
    <3>1. players' \subseteq players /\ count' = count
      BY <2>2 DEF Next, vars, people, Calls, Steps, RequestFinish, CreateFinishRequest,
         DecideCall, ApproveTx, RejectUpdate, FinishCall, FinishUpdate, LeaveCall, LeaveTx, Fail,
         Join, Score, ListInactive, SettleOneInactive, Tick, Restart
    <3> QED
      BY <2>2, <3>1 DEF VoidedInUse
  <2>3. CASE status' = "voided" /\ status # "voided"
    <3>1. SettleOneInactive \/ \E h \in Handler : LeaveTx(h)
      BY <2>3 DEF Next, vars, Calls, Steps, RequestFinish, CreateFinishRequest, DecideCall,
         ApproveTx, RejectUpdate, FinishCall, FinishUpdate, LeaveCall, Fail, Join, Score,
         ListInactive, Tick, Restart
    <3>2. CASE SettleOneInactive
      BY <2>3, <3>2 DEF SettleOneInactive, VoidedInUse
    <3>3. CASE \E h \in Handler : LeaveTx(h)
      BY <2>3, <3>3 DEF LeaveTx, VoidedInUse
    <3> QED
      BY <3>1, <3>2, <3>3
  <2> QED
    BY <2>1, <2>2, <2>3
<1> QED
  BY <1>3, <1>4

-----------------------------------------------------------------------------
\* The inductive invariant holds in every reachable state.
THEOREM EndInvariance == Spec => []EndInv
<1>1. EndInv /\ [Next]_vars => EndInv'
  BY NextType, NextPending, NextEnd DEF EndInv
<1> QED
  BY InitInv, <1>1, PTL DEF Spec

\* Every variable of Settlement keeps its type.
THEOREM EndTypeCorrect == Spec => []TypeOK
<1>1. EndInv => TypeOK
  BY DEF EndInv
<1> QED
  BY <1>1, EndInvariance, PTL

\* However two requests to finish interleave, one is pending at a time.
THEOREM AtMostOneAsk == Spec => []OnePendingAsk
<1>1. EndInv => OnePendingAsk
  BY DEF EndInv
<1> QED
  BY <1>1, EndInvariance, PTL

\* Nobody approves a request without ending the game with it.
THEOREM ApprovalIsTheEnd == Spec => []ApprovalEndsTheGame
<1>1. EndInv => ApprovalEndsTheGame
  BY DEF EndInv
<1> QED
  BY <1>1, EndInvariance, PTL

-----------------------------------------------------------------------------
(***************************************************************************)
(* The outcome.  A Leave that settles the game writes what it read of the  *)
(* count, without looking at the status: it does not change a voided game  *)
(* only because that game never had the transfer the Leave has seen.       *)
(***************************************************************************)
SeenTransfers == \A h \in Handler : req[h].at = "leave" /\ ~req[h].unscored => count > 0

LEMMA NextSeen ==
  ASSUME TypeOK, TypeOK', SeenTransfers, [Next]_vars
  PROVE  SeenTransfers'
<1>1. count \in Nat /\ count' \in Nat
  BY BoundsAreNumbers DEF TypeOK
<1>2. count' = count \/ count' = count + 1
  BY DEF Next, vars, Calls, Steps, RequestFinish, CreateFinishRequest, DecideCall, ApproveTx,
         RejectUpdate, FinishCall, FinishUpdate, LeaveCall, LeaveTx, Fail, Join, Score, ListInactive,
         SettleOneInactive, Tick, Restart
<1>3. ASSUME NEW h \in Handler, req'[h].at = "leave", ~req'[h].unscored
      PROVE  count > 0
  <2>1. CASE req'[h] = req[h]
    BY <1>3, <2>1 DEF SeenTransfers
  <2>2. CASE req'[h] # req[h]
    <3>1. req \in [Handler -> Request] /\ Idle.at = "idle"
      BY DEF TypeOK, Idle
    <3>2. PICK k \in Handler, u \in User : LeaveCall(k, u)
      BY <1>3, <2>2, <3>1 DEF Next, vars, Calls, Steps, RequestFinish, CreateFinishRequest,
         DecideCall, ApproveTx, RejectUpdate, FinishCall, FinishUpdate, LeaveTx, Fail, Join,
         Score, ListInactive, SettleOneInactive, Tick, Restart, Goto
    <3>3. count # 0
      <4>1. h = k
        BY <2>2, <3>1, <3>2 DEF LeaveCall, Goto
      <4>2. req'[h] = [at |-> "leave", user |-> u, wasOwner |-> owner = u, unscored |-> count = 0]
        BY <3>1, <3>2, <4>1 DEF LeaveCall, Goto
      <4>3. PICK b : b = (count = 0) /\ req'[h].unscored = b
        BY <4>2
      <4> QED
        BY <1>3, <4>3, Zenon
    <3> QED
      BY <1>1, <1>3, <3>3
  <2> QED
    BY <2>1, <2>2
<1> QED
  BY <1>1, <1>2, <1>3 DEF SeenTransfers

LEMMA EndedStays ==
  ASSUME TypeOK, VoidedInUse, SeenTransfers, [Next]_vars, status # "active"
  PROVE  status' = status
<1>1. ASSUME NEW h \in Handler, LeaveTx(h)
      PROVE  status' = status
  <2> DEFINE r == req[h]
             rest == players \ {r.user}
  <2>1. /\ r.user \in players /\ (players = {r.user} /\ r.unscored => status = "active")
        /\ status' = (IF rest # {} THEN status ELSE IF r.unscored THEN "voided" ELSE "finished")
        /\ r.at = "leave"
    BY <1>1 DEF LeaveTx, LeaveValid
  <2>2. CASE rest # {}
    BY <2>1, <2>2
  <2>3. CASE rest = {}
    <3>1. players = {r.user} /\ ~r.unscored /\ status' = "finished"
      BY <2>1, <2>3
    <3>2. count > 0 /\ players # {}
      BY <2>1, <3>1 DEF SeenTransfers
    <3>3. status # "voided"
      BY <3>2, BoundsAreNumbers DEF VoidedInUse, TypeOK
    <3> QED
      BY <3>1, <3>3 DEF TypeOK
  <2> QED
    BY <2>2, <2>3
<1>2. \/ status' = status
      \/ \E h \in Handler : LeaveTx(h)
  BY DEF Next, vars, Calls, Steps, RequestFinish, CreateFinishRequest, DecideCall, ApproveTx,
         RejectUpdate, FinishCall, FinishUpdate, LeaveCall, Fail, Join, Score, ListInactive,
         SettleOneInactive, Tick, Restart
<1> QED
  BY <1>1, <1>2

\* Whatever ends the game first decides its outcome: no request and no
\* settlement under way changes it.
THEOREM TheOutcomeStands == Spec => OutcomeStands
<1>1. Init => SeenTransfers
  BY DEF Init, Idle, SeenTransfers
<1>2. EndInv /\ EndInv' /\ SeenTransfers /\ [Next]_vars => SeenTransfers'
  BY NextSeen DEF EndInv
<1>3. EndInv /\ SeenTransfers /\ [Next]_vars => [status # "active" => status' = status]_vars
  BY EndedStays DEF EndInv
<1> QED
  BY <1>1, <1>2, <1>3, EndInvariance, PTL DEF Spec, OutcomeStands

-----------------------------------------------------------------------------
(***************************************************************************)
(* What the code does not keep, and why not.                               *)
(***************************************************************************)
\* A Leave that commits as the last one, and has seen no transfer, is right.
LeavesKnowCount ==
  \A h \in Handler :
    LeaveTx(h) /\ players = {req[h].user} /\ req[h].unscored => count = 0

\* A scored game is settled, never voided (game-scoring.md:119 and 278), if the
\* last Leave to commit knows the count: that stale read is the only way a
\* score is thrown away.
THEOREM ScoredGamesAreSettled ==
  Spec /\ [][LeavesKnowCount]_vars => []ScoredIsNotVoided
<1>1. Init => ScoredIsNotVoided
  BY DEF Init, ScoredIsNotVoided
<1>2. EndInv /\ ScoredIsNotVoided /\ [Next]_vars /\ [LeavesKnowCount]_vars => ScoredIsNotVoided'
  <2> SUFFICES ASSUME EndInv, ScoredIsNotVoided, [Next]_vars, [LeavesKnowCount]_vars,
                      status' = "voided"
               PROVE  count' = 0
    BY DEF ScoredIsNotVoided
  <2>1. CASE status = "voided"
    <3>1. count' = count
      BY <2>1 DEF Next, vars, people, Calls, Steps, RequestFinish, CreateFinishRequest,
         DecideCall, ApproveTx, RejectUpdate, FinishCall, FinishUpdate, LeaveCall, LeaveTx, Fail,
         Join, Score, ListInactive, SettleOneInactive, Tick, Restart
    <3> QED
      BY <2>1, <3>1 DEF ScoredIsNotVoided
  <2>2. CASE status # "voided"
    <3>1. SettleOneInactive \/ \E h \in Handler : LeaveTx(h)
      BY <2>2 DEF Next, vars, Calls, Steps, RequestFinish, CreateFinishRequest, DecideCall,
         ApproveTx, RejectUpdate, FinishCall, FinishUpdate, LeaveCall, Fail, Join, Score,
         ListInactive, Tick, Restart
    <3>2. CASE SettleOneInactive
      BY <2>2, <3>2 DEF SettleOneInactive
    <3>3. ASSUME NEW h \in Handler, LeaveTx(h)
          PROVE  count' = 0
      <4>1. players = {req[h].user} /\ req[h].unscored /\ count' = count
        BY <2>2, <3>3 DEF LeaveTx, LeaveValid
      <4>2. ~UNCHANGED vars
        BY <2>2 DEF vars
      <4> QED
        BY <3>3, <4>1, <4>2 DEF LeavesKnowCount
    <3> QED
      BY <3>1, <3>2, <3>3
  <2> QED
    BY <2>1, <2>2
<1> QED
  BY <1>1, <1>2, EndInvariance, PTL DEF Spec

-----------------------------------------------------------------------------
(***************************************************************************)
(* Decisions.                                                              *)
(***************************************************************************)
OneAtATime == \A h, k \in Handler : h = k

\* The request that a decision under way is about is still pending.
DecidesPending == \A h \in Handler : req[h].at \in {"approve", "reject"} => req[h].ask \in Pending

LEMMA NextDecides ==
  ASSUME OneAtATime, TypeOK, DecidesPending, [Next]_vars
  PROVE  DecidesPending'
<1>1. req \in [Handler -> Request] /\ Idle.at = "idle"
  BY DEF TypeOK, Idle
<1>2. ASSUME NEW h \in Handler, req'[h].at \in {"approve", "reject"}
      PROVE  req'[h].ask \in Pending'
  <2>1. \A k \in Handler : k = h
    BY DEF OneAtATime
  <2>2. CASE \E u \in User, i \in DOMAIN asks, d \in {"approve", "reject"} : DecideCall(h, u, i, d)
    BY <1>1, <2>2 DEF DecideCall, Goto, Pending
  <2>3. CASE UNCHANGED <<asks, req>>
    BY <1>2, <2>3 DEF DecidesPending, Pending
  <2>4. CASE req'[h].at \notin {"approve", "reject"}
    BY <1>2, <2>4
  <2>5. ASSUME Calls(h)
        PROVE  \/ \E u \in User, i \in DOMAIN asks, d \in {"approve", "reject"} : DecideCall(h, u, i, d)
               \/ req'[h].at \notin {"approve", "reject"}
    BY <1>1, <2>5 DEF Calls, RequestFinish, FinishCall, LeaveCall, Goto
  <2>6. ASSUME Steps(h)
        PROVE  req'[h].at \notin {"approve", "reject"}
    BY <1>1, <2>6 DEF Steps, CreateFinishRequest, ApproveTx, RejectUpdate, FinishUpdate, LeaveTx,
                      Fail, Goto
  <2>7. ASSUME \/ \E u \in User : Join(u)
               \/ Score \/ ListInactive \/ SettleOneInactive \/ Tick \/ UNCHANGED vars
        PROVE  UNCHANGED <<asks, req>>
    BY <2>7 DEF Join, Score, ListInactive, SettleOneInactive, Tick, vars
  <2>8. ASSUME Restart
        PROVE  req'[h].at \notin {"approve", "reject"}
    BY <1>1, <2>8 DEF Restart
  <2> QED
    BY <2>1, <2>2, <2>3, <2>4, <2>5, <2>6, <2>7, <2>8 DEF Next
<1> QED
  BY <1>2 DEF DecidesPending

\* With one request at a time a decision is final: only two decisions of the
\* same request under way together replace one another, as decided_once shows.
THEOREM AloneDecidesOnce ==
  ASSUME OneAtATime
  PROVE  Spec => OnlyPendingIsDecided
<1>1. Init => DecidesPending
  BY DEF Init, Idle, DecidesPending
<1>2. EndInv /\ DecidesPending /\ [Next]_vars => DecidesPending'
  BY NextDecides DEF EndInv
<1>3. EndInv /\ DecidesPending /\ [Next]_vars =>
        [\A i \in DOMAIN asks : asks[i] # "pending" => asks'[i] = asks[i]]_vars
  <2> SUFFICES ASSUME EndInv, DecidesPending, [Next]_vars,
                      NEW i \in DOMAIN asks, asks[i] # "pending"
               PROVE  asks'[i] = asks[i]
    OBVIOUS
  <2>1. asks \in Seq({"pending", "approved", "rejected"})
    BY DEF EndInv, TypeOK
  <2>2. ASSUME NEW h \in Handler, ApproveTx(h) \/ RejectUpdate(h)
        PROVE  asks'[i] = asks[i]
    <3>1. req[h].ask # i
      BY <2>2 DEF ApproveTx, RejectUpdate, DecidesPending, Pending
    <3> QED
      BY <2>1, <2>2, <3>1 DEF ApproveTx, RejectUpdate
  <2>3. ASSUME NEW h \in Handler, CreateFinishRequest(h)
        PROVE  asks'[i] = asks[i]
    BY <2>1, <2>3 DEF CreateFinishRequest
  <2>4. \/ UNCHANGED asks
        \/ \E h \in Handler : CreateFinishRequest(h) \/ ApproveTx(h) \/ RejectUpdate(h)
    BY DEF Next, vars, Calls, Steps, RequestFinish, DecideCall, FinishCall, LeaveCall,
           FinishUpdate, LeaveTx, Fail, Join, Score, ListInactive, SettleOneInactive, Tick, Restart
  <2> QED
    BY <2>2, <2>3, <2>4
<1> QED
  BY <1>1, <1>2, <1>3, EndInvariance, PTL DEF Spec, OnlyPendingIsDecided
=============================================================================
