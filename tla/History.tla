------------------------------ MODULE History ------------------------------
(***************************************************************************)
(* The history of one user: the settled games in the store, the page query *)
(* with its cursor, and the page of the phone that scrolls through them.   *)
(*                                                                         *)
(* Times are stored and compared as texts.  RFC3339Nano drops the trailing *)
(* zeros of the fraction, and the fraction as a whole if it is zero; the   *)
(* cursor of an answer is cut to whole seconds (RFC3339).                  *)
(***************************************************************************)
EXTENDS Naturals, Sequences, FiniteSets

CONSTANTS
  Game,      \* the user's games
  Second,    \* the seconds at which games are settled, numbers
  Fraction,  \* the digits of the fraction, without trailing zeros: sequences
  PageSize   \* the limit of one page, at least 1

VARIABLES
  settledAt,  \* game_sessions.settled_at of finished games, None otherwise
  items,      \* the games shown by the page, newest first
  cursor,     \* nextCursor: a second, or None
  more,       \* hasMore
  load        \* the load in progress (isLoading): the cursor asked for

vars == <<settledAt, items, cursor, more, load>>

None == <<>>
Time == [sec : Second, frac : Fraction]

Init ==
  /\ settledAt = [g \in Game |-> None]
  /\ items = <<>> /\ cursor = None /\ more = TRUE
  /\ load = [at |-> "idle"]

-----------------------------------------------------------------------------
\* The characters after the minutes, in the order of their codes:
\* "." before the digits before "Z".
Dot == 0
Zed == 11
Text(t) ==
  <<t.sec>> \o IF t.frac = <<>> THEN <<Zed>>
               ELSE <<Dot>> \o [i \in DOMAIN t.frac |-> t.frac[i] + 1] \o <<Zed>>

TextBefore(s, t) ==
  \E k \in DOMAIN t :
    /\ \A i \in 1..k - 1 : i \in DOMAIN s /\ s[i] = t[i]
    /\ k \notin DOMAIN s \/ s[k] < t[k]

-----------------------------------------------------------------------------
\* A game is finished; the next one may be committed with an earlier time.
Settle(g, t) ==
  /\ settledAt[g] = None
  /\ settledAt' = [settledAt EXCEPT ![g] = t]
  /\ UNCHANGED <<items, cursor, more, load>>

\* ListSettledGamesForUser: settled_at < cursor ORDER BY settled_at DESC LIMIT.
\* Games with equal texts come in any order.
Listed(c) ==
  {g \in Game : settledAt[g] # None /\ (c = None \/ TextBefore(Text(settledAt[g]), Text(c)))}

Pages(c) ==
  LET n == IF Cardinality(Listed(c)) < PageSize THEN Cardinality(Listed(c)) ELSE PageSize
  IN {p \in [1..n -> Listed(c)] :
        /\ \A i, j \in 1..n : i < j =>
             p[i] # p[j] /\ ~TextBefore(Text(settledAt[p[i]]), Text(settledAt[p[j]]))
        /\ \A g \in Listed(c) \ {p[i] : i \in 1..n} :
             ~TextBefore(Text(settledAt[p[n]]), Text(settledAt[g]))}

\* nextCursor of a full page: the last game's settled_at in whole seconds
NextCursor(p) ==
  IF Len(p) = PageSize THEN [sec |-> settledAt[p[PageSize]].sec, frac |-> <<>>] ELSE None

-----------------------------------------------------------------------------
\* loadData: one load at a time; a reload starts over, another one goes on.
LoadData(reload) ==
  /\ load.at = "idle" /\ (reload \/ more)
  /\ load' = [at |-> "asked", reload |-> reload, cursor |-> IF reload THEN None ELSE cursor]
  /\ UNCHANGED <<settledAt, items, cursor, more>>

Answer ==
  /\ load.at = "asked"
  /\ \E p \in Pages(load.cursor) :
       load' = [at |-> "answered", reload |-> load.reload, page |-> p, next |-> NextCursor(p)]
  /\ UNCHANGED <<settledAt, items, cursor, more>>

Show ==
  /\ load.at = "answered"
  /\ items' = IF load.reload THEN load.page ELSE items \o load.page
  /\ cursor' = load.next
  /\ more' = (load.next # None)
  /\ load' = [at |-> "idle"]
  /\ UNCHANGED settledAt

Fail == load.at # "idle" /\ load' = [at |-> "idle"] /\ UNCHANGED <<settledAt, items, cursor, more>>

Next ==
  \/ \E g \in Game, t \in Time : Settle(g, t)
  \/ LoadData(TRUE) \/ LoadData(FALSE)
  \/ Answer \/ Show \/ Fail

Spec == Init /\ [][Next]_vars

-----------------------------------------------------------------------------
\* docs/requirements/game-scoring.md:289: the history is paged by settlement
\* time, newest first, so scrolling through it shows a game once.
NoGameTwice == \A i, j \in DOMAIN items : items[i] = items[j] => i = j
=============================================================================
