----------------------------- MODULE ScoreBook -----------------------------
(***************************************************************************)
(* What the score sheet of a game promises to the people around the table, *)
(* whatever the requests that produce it: entries are only ever added at   *)
(* the end; an entry never changes, except that it is struck out once, by  *)
(* an entry that repeats what it says; nobody's slip is entered twice; and *)
(* a closed sheet stays as it is.                                          *)
(***************************************************************************)
EXTENDS Naturals, Sequences

CONSTANTS Slip,   \* what identifies one demand to write: an author and a key
          What    \* what an entry says: from whom, to whom, how much

VARIABLES book, open

Entry(slip, what, undoes) ==
  [slip |-> slip, what |-> what, undoes |-> undoes, undone |-> FALSE]

Fresh(slip) == \A i \in DOMAIN book : book[i].slip # slip

Init == book = <<>> /\ open = TRUE

Write(slip, what) ==
  /\ open /\ Fresh(slip)
  /\ book' = Append(book, Entry(slip, what, 0))
  /\ UNCHANGED open

Undo(slip, i) ==
  /\ open /\ Fresh(slip)
  /\ book[i].undoes = 0 /\ ~book[i].undone
  /\ book' = Append([book EXCEPT ![i].undone = TRUE], Entry(slip, book[i].what, i))
  /\ UNCHANGED open

Close == open /\ open' = FALSE /\ UNCHANGED book

\* (book' # book spares TLC the search for an entry in the steps that add none.)
Next == \/ /\ book' # book
           /\ \E slip \in Slip :
                \/ \E what \in What : Write(slip, what)
                \/ \E i \in DOMAIN book : Undo(slip, i)
        \/ Close

Spec == Init /\ [][Next]_<<book, open>>
=============================================================================
