---------------------------- MODULE RankedQueue ----------------------------
(***************************************************************************)
(* What a bounded queue with priorities promises: the entry of the least   *)
(* rank is served first, the oldest one among equals, and every service    *)
(* brings the others forward by Patience, so that none waits for ever.     *)
(* With one rank only it is a first-in first-out queue.                    *)
(***************************************************************************)
EXTENDS Integers, Sequences

CONSTANTS Ranks,     \* those of new entries
          Items,
          NoItem,
          Capacity,
          Patience

VARIABLES waiting,   \* the entries, in the order they will be served
          answer     \* what the last call returned: a success or an item

qvars == <<waiting, answer>>

Entry(r, x) == [rank |-> r, item |-> x]

Init == waiting = << >> /\ answer = TRUE

Insert(r, x) ==
  IF Len(waiting) = Capacity
  THEN answer' = FALSE /\ UNCHANGED waiting
  ELSE /\ answer' = TRUE
       /\ \E k \in 0 .. Len(waiting) :
            /\ \A i \in 1 .. k : waiting[i].rank <= r
            /\ \A i \in (k + 1) .. Len(waiting) : r < waiting[i].rank
            /\ waiting' = SubSeq(waiting, 1, k) \o <<Entry(r, x)>>
                            \o SubSeq(waiting, k + 1, Len(waiting))

Served == IF waiting = << >> THEN NoItem ELSE waiting[1].item

Peek == answer' = Served /\ UNCHANGED waiting

Pop ==
  /\ answer' = Served
  /\ waiting' = [i \in 1 .. (Len(waiting) - 1) |->
                   [waiting[i + 1] EXCEPT !.rank = @ - Patience]]

Clear == waiting' = << >> /\ answer' = TRUE

Next == (\E r \in Ranks, x \in Items : Insert(r, x)) \/ Peek \/ Pop \/ Clear

Spec == Init /\ [][Next]_qvars
=============================================================================
