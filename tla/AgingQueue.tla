----------------------------- MODULE AgingQueue -----------------------------
(***************************************************************************)
(* What a priority queue that favours nodes which have waited long         *)
(* promises: a pop ages the nodes present when it begins, and serves one   *)
(* of the highest priority among them; nodes inserted meanwhile wait.  A   *)
(* pop that begins on a full queue promises less: it may leave the nodes   *)
(* as they are, and serve any of them.                                     *)
(***************************************************************************)
EXTENDS Integers, FiniteSets

CONSTANTS Capacity,
          Nodes,     \* pairs of a priority and an item
          Messages,  \* the nodes that may be inserted
          NoItem,
          Age        \* the anti starvation function, as a function on priorities

(* A bag of nodes says of each how many times it is in the bag.            *)
VARIABLES present,   \* bag of nodes: those the next or current pop may serve
          late,      \* bag of nodes inserted since that pop began
          serving,   \* a pop is in progress
          full,      \* it began on a full queue
          accepted,  \* what the last insertion returned
          served     \* the item the last pop returned, or NoItem

avars == <<present, late, serving, full, accepted, served>>

Empty == [n \in Nodes |-> 0]
With(bag, n) == [bag EXCEPT ![n] = @ + 1]

(* The copies of the nodes of a bag, told apart by a number.               *)
Copies(bag) == UNION { {n} \X (1 .. bag[n]) : n \in Nodes }

Size  == Cardinality(Copies(present)) + Cardinality(Copies(late))

Older(n) == [n EXCEPT !.priority = Age[@]]
Aged(bag) ==
  [n \in Nodes |-> Cardinality({ c \in Copies(bag) : Older(c[1]) = n })]

-----------------------------------------------------------------------------
Init ==
  /\ present = Empty /\ late = Empty
  /\ serving = FALSE /\ full = FALSE
  /\ accepted = TRUE /\ served = NoItem

Insert(n) ==
  /\ accepted' = (Size < Capacity)
  /\ \/ ~accepted' /\ UNCHANGED <<present, late>>
     \/ accepted' /\ serving /\ late' = With(late, n) /\ UNCHANGED present
     \/ accepted' /\ ~serving /\ present' = With(present, n) /\ UNCHANGED late
  /\ UNCHANGED <<serving, full, served>>

PopNothing ==
  /\ ~serving /\ present = Empty
  /\ served' = NoItem
  /\ UNCHANGED <<present, late, serving, full, accepted>>

BeginPop ==
  /\ ~serving /\ present # Empty
  /\ serving' = TRUE
  /\ full' = (Size = Capacity)
  /\ present' = IF full' THEN present ELSE Aged(present)
  /\ UNCHANGED <<late, accepted, served>>

EndPop ==
  /\ serving
  /\ serving' = FALSE /\ full' = FALSE
  /\ \E n \in Nodes :
       /\ present[n] > 0
       /\ full \/ \A m \in Nodes : present[m] > 0 => n.priority >= m.priority
       /\ served' = n.item
       /\ present' = [m \in Nodes |-> present[m] + late[m]
                                      - (IF m = n THEN 1 ELSE 0)]
  /\ late' = Empty
  /\ UNCHANGED accepted

Next == (\E n \in Messages : Insert(n)) \/ PopNothing \/ BeginPop \/ EndPop

Spec == Init /\ [][Next]_avars
=============================================================================
