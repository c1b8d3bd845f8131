---------------------------- MODULE PriorityBag ----------------------------
(***************************************************************************)
(* What the heap promises: a bounded bag of items whose index 0 always is  *)
(* a least item.  The other indices name items the caller cannot predict.  *)
(***************************************************************************)
EXTENDS Integers

CONSTANTS Items,     \* the values stored
          Key,       \* compare(a, b) is the sign of Key[a] - Key[b]
          Capacity

VARIABLES bag,       \* how often each item is stored
          count,     \* how many items are stored
          answer     \* what the last call returned, and of what

bvars == <<bag, count, answer>>

Stored == { x \in Items : bag[x] > 0 }
Least  == { x \in Stored : \A y \in Stored : Key[x] <= Key[y] }
Code(c) == <<"code", c>>

Init == bag = [x \in Items |-> 0] /\ count = 0 /\ answer = Code("OK")

Refuse(code) == answer' = Code(code) /\ UNCHANGED <<bag, count>>

Insert(x) ==
  IF count = Capacity
  THEN Refuse("FULL")
  ELSE /\ bag' = [bag EXCEPT ![x] = @ + 1] /\ count' = count + 1
       /\ answer' = Code("OK")

Remove(i) ==
  CASE count = 0                -> Refuse("EMPTY")
    [] count # 0 /\ i >= count -> Refuse("OUT_OF_BOUNDS")
    [] OTHER ->
         \E x \in IF i = 0 THEN Least ELSE Stored :
           /\ bag' = [bag EXCEPT ![x] = @ - 1] /\ count' = count - 1
           /\ answer' = <<"removed", i, x>>

Top ==
  /\ IF Stored = {} THEN answer' = Code("EMPTY")
                    ELSE \E x \in Least : answer' = <<"top", x>>
  /\ UNCHANGED <<bag, count>>

Find(x) ==
  /\ answer' = <<"found", x, \E y \in Stored : Key[y] = Key[x]>>
  /\ UNCHANGED <<bag, count>>

Clear == bag' = [x \in Items |-> 0] /\ count' = 0 /\ answer' = Code("OK")

Next ==
  \/ \E x \in Items : Insert(x) \/ Find(x)
  \/ \E i \in 0 .. Capacity : Remove(i)
  \/ Top \/ Clear

Spec == Init /\ [][Next]_bvars
=============================================================================
