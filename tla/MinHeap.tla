------------------------------ MODULE MinHeap ------------------------------
(***************************************************************************)
(* min-heap/src/min-heap.c: the binary heap in an array, one step for each *)
(* turn of its loops.  compare is the caller's; it has to be a total       *)
(* preorder, so it is given by a key.                                      *)
(***************************************************************************)
EXTENDS Integers, FiniteSets

CONSTANTS Items, Key, NoItem,  \* values, their keys; a slot never written
          Capacity

ASSUME MinHeapAssumption ==
  /\ Capacity \in Nat \ {0}
  /\ Key \in [Items -> Int]
  /\ NoItem \notin Items

VARIABLES data, size,  \* the array and the number of items
          pc,          \* the loop the call in progress is in
          cur,         \* the index it restores the heap from
          answer       \* what the last call returned, and of what

vars == <<data, size, pc, cur, answer>>

Slots == 0 .. (Capacity - 1)

(* compare(a, b) < 0 of the items in two slots.                            *)
Less(i, j) == Key[data[i]] < Key[data[j]]

Parent(i) == (i - 1) \div 2
Left(i)   == 2 * i + 1
Right(i)  == 2 * i + 2

Swapped(i, j) == [data EXCEPT ![i] = data[j], ![j] = data[i]]

Code(c) == <<"code", c>>
Idle == pc = "idle"

-----------------------------------------------------------------------------
Init ==
  /\ data = [i \in Slots |-> NoItem] /\ size = 0
  /\ pc = "idle" /\ cur = 0
  /\ answer = Code("OK")

Refuse(code) ==
  /\ answer' = Code(code)
  /\ UNCHANGED <<data, size, pc, cur>>

(* Bug the runs have to notice: the heap takes one item too many.          *)
HeapFullLate == size = Capacity + 1

HeapFull == size = Capacity

Insert(x) ==
  /\ Idle
  /\ IF HeapFull
     THEN Refuse("FULL")
     ELSE /\ data' = [data EXCEPT ![size] = x]
          /\ size' = size + 1
          /\ cur' = size /\ pc' = "up"
          /\ answer' = Code("OK")

(* The loop of _min_heap_insert, and the one of _min_heap_remove when the  *)
(* item moved is less than the item removed.                               *)
Up ==
  /\ pc = "up"
  /\ IF cur # 0 /\ Less(cur, Parent(cur))
     THEN /\ data' = Swapped(cur, Parent(cur))
          /\ cur' = Parent(cur)
          /\ UNCHANGED <<size, pc, answer>>
     ELSE pc' = "idle" /\ UNCHANGED <<data, size, cur, answer>>

(* Where the heap goes on when the last item, now in slot i, has taken the *)
(* place of the removed one, now in slot j.  Bug: it only ever moves down. *)
DirectionDown(i, j) == IF i # j THEN "down" ELSE "idle"

Direction(i, j) ==
  CASE i # j /\ Less(j, i) -> "up"
    [] i # j /\ Less(i, j) -> "down"
    [] OTHER               -> "idle"

(* Both items still in their old slots: slot i is removed.                 *)
Remove(i) ==
  /\ Idle
  /\ CASE size = 0              -> Refuse("EMPTY")
       [] size # 0 /\ i >= size -> Refuse("OUT_OF_BOUNDS")
       [] OTHER ->
            /\ data' = Swapped(i, size - 1)
            /\ size' = size - 1
            /\ answer' = <<"removed", i, data[i]>>
            /\ cur' = i
            /\ pc' = Direction(i, size - 1)

(* The lesser child; the left one if the right one is outside the heap.    *)
(* Bug: the greater child.                                                 *)
ChildGreater(i) ==
  IF Right(i) >= size \/ ~Less(Left(i), Right(i)) THEN Left(i) ELSE Right(i)

Child(i) ==
  IF Right(i) >= size \/ Less(Left(i), Right(i)) THEN Left(i) ELSE Right(i)

Down ==
  /\ pc = "down"
  /\ IF Right(cur) < size /\ Less(Child(cur), cur)
     THEN /\ data' = Swapped(cur, Child(cur))
          /\ cur' = Child(cur)
          /\ UNCHANGED <<size, pc, answer>>
     ELSE pc' = "last" /\ UNCHANGED <<data, size, cur, answer>>

(* The left child, which may be an only child.                             *)
Last ==
  /\ pc = "last"
  /\ data' = IF Left(cur) < size /\ Less(Left(cur), cur)
             THEN Swapped(cur, Child(cur))
             ELSE data
  /\ pc' = "idle"
  /\ UNCHANGED <<size, cur, answer>>

(* _min_heap_top, and _min_heap_peek, whose NULL is the EMPTY here.        *)
Top ==
  /\ Idle
  /\ answer' = IF size = 0 THEN Code("EMPTY") ELSE <<"top", data[0]>>
  /\ UNCHANGED <<data, size, pc, cur>>

(* _min_heap_find: whether there is an index to return.                    *)
Find(x) ==
  /\ Idle
  /\ answer' = <<"found", x, \E i \in 0 .. (size - 1) : Key[data[i]] = Key[x]>>
  /\ UNCHANGED <<data, size, pc, cur>>

Clear ==
  /\ Idle
  /\ size' = 0
  /\ answer' = Code("OK")
  /\ UNCHANGED <<data, pc, cur>>

Next ==
  \/ \E x \in Items : Insert(x) \/ Find(x)
  \/ \E i \in 0 .. Capacity : Remove(i)
  \/ Up \/ Down \/ Last
  \/ Top \/ Clear

Spec == Init /\ [][Next]_vars

-----------------------------------------------------------------------------
(* The slots in use are a prefix of the array and hold items.              *)
TypeOK ==
  /\ size \in 0 .. Capacity
  /\ data \in [Slots -> Items \cup {NoItem}]
  /\ \A i \in 0 .. (size - 1) : data[i] \in Items
  /\ pc \in {"idle", "up", "down", "last"}
  /\ cur \in Slots

(* The heap order, except between slot c and its parent (up) or between    *)
(* slot c and its children (down), whose order with the parent of c holds. *)
Ordered(i) == Key[data[Parent(i)]] <= Key[data[i]]
Inner == 1 .. (size - 1)
Bridged(c) ==
  \A i \in Inner : Parent(i) = c /\ c # 0 =>
    Key[data[Parent(c)]] <= Key[data[i]]

(* Between two calls no item is less than its parent: the loop of an       *)
(* insertion and the three ways a removal goes on restore the order.       *)
HeapOrder == Idle => \A i \in Inner : Ordered(i)

(* The inductive invariant of the proofs: what each loop keeps.            *)
UpInv ==
  pc = "up" => /\ cur < size
               /\ \A i \in Inner \ {cur} : Ordered(i)
               /\ Bridged(cur)
DownInv ==
  pc \in {"down", "last"} => /\ cur < size
                             /\ \A i \in Inner : Parent(i) # cur => Ordered(i)
                             /\ Bridged(cur)
LastInv ==
  pc = "last" /\ Right(cur) < size => \A i \in Inner : Ordered(i)

IInv == TypeOK /\ HeapOrder /\ UpInv /\ DownInv /\ LastInv

B == INSTANCE PriorityBag WITH
       bag   <- [x \in Items |->
                   Cardinality({ i \in 0 .. (size - 1) : data[i] = x })],
       count <- size

(* Seen from outside the heap is a bounded bag: no call loses or doubles   *)
(* an item while items move, and the top and the removal of index 0 return *)
(* a least item.                                                           *)
ImplementsBag == B!Spec
=============================================================================
