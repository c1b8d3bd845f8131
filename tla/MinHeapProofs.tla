--------------------------- MODULE MinHeapProofs ---------------------------
(***************************************************************************)
(* The heap order of min-heap, and that it implements the bag of           *)
(* PriorityBag, for every capacity, set of items and total preorder.       *)
(***************************************************************************)
EXTENDS MinHeap, FiniteSetTheorems, WellFoundedInduction, TLAPS

USE MinHeapAssumption

-----------------------------------------------------------------------------
(* The tree in the array.                                                  *)

LEMMA ParentBelow ==
  ASSUME NEW i \in Nat, i # 0
  PROVE  /\ Parent(i) \in Nat /\ Parent(i) < i
         /\ i = Left(Parent(i)) \/ i = Right(Parent(i))
  BY DEF Parent, Left, Right

LEMMA ChildrenOf ==
  ASSUME NEW i \in Nat, NEW j \in Nat
  PROVE  i # 0 /\ Parent(i) = j <=> i = Left(j) \/ i = Right(j)
  BY DEF Parent, Left, Right

LEMMA KeyIsInt ==
  ASSUME TypeOK, NEW i \in 0 .. (size - 1)
  PROVE  i \in Slots /\ i \in Nat /\ Key[data[i]] \in Int
  BY DEF TypeOK, Slots

(* The keys after a swap.                                                  *)
LEMMA SwapKeys ==
  ASSUME TypeOK, NEW i \in Slots, NEW j \in Slots, data' = Swapped(i, j)
  PROVE  /\ data'[i] = data[j] /\ data'[j] = data[i]
         /\ \A k \in Slots : k # i /\ k # j => data'[k] = data[k]
         /\ data' \in [Slots -> Items \cup {NoItem}]
  BY DEF TypeOK, Swapped

(* What is known of a node that has a parent.                              *)
LEMMA Node ==
  ASSUME TypeOK, NEW k \in Inner
  PROVE  /\ k \in Nat /\ k # 0 /\ k < size
         /\ Parent(k) \in Nat /\ Parent(k) < k
         /\ k \in Slots /\ Parent(k) \in Slots
         /\ k = Left(Parent(k)) \/ k = Right(Parent(k))
         /\ Key[data[k]] \in Int /\ Key[data[Parent(k)]] \in Int
<1>1. k \in Nat /\ k # 0 /\ k < size /\ k \in 0 .. (size - 1) /\ size \in Nat
  BY DEF TypeOK, Inner
<1>2. Parent(k) \in Nat /\ Parent(k) < k /\ Parent(k) \in 0 .. (size - 1)
  BY <1>1, ParentBelow
<1>3. QED
  BY <1>1, <1>2, ParentBelow, KeyIsInt

-----------------------------------------------------------------------------
LEMMA InitInv == Init => IInv
  BY DEF Init, IInv, TypeOK, HeapOrder, UpInv, DownInv, LastInv, Idle, Inner,
         Slots

(* The new item is the last node, which has no children.                   *)
LEMMA InvInsert ==
  ASSUME IInv, NEW x \in Items, Insert(x)
  PROVE  IInv'
<1> USE DEF IInv
<1>1. CASE HeapFull
  BY <1>1 DEF Insert, Refuse, TypeOK, HeapOrder, UpInv, DownInv, LastInv,
              Idle, Inner, Ordered, Bridged
<1>2. CASE ~HeapFull
  <2>1. /\ data' = [data EXCEPT ![size] = x] /\ size' = size + 1
        /\ cur' = size /\ pc' = "up" /\ Idle
    BY <1>2 DEF Insert
  <2>2. size \in Slots /\ size \in Nat
    BY <1>2 DEF HeapFull, TypeOK, Slots
  <2>3. TypeOK'
    BY <2>1, <2>2 DEF TypeOK, Slots
  <2>4. ASSUME NEW k \in Inner', k # size PROVE Ordered(k)'
    <3>1. k \in Inner
      BY <2>1, <2>2, <2>4 DEF Inner
    <3>2. data'[k] = data[k] /\ data'[Parent(k)] = data[Parent(k)]
      BY <2>1, <2>2, <3>1, Node DEF TypeOK
    <3>3. QED
      BY <2>1, <3>1, <3>2 DEF HeapOrder, Ordered
  <2>5. ASSUME NEW k \in Inner' PROVE Parent(k) # size
    <3>1. k \in Nat /\ k # 0 /\ k <= size
      BY <2>1, <2>2 DEF Inner
    <3>2. QED
      BY <2>2, <3>1, ParentBelow
  <2>6. QED
    BY <2>1, <2>2, <2>3, <2>4, <2>5
       DEF HeapOrder, UpInv, DownInv, LastInv, Idle, Bridged
<1>3. QED
  BY <1>1, <1>2

(* The item moves up: its new parent is greater no more, and its old       *)
(* parent is not greater than the nodes it is above now.                   *)
LEMMA InvUp ==
  ASSUME IInv, Up
  PROVE  IInv'
<1> USE DEF IInv, Up
<1>1. cur < size /\ size \in Nat /\ cur \in Nat
  BY DEF UpInv, TypeOK, Slots
<1>2. CASE cur # 0 /\ Less(cur, Parent(cur))
  <2>0. PICK p : p = Parent(cur)
    OBVIOUS
  <2>1. cur \in Inner
    BY <1>1, <1>2 DEF Inner
  <2>2. /\ data' = Swapped(cur, p) /\ cur' = p /\ pc' = "up"
        /\ size' = size /\ p \in Slots /\ p < cur /\ p \in Nat /\ cur \in Slots
    BY <1>2, <2>0, <2>1, Node
  <2>3. /\ data'[cur] = data[p] /\ data'[p] = data[cur]
        /\ \A k \in Slots : k # cur /\ k # p => data'[k] = data[k]
        /\ data' \in [Slots -> Items \cup {NoItem}]
    BY <2>2, SwapKeys
  <2>4. TypeOK'
    <3>1. data[cur] \in Items /\ data[p] \in Items
      BY <1>1, <2>2 DEF TypeOK
    <3>2. QED
      BY <1>1, <2>2, <2>3, <3>1 DEF TypeOK, Slots
  <2>5. Key[data[cur]] < Key[data[p]]
    BY <1>2, <2>0 DEF Less
  <2>6. ASSUME NEW k \in Inner, k # p PROVE Ordered(k)'
    <3>1. k # cur => Key[data[Parent(k)]] <= Key[data[k]]
      BY DEF UpInv, Ordered
    <3>2. Parent(k) = cur => Key[data[p]] <= Key[data[k]]
      BY <1>2, <2>0 DEF UpInv, Bridged
    <3>3. k # cur => data'[k] = data[k]
      BY <2>3, <2>6, Node
    <3>4. Parent(k) \notin {cur, p} => data'[Parent(k)] = data[Parent(k)]
      BY <2>3, Node
    <3>5. Key[data'[Parent(k)]] <= Key[data'[k]]
      <4>1. CASE k = cur
        BY <2>0, <2>1, <2>3, <2>5, <4>1, Node
      <4>2. CASE k # cur /\ Parent(k) = cur
        BY <2>0, <2>3, <3>2, <3>3, <4>2
      <4>3. CASE k # cur /\ Parent(k) = p
        BY <2>0, <2>1, <2>3, <2>5, <3>1, <3>3, <4>3, Node
      <4>4. CASE k # cur /\ Parent(k) \notin {cur, p}
        BY <3>1, <3>3, <3>4, <4>4
      <4>5. QED
        BY <4>1, <4>2, <4>3, <4>4
    <3>6. QED
      BY <3>5 DEF Ordered
  <2>7. Bridged(p)'
    <3> SUFFICES ASSUME NEW k \in Inner, Parent(k) = p, p # 0
                 PROVE  Key[data'[Parent(p)]] <= Key[data'[k]]
      BY <2>2 DEF Bridged, Inner
    <3>1. p \in Inner
      BY <1>1, <2>2 DEF Inner
    <3>2. Key[data[Parent(p)]] <= Key[data[p]]
      BY <2>2, <3>1 DEF UpInv, Ordered
    <3>3. data'[Parent(p)] = data[Parent(p)]
      BY <2>2, <2>3, <3>1, Node
    <3>4. CASE k = cur
      BY <2>0, <2>3, <3>2, <3>3, <3>4
    <3>5. CASE k # cur
      <4>1. data'[k] = data[k]
        BY <2>2, <2>3, <3>5, Node
      <4>2. Key[data[p]] <= Key[data[k]]
        BY <3>5 DEF UpInv, Ordered
      <4>3. QED
        BY <3>1, <3>2, <3>3, <4>1, <4>2, Node
    <3>6. QED
      BY <3>4, <3>5
  <2>8. Inner' = Inner
    BY <2>2 DEF Inner
  <2>9. QED
    BY <1>1, <2>2, <2>4, <2>6, <2>7, <2>8
       DEF HeapOrder, UpInv, DownInv, LastInv, Idle
<1>3. CASE ~(cur # 0 /\ Less(cur, Parent(cur)))
  <2>1. pc' = "idle" /\ UNCHANGED <<data, size, cur>>
    BY <1>3
  <2>2. ASSUME NEW k \in Inner PROVE Ordered(k)
    <3>1. CASE k = cur
      BY <1>3, <3>1, Node DEF Less, Ordered
    <3>2. CASE k # cur
      BY <3>2 DEF UpInv
    <3>3. QED
      BY <3>1, <3>2
  <2>3. QED
    BY <2>1, <2>2
       DEF TypeOK, HeapOrder, UpInv, DownInv, LastInv, Idle, Inner, Ordered
<1>4. QED
  BY <1>2, <1>3

(* The lesser child is a child, and not greater than the other one.        *)
LEMMA LesserChild ==
  ASSUME TypeOK, NEW i \in Nat, Right(i) < size
  PROVE  /\ Child(i) \in Inner /\ Parent(Child(i)) = i /\ i < Child(i)
         /\ \A k \in Inner : Parent(k) = i =>
              Key[data[Child(i)]] <= Key[data[k]]
<1>1. /\ Left(i) \in Nat /\ Left(i) < size /\ Right(i) \in Nat
      /\ i < Left(i) /\ i < Right(i) /\ size \in Nat
  BY DEF Left, Right, TypeOK
<1>2. Left(i) \in Inner /\ Right(i) \in Inner
  BY <1>1 DEF Inner
<1>3. Key[data[Left(i)]] \in Int /\ Key[data[Right(i)]] \in Int
  BY <1>2, Node
<1>4. Parent(Left(i)) = i /\ Parent(Right(i)) = i
  BY <1>1, ChildrenOf
<1>5. \A k \in Inner : Parent(k) = i => k = Left(i) \/ k = Right(i)
  BY Node
<1>6. QED
  BY <1>1, <1>2, <1>3, <1>4, <1>5 DEF Child, Less

(* The item moves down: the lesser child takes its place, which is not     *)
(* less than the node above.                                               *)
LEMMA InvDown ==
  ASSUME IInv, Down
  PROVE  IInv'
<1> USE DEF IInv, Down
<1>1. cur < size /\ size \in Nat /\ cur \in Nat /\ cur \in Slots
  BY DEF DownInv, TypeOK, Slots
<1>2. CASE Right(cur) < size /\ Less(Child(cur), cur)
  <2>1. PICK ch : ch = Child(cur)
    OBVIOUS
  <2>2. /\ ch \in Inner /\ Parent(ch) = cur
        /\ \A k \in Inner : Parent(k) = cur => Key[data[ch]] <= Key[data[k]]
    BY <1>1, <1>2, <2>1, LesserChild
  <2>3. /\ data' = Swapped(cur, ch) /\ cur' = ch /\ pc' = "down"
        /\ size' = size /\ ch \in Slots /\ ch \in Nat /\ ch < size
    BY <1>2, <2>1, <2>2, Node
  <2>4. /\ data'[cur] = data[ch] /\ data'[ch] = data[cur]
        /\ \A k \in Slots : k # cur /\ k # ch => data'[k] = data[k]
        /\ data' \in [Slots -> Items \cup {NoItem}]
    BY <1>1, <2>3, SwapKeys
  <2>5. TypeOK'
    <3>1. data[cur] \in Items /\ data[ch] \in Items
      BY <1>1, <2>3 DEF TypeOK
    <3>2. QED
      BY <1>1, <2>3, <2>4, <3>1 DEF TypeOK, Slots
  <2>6. Key[data[ch]] < Key[data[cur]]
    BY <1>2, <2>1 DEF Less
  <2>7. ASSUME NEW k \in Inner, Parent(k) # ch PROVE Ordered(k)'
    <3>1. Parent(k) # cur => Key[data[Parent(k)]] <= Key[data[k]]
      BY DEF DownInv, Ordered
    <3>2. k \notin {cur, ch} => data'[k] = data[k]
      BY <2>4, Node
    <3>3. Parent(k) # cur => data'[Parent(k)] = data[Parent(k)]
      BY <2>4, <2>7, Node
    <3>4. Key[data'[Parent(k)]] <= Key[data'[k]]
      <4>1. CASE k = ch
        BY <2>2, <2>4, <2>6, <4>1, Node
      <4>2. CASE k = cur
        <5>1. Key[data[Parent(cur)]] <= Key[data[ch]]
          BY <2>2, <4>2, Node DEF DownInv, Bridged
        <5>2. Parent(k) # cur
          BY <4>2, Node
        <5>3. QED
          BY <2>4, <3>3, <4>2, <5>1, <5>2
      <4>3. CASE k \notin {cur, ch} /\ Parent(k) = cur
        BY <2>2, <2>4, <3>2, <4>3
      <4>4. CASE k \notin {cur, ch} /\ Parent(k) # cur
        BY <3>1, <3>2, <3>3, <4>4
      <4>5. QED
        BY <4>1, <4>2, <4>3, <4>4
    <3>5. QED
      BY <3>4 DEF Ordered
  <2>8. ASSUME NEW k \in Inner, Parent(k) = ch
        PROVE  Key[data'[Parent(ch)]] <= Key[data'[k]]
    <3>1. ch # cur /\ k # ch /\ k # cur
      BY <1>1, <2>2, <2>3, <2>8, Node
    <3>2. data'[k] = data[k] /\ data'[Parent(ch)] = data[ch]
      BY <2>2, <2>4, <3>1, Node
    <3>3. Key[data[ch]] <= Key[data[k]]
      BY <2>8, <3>1 DEF DownInv, Ordered
    <3>4. QED
      BY <3>2, <3>3
  <2>9. Inner' = Inner
    BY <2>3 DEF Inner
  <2>10. QED
    BY <2>3, <2>5, <2>7, <2>8, <2>9
       DEF HeapOrder, UpInv, DownInv, LastInv, Idle, Bridged
<1>3. CASE ~(Right(cur) < size /\ Less(Child(cur), cur))
  <2>1. pc' = "last" /\ UNCHANGED <<data, size, cur>>
    BY <1>3
  <2>2. ASSUME Right(cur) < size, NEW k \in Inner PROVE Ordered(k)
    <3>1. CASE Parent(k) = cur
      <4>1. Key[data[Child(cur)]] <= Key[data[k]]
        BY <1>1, <2>2, <3>1, LesserChild
      <4>2. Child(cur) \in Inner /\ Key[data[Child(cur)]] \in Int
        BY <1>1, <2>2, LesserChild, Node
      <4>3. Key[data[cur]] <= Key[data[Child(cur)]]
        BY <1>1, <1>3, <2>2, <4>2, KeyIsInt DEF Less
      <4>4. Key[data[cur]] \in Int /\ Key[data[k]] \in Int
        BY <3>1, Node
      <4>5. QED
        BY <3>1, <4>1, <4>2, <4>3, <4>4 DEF Ordered
    <3>2. CASE Parent(k) # cur
      BY <3>2 DEF DownInv
    <3>3. QED
      BY <3>1, <3>2
  <2>3. QED
    BY <2>1, <2>2
       DEF TypeOK, HeapOrder, UpInv, DownInv, LastInv, Idle, Inner, Ordered,
           Bridged
<1>4. QED
  BY <1>2, <1>3

(* If there is anything left to swap it is the only child, a leaf.         *)
LEMMA InvLast ==
  ASSUME IInv, Last
  PROVE  IInv'
<1> USE DEF IInv, Last
<1>1. /\ cur < size /\ size \in Nat /\ cur \in Nat /\ cur \in Slots
      /\ Left(cur) \in Nat /\ cur < Left(cur) /\ Right(cur) = Left(cur) + 1
  BY DEF DownInv, TypeOK, Slots, Left, Right
<1>2. CASE Left(cur) < size /\ Less(Left(cur), cur)
  <2>1. PICK l : l = Left(cur)
    OBVIOUS
  <2>2. /\ l \in Inner /\ Parent(l) = cur /\ l \in Slots
    BY <1>1, <1>2, <2>1, ChildrenOf, Node DEF Inner
  <2>3. Key[data[l]] < Key[data[cur]]
    BY <1>2, <2>1 DEF Less
  <2>4. Right(cur) >= size
    <3>1. ~Ordered(l)
      BY <2>2, <2>3, Node DEF Ordered
    <3>2. QED
      BY <1>1, <2>2, <3>1 DEF LastInv
  <2>5. l = size - 1
    BY <1>1, <1>2, <2>1, <2>4
  <2>6. Child(cur) = l
    BY <2>1, <2>4 DEF Child
  <2>7. data' = Swapped(cur, l) /\ pc' = "idle" /\ UNCHANGED <<size, cur>>
    BY <1>2, <2>6
  <2>8. /\ data'[cur] = data[l] /\ data'[l] = data[cur]
        /\ \A k \in Slots : k # cur /\ k # l => data'[k] = data[k]
        /\ data' \in [Slots -> Items \cup {NoItem}]
    BY <1>1, <2>2, <2>7, SwapKeys
  <2>9. TypeOK'
    <3>1. data[cur] \in Items /\ data[l] \in Items
      BY <1>1, <2>5 DEF TypeOK
    <3>2. QED
      BY <1>1, <2>7, <2>8, <3>1 DEF TypeOK, Slots
  <2>10. ASSUME NEW k \in Inner PROVE Ordered(k)'
    <3>1. Parent(k) # l
      BY <1>1, <2>5, Node
    <3>2. k \notin {cur, l} => data'[k] = data[k]
      BY <2>8, Node
    <3>3. Parent(k) # cur => data'[Parent(k)] = data[Parent(k)]
      BY <2>8, <3>1, Node
    <3>4. Parent(k) # cur => Key[data[Parent(k)]] <= Key[data[k]]
      BY DEF DownInv, Ordered
    <3>5. Key[data'[Parent(k)]] <= Key[data'[k]]
      <4>1. CASE k = l
        BY <2>2, <2>3, <2>8, <4>1, Node
      <4>2. CASE k = cur
        <5>1. Key[data[Parent(cur)]] <= Key[data[l]]
          BY <2>2, <4>2, Node DEF DownInv, Bridged
        <5>2. Parent(k) # cur
          BY <4>2, Node
        <5>3. QED
          BY <2>8, <3>3, <4>2, <5>1, <5>2
      <4>3. CASE k \notin {cur, l} /\ Parent(k) = cur
        BY <1>1, <2>1, <2>4, <4>3, Node
      <4>4. CASE k \notin {cur, l} /\ Parent(k) # cur
        BY <3>2, <3>3, <3>4, <4>4
      <4>5. QED
        BY <4>1, <4>2, <4>3, <4>4
    <3>6. QED
      BY <3>5 DEF Ordered
  <2>11. Inner' = Inner
    BY <2>7 DEF Inner
  <2>12. QED
    BY <2>7, <2>9, <2>10, <2>11
       DEF HeapOrder, UpInv, DownInv, LastInv, Idle
<1>3. CASE ~(Left(cur) < size /\ Less(Left(cur), cur))
  <2>1. pc' = "idle" /\ UNCHANGED <<data, size, cur>>
    BY <1>3
  <2>2. ASSUME NEW k \in Inner PROVE Ordered(k)
    <3>1. CASE Parent(k) # cur
      BY <3>1 DEF DownInv
    <3>2. CASE Parent(k) = cur /\ k = Left(cur)
      BY <1>3, <3>2, Node DEF Less, Ordered
    <3>3. CASE Parent(k) = cur /\ k = Right(cur)
      BY <3>3, Node DEF LastInv
    <3>4. QED
      BY <3>1, <3>2, <3>3, Node
  <2>3. QED
    BY <2>1, <2>2
       DEF TypeOK, HeapOrder, UpInv, DownInv, LastInv, Idle, Inner, Ordered
<1>4. QED
  BY <1>2, <1>3

(* The last item takes the place of the removed one, whose parent and      *)
(* children were in order with it.                                         *)
LEMMA InvRemove ==
  ASSUME IInv, NEW i \in 0 .. Capacity, Remove(i)
  PROVE  IInv'
<1> USE DEF IInv
<1>1. CASE size = 0 \/ i >= size
  BY <1>1 DEF Remove, Refuse, TypeOK, HeapOrder, UpInv, DownInv, LastInv,
              Idle, Inner, Ordered, Bridged
<1>2. CASE ~(size = 0 \/ i >= size)
  <2>1. PICK lst : lst = size - 1
    OBVIOUS
  <2>2. /\ size \in Nat /\ lst \in Nat /\ i \in Nat /\ i <= lst
        /\ lst \in Slots /\ i \in Slots /\ size' = lst
    BY <1>2, <2>1 DEF Remove, TypeOK, Slots
  <2>3. /\ data' = Swapped(i, lst) /\ cur' = i
        /\ pc' = Direction(i, lst) /\ Idle
    BY <1>2, <2>1 DEF Remove
  <2>4. /\ data'[i] = data[lst] /\ data'[lst] = data[i]
        /\ \A k \in Slots : k # i /\ k # lst => data'[k] = data[k]
        /\ data' \in [Slots -> Items \cup {NoItem}]
    BY <2>2, <2>3, SwapKeys
  <2>5. /\ data[i] \in Items /\ data[lst] \in Items
        /\ Key[data[i]] \in Int /\ Key[data[lst]] \in Int
    BY <2>1, <2>2 DEF TypeOK
  <2>6. TypeOK'
    <3>1. pc' \in {"idle", "up", "down", "last"}
      BY <2>3 DEF Direction
    <3>2. \A k \in 0 .. (size' - 1) : data'[k] \in Items
      BY <2>1, <2>2, <2>4, <2>5 DEF TypeOK, Slots
    <3>3. QED
      BY <2>2, <2>3, <2>4, <3>1, <3>2 DEF TypeOK, Slots
  <2>7. ASSUME NEW k \in Inner'
        PROVE  /\ k \in Inner /\ k # lst /\ Parent(k) # lst
               /\ Key[data[Parent(k)]] <= Key[data[k]]
    <3>1. k \in Inner /\ k # lst /\ k < lst
      BY <2>1, <2>2 DEF Inner
    <3>2. QED
      BY <2>2, <2>3, <3>1, Node DEF HeapOrder, Ordered
  <2>8. ASSUME NEW k \in Inner', k # i, Parent(k) # i PROVE Ordered(k)'
    BY <2>4, <2>7, <2>8, Node DEF Ordered
  <2>9. ASSUME NEW k \in Inner', Parent(k) = i, i # 0
        PROVE  Key[data'[Parent(i)]] <= Key[data'[k]]
    <3>1. i \in Inner /\ k # i
      BY <1>2, <2>2, <2>7, <2>9, Node DEF Inner
    <3>2. Key[data[Parent(i)]] <= Key[data[i]]
      BY <2>3, <3>1 DEF HeapOrder, Ordered
    <3>3. /\ k \in Slots /\ k # lst /\ Key[data[k]] \in Int
          /\ Key[data[i]] <= Key[data[k]]
      BY <2>7, <2>9, Node
    <3>4. /\ Parent(i) \in Slots /\ Parent(i) # i /\ Parent(i) # lst
          /\ Key[data[Parent(i)]] \in Int
      BY <2>2, <3>1, Node
    <3>5. data'[k] = data[k] /\ data'[Parent(i)] = data[Parent(i)]
      BY <2>4, <3>1, <3>3, <3>4
    <3>6. QED
      BY <2>5, <3>2, <3>3, <3>4, <3>5
  <2>10. ASSUME NEW k \in Inner', Parent(k) = i, Key[data[lst]] <= Key[data[i]]
         PROVE  Ordered(k)'
    <3>1. k # i /\ data'[k] = data[k]
      BY <2>2, <2>4, <2>7, <2>10, Node
    <3>2. QED
      BY <2>4, <2>5, <2>7, <2>10, <3>1, Node DEF Ordered
  <2>11. ASSUME i \in Inner', Key[data[i]] <= Key[data[lst]] PROVE Ordered(i)'
    <3>1. i \in Inner /\ Parent(i) # i /\ Parent(i) # lst
      BY <2>7, <2>11, Node
    <3>2. data'[Parent(i)] = data[Parent(i)]
      BY <2>4, <3>1, Node
    <3>3. QED
      BY <2>4, <2>5, <2>7, <2>11, <3>1, <3>2, Node DEF Ordered
  <2>12. Bridged(i)'
    BY <2>9 DEF Bridged
  <2>13. CASE i # lst /\ Less(lst, i)
    <3>1. pc' = "up" /\ Key[data[lst]] <= Key[data[i]] /\ i < lst
      BY <2>2, <2>3, <2>5, <2>13 DEF Direction, Less
    <3>2. \A k \in Inner' \ {i} : Ordered(k)'
      BY <2>8, <2>10, <3>1
    <3>3. QED
      BY <2>2, <2>3, <2>6, <2>12, <3>1, <3>2
         DEF HeapOrder, UpInv, DownInv, LastInv, Idle, Bridged
  <2>14. CASE i # lst /\ ~Less(lst, i) /\ Less(i, lst)
    <3>1. pc' = "down" /\ Key[data[i]] <= Key[data[lst]] /\ i < lst
      BY <2>2, <2>3, <2>5, <2>14 DEF Direction, Less
    <3>2. \A k \in Inner' : Parent(k) # i => Ordered(k)'
      BY <2>8, <2>11, <3>1
    <3>3. QED
      BY <2>2, <2>3, <2>6, <2>12, <3>1, <3>2
         DEF HeapOrder, UpInv, DownInv, LastInv, Idle, Bridged
  <2>15. CASE i = lst \/ (~Less(lst, i) /\ ~Less(i, lst))
    <3>1. pc' = "idle"
      BY <2>3, <2>15 DEF Direction
    <3>2. Key[data[lst]] <= Key[data[i]] /\ Key[data[i]] <= Key[data[lst]]
      BY <2>5, <2>15 DEF Less
    <3>3. \A k \in Inner' : Ordered(k)'
      BY <2>8, <2>10, <2>11, <3>2
    <3>4. QED
      BY <2>6, <3>1, <3>3 DEF HeapOrder, UpInv, DownInv, LastInv, Idle
  <2>16. QED
    BY <2>13, <2>14, <2>15
<1>3. QED
  BY <1>1, <1>2

LEMMA InductiveStep == IInv /\ [Next]_vars => IInv'
<1> SUFFICES ASSUME IInv, [Next]_vars PROVE IInv'
  OBVIOUS
<1>1. CASE Clear
  BY <1>1 DEF Clear, IInv, TypeOK, HeapOrder, UpInv, DownInv, LastInv, Idle,
              Inner
<1>2. CASE UNCHANGED <<data, size, pc, cur>>
  BY <1>2 DEF IInv, TypeOK, HeapOrder, UpInv, DownInv, LastInv, Idle, Inner,
              Ordered, Bridged
<1>3. QED
  BY <1>1, <1>2, InvInsert, InvUp, InvDown, InvLast, InvRemove
     DEF Next, vars, Top, Find

(* The loops keep what they need, whatever the sequence of calls.          *)
THEOREM Invariance == Spec => []IInv
<1>1. QED
  BY InitInv, InductiveStep, PTL DEF Spec

(* The items occupy a prefix of the array, and every index is inside it.   *)
THEOREM TypeCorrect == Spec => []TypeOK
<1>1. IInv => TypeOK
  BY DEF IInv
<1>2. QED
  BY <1>1, Invariance, PTL

(* Between two calls the array is a heap.                                  *)
THEOREM Order == Spec => []HeapOrder
<1>1. IInv => HeapOrder
  BY DEF IInv
<1>2. QED
  BY <1>1, Invariance, PTL

-----------------------------------------------------------------------------
(* The heap implements the bag.  First the top: the nearest item to it     *)
(* that is less would be less than its parent.                             *)

LEMMA LeastOf ==
  ASSUME NEW S \in SUBSET Nat, S # {}
  PROVE  \E x \in S : \A y \in S : x <= y
<1>1. IsWellFoundedOn(OpToRel(<, Nat), Nat)
  BY NatLessThanWellFounded, Zenon
<1>2. PICK x \in S : \A y \in S : ~(<<y, x>> \in OpToRel(<, Nat))
  BY <1>1, WFMin, Zenon
<1>3. \A y \in S : ~(y < x)
  BY <1>2 DEF OpToRel
<1>4. QED
  BY <1>3

LEMMA TopLeast ==
  ASSUME IInv, Idle, NEW i \in 0 .. (size - 1)
  PROVE  Key[data[0]] <= Key[data[i]]
<1> DEFINE Smaller == { k \in 0 .. (size - 1) : Key[data[k]] < Key[data[0]] }
<1>1. TypeOK /\ size \in Nat /\ \A k \in Inner : Ordered(k)
  BY DEF IInv, TypeOK, HeapOrder
<1>2. 0 \in 0 .. (size - 1)
  BY <1>1
<1>3. \A k \in 0 .. (size - 1) : Key[data[k]] \in Int
  BY <1>1, KeyIsInt
<1>4. CASE Smaller # {}
  <2>1. PICK k \in Smaller : \A m \in Smaller : k <= m
    BY <1>1, <1>4, Smaller \subseteq Nat, LeastOf
  <2>2. k \in Inner
    BY <1>1, <1>2, <1>3, <2>1 DEF Inner
  <2>3. /\ Parent(k) \in 0 .. (size - 1) /\ Parent(k) < k
        /\ Key[data[Parent(k)]] <= Key[data[k]]
    BY <1>1, <2>2, Node DEF Ordered
  <2>4. Parent(k) \in Smaller
    BY <1>2, <1>3, <2>1, <2>3
  <2>5. QED
    BY <1>1, <2>1, <2>3, <2>4
<1>5. CASE Smaller = {}
  BY <1>2, <1>3, <1>5
<1>6. QED
  BY <1>4, <1>5

(* How often an item is in the first n slots.                              *)
Places(d, n, x) == { i \in 0 .. (n - 1) : d[i] = x }
Count(d, n, x)  == Cardinality(Places(d, n, x))

LEMMA PlacesFinite ==
  ASSUME NEW d, NEW n \in Nat, NEW x
  PROVE  /\ IsFiniteSet(Places(d, n, x)) /\ Count(d, n, x) \in Nat
         /\ Count(d, n, x) > 0 <=> \E i \in 0 .. (n - 1) : d[i] = x
<1>1. IsFiniteSet(0 .. (n - 1))
  BY FS_Interval
<1>2. IsFiniteSet(Places(d, n, x))
  BY <1>1, FS_Subset DEF Places
<1>3. Count(d, n, x) \in Nat /\ (Count(d, n, x) = 0 <=> Places(d, n, x) = {})
  BY <1>2, FS_CardinalityType, FS_EmptySet DEF Count
<1>4. QED
  BY <1>2, <1>3 DEF Places

LEMMA CountGrows ==
  ASSUME NEW d, NEW n \in Nat, NEW e, \A i \in 0 .. (n - 1) : e[i] = d[i],
         NEW x
  PROVE  Count(e, n + 1, x) = IF x = e[n] THEN Count(d, n, x) + 1
                              ELSE Count(d, n, x)
<1>1. Places(e, n + 1, x) = IF x = e[n] THEN Places(d, n, x) \cup {n}
                            ELSE Places(d, n, x)
  <2>1. 0 .. (n + 1 - 1) = (0 .. (n - 1)) \cup {n}
    OBVIOUS
  <2>2. QED
    BY <2>1 DEF Places
<1>2. n \notin Places(d, n, x)
  BY DEF Places
<1>3. QED
  BY <1>1, <1>2, PlacesFinite, FS_AddElement DEF Count

(* Exchanging two items changes no count.                                  *)
LEMMA CountSwapped ==
  ASSUME NEW d, NEW n \in Nat, NEW e, NEW i \in 0 .. (n - 1),
         NEW j \in 0 .. (n - 1), e[i] = d[j], e[j] = d[i],
         \A k \in 0 .. (n - 1) : k # i /\ k # j => e[k] = d[k],
         NEW x
  PROVE  Count(e, n, x) = Count(d, n, x)
<1> DEFINE P == Places(d, n, x)
<1>1. IsFiniteSet(P) /\ Cardinality(P) \in Nat
  BY PlacesFinite DEF Count
<1>2. CASE d[i] = x <=> d[j] = x
  <2>1. Places(e, n, x) = P
    BY <1>2 DEF Places
  <2>2. QED
    BY <2>1 DEF Count
<1>3. ASSUME NEW a \in {i, j}, NEW b \in {i, j}, a # b,
             a \in P, b \notin P
      PROVE  Cardinality((P \ {a}) \cup {b}) = Cardinality(P)
  <2>1. IsFiniteSet(P \ {a}) /\ Cardinality(P \ {a}) = Cardinality(P) - 1
    BY <1>1, <1>3, FS_RemoveElement
  <2>2. Cardinality((P \ {a}) \cup {b}) = Cardinality(P \ {a}) + 1
    BY <1>3, <2>1, FS_AddElement
  <2>3. QED
    BY <1>1, <2>1, <2>2
<1>4. CASE d[i] = x /\ d[j] # x
  <2>1. Places(e, n, x) = (P \ {i}) \cup {j}
    BY <1>4 DEF Places
  <2>2. i # j /\ i \in P /\ j \notin P
    BY <1>4 DEF Places
  <2>3. QED
    BY <1>3, <2>1, <2>2 DEF Count
<1>5. CASE d[i] # x /\ d[j] = x
  <2>1. Places(e, n, x) = (P \ {j}) \cup {i}
    BY <1>5 DEF Places
  <2>2. i # j /\ j \in P /\ i \notin P
    BY <1>5 DEF Places
  <2>3. QED
    BY <1>3, <2>1, <2>2 DEF Count
<1>6. QED
  BY <1>2, <1>4, <1>5

Contents == [x \in Items |-> Count(data, size, x)]

LEMMA ContentsIs ==
  LET bag == [x \in Items |-> Cardinality({ i \in 0 .. (size - 1) : data[i] = x })]
  IN  bag = Contents /\ bag' = Contents'
BY DEF Contents, Count, Places

LEMMA StoredIs ==
  ASSUME IInv, NEW x \in Items
  PROVE  Contents[x] > 0 <=> \E i \in 0 .. (size - 1) : data[i] = x
BY PlacesFinite DEF Contents, IInv, TypeOK

LEMMA SwapKeeps ==
  ASSUME TypeOK, NEW i \in 0 .. (size - 1), NEW j \in 0 .. (size - 1),
         data' = Swapped(i, j), size' = size
  PROVE  Contents' = Contents
<1>1. size \in Nat /\ i \in Slots /\ j \in Slots
  BY DEF TypeOK, Slots
<1>2. /\ data'[i] = data[j] /\ data'[j] = data[i]
      /\ \A k \in Slots : k # i /\ k # j => data'[k] = data[k]
  BY <1>1, SwapKeys
<1>3. \A k \in 0 .. (size - 1) : k \in Slots
  BY DEF TypeOK, Slots
<1>4. \A x : Count(data', size, x) = Count(data, size, x)
  BY <1>1, <1>2, <1>3, CountSwapped
<1>5. QED
  BY <1>4 DEF Contents

LEMMA BeginsAlike == Init => B!Init
<1> SUFFICES ASSUME Init PROVE B!Init
  OBVIOUS
<1>1. size = 0 /\ answer = B!Code("OK")
  BY DEF Init, Code, B!Code
<1>2. 0 .. (size - 1) = {}
  BY <1>1
<1>3. [x \in Items |-> Cardinality({ i \in 0 .. (size - 1) : data[i] = x })]
        = [x \in Items |-> 0]
  BY <1>2, FS_EmptySet
<1>4. QED
  BY <1>1, <1>3 DEF B!Init

(* The turns of the loops are not seen from outside.                       *)
LEMMA LoopsUnseen ==
  ASSUME IInv, Up \/ Down \/ Last \/ UNCHANGED vars
  PROVE  UNCHANGED B!bvars
<1>1. TypeOK /\ size \in Nat /\ size' = size /\ answer' = answer
  BY DEF IInv, TypeOK, Up, Down, Last, vars
<1>2. Contents' = Contents
  <2>1. CASE UNCHANGED data
    BY <1>1, <2>1 DEF Contents
  <2>2. CASE Up /\ ~UNCHANGED data
    <3>1. cur # 0 /\ cur < size /\ data' = Swapped(cur, Parent(cur))
      BY <2>2 DEF Up, IInv, UpInv
    <3>2. cur \in Inner
      BY <1>1, <3>1 DEF TypeOK, Slots, Inner
    <3>3. cur \in 0 .. (size - 1) /\ Parent(cur) \in 0 .. (size - 1)
      BY <1>1, <3>2, Node
    <3>4. QED
      BY <1>1, <3>1, <3>3, SwapKeeps
  <2>3. CASE (Down \/ Last) /\ ~UNCHANGED data
    <3>1. /\ cur < size /\ data' = Swapped(cur, Child(cur))
          /\ Left(cur) < size
      BY <1>1, <2>3 DEF Down, Last, IInv, DownInv, TypeOK, Slots, Left, Right
    <3>2. Child(cur) \in 0 .. (size - 1) /\ cur \in 0 .. (size - 1)
      BY <1>1, <3>1 DEF TypeOK, Slots, Child, Left, Right
    <3>3. QED
      BY <1>1, <3>1, <3>2, SwapKeeps
  <2>4. QED
    BY <2>1, <2>2, <2>3 DEF vars
<1>3. QED
  BY <1>1, <1>2, ContentsIs DEF B!bvars

LEMMA InsertsAlike ==
  ASSUME IInv, NEW x \in Items, Insert(x)
  PROVE  B!Insert(x)
<1>1. TypeOK /\ size \in Nat
  BY DEF IInv, TypeOK
<1>2. CASE HeapFull
  <2>1. UNCHANGED <<data, size>> /\ answer' = B!Code("FULL")
    BY <1>2 DEF Insert, Refuse, Code, B!Code
  <2>2. Contents' = Contents
    BY <2>1 DEF Contents
  <2>3. QED
    BY <1>2, <2>1, <2>2, ContentsIs DEF HeapFull, B!Insert, B!Refuse
<1>3. CASE ~HeapFull
  <2>1. /\ data' = [data EXCEPT ![size] = x] /\ size' = size + 1
        /\ answer' = B!Code("OK")
    BY <1>3 DEF Insert, Code, B!Code
  <2>2. size \in Slots
    BY <1>1, <1>3 DEF HeapFull, TypeOK, Slots
  <2>3. data'[size] = x /\ \A i \in 0 .. (size - 1) : data'[i] = data[i]
    BY <1>1, <2>1, <2>2 DEF TypeOK, Slots
  <2>4. \A y : Count(data', size + 1, y) =
                 IF y = x THEN Count(data, size, y) + 1 ELSE Count(data, size, y)
    BY <1>1, <2>3, CountGrows
  <2>5. Contents' = [Contents EXCEPT ![x] = @ + 1]
    BY <2>1, <2>4 DEF Contents
  <2>6. QED
    BY <1>3, <2>1, <2>5, ContentsIs DEF HeapFull, B!Insert
<1>4. QED
  BY <1>2, <1>3

LEMMA RemovesAlike ==
  ASSUME IInv, NEW i \in 0 .. Capacity, Remove(i)
  PROVE  B!Remove(i)
<1>1. TypeOK /\ size \in Nat /\ Idle
  BY DEF IInv, TypeOK, Remove
<1>2. CASE size = 0 \/ i >= size
  <2>1. /\ UNCHANGED <<data, size>>
        /\ answer' = IF size = 0 THEN B!Code("EMPTY")
                                 ELSE B!Code("OUT_OF_BOUNDS")
    BY <1>1, <1>2 DEF Remove, Refuse, Code, B!Code
  <2>2. Contents' = Contents
    BY <2>1 DEF Contents
  <2>3. QED
    BY <1>2, <2>1, <2>2, ContentsIs DEF B!Remove, B!Refuse
<1>3. CASE ~(size = 0 \/ i >= size)
  <2> DEFINE lst == size - 1
  <2>1. /\ data' = Swapped(i, lst) /\ size' = lst
        /\ answer' = <<"removed", i, data[i]>>
    BY <1>1, <1>3 DEF Remove
  <2>2. /\ i \in 0 .. lst /\ lst \in 0 .. lst /\ lst \in Nat
        /\ size = lst + 1
        /\ \A k \in 0 .. lst : k \in Slots
    BY <1>1, <1>3 DEF TypeOK, Slots
  <2>3. /\ data'[i] = data[lst] /\ data'[lst] = data[i]
        /\ \A k \in 0 .. lst : k # i /\ k # lst => data'[k] = data[k]
    BY <1>1, <2>1, <2>2, SwapKeys
  <2> HIDE DEF lst
  <2>4. \A x : Count(data', lst + 1, x) = Count(data, lst + 1, x)
    BY <2>2, <2>3, CountSwapped
  <2>5. \A x : Count(data', lst + 1, x) =
                 IF x = data[i] THEN Count(data', lst, x) + 1
                 ELSE Count(data', lst, x)
    BY <2>2, <2>3, CountGrows
  <2>6. \A x : Count(data', lst, x) \in Nat
    BY <2>2, PlacesFinite
  <2>7. data[i] \in Items
    BY <1>1, <2>2 DEF TypeOK
  <2>8. Contents' = [Contents EXCEPT ![data[i]] = @ - 1]
    <3>1. \A x : Count(data', lst, x) =
                   IF x = data[i] THEN Count(data, size, x) - 1
                   ELSE Count(data, size, x)
      BY <2>2, <2>4, <2>5, <2>6
    <3>2. QED
      BY <2>1, <2>7, <3>1 DEF Contents
  <2>9. Contents[data[i]] > 0
    BY <2>2, <2>7, StoredIs
  <2>10. i = 0 => \A y \in Items : Contents[y] > 0 => Key[data[i]] <= Key[y]
    BY <1>1, StoredIs, TopLeast
  <2>11. data[i] \in IF i = 0 THEN B!Least ELSE B!Stored
    BY <2>7, <2>9, <2>10, ContentsIs DEF B!Least, B!Stored
  <2>12. size' = size - 1
    BY <2>1, <2>2
  <2> DEFINE bag == [x \in Items |->
                      Cardinality({ k \in 0 .. (size - 1) : data[k] = x })]
  <2>13. bag' = [bag EXCEPT ![data[i]] = @ - 1]
    BY <2>8, ContentsIs
  <2>14. \E x \in IF i = 0 THEN B!Least ELSE B!Stored :
           /\ bag' = [bag EXCEPT ![x] = @ - 1] /\ size' = size - 1
           /\ answer' = <<"removed", i, x>>
    BY <2>1, <2>11, <2>12, <2>13
  <2>15. QED
    BY <1>3, <2>14 DEF B!Remove
<1>4. QED
  BY <1>2, <1>3

LEMMA QueriesAlike ==
  ASSUME IInv
  PROVE  /\ Top => B!Top
         /\ Clear => B!Clear
         /\ \A x \in Items : Find(x) => B!Find(x)
<1>1. TypeOK /\ size \in Nat /\ \A i \in 0 .. (size - 1) : data[i] \in Items
  BY DEF IInv, TypeOK
<1>2. \A x \in Items : x \in B!Stored <=> \E i \in 0 .. (size - 1) : data[i] = x
  BY StoredIs, ContentsIs DEF B!Stored
<1>3. B!Stored \subseteq Items
  BY DEF B!Stored
<1>4. UNCHANGED <<data, size>> => Contents' = Contents
  BY DEF Contents
<1>5. ASSUME Top PROVE B!Top
  <2>1. UNCHANGED <<data, size>> /\ Idle
    BY <1>5 DEF Top
  <2>2. CASE size = 0
    <3>1. B!Stored = {}
      BY <1>2, <1>3, <2>2
    <3>2. QED
      BY <1>4, <1>5, <2>1, <2>2, <3>1, ContentsIs
         DEF Top, Code, B!Top, B!Code
  <2>3. CASE size # 0
    <3>1. 0 \in 0 .. (size - 1)
      BY <1>1, <2>3
    <3>2. data[0] \in B!Least
      BY <1>1, <1>2, <1>3, <2>1, <3>1, TopLeast DEF B!Least
    <3>3. B!Stored # {}
      BY <3>2 DEF B!Least
    <3>4. answer' = <<"top", data[0]>>
      BY <1>5, <2>3 DEF Top
    <3>5. QED
      BY <1>4, <2>1, <3>2, <3>3, <3>4, ContentsIs DEF B!Top
  <2>4. QED
    BY <2>2, <2>3
<1>6. ASSUME Clear PROVE B!Clear
  <2>1. size' = 0 /\ answer' = B!Code("OK")
    BY <1>6 DEF Clear, Code, B!Code
  <2>2. 0 .. (size' - 1) = {}
    BY <2>1
  <2>3. [x \in Items |-> Cardinality({ i \in 0 .. (size' - 1) : data'[i] = x })]
          = [x \in Items |-> 0]
    BY <2>2, FS_EmptySet
  <2>4. QED
    BY <2>1, <2>3 DEF B!Clear
<1>7. ASSUME NEW x \in Items, Find(x) PROVE B!Find(x)
  <2>1. (\E y \in B!Stored : Key[y] = Key[x])
          = \E i \in 0 .. (size - 1) : Key[data[i]] = Key[x]
    BY <1>1, <1>2, <1>3
  <2>2. QED
    BY <1>4, <1>7, <2>1, ContentsIs DEF Find, B!Find
<1>8. QED
  BY <1>5, <1>6, <1>7

(* For every capacity and every total preorder: no call loses or doubles   *)
(* an item while the loops move items, the top and the removal of index 0  *)
(* answer with a least item, and a removal at any other index with an item *)
(* that was stored.                                                        *)
THEOREM Implements == Spec => ImplementsBag
<1>1. IInv /\ [Next]_vars => [B!Next]_B!bvars
  <2> SUFFICES ASSUME IInv, [Next]_vars PROVE [B!Next]_B!bvars
    OBVIOUS
  <2>1. ASSUME NEW x \in Items, Insert(x) PROVE B!Next
    BY <2>1, InsertsAlike DEF B!Next
  <2>2. ASSUME NEW i \in 0 .. Capacity, Remove(i) PROVE B!Next
    BY <2>2, RemovesAlike DEF B!Next
  <2>3. CASE Top \/ Clear
    BY <2>3, QueriesAlike DEF B!Next
  <2>4. ASSUME NEW x \in Items, Find(x) PROVE B!Next
    BY <2>4, QueriesAlike DEF B!Next
  <2>5. CASE Up \/ Down \/ Last \/ UNCHANGED vars
    BY <2>5, LoopsUnseen
  <2>6. QED
    BY <2>1, <2>2, <2>3, <2>4, <2>5 DEF Next
<1>2. QED
  BY <1>1, BeginsAlike, Invariance, PTL DEF Spec, ImplementsBag, B!Spec
=============================================================================
