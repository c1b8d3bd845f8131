-------------------------- MODULE FastInsertProofs --------------------------
(***************************************************************************)
(* What holds of FastInsert for every capacity, every set of priorities    *)
(* and messages and every monotone ageing function.                        *)
(***************************************************************************)
EXTENDS FastInsert, FiniteSetTheorems, TLAPS

USE FastInsertAssumption

-----------------------------------------------------------------------------
(* The circular buffer: where the next slot is, and how far two slots lie  *)
(* apart.                                                                  *)

LEMMA AdvanceIs ==
  ASSUME NEW i \in Slots
  PROVE  Advance(i) = IF i = Capacity - 1 THEN 0 ELSE i + 1
<1>1. CASE i = Capacity - 1
  <2>1. Capacity % Capacity = 0
    OBVIOUS
  <2>2. QED
    BY <1>1, <2>1 DEF Slots, Advance
<1>2. CASE i # Capacity - 1
  <2>1. i + 1 \in 0 .. (Capacity - 1)
    BY <1>2 DEF Slots
  <2>2. QED
    BY <1>2, <2>1 DEF Advance
<1>3. QED
  BY <1>1, <1>2

LEMMA DistanceIs ==
  ASSUME NEW i \in Slots, NEW j \in Slots
  PROVE  Distance(i, j) = IF i <= j THEN j - i ELSE j - i + Capacity
<1>1. CASE i <= j
  <2>1. j - i \in 0 .. (Capacity - 1)
    BY <1>1 DEF Slots
  <2>2. QED
    BY <1>1, <2>1 DEF Distance
<1>2. CASE i > j
  <2>1. j - i + Capacity \in 0 .. (Capacity - 1)
    BY <1>2 DEF Slots
  <2>2. (j - i) % Capacity = j - i + Capacity
    BY <2>1 DEF Slots
  <2>3. QED
    BY <1>2, <2>2 DEF Distance, Slots
<1>3. QED
  BY <1>1, <1>2 DEF Slots

LEMMA Next1 ==
  ASSUME NEW i \in Slots
  PROVE  /\ Advance(i) \in Slots
         /\ \A j \in Slots : Advance(i) = Advance(j) => i = j
         /\ \E j \in Slots : Advance(j) = i
<1>1. Advance(i) \in Slots /\ \A j \in Slots : Advance(i) = Advance(j) => i = j
  BY AdvanceIs DEF Slots
<1>2. \E j \in Slots : Advance(j) = i
  <2>1. CASE i = 0
    BY <2>1, AdvanceIs, Capacity - 1 \in Slots DEF Slots
  <2>2. CASE i # 0
    BY <2>2, AdvanceIs, i - 1 \in Slots DEF Slots
  <2>3. QED
    BY <2>1, <2>2
<1>3. QED
  BY <1>1, <1>2

LEMMA Apart ==
  ASSUME NEW f \in Slots, NEW i \in Slots
  PROVE  /\ Distance(f, i) \in Slots
         /\ Distance(f, i) = 0 <=> i = f
         /\ \A j \in Slots : Distance(f, i) = Distance(f, j) => i = j
  BY DistanceIs DEF Slots

(* One slot further, and seen from one slot further.                       *)
LEMMA Further ==
  ASSUME NEW f \in Slots, NEW i \in Slots
  PROVE  /\ Distance(f, Advance(i)) =
              IF Advance(i) = f THEN 0 ELSE Distance(f, i) + 1
         /\ Advance(i) = f <=> Distance(f, i) = Capacity - 1
         /\ Distance(Advance(f), i) =
              IF i = f THEN Capacity - 1 ELSE Distance(f, i) - 1
<1>1. Advance(i) \in Slots /\ Advance(f) \in Slots
  BY Next1
<1>2. Advance(i) = IF i = Capacity - 1 THEN 0 ELSE i + 1
  BY AdvanceIs
<1>3. Advance(f) = IF f = Capacity - 1 THEN 0 ELSE f + 1
  BY AdvanceIs
<1>4. Distance(f, i) = IF f <= i THEN i - f ELSE i - f + Capacity
  BY DistanceIs
<1>5. Distance(f, Advance(i)) =
        IF f <= Advance(i) THEN Advance(i) - f ELSE Advance(i) - f + Capacity
  BY <1>1, DistanceIs
<1>6. Distance(Advance(f), i) =
        IF Advance(f) <= i THEN i - Advance(f) ELSE i - Advance(f) + Capacity
  BY <1>1, DistanceIs
<1>7. Distance(f, Advance(i)) =
        IF Advance(i) = f THEN 0 ELSE Distance(f, i) + 1
  BY <1>1, <1>2, <1>4, <1>5 DEF Slots
<1>8. Advance(i) = f <=> Distance(f, i) = Capacity - 1
  BY <1>2, <1>4 DEF Slots
<1>9. Distance(Advance(f), i) =
        IF i = f THEN Capacity - 1 ELSE Distance(f, i) - 1
  BY <1>1, <1>3, <1>4, <1>6 DEF Slots
<1>10. QED
  BY <1>7, <1>8, <1>9

(* The slots of a segment, by how far they lie behind its first.           *)
Between(f, lo, hi) ==
  { i \in Slots : lo <= Distance(f, i) /\ Distance(f, i) < hi }

LEMMA AtDistance ==
  ASSUME NEW f \in Slots, NEW k \in Slots
  PROVE  (f + k) % Capacity \in Slots /\ Distance(f, (f + k) % Capacity) = k
<1>1. Capacity \in Nat \ {0}
  BY FastInsertAssumption
<1>2. CASE f + k < Capacity
  <2>1. f + k \in 0 .. (Capacity - 1)
    BY <1>1, <1>2 DEF Slots
  <2>2. (f + k) % Capacity = f + k
    BY <1>1, <2>1
  <2>3. QED
    BY <1>1, <2>1, <2>2, DistanceIs DEF Slots
<1>3. CASE f + k >= Capacity
  <2>1. f + k - Capacity \in 0 .. (Capacity - 1)
    BY <1>1, <1>3 DEF Slots
  <2>2. (f + k) % Capacity = f + k - Capacity
    BY <1>1, <2>1 DEF Slots
  <2>3. QED
    BY <1>1, <2>1, <2>2, DistanceIs DEF Slots
<1>4. QED
  BY <1>1, <1>2, <1>3 DEF Slots

LEMMA SegmentBetween ==
  ASSUME NEW f \in Slots, NEW n \in 0 .. Capacity
  PROVE  Segment(f, n) = Between(f, 0, n)
<1>1. Capacity \in Nat \ {0}
  BY FastInsertAssumption
<1>2. ASSUME NEW i \in Segment(f, n) PROVE i \in Between(f, 0, n)
  <2>1. PICK k \in 0 .. (n - 1) : i = (f + k) % Capacity
    BY DEF Segment
  <2>2. k \in Slots /\ k < n
    BY <1>1 DEF Slots
  <2>3. i \in Slots /\ Distance(f, i) = k
    BY <2>1, <2>2, AtDistance
  <2>4. QED
    BY <2>2, <2>3 DEF Between, Slots
<1>3. ASSUME NEW i \in Between(f, 0, n) PROVE i \in Segment(f, n)
  <2>1. i \in Slots /\ Distance(f, i) < n
    BY DEF Between
  <2>2. Distance(f, i) \in Slots
    BY <2>1, Apart
  <2>3. /\ (f + Distance(f, i)) % Capacity \in Slots
        /\ Distance(f, (f + Distance(f, i)) % Capacity) = Distance(f, i)
    BY <2>2, AtDistance
  <2>4. (f + Distance(f, i)) % Capacity = i
    BY <2>1, <2>3, Apart
  <2>5. Distance(f, i) \in 0 .. (n - 1)
    BY <2>1, <2>2 DEF Slots
  <2>6. QED
    BY <2>4, <2>5 DEF Segment
<1>4. QED
  BY <1>2, <1>3

-----------------------------------------------------------------------------
(* The types, and how full the buffer is; for any comparison.              *)

Shape == TypeOK /\ Filling

LEMMA InitShape == Init => Shape
<1>1. SUFFICES ASSUME Init PROVE Shape
  OBVIOUS
<1>2. 0 \in Slots
  BY DEF Slots
<1>3. [priority |-> 0, item |-> NoItem] \in Nodes
  BY DEF Nodes
<1>4. TypeOK
  BY <1>1, <1>2, <1>3 DEF Init, TypeOK
<1>5. Filling
  BY <1>1 DEF Init, Filling, WasFull, Serving
<1>6. QED
  BY <1>4, <1>5 DEF Shape

(* What an insertion that is accepted does to the two ends.                *)
LEMMA Stored ==
  ASSUME Shape, NEW n \in Messages, Insert(n), ~bufFull
  PROVE  /\ Store(n)
         /\ preemptive \/ pc = "idle"
         /\ preemptive => Distance(head, tail) < Capacity - 1
         /\ preemptive => head # Advance(tail)
         /\ Advance(tail) # head =>
              Distance(head, Advance(tail)) = Distance(head, tail) + 1
<1>1. head \in Slots /\ tail \in Slots
  BY DEF Shape, TypeOK
<1>2. Store(n) /\ (preemptive \/ pc = "idle")
  BY DEF Insert
<1>3. preemptive => Distance(head, tail) < Capacity - 1
  BY DEF Insert, Used
<1>4. QED
  BY <1>1, <1>2, <1>3, Further

LEMMA ShapeInsert ==
  ASSUME Shape, NEW n \in Messages, Insert(n)
  PROVE  Shape'
<1> USE DEF Shape
<1>1. CASE bufFull
  BY <1>1 DEF Insert, TypeOK, Filling, WasFull, Serving, locals
<1>2. CASE ~bufFull
  <2>1. /\ Store(n) /\ (preemptive \/ pc = "idle")
        /\ preemptive => head # Advance(tail)
        /\ Advance(tail) # head =>
             Distance(head, Advance(tail)) = Distance(head, tail) + 1
    BY <1>2, Stored
  <2>2. TypeOK'
    <3>1. n \in Nodes
      BY DEF Nodes
    <3>2. Advance(tail) \in Slots
      BY Next1 DEF TypeOK
    <3>3. buffer' \in [Slots -> Nodes]
      BY <2>1, <3>1 DEF TypeOK, Store
    <3>4. QED
      BY <2>1, <3>2, <3>3 DEF TypeOK, Store, Insert, locals
  <2>3. Filling'
    <3>1. Distance(head, tail) \in Slots /\ Distance(head, tailCopy) \in Slots
      BY Apart DEF TypeOK
    <3>2. UNCHANGED <<pc, head, tailCopy, preemptive>> /\ tail' = Advance(tail)
      BY <2>1 DEF Insert, Store, locals
    <3>3. CASE pc = "idle" /\ ~preemptive
      BY <3>2, <3>3 DEF Filling, WasFull, Serving
    <3>4. CASE preemptive
      <4>1. ~bufFull' /\ head # tail'
        BY <2>1, <3>4 DEF Store
      <4>2. Distance(head, tailCopy) <= Distance(head, tail) =>
              Distance(head, tailCopy)' <= Distance(head, tail)'
        BY <2>1, <3>1, <3>2, <4>1 DEF Slots
      <4>3. QED
        BY <3>2, <3>4, <4>1, <4>2 DEF Filling, WasFull, Serving
    <3>5. QED
      BY <2>1, <3>3, <3>4
  <2>4. QED
    BY <2>2, <2>3
<1>3. QED
  BY <1>1, <1>2

LEMMA AgedNode ==
  ASSUME TypeOK, NEW i \in Slots
  PROVE  /\ [buffer EXCEPT ![i].priority = Age[@]] \in [Slots -> Nodes]
         /\ Age[buffer[i].priority] \in Priorities
<1>1. buffer[i] \in Nodes
  BY DEF TypeOK
<1>2. Age[buffer[i].priority] \in Priorities
  BY <1>1 DEF Nodes
<1>3. [buffer[i] EXCEPT !.priority = Age[@]] \in Nodes
  BY <1>1, <1>2 DEF Nodes
<1>4. QED
  BY <1>2, <1>3 DEF TypeOK

LEMMA ShapeStep == Shape /\ [Next]_vars => Shape'
<1>1. SUFFICES ASSUME Shape, [Next]_vars PROVE Shape'
  OBVIOUS
<1> USE <1>1 DEF Shape, At, Goto
<1>2. /\ Advance(head) \in Slots /\ Advance(tail) \in Slots
      /\ Advance(pivot) \in Slots /\ Advance(cursor) \in Slots
      /\ Distance(head, tail) \in Slots
  BY Next1, Apart DEF TypeOK
<1>3. ASSUME NEW n \in Messages, Insert(n) PROVE Shape'
  BY <1>3, ShapeInsert
<1>4. CASE Pop
  BY <1>4 DEF Pop, TypeOK, Filling, WasFull, Serving, queue, locals
<1>5. CASE Test
  BY <1>5 DEF Test, TypeOK, Filling, WasFull, Serving, queue, locals
<1>6. CASE Copy
  BY <1>2, <1>6 DEF Copy, TypeOK, Filling, WasFull, Serving, queue, Slots
<1>7. CASE AgeTurn
  <2>1. buffer' \in [Slots -> Nodes]
    BY <1>7, AgedNode DEF AgeTurn, TypeOK
  <2>2. QED
    BY <1>2, <1>7, <2>1 DEF AgeTurn, TypeOK, Filling, WasFull, Serving
<1>8. CASE SortTurn
  BY <1>2, <1>8 DEF SortTurn, TypeOK, Filling, WasFull, Serving, queue
<1>9. CASE FindTurn
  BY <1>2, <1>9 DEF FindTurn, TypeOK, Filling, WasFull, Serving, queue
<1>10. CASE SwapTurn
  <2>1. buffer' \in [Slots -> Nodes]
    BY <1>10 DEF SwapTurn, TypeOK
  <2>2. QED
    BY <1>2, <1>10, <2>1 DEF SwapTurn, TypeOK, Filling, WasFull, Serving
<1>11. CASE Take
  <2>1. buffer[head].item \in Items \cup {NoItem}
    BY DEF TypeOK, Nodes
  <2>2. QED
    BY <1>11, <2>1 DEF Take, TypeOK, Filling, WasFull, Serving, queue
<1>12. CASE Unfull
  BY <1>12 DEF Unfull, TypeOK, Filling, WasFull, Serving, locals
<1>13. CASE Follow
  BY <1>2, <1>13 DEF Follow, TypeOK, Filling, WasFull, Serving, locals
<1>14. CASE Move
  BY <1>2, <1>14, 0 \in Slots DEF Move, TypeOK, Filling, WasFull, Serving, Slots
<1>15. CASE UNCHANGED vars
  BY <1>15 DEF vars, TypeOK, Filling, WasFull, Serving, queue, locals
<1>16. QED
  BY <1>3, <1>4, <1>5, <1>6, <1>7, <1>8, <1>9, <1>10, <1>11, <1>12, <1>13,
     <1>14, <1>15 DEF Next, Main

(* Whatever the comparison, every index stays inside the buffer, and       *)
(* buf_full is only ever set on a queue whose ends meet.                   *)
THEOREM TypeCorrect == Spec => []TypeOK
<1>1. Shape => TypeOK
  BY DEF Shape
<1>2. QED
  BY <1>1, InitShape, ShapeStep, PTL DEF Spec

-----------------------------------------------------------------------------
(* The order of the nodes, for a comparison that holds of equal            *)
(* priorities.  An insertion during the pop changes no node the pop knows. *)

IInv == Shape /\ Turns /\ Sorting

LEMMA Values ==
  ASSUME TypeOK
  PROVE  /\ PrioritiesNow \in [Slots -> Nat]
         /\ PrioritiesAged \in [Slots -> Nat]
         /\ \A i \in Slots : buffer[i].priority \in Nat
<1>1. \A i \in Slots : buffer[i].priority \in Priorities
  BY DEF TypeOK, Nodes
<1>2. \A i \in Slots : Age[buffer[i].priority] \in Priorities
  BY <1>1
<1>3. QED
  BY <1>1, <1>2 DEF PrioritiesNow, PrioritiesAged

(* Priorities that agree up to the pivot are ordered alike.                *)
LEMMA PrefixAgrees ==
  ASSUME NEW p, NEW q, NEW f \in Slots, NEW n \in 0 .. Capacity,
         NEW m \in 0 .. Capacity, pivot \in Slots,
         Prefix(p, f, n),
         Distance(f, pivot) < m \/ (m = 0 /\ pivot = f),
         \A i \in Slots : Distance(f, i) <= Distance(f, pivot)
                           /\ Distance(f, pivot) # 0 => q[i] = p[i]
  PROVE  Prefix(q, f, m)
<1>1. SUFFICES ASSUME NEW i \in Slots, Distance(f, i) < Distance(f, pivot)
               PROVE  q[i] >= q[Advance(i)]
  BY DEF Prefix
<1>2. Distance(f, i) \in Slots /\ Distance(f, pivot) \in Slots
      /\ Advance(i) \in Slots /\ Distance(f, Advance(i)) \in Slots
  BY Apart, Next1
<1>3. Distance(f, Advance(i)) <= Distance(f, pivot)
  BY <1>1, <1>2, Further DEF Slots
<1>4. Distance(f, i) <= Distance(f, pivot) /\ Distance(f, pivot) # 0
  BY <1>1, <1>2 DEF Slots
<1>5. QED
  BY <1>1, <1>2, <1>3, <1>4 DEF Prefix

LEMMA InitOrder == Init => Turns /\ Sorting
<1>1. SUFFICES ASSUME Init PROVE Turns /\ Sorting
  OBVIOUS
<1>2. 0 \in Slots
  BY DEF Slots
<1>3. Distance(0, 0) = 0
  BY <1>2, Apart
<1>4. \A i \in Slots : ~(Distance(0, i) < 0)
  BY <1>2, Apart DEF Slots
<1>5. QED
  BY <1>1, <1>3, <1>4 DEF Init, Turns, Sorting, Prefix, Used

(* What the numbers of nodes are.                                          *)
LEMMA Counts ==
  ASSUME Shape
  PROVE  /\ Used \in 0 .. Capacity
         /\ Serving => Known \in 1 .. Capacity
         /\ Serving /\ ~WasFull =>
              Known = Distance(head, tailCopy) /\ Known <= Distance(head, tail)
         /\ WasFull => Known = Capacity
<1>1. /\ head \in Slots /\ tail \in Slots /\ tailCopy \in Slots
      /\ Distance(head, tail) \in Slots /\ Distance(head, tailCopy) \in Slots
  BY Apart DEF Shape, TypeOK
<1>2. Serving /\ ~WasFull => Distance(head, tailCopy) # 0
  BY <1>1, Apart DEF WasFull
<1>3. QED
  BY <1>1, <1>2 DEF Shape, Filling, Used, Known, WasFull, Slots

(* The node being placed is the one behind the pivot, and the pop knows it.*)
LEMMA Placed ==
  ASSUME Shape, Turns, Sorting, pc \in {"find", "swap"}
  PROVE  /\ Distance(head, node) = Distance(head, pivot) + 1
         /\ Distance(head, node) < Known
         /\ Distance(head, pivot) < Known
<1>1. /\ head \in Slots /\ pivot \in Slots /\ tailCopy \in Slots
      /\ node \in Slots /\ node = Advance(pivot) /\ node \notin {head, tailCopy}
  BY DEF Shape, TypeOK, Turns
<1>2. Serving
  BY DEF Serving
<1>3. Distance(head, pivot) < Known
  BY <1>2, Counts DEF Sorting, Prefix
<1>4. Distance(head, node) = Distance(head, pivot) + 1
  BY <1>1, Further
<1>5. /\ Distance(head, node) \in Slots /\ Distance(head, pivot) \in Slots
      /\ Distance(head, tailCopy) # Distance(head, node)
  BY <1>1, Apart
<1>6. QED
  BY <1>2, <1>3, <1>4, <1>5, Counts DEF Slots

(* An insertion lands behind the nodes the pop knows, and moves none.      *)
LEMMA OrderInsert ==
  ASSUME IInv, NEW n \in Messages, Insert(n)
  PROVE  Turns' /\ Sorting'
<1> USE DEF IInv
<1>1. /\ head \in Slots /\ tail \in Slots /\ tailCopy \in Slots
      /\ pivot \in Slots /\ node \in Slots /\ cursor \in Slots
      /\ Advance(head) \in Slots /\ Advance(tail) \in Slots
  BY Next1 DEF Shape, TypeOK
<1>2. CASE bufFull
  <2>1. UNCHANGED <<queue, locals, pc, preemptive>>
    BY <1>2 DEF Insert, queue
  <2>2. PrioritiesNow' = PrioritiesNow /\ PrioritiesAged' = PrioritiesAged
        /\ Used' = Used /\ Known' = Known
    BY <2>1 DEF queue, locals, PrioritiesNow, PrioritiesAged, Used, Known,
                WasFull, Serving
  <2>3. QED
    BY <2>1, <2>2 DEF queue, locals, Turns, Sorting, Prefix
<1>3. CASE ~bufFull
  <2>1. /\ Store(n) /\ (preemptive \/ pc = "idle")
        /\ preemptive => Distance(head, tail) < Capacity - 1
        /\ preemptive => head # Advance(tail)
        /\ Advance(tail) # head =>
             Distance(head, Advance(tail)) = Distance(head, tail) + 1
    BY <1>3, Stored
  <2>2. /\ UNCHANGED <<head, pivot, pc, tailCopy, cursor, node, preemptive>>
        /\ tail' = Advance(tail)
        /\ \A i \in Slots : i # tail => buffer'[i] = buffer[i]
    BY <2>1 DEF Insert, Store, locals, Shape, TypeOK
  <2>3. \A i \in Slots : i # tail => /\ PrioritiesNow'[i] = PrioritiesNow[i]
                                     /\ PrioritiesAged'[i] = PrioritiesAged[i]
    BY <2>2 DEF PrioritiesNow, PrioritiesAged
  <2>4. Known' = Known \/ ~Serving
    BY <2>2, <2>1 DEF Known, WasFull, Serving, Distance
  <2>5. Serving => Known <= Distance(head, tail) /\ Distance(head, tail) # 0
    BY <1>1, <2>1, Counts, Apart DEF Shape, Filling, Serving, Slots
  <2>6. CASE pc \in {"idle", "test", "copy"}
    <3>1. Used = Distance(head, tail)
      BY <1>3 DEF Used
    <3>2. Used' = Distance(head, tail) + 1
      <4>1. bufFull' = (head = Advance(tail)) /\ head' = head
        BY <2>1, <2>2 DEF Store
      <4>2. Used' = IF head = Advance(tail) THEN Capacity
                    ELSE Distance(head, Advance(tail))
        BY <2>2, <4>1 DEF Used
      <4>3. head = Advance(tail) => Distance(head, tail) = Capacity - 1
        BY <1>1, Further
      <4>4. QED
        BY <2>1, <4>2, <4>3
    <3>3. Prefix(PrioritiesNow, head, Used)
      BY <2>6 DEF Sorting
    <3>4. /\ Used \in 0 .. Capacity /\ Used' \in 0 .. Capacity
          /\ Distance(head, pivot) \in Slots /\ Distance(head, head) = 0
      <4>1. Distance(head, tail) \in Slots /\ Distance(head, pivot) \in Slots
        BY <1>1, Apart
      <4>2. Distance(head, head) = 0
        BY <1>1, Apart
      <4>3. QED
        BY <3>1, <3>2, <4>1, <4>2 DEF Slots
    <3>5. Distance(head, pivot) < Used'
      BY <3>1, <3>2, <3>3, <3>4 DEF Prefix, Slots
    <3>6. \A i \in Slots : Distance(head, i) <= Distance(head, pivot)
                           /\ Distance(head, pivot) # 0 => i # tail
      BY <1>1, <3>1, <3>3, <3>4, Apart DEF Prefix, Slots
    <3>7. Prefix(PrioritiesNow', head, Used')
      BY <1>1, <2>3, <3>3, <3>4, <3>5, <3>6, PrefixAgrees
    <3>8. QED
      BY <2>2, <2>6, <3>7 DEF Turns, Sorting, Prefix
  <2>7. CASE Serving /\ pc # "move"
    <3>1. Known' = Known /\ Known \in 1 .. Capacity
      BY <2>4, <2>7, Counts
    <3>2. ASSUME NEW p, Prefix(p, head, Known)
          PROVE  /\ Distance(head, pivot) < Known
                 /\ \A i \in Slots : Distance(head, i) <= Distance(head, pivot)
                                     => i # tail
      BY <1>1, <2>5, <2>7, <3>1, <3>2, Apart DEF Prefix, Slots
    <3>3. ASSUME Prefix(PrioritiesNow, head, Known)
          PROVE  Prefix(PrioritiesNow', head, Known)
      BY <1>1, <2>3, <3>1, <3>2, <3>3, PrefixAgrees, Known \in 0 .. Capacity
    <3>4. ASSUME Prefix(PrioritiesAged, head, Known)
          PROVE  Prefix(PrioritiesAged', head, Known)
      BY <1>1, <2>3, <3>1, <3>2, <3>4, PrefixAgrees, Known \in 0 .. Capacity
    <3>5. Sorting'
      BY <2>2, <2>7, <3>1, <3>3, <3>4 DEF Sorting, Prefix, Serving
    <3>6. Turns'
      <4>1. CASE pc \in {"find", "swap"}
        <5>1. /\ Distance(head, node) < Distance(head, tail)
              /\ Distance(head, cursor) <= Distance(head, node)
          BY <1>1, <2>5, <2>7, <3>1, <4>1, Placed, Apart DEF Turns, Slots
        <5>2. /\ Distance(head, node) \in Slots
              /\ Distance(head, tail) \in Slots
              /\ Distance(head, cursor) \in Slots
          BY <1>1, Apart
        <5>3. node # tail /\ cursor # tail
          BY <5>1, <5>2 DEF Slots
        <5>4. ASSUME NEW i \in Slots, Advance(i) = cursor, cursor # head
              PROVE  i # tail
          <6>1. Distance(head, cursor) = Distance(head, i) + 1
            BY <1>1, <5>4, Further
          <6>2. QED
            BY <5>1, <5>2, <6>1 DEF Slots
        <5>5. QED
          BY <1>1, <2>2, <4>1, <5>3, <5>4 DEF Turns
      <4>2. CASE pc \notin {"find", "swap"}
        BY <2>2, <4>2 DEF Turns
      <4>3. QED
        BY <4>1, <4>2
    <3>7. QED
      BY <3>5, <3>6
  <2>8. CASE pc = "move"
    <3>1. Known' = Known /\ Known \in 1 .. Capacity /\ Serving
      BY <2>4, <2>8, Counts DEF Serving
    <3>2. Prefix(PrioritiesNow, Advance(head), Known - 1)
      BY <2>8 DEF Sorting
    <3>3. /\ Distance(Advance(head), tail) = Distance(head, tail) - 1
          /\ Distance(Advance(head), pivot) \in Slots
          /\ Distance(Advance(head), Advance(head)) = 0
          /\ Distance(head, tail) \in Slots
      BY <1>1, <2>5, <3>1, Further, Apart
    <3>4. \A i \in Slots :
             Distance(Advance(head), i) <= Distance(Advance(head), pivot)
             /\ Distance(Advance(head), pivot) # 0 => i # tail
      BY <2>5, <3>1, <3>2, <3>3 DEF Prefix, Slots
    <3>5. Prefix(PrioritiesNow', Advance(head), Known - 1)
      BY <1>1, <2>3, <3>1, <3>2, <3>4, PrefixAgrees, Known - 1 \in 0 .. Capacity
         DEF Prefix
    <3>6. QED
      BY <2>2, <2>8, <3>1, <3>5 DEF Turns, Sorting, Prefix
  <2>9. QED
    BY <2>6, <2>7, <2>8 DEF Serving
<1>4. QED
  BY <1>2, <1>3

LEMMA OrderPopTest ==
  ASSUME IInv, Pop \/ Test
  PROVE  Turns' /\ Sorting'
<1>1. /\ UNCHANGED <<queue, locals>>
      /\ pc \in {"idle", "test"} /\ pc' \in {"idle", "test", "copy"}
  BY DEF Pop, Test, At, Goto
<1>2. PrioritiesNow' = PrioritiesNow /\ Used' = Used
  BY <1>1 DEF queue, PrioritiesNow, Used
<1>3. QED
  BY <1>1, <1>2 DEF IInv, queue, Turns, Sorting, Prefix

(* The pop knows the nodes that are in the queue as it begins to age.      *)
LEMMA OrderCopy ==
  ASSUME IInv, Copy
  PROVE  Turns' /\ Sorting'
<1> USE DEF IInv, Shape
<1>1. /\ head \in Slots /\ tail \in Slots /\ pivot \in Slots
      /\ Distance(head, head) = 0
      /\ \A i \in Slots : Distance(head, i) \in Slots
  BY Apart DEF TypeOK
<1>2. /\ UNCHANGED queue /\ pc = "copy" /\ pc' = "age"
      /\ tailCopy' = tail /\ cursor' = head
  BY DEF Copy, At, Goto
<1>3. Prefix(PrioritiesNow, head, Used)
  BY <1>2 DEF Sorting
<1>4. Known' = Used
  <2>1. Known' = IF tail = head THEN Capacity ELSE Distance(head, tail)
    BY <1>2 DEF queue, Known, Serving, WasFull
  <2>2. Used = IF tail = head THEN Capacity ELSE Distance(head, tail)
    BY <1>2 DEF Used, Filling, TypeOK
  <2>3. QED
    BY <2>1, <2>2
<1>5. Prefix(PrioritiesAged', head, Used)
  <2>1. \A i \in Slots : PrioritiesAged'[i] =
          IF head # tail THEN Age[buffer[i].priority] ELSE buffer[i].priority
    BY <1>1, <1>2 DEF PrioritiesAged, queue, Slots
  <2>2. ASSUME NEW i \in Slots, Distance(head, i) < Distance(head, pivot)
        PROVE  PrioritiesAged'[i] >= PrioritiesAged'[Advance(i)]
    <3>1. Advance(i) \in Slots
      BY Next1
    <3>2. buffer[i].priority >= buffer[Advance(i)].priority
      BY <1>3, <2>2, <3>1 DEF Prefix, PrioritiesNow
    <3>3. /\ buffer[i].priority \in Priorities
          /\ buffer[Advance(i)].priority \in Priorities
      BY <3>1 DEF TypeOK, Nodes
    <3>4. Age[buffer[i].priority] >= Age[buffer[Advance(i)].priority]
      BY <3>2, <3>3
    <3>5. QED
      BY <2>1, <3>1, <3>2, <3>4
  <2>3. QED
    BY <1>3, <2>2 DEF Prefix
<1>6. Sorting'
  BY <1>2, <1>4, <1>5 DEF Sorting, Prefix, queue
<1>7. Turns'
  <2>1. Distance(head, head) <= Distance(head, tail)
    BY <1>1 DEF Slots
  <2>2. QED
    BY <1>2, <2>1 DEF Turns, queue
<1>8. QED
  BY <1>6, <1>7

(* A turn of the ageing changes what is in the buffer, and not what it     *)
(* will be once the pop has aged every node.                               *)
LEMMA OrderAge ==
  ASSUME IInv, AgeTurn
  PROVE  Turns' /\ Sorting'
<1> USE DEF IInv, Shape
<1>1. /\ head \in Slots /\ tail \in Slots /\ pivot \in Slots
      /\ tailCopy \in Slots /\ cursor \in Slots /\ Advance(cursor) \in Slots
      /\ Distance(head, head) = 0
      /\ \A i \in Slots : Distance(head, i) \in Slots
  BY Apart, Next1 DEF TypeOK
<1>2. /\ UNCHANGED <<head, tail, bufFull, pivot, tailCopy, node>>
      /\ pc = "age" /\ Serving
  BY DEF AgeTurn, At, Serving
<1>3. Prefix(PrioritiesAged, head, Known)
  BY <1>2 DEF Sorting
<1>4. Known \in 1 .. Capacity
  BY <1>2, Counts
<1>5. CASE cursor = tailCopy
  <2>1. UNCHANGED <<buffer, cursor>> /\ pc' = "sort"
    BY <1>5 DEF AgeTurn, Goto
  <2>2. PrioritiesAged = PrioritiesNow /\ PrioritiesNow' = PrioritiesNow
    BY <1>5, <2>1 DEF PrioritiesAged, PrioritiesNow
  <2>3. Known' = Known
    BY <1>2, <2>1 DEF Known, Serving, WasFull
  <2>4. QED
    BY <1>2, <1>3, <2>1, <2>2, <2>3 DEF Turns, Sorting, Prefix
<1>6. CASE cursor # tailCopy
  <2>1. /\ buffer' = [buffer EXCEPT ![cursor].priority = Age[@]]
        /\ cursor' = Advance(cursor) /\ pc' = "age"
    BY <1>2, <1>6 DEF AgeTurn, At
  <2>2. Distance(head, cursor) < Distance(head, tailCopy)
    <3>1. Distance(head, cursor) <= Distance(head, tailCopy)
      BY <1>2 DEF Turns
    <3>2. Distance(head, cursor) # Distance(head, tailCopy)
      BY <1>1, <1>6, Apart
    <3>3. QED
      BY <1>1, <3>1, <3>2 DEF Slots
  <2>3. Distance(head, cursor') = Distance(head, cursor) + 1
    BY <1>1, <2>1, <2>2, Further DEF Slots
  <2>4. ~WasFull /\ Known = Distance(head, tailCopy)
    BY <1>1, <1>2, <2>2, Counts DEF WasFull, Slots
  <2>5. Known' = Known
    BY <1>2, <2>1 DEF Known, Serving, WasFull
  <2>6. ASSUME NEW i \in Slots, Distance(head, i) < Distance(head, tailCopy)
        PROVE  PrioritiesAged'[i] = PrioritiesAged[i]
    <3>1. buffer'[cursor].priority = Age[buffer[cursor].priority]
      BY <1>1, <2>1 DEF TypeOK, Nodes
    <3>2. i # cursor => buffer'[i] = buffer[i]
      BY <1>1, <2>1 DEF TypeOK
    <3>3. i # cursor => Distance(head, i) # Distance(head, cursor)
      BY <1>1, Apart
    <3>4. PrioritiesAged[i] =
            IF Distance(head, cursor) <= Distance(head, i)
            THEN Age[buffer[i].priority] ELSE buffer[i].priority
      BY <1>6 DEF PrioritiesAged
    <3>5. PrioritiesAged'[i] =
            IF /\ cursor' # tailCopy
               /\ Distance(head, cursor') <= Distance(head, i)
            THEN Age[buffer'[i].priority] ELSE buffer'[i].priority
      BY <1>2 DEF PrioritiesAged
    <3>6. CASE i = cursor
      BY <1>1, <2>3, <3>1, <3>4, <3>5, <3>6 DEF Slots
    <3>7. CASE i # cursor
      <4>1. Distance(head, cursor') <= Distance(head, i) => cursor' # tailCopy
        BY <1>1, <2>6, <2>1 DEF Slots
      <4>2. Distance(head, cursor') <= Distance(head, i) <=>
              Distance(head, cursor) <= Distance(head, i)
        BY <1>1, <2>3, <3>3, <3>7 DEF Slots
      <4>3. QED
        BY <3>2, <3>4, <3>5, <3>7, <4>1, <4>2
    <3>8. QED
      BY <3>6, <3>7
  <2>7. Prefix(PrioritiesAged', head, Known)
    <3>1. Distance(head, pivot) < Known
      BY <1>3, <1>4 DEF Prefix
    <3>2. \A i \in Slots : Distance(head, i) <= Distance(head, pivot) =>
            PrioritiesAged'[i] = PrioritiesAged[i]
      BY <1>1, <2>4, <2>6, <3>1 DEF Slots
    <3>3. QED
      BY <1>1, <1>3, <1>4, <3>1, <3>2, PrefixAgrees, Known \in 0 .. Capacity
  <2>8. Sorting'
    BY <1>2, <2>1, <2>5, <2>7 DEF Sorting, Prefix
  <2>9. Turns'
    <3>1. Distance(head, cursor') <= Distance(head, tailCopy)
      BY <1>1, <2>2, <2>3 DEF Slots
    <3>2. QED
      BY <1>2, <2>1, <3>1 DEF Turns
  <2>10. QED
    BY <2>8, <2>9
<1>7. QED
  BY <1>5, <1>6

(* The next node to place is not sorted yet, and the pop knows it.         *)
LEMMA OrderSort ==
  ASSUME IInv, SortTurn
  PROVE  Turns' /\ Sorting'
<1> USE DEF IInv, Shape
<1>1. /\ head \in Slots /\ pivot \in Slots /\ tailCopy \in Slots
      /\ Advance(pivot) \in Slots /\ Distance(head, head) = 0
      /\ \A i \in Slots : Distance(head, i) \in Slots
  BY Apart, Next1 DEF TypeOK
<1>2. UNCHANGED queue /\ tailCopy' = tailCopy /\ pc = "sort" /\ Serving
  BY DEF SortTurn, At, Serving
<1>3. Prefix(PrioritiesNow, head, Known)
  BY <1>2 DEF Sorting
<1>4. pc' \in {"take", "find"}
  BY DEF SortTurn, Goto
<1>5. PrioritiesNow' = PrioritiesNow /\ Known' = Known
  BY <1>2, <1>4 DEF queue, PrioritiesNow, Known, Serving, WasFull
<1>6. Sorting'
  BY <1>2, <1>3, <1>4, <1>5 DEF Sorting, Prefix, queue
<1>7. CASE pc' = "take"
  BY <1>6, <1>7 DEF Turns
<1>8. CASE pc' = "find"
  <2>1. /\ tailCopy # Advance(pivot)
        /\ node' = Advance(pivot) /\ cursor' = head
    BY <1>8 DEF SortTurn, Goto
  <2>2. Advance(pivot) # head
    <3>1. CASE WasFull
      BY <2>1, <3>1 DEF WasFull
    <3>2. CASE ~WasFull
      <4>1. Distance(head, pivot) < Distance(head, tailCopy)
        BY <1>2, <1>3, <3>2, Counts DEF Prefix
      <4>2. Distance(head, pivot) # Capacity - 1
        BY <1>1, <4>1 DEF Slots
      <4>3. QED
        BY <1>1, <4>2, Further
    <3>3. QED
      BY <3>1, <3>2
  <2>3. Distance(head, head) <= Distance(head, Advance(pivot))
    BY <1>1 DEF Slots
  <2>4. QED
    BY <1>2, <1>6, <1>8, <2>1, <2>2, <2>3 DEF Turns, queue
<1>9. QED
  BY <1>4, <1>7, <1>8

(* The search stops at the node itself at the latest.                      *)
LEMMA OrderFind ==
  ASSUME ~Strict, IInv, FindTurn
  PROVE  Turns' /\ Sorting'
<1> USE DEF IInv, Shape
<1>1. /\ head \in Slots /\ pivot \in Slots /\ node \in Slots /\ cursor \in Slots
      /\ \A i \in Slots : Distance(head, i) \in Slots
  BY Apart DEF TypeOK
<1>2. /\ UNCHANGED <<queue, tailCopy, node>> /\ pc = "find"
      /\ pc' \in {"find", "swap"}
  BY DEF FindTurn, At, Goto
<1>3. PrioritiesNow' = PrioritiesNow /\ Known' = Known
  BY <1>2 DEF queue, PrioritiesNow, Known, Serving, WasFull
<1>4. Sorting'
  BY <1>2, <1>3 DEF Sorting, Prefix, queue
<1>5. CASE buffer[node].priority >= buffer[cursor].priority
  <2>1. cursor' = cursor /\ pc' = "swap"
    BY <1>5 DEF FindTurn, Cmp, Goto
  <2>2. QED
    BY <1>2, <1>4, <1>5, <2>1 DEF Turns, queue
<1>6. CASE ~(buffer[node].priority >= buffer[cursor].priority)
  <2>1. cursor' = Advance(cursor) /\ pc' = "find"
    BY <1>2, <1>6 DEF FindTurn, Cmp
  <2>2. buffer[cursor].priority >= buffer[node].priority
    BY <1>1, <1>6, Values
  <2>3. Distance(head, cursor) < Distance(head, node)
    <3>1. cursor # node
      BY <1>1, <1>6, <2>2
    <3>2. Distance(head, cursor) # Distance(head, node)
      BY <1>1, <3>1, Apart
    <3>3. Distance(head, cursor) <= Distance(head, node)
      BY <1>2 DEF Turns
    <3>4. QED
      BY <1>1, <3>2, <3>3 DEF Slots
  <2>4. Distance(head, cursor') = Distance(head, cursor) + 1
    BY <1>1, <2>1, <2>3, Further DEF Slots
  <2>5. Distance(head, cursor') <= Distance(head, node)
    BY <1>1, <2>3, <2>4 DEF Slots
  <2>6. \A i \in Slots : Advance(i) = cursor' => i = cursor
    BY <1>1, <2>1, Next1
  <2>7. Turns'
    BY <1>2, <2>1, <2>2, <2>5, <2>6 DEF Turns, queue
  <2>8. QED
    BY <1>4, <2>7
<1>7. QED
  BY <1>5, <1>6

(* The nodes before the cursor are in their places, and the node that was  *)
(* taken from before it waits in the slot of the one being placed.         *)
LEMMA OrderSwap ==
  ASSUME IInv, SwapTurn
  PROVE  Turns' /\ Sorting'
<1> USE DEF IInv, Shape
<1>1. /\ head \in Slots /\ pivot \in Slots /\ node \in Slots /\ cursor \in Slots
      /\ Advance(cursor) \in Slots
      /\ \A i \in Slots : Distance(head, i) \in Slots
  BY Apart, Next1 DEF TypeOK
<1>2. /\ UNCHANGED <<head, tail, bufFull, tailCopy, node>>
      /\ pc = "swap" /\ Serving
  BY DEF SwapTurn, At, Serving
<1>3. /\ node = Advance(pivot) /\ node # head
      /\ Distance(head, cursor) <= Distance(head, node)
      /\ \A i \in Slots : Advance(i) = cursor /\ cursor # head =>
           buffer[i].priority >= buffer[node].priority
      /\ buffer[node].priority >= buffer[cursor].priority
  BY <1>2 DEF Turns
<1>4. /\ Distance(head, node) = Distance(head, pivot) + 1
      /\ Distance(head, node) < Known /\ Distance(head, pivot) < Known
  BY <1>2, Placed
<1>5. \A i \in Slots : Distance(head, i) < Distance(head, pivot) =>
        buffer[i].priority >= buffer[Advance(i)].priority
  BY <1>2, Next1 DEF Sorting, Prefix, PrioritiesNow
<1>6. CASE cursor = node
  <2>1. UNCHANGED <<buffer, cursor>> /\ pivot' = node /\ pc' = "sort"
    BY <1>3, <1>6 DEF SwapTurn, Goto
  <2>2. PrioritiesNow' = PrioritiesNow /\ Known' = Known
    BY <1>2, <2>1 DEF PrioritiesNow, Known, Serving, WasFull
  <2>3. ASSUME NEW i \in Slots, Distance(head, i) < Distance(head, node)
        PROVE  buffer[i].priority >= buffer[Advance(i)].priority
    <3>1. CASE Distance(head, i) < Distance(head, pivot)
      BY <1>5, <3>1
    <3>2. CASE Distance(head, i) = Distance(head, pivot)
      <4>1. i = pivot
        BY <1>1, <3>2, Apart
      <4>2. QED
        BY <1>1, <1>3, <1>6, <4>1
    <3>3. QED
      BY <1>1, <1>4, <2>3, <3>1, <3>2 DEF Slots
  <2>4. Prefix(PrioritiesNow, head, Known)'
    BY <1>2, <1>4, <2>1, <2>2, <2>3, Next1 DEF Prefix, PrioritiesNow
  <2>5. QED
    BY <2>1, <2>4 DEF Turns, Sorting
<1>7. CASE cursor # node
  <2>1. /\ buffer' = [buffer EXCEPT ![cursor] = buffer[node],
                                    ![node] = buffer[cursor]]
        /\ cursor' = Advance(cursor) /\ UNCHANGED <<pc, pivot>>
    BY <1>7 DEF SwapTurn
  <2>2. /\ buffer'[cursor] = buffer[node] /\ buffer'[node] = buffer[cursor]
        /\ \A i \in Slots : i \notin {cursor, node} => buffer'[i] = buffer[i]
    BY <1>1, <1>7, <2>1 DEF TypeOK
  <2>3. Distance(head, cursor) <= Distance(head, pivot)
    <3>1. Distance(head, cursor) # Distance(head, node)
      BY <1>1, <1>7, Apart
    <3>2. QED
      BY <1>1, <1>3, <1>4, <3>1 DEF Slots
  <2>4. /\ Distance(head, cursor') = Distance(head, cursor) + 1
        /\ cursor' # head /\ cursor' # cursor
    <3>1. Distance(head, cursor) < Capacity - 1
      BY <1>1, <1>4, <2>3 DEF Slots
    <3>2. Distance(head, cursor') = Distance(head, cursor) + 1 /\ cursor' # head
      BY <1>1, <2>1, <3>1, Further DEF Slots
    <3>3. QED
      BY <1>1, <3>2 DEF Slots
  <2>5. \A i \in Slots : Advance(i) = cursor' => i = cursor
    BY <1>1, <2>1, Next1
  <2>6. buffer'[node].priority >= buffer'[cursor'].priority
    <3>1. CASE cursor' = node
      BY <1>1, <2>2, <3>1, Values
    <3>2. CASE cursor' # node
      <4>1. Distance(head, cursor) < Distance(head, pivot)
        <5>1. Distance(head, cursor') # Distance(head, node)
          BY <1>1, <2>1, <3>2, Apart
        <5>2. QED
          BY <1>1, <1>4, <2>3, <2>4, <5>1 DEF Slots
      <4>2. buffer[cursor].priority >= buffer[cursor'].priority
        BY <1>1, <1>5, <2>1, <4>1
      <4>3. QED
        BY <1>1, <2>1, <2>2, <2>4, <3>2, <4>2
    <3>3. QED
      BY <3>1, <3>2
  <2>7. Turns'
    <3>1. Distance(head, cursor') <= Distance(head, node)
      BY <1>1, <1>4, <2>3, <2>4 DEF Slots
    <3>2. \A i \in Slots : Advance(i) = cursor' /\ cursor' # head =>
            buffer'[i].priority >= buffer'[node].priority
      BY <1>3, <2>2, <2>5
    <3>3. QED
      BY <1>2, <2>1, <2>6, <3>1, <3>2 DEF Turns
  <2>8. ASSUME NEW i \in Slots, Distance(head, i) < Distance(head, pivot)
        PROVE  buffer'[i].priority >= buffer'[Advance(i)].priority
    <3>1. /\ Advance(i) \in Slots /\ Advance(i) # head
          /\ Distance(head, Advance(i)) = Distance(head, i) + 1
      <4>1. Distance(head, i) < Capacity - 1
        BY <1>1, <2>8 DEF Slots
      <4>2. Advance(i) # head
        BY <1>1, <4>1, Further
      <4>3. Distance(head, Advance(i)) = Distance(head, i) + 1
        BY <1>1, <4>2, Further
      <4>4. QED
        BY <4>2, <4>3, Next1
    <3>2. i # node /\ Advance(i) # node /\ Advance(i) # i
      BY <1>1, <1>4, <2>8, <3>1 DEF Slots
    <3>3. buffer[i].priority >= buffer[Advance(i)].priority
      BY <1>5, <2>8
    <3>4. CASE i = cursor
      <4>1. /\ buffer'[i] = buffer[node]
            /\ buffer'[Advance(i)] = buffer[Advance(i)]
        BY <2>2, <3>1, <3>2, <3>4
      <4>2. buffer[node].priority >= buffer[i].priority
        BY <1>3, <3>4
      <4>3. QED
        BY <1>1, <3>1, <3>3, <4>1, <4>2, Values
    <3>5. CASE Advance(i) = cursor
      <4>1. buffer'[i] = buffer[i] /\ buffer'[Advance(i)] = buffer[node]
        BY <2>2, <3>2, <3>5
      <4>2. QED
        BY <1>3, <3>1, <3>5, <4>1
    <3>6. CASE i # cursor /\ Advance(i) # cursor
      BY <2>2, <3>1, <3>2, <3>3, <3>6
    <3>7. QED
      BY <3>4, <3>5, <3>6
  <2>9. Known' = Known
    BY <1>2, <2>1 DEF Known, Serving, WasFull
  <2>10. Prefix(PrioritiesNow, head, Known)'
    <3>1. \A i \in Slots : PrioritiesNow'[i] = buffer'[i].priority
      BY DEF PrioritiesNow
    <3>2. \A i \in Slots : Distance(head, i) < Distance(head, pivot) =>
            PrioritiesNow'[i] >= PrioritiesNow'[Advance(i)]
      BY <2>8, <3>1, Next1
    <3>3. QED
      BY <1>2, <1>4, <2>1, <2>9, <3>2 DEF Prefix
  <2>11. QED
    BY <1>2, <2>1, <2>7, <2>10 DEF Sorting
<1>8. QED
  BY <1>6, <1>7

LEMMA OrderTake ==
  ASSUME IInv, Take \/ Unfull
  PROVE  Turns' /\ Sorting'
<1>1. /\ UNCHANGED <<buffer, head, tail, pivot, tailCopy, cursor, node>>
      /\ pc \in {"take", "unfull"} /\ pc' \in {"unfull", "follow"}
  BY DEF Take, Unfull, At, Goto, queue, locals
<1>2. PrioritiesNow' = PrioritiesNow /\ Known' = Known
  BY <1>1 DEF PrioritiesNow, Known, Serving, WasFull
<1>3. QED
  BY <1>1, <1>2 DEF IInv, Turns, Sorting, Prefix

(* The pivot leaves the node that is served before head does.              *)
LEMMA OrderFollow ==
  ASSUME IInv, Follow
  PROVE  Turns' /\ Sorting'
<1> USE DEF IInv, Shape
<1>1. /\ head \in Slots /\ pivot \in Slots /\ Advance(head) \in Slots
      /\ Distance(Advance(head), Advance(head)) = 0
      /\ \A i \in Slots : /\ Distance(head, i) \in Slots
                          /\ Distance(Advance(head), i) \in Slots
  BY Apart, Next1 DEF TypeOK
<1>2. /\ UNCHANGED <<buffer, head, tail, bufFull, locals>>
      /\ pc = "follow" /\ pc' = "move" /\ Serving
  BY DEF Follow, At, Goto, Serving
<1>3. Prefix(PrioritiesNow, head, Known) /\ Known \in 1 .. Capacity
  BY <1>2, Counts DEF Sorting
<1>4. PrioritiesNow' = PrioritiesNow /\ Known' = Known
  BY <1>2 DEF locals, PrioritiesNow, Known, Serving, WasFull
<1>5. CASE head = pivot
  <2>1. pivot' = Advance(head)
    BY <1>5 DEF Follow
  <2>2. QED
    BY <1>1, <1>2, <1>3, <1>4, <2>1 DEF Turns, Sorting, Prefix, Slots
<1>6. CASE head # pivot
  <2>1. pivot' = pivot
    BY <1>6 DEF Follow
  <2>2. Distance(Advance(head), pivot) = Distance(head, pivot) - 1
    BY <1>1, <1>6, Further
  <2>3. ASSUME NEW i \in Slots,
               Distance(Advance(head), i) < Distance(Advance(head), pivot)
        PROVE  Distance(head, i) < Distance(head, pivot)
    <3>1. Distance(Advance(head), i) =
            IF i = head THEN Capacity - 1 ELSE Distance(head, i) - 1
      BY <1>1, Further
    <3>2. Distance(head, i) \in Slots /\ Distance(head, pivot) \in Slots
      BY <1>1
    <3>3. QED
      BY <2>2, <2>3, <3>1, <3>2 DEF Slots
  <2>4. Distance(Advance(head), pivot) < Known - 1
    BY <1>1, <1>3, <2>2 DEF Prefix, Slots
  <2>5. Prefix(PrioritiesNow, Advance(head), Known - 1)
    BY <1>3, <2>3, <2>4 DEF Prefix
  <2>6. QED
    BY <1>2, <1>4, <2>1, <2>5 DEF Turns, Sorting, Prefix
<1>7. QED
  BY <1>5, <1>6

(* Behind the nodes the pop knew lie those that have come since.           *)
LEMMA OrderMove ==
  ASSUME IInv, Move
  PROVE  Turns' /\ Sorting'
<1> USE DEF IInv, Shape
<1>1. /\ head \in Slots /\ tail \in Slots /\ pivot \in Slots
      /\ Advance(head) \in Slots
      /\ Distance(Advance(head), Advance(head)) = 0
      /\ Distance(head, tail) \in Slots
      /\ Distance(Advance(head), tail) \in Slots
  BY Apart, Next1 DEF TypeOK
<1>2. /\ UNCHANGED <<buffer, tail, bufFull, pivot>> /\ head' = Advance(head)
      /\ pc = "move" /\ pc' = "idle" /\ Serving /\ ~bufFull
  BY DEF Move, At, Goto, Serving, Filling
<1>3. Prefix(PrioritiesNow, Advance(head), Known - 1) /\ Known \in 1 .. Capacity
  BY <1>2, Counts DEF Sorting
<1>4. PrioritiesNow' = PrioritiesNow
  BY <1>2 DEF PrioritiesNow
<1>5. Used' = Distance(Advance(head), tail)
  BY <1>2 DEF Used
<1>6. Distance(Advance(head), tail) >= Known - 1
  <2>1. CASE WasFull
    BY <1>1, <1>3, <2>1, Counts, Further DEF Filling
  <2>2. CASE ~WasFull
    <3>1. Known <= Distance(head, tail) /\ tail # head
      <4>1. Known <= Distance(head, tail)
        BY <1>2, <2>2, Counts
      <4>2. QED
        BY <1>1, <1>3, <4>1, Apart DEF Slots
    <3>2. QED
      BY <1>1, <1>3, <3>1, Further DEF Slots
  <2>3. QED
    BY <2>1, <2>2
<1>7. \/ Distance(Advance(head), pivot) < Distance(Advance(head), tail)
      \/ Distance(Advance(head), tail) = 0 /\ pivot = Advance(head)
  <2>1. Distance(Advance(head), pivot) \in Slots
    BY <1>1, Apart
  <2>2. QED
    BY <1>1, <1>3, <1>6, <2>1 DEF Prefix, Slots
<1>8. Prefix(PrioritiesNow, Advance(head), Distance(Advance(head), tail))
  BY <1>3, <1>7 DEF Prefix
<1>9. QED
  BY <1>2, <1>4, <1>5, <1>8 DEF Turns, Sorting, Prefix

LEMMA InductiveStep == ~Strict /\ IInv /\ [Next]_vars => IInv'
<1>1. SUFFICES ASSUME ~Strict, IInv, [Next]_vars PROVE IInv'
  OBVIOUS
<1>2. Shape'
  BY <1>1, ShapeStep DEF IInv
<1>3. Turns' /\ Sorting'
  <2>1. ASSUME NEW n \in Messages, Insert(n) PROVE Turns' /\ Sorting'
    BY <1>1, <2>1, OrderInsert
  <2>2. CASE Pop \/ Test
    BY <1>1, <2>2, OrderPopTest
  <2>3. CASE Copy
    BY <1>1, <2>3, OrderCopy
  <2>4. CASE AgeTurn
    BY <1>1, <2>4, OrderAge
  <2>5. CASE SortTurn
    BY <1>1, <2>5, OrderSort
  <2>6. CASE FindTurn
    BY <1>1, <2>6, OrderFind
  <2>7. CASE SwapTurn
    BY <1>1, <2>7, OrderSwap
  <2>8. CASE Take \/ Unfull
    BY <1>1, <2>8, OrderTake
  <2>9. CASE Follow
    BY <1>1, <2>9, OrderFollow
  <2>10. CASE Move
    BY <1>1, <2>10, OrderMove
  <2>11. CASE UNCHANGED vars
    <3>1. UNCHANGED <<queue, locals, pc>>
      BY <2>11 DEF vars
    <3>2. PrioritiesNow' = PrioritiesNow /\ PrioritiesAged' = PrioritiesAged
          /\ Used' = Used /\ Known' = Known
      BY <3>1 DEF queue, locals, PrioritiesNow, PrioritiesAged, Used, Known,
                  WasFull, Serving
    <3>3. QED
      BY <1>1, <3>1, <3>2 DEF IInv, queue, locals, Turns, Sorting, Prefix
  <2>12. QED
    BY <1>1, <2>1, <2>2, <2>3, <2>4, <2>5, <2>6, <2>7, <2>8, <2>9, <2>10,
       <2>11 DEF Next, Main
<1>4. QED
  BY <1>2, <1>3 DEF IInv

(* Between two pops the nodes up to the pivot lie in the queue in order.   *)
LEMMA PrefixIsSorted == IInv => PrefixSorted
<1>1. SUFFICES ASSUME IInv, pc = "idle", Used > 0
               PROVE  /\ Distance(head, pivot) < Used
                      /\ \A i \in Segment(head, Distance(head, pivot)) :
                           buffer[i].priority >= buffer[Advance(i)].priority
  BY DEF PrefixSorted
<1>2. Prefix(PrioritiesNow, head, Used)
  BY <1>1 DEF IInv, Sorting
<1>3. head \in Slots /\ Distance(head, pivot) \in Slots
  BY <1>1, Apart DEF IInv, Shape, TypeOK
<1>4. ASSUME NEW i \in Segment(head, Distance(head, pivot))
      PROVE  buffer[i].priority >= buffer[Advance(i)].priority
  <2>1. i \in Slots /\ Distance(head, i) < Distance(head, pivot)
    BY <1>3, SegmentBetween DEF Between, Slots
  <2>2. QED
    BY <1>2, <2>1, Next1 DEF Prefix, PrioritiesNow
<1>5. QED
  BY <1>1, <1>2, <1>4 DEF Prefix

(* With a comparison that holds of equal priorities the queue keeps, at    *)
(* every statement of the pop and whatever is inserted there, what the     *)
(* comment on sort_pivot promises: it is the last node of a sorted prefix. *)
THEOREM Invariance == ~Strict => (Spec => []Inv)
<1>1. Init => IInv
  BY InitShape, InitOrder DEF IInv
<1>2. IInv => Inv
  BY PrefixIsSorted DEF IInv, Shape, Inv
<1>3. ~Strict /\ IInv /\ [Next]_vars => IInv'
  BY InductiveStep
<1>4. SUFFICES ASSUME ~Strict PROVE Spec => []Inv
  OBVIOUS
<1>5. IInv /\ [Next]_vars => IInv'
  BY <1>3, <1>4
<1>6. QED
  BY <1>1, <1>2, <1>5, PTL DEF Spec

-----------------------------------------------------------------------------
(* What a pop serves.  The sort ends with the pivot on the last node the   *)
(* pop knows, or on the first of a full queue.                             *)

SInv == IInv /\ (pc = "take" => tailCopy \in {pivot, Advance(pivot)})

LEMMA SortedStep == ~Strict /\ SInv /\ [Next]_vars => SInv'
<1>1. SUFFICES ASSUME ~Strict, SInv, [Next]_vars, pc' = "take"
               PROVE  tailCopy' \in {pivot', Advance(pivot')}
  BY InductiveStep DEF SInv
<1> USE DEF At, Goto
<1>2. CASE SortTurn
  BY <1>1, <1>2 DEF SortTurn, queue
<1>3. CASE pc = "take" /\ UNCHANGED <<tailCopy, pivot>>
  BY <1>1, <1>3 DEF SInv
<1>4. ASSUME NEW n \in Messages, Insert(n)
      PROVE  pc = "take" /\ UNCHANGED <<tailCopy, pivot>>
  BY <1>1, <1>4 DEF Insert, locals
<1>5. CASE UNCHANGED vars
  BY <1>1, <1>3, <1>5 DEF vars, queue, locals
<1>6. CASE Pop \/ Test \/ Copy \/ AgeTurn \/ FindTurn \/ SwapTurn
           \/ Take \/ Unfull \/ Follow \/ Move
  BY <1>1, <1>6 DEF Pop, Test, Copy, AgeTurn, FindTurn, SwapTurn, Take,
                    Unfull, Follow, Move
<1>7. QED
  BY <1>1, <1>2, <1>3, <1>4, <1>5, <1>6 DEF Next, Main

LEMMA LeastOf ==
  ASSUME NEW S \in SUBSET Nat, S # {}
  PROVE  \E x \in S : \A y \in S : x <= y
<1>1. IsWellFoundedOn(OpToRel(<, Nat), Nat)
  BY NatLessThanWellFounded, Zenon
<1>2. PICK x \in S : \A y \in S : ~(<<y, x>> \in OpToRel(<, Nat))
  BY <1>1, WFMin, Zenon
<1>3. \A y \in S : ~(y < x)
  BY <1>2 DEF OpToRel
<1>4. QED
  BY <1>3

(* The first node of a sorted prefix is one of its highest: the nearest    *)
(* node higher than it would be higher than its predecessor.               *)
LEMMA FirstIsHighest ==
  ASSUME Shape, NEW n, Prefix(PrioritiesNow, head, n),
         NEW i \in Slots, Distance(head, i) <= Distance(head, pivot)
  PROVE  buffer[head].priority >= buffer[i].priority
<1> DEFINE Higher == { d \in Nat : \E j \in Slots :
                         /\ d = Distance(head, j) /\ d <= Distance(head, pivot)
                         /\ buffer[j].priority > buffer[head].priority }
<1>1. /\ head \in Slots /\ pivot \in Slots /\ Distance(head, pivot) \in Slots
      /\ \A j \in Slots : buffer[j].priority \in Nat
  BY Apart, Values DEF Shape, TypeOK
<1>2. SUFFICES ASSUME buffer[i].priority > buffer[head].priority PROVE FALSE
  BY <1>1
<1>3. Distance(head, i) \in Higher
  BY <1>1, <1>2, Apart DEF Slots
<1>4. PICK d \in Higher : \A e \in Higher : d <= e
  <2>1. Higher \in SUBSET Nat /\ Higher # {}
    BY <1>3
  <2>2. QED
    BY <2>1, LeastOf
<1>5. PICK j \in Slots : /\ d = Distance(head, j) /\ d <= Distance(head, pivot)
                         /\ buffer[j].priority > buffer[head].priority
  OBVIOUS
<1>6. PICK k \in Slots : Advance(k) = j
  BY Next1
<1>7. j # head
  BY <1>1, <1>5
<1>8. Distance(head, k) \in Nat /\ d = Distance(head, k) + 1
  BY <1>1, <1>5, <1>6, <1>7, Further, Apart DEF Slots
<1>9. Distance(head, k) < Distance(head, pivot)
  BY <1>1, <1>5, <1>8 DEF Slots
<1>10. buffer[k].priority >= buffer[j].priority
  BY <1>6, <1>9 DEF Prefix, PrioritiesNow
<1>11. buffer[k].priority > buffer[head].priority
  BY <1>1, <1>5, <1>10
<1>12. Distance(head, k) \in Higher
  BY <1>1, <1>8, <1>9, <1>11 DEF Slots
<1>13. QED
  BY <1>4, <1>8, <1>12

(* A pop serves one of the highest of the nodes it found, whatever was     *)
(* inserted since, unless the queue was full.                              *)
ServesHighest ==
  [][Take /\ ~WasFull => \A i \in Segment(head, Known) :
       buffer[head].priority >= buffer[i].priority]_vars

LEMMA TakesHighest ==
  ASSUME SInv, Take, ~WasFull, NEW i \in Segment(head, Known)
  PROVE  buffer[head].priority >= buffer[i].priority
<1> USE DEF SInv, IInv, Shape
<1>1. /\ head \in Slots /\ pivot \in Slots /\ tailCopy \in Slots
      /\ \A j \in Slots : Distance(head, j) \in Slots
  BY Apart DEF TypeOK
<1>2. pc = "take" /\ Serving
  BY DEF Take, At, Serving
<1>3. Known = Distance(head, tailCopy) /\ Prefix(PrioritiesNow, head, Known)
      /\ Known \in 1 .. Capacity
  BY <1>2, Counts DEF Sorting
<1>4. Distance(head, pivot) < Distance(head, tailCopy)
  BY <1>3 DEF Prefix
<1>5. tailCopy = Advance(pivot)
  <2>1. tailCopy # pivot
    BY <1>1, <1>4 DEF Slots
  <2>2. QED
    BY <1>2, <2>1
<1>6. Distance(head, tailCopy) = Distance(head, pivot) + 1
  BY <1>1, <1>4, <1>5, Further DEF Slots
<1>7. i \in Slots /\ Distance(head, i) < Known
  BY <1>1, <1>3, SegmentBetween DEF Between
<1>8. Distance(head, i) <= Distance(head, pivot)
  BY <1>1, <1>3, <1>6, <1>7 DEF Slots
<1>9. QED
  BY <1>3, <1>7, <1>8, FirstIsHighest

(* What the header promises of PQFI_pop, for a comparison that holds of    *)
(* equal priorities, short of the full queue.                              *)
THEOREM PopServesHighest == ~Strict => (Spec => ServesHighest)
<1>1. Init => SInv
  BY InitShape, InitOrder DEF SInv, IInv, Init
<1>2. ~Strict /\ SInv /\ [Next]_vars => SInv'
  BY SortedStep
<1>3. SInv /\ [Next]_vars =>
        [Take /\ ~WasFull => \A i \in Segment(head, Known) :
           buffer[head].priority >= buffer[i].priority]_vars
  BY TakesHighest
<1>4. SUFFICES ASSUME ~Strict PROVE Spec => ServesHighest
  OBVIOUS
<1>5. SInv /\ [Next]_vars => SInv'
  BY <1>2, <1>4
<1>6. QED
  BY <1>1, <1>3, <1>5, PTL DEF Spec, ServesHighest

-----------------------------------------------------------------------------
(* Bags of nodes: how many of some slots hold each node, in a buffer v.    *)
HIDE FastInsertAssumption

Bag(v, S) == [n \in Nodes |-> Cardinality({ i \in S : v[i] = n })]

LEMMA SlotsFinite ==
  ASSUME NEW S \in SUBSET Slots
  PROVE  IsFiniteSet(S) /\ Cardinality(S) \in Nat
<1>1. Capacity - 1 \in Int
  BY FastInsertAssumption
<1>2. IsFiniteSet(Slots)
  BY <1>1, FS_Interval DEF Slots
<1>3. IsFiniteSet(S)
  BY <1>2, FS_Subset
<1>4. QED
  BY <1>3, FS_CardinalityType

LEMMA BagIs ==
  ASSUME NEW v, NEW S \in SUBSET Slots, NEW n \in Nodes
  PROVE  /\ Bag(v, S)[n] = Cardinality({ i \in S : v[i] = n })
         /\ Bag(v, S)[n] \in Nat
         /\ Bag(v, S)[n] > 0 <=> \E i \in S : v[i] = n
<1>1. Bag(v, S)[n] = Cardinality({ i \in S : v[i] = n })
  BY DEF Bag
<1>2. /\ IsFiniteSet({ i \in S : v[i] = n })
      /\ Cardinality({ i \in S : v[i] = n }) \in Nat
  BY SlotsFinite
<1>3. Cardinality({ i \in S : v[i] = n }) = 0 <=> { i \in S : v[i] = n } = {}
  BY <1>2, FS_EmptySet
<1>4. QED
  BY <1>1, <1>2, <1>3

(* The bag depends on what the slots hold and on nothing else.             *)
LEMMA BagAgrees ==
  ASSUME NEW v, NEW w, NEW S \in SUBSET Slots, \A i \in S : v[i] = w[i]
  PROVE  Bag(v, S) = Bag(w, S)
<1>1. \A n : { i \in S : v[i] = n } = { i \in S : w[i] = n }
  OBVIOUS
<1>2. QED
  BY <1>1 DEF Bag

(* One more slot.                                                          *)
LEMMA BagGrows ==
  ASSUME NEW v, NEW S \in SUBSET Slots, NEW i \in Slots, i \notin S,
         NEW n \in Nodes
  PROVE  Bag(v, S \cup {i})[n] = Bag(v, S)[n] + (IF v[i] = n THEN 1 ELSE 0)
<1> DEFINE P == { j \in S : v[j] = n }
<1> DEFINE R == { j \in S \cup {i} : v[j] = n }
<1>1. IsFiniteSet(P) /\ Cardinality(P) \in Nat
  BY SlotsFinite
<1>2. Bag(v, S)[n] = Cardinality(P) /\ Bag(v, S \cup {i})[n] = Cardinality(R)
  BY DEF Bag
<1>3. CASE v[i] = n
  <2>1. R = P \cup {i} /\ i \notin P
    BY <1>3
  <2>2. Cardinality(R) = Cardinality(P) + 1
    BY <1>1, <2>1, FS_AddElement
  <2>3. QED
    BY <1>2, <1>3, <2>2
<1>4. CASE v[i] # n
  <2>1. R = P
    BY <1>4
  <2>2. QED
    BY <1>1, <1>2, <1>4, <2>1
<1>5. QED
  BY <1>3, <1>4

(* Two disjoint sets of slots.                                             *)
LEMMA BagUnion ==
  ASSUME NEW v, NEW S \in SUBSET Slots, NEW T \in SUBSET Slots,
         S \cap T = {}, NEW n \in Nodes
  PROVE  Bag(v, S \cup T)[n] = Bag(v, S)[n] + Bag(v, T)[n]
<1> DEFINE P == { j \in S : v[j] = n }
<1> DEFINE R == { j \in T : v[j] = n }
<1>1. /\ IsFiniteSet(P) /\ Cardinality(P) \in Nat
      /\ IsFiniteSet(R) /\ Cardinality(R) \in Nat
  BY SlotsFinite
<1>2. { j \in S \cup T : v[j] = n } = P \cup R /\ P \cap R = {}
  OBVIOUS
<1>3. Cardinality(P \cup R) = Cardinality(P) + Cardinality(R) - Cardinality({})
  BY <1>1, <1>2, FS_Union
<1>4. Cardinality({}) = 0
  BY FS_EmptySet
<1>5. /\ Bag(v, S)[n] = Cardinality(P) /\ Bag(v, T)[n] = Cardinality(R)
      /\ Bag(v, S \cup T)[n] = Cardinality({ j \in S \cup T : v[j] = n })
  BY DEF Bag
<1>6. Bag(v, S \cup T)[n] = Cardinality(P \cup R)
  BY <1>2, <1>5
<1> HIDE DEF P, R
<1>7. QED
  BY <1>1, <1>3, <1>4, <1>5, <1>6

(* Two slots of the set exchange their nodes.                              *)
LEMMA BagSwaps ==
  ASSUME NEW v, NEW w, NEW S \in SUBSET Slots, NEW i \in S, NEW j \in S,
         i # j, w[i] = v[j], w[j] = v[i],
         \A k \in S \ {i, j} : w[k] = v[k]
  PROVE  Bag(w, S) = Bag(v, S)
<1> DEFINE R == S \ {i, j}
<1>1. R \in SUBSET Slots /\ R \cup {i} \in SUBSET Slots /\ i \in Slots
      /\ j \in Slots /\ i \notin R /\ j \notin R \cup {i}
  OBVIOUS
<1>2. (R \cup {i}) \cup {j} = S
  OBVIOUS
<1>3. Bag(w, R) = Bag(v, R)
  BY <1>1, BagAgrees
<1> HIDE DEF R
<1>4. ASSUME NEW n \in Nodes PROVE Bag(w, S)[n] = Bag(v, S)[n]
  <2>1. Bag(v, S)[n] = Bag(v, R \cup {i})[n] + (IF v[j] = n THEN 1 ELSE 0)
    BY <1>1, <1>2, BagGrows
  <2>2. Bag(w, S)[n] = Bag(w, R \cup {i})[n] + (IF w[j] = n THEN 1 ELSE 0)
    BY <1>1, <1>2, BagGrows
  <2>3. Bag(v, R \cup {i})[n] = Bag(v, R)[n] + (IF v[i] = n THEN 1 ELSE 0)
    BY <1>1, BagGrows
  <2>4. Bag(w, R \cup {i})[n] = Bag(w, R)[n] + (IF w[i] = n THEN 1 ELSE 0)
    BY <1>1, BagGrows
  <2>5. Bag(v, R)[n] \in Nat
    BY <1>1, BagIs
  <2>6. QED
    BY <1>3, <2>1, <2>2, <2>3, <2>4, <2>5
<1>5. QED
  BY <1>4 DEF Bag

(* The copies in the bag are as many as the slots: each node's copies are  *)
(* numbered as the slots that hold it are counted.                         *)
LEMMA InjectionIs ==
  ASSUME NEW A, NEW B, NEW f \in [A -> B],
         \A x, y \in A : f[x] = f[y] => x = y
  PROVE  f \in Injection(A, B)
  BY DEF Injection, IsInjective

LEMMA BijectionIs ==
  ASSUME NEW A, NEW B, NEW f \in Bijection(A, B)
  PROVE  /\ f \in [A -> B]
         /\ \A x, y \in A : f[x] = f[y] => x = y
         /\ \A y \in B : \E x \in A : f[x] = y
  BY DEF Bijection, Injection, Surjection, IsInjective

HeldIn(v, S, T)   == { i \in S : v[i] \in T }
CopiesIn(bag, T)  == { c \in Q!Copies(bag) : c[1] \in T }

LEMMA CopiesAreSlots ==
  ASSUME NEW v, NEW S \in SUBSET Slots, \A i \in S : v[i] \in Nodes, NEW T
  PROVE  Cardinality(CopiesIn(Bag(v, S), T)) = Cardinality(HeldIn(v, S, T))
<1> DEFINE Holding(n) == { i \in S : v[i] = n }
<1> DEFINE Numbers(n) == Bijection(1 .. Bag(v, S)[n], Holding(n))
<1> DEFINE slot == [n \in Nodes |-> CHOOSE f \in Numbers(n) : TRUE]
<1> DEFINE C == { c \in Q!Copies(Bag(v, S)) : c[1] \in T }
<1> DEFINE D == { i \in S : v[i] \in T }
<1> DEFINE F == [c \in C |-> slot[c[1]][c[2]]]
<1>1. ASSUME NEW n \in Nodes PROVE slot[n] \in Numbers(n)
  <2>1. IsFiniteSet(Holding(n)) /\ Bag(v, S)[n] = Cardinality(Holding(n))
    BY SlotsFinite, BagIs
  <2>2. Numbers(n) # {}
    BY <2>1, FS_CardinalityType DEF ExistsBijection
  <2>3. QED
    BY <2>2
<1>2. ASSUME NEW n \in Nodes
      PROVE  /\ \A k \in 1 .. Bag(v, S)[n] : slot[n][k] \in Holding(n)
             /\ \A k, l \in 1 .. Bag(v, S)[n] :
                  slot[n][k] = slot[n][l] => k = l
             /\ \A i \in Holding(n) :
                  \E k \in 1 .. Bag(v, S)[n] : slot[n][k] = i
  <2> DEFINE A == 1 .. Bag(v, S)[n]
  <2> DEFINE B == Holding(n)
  <2> DEFINE f == slot[n]
  <2>1. f \in Bijection(A, B)
    BY <1>1
  <2>2. /\ f \in [A -> B]
        /\ \A k, l \in A : f[k] = f[l] => k = l
        /\ \A i \in B : \E k \in A : f[k] = i
    <3> HIDE DEF A, B, f
    <3>1. QED
      BY <2>1, BijectionIs
  <2>3. QED
    BY <2>2
<1> HIDE DEF slot
<1>3. ASSUME NEW c \in C
      PROVE  /\ c = <<c[1], c[2]>> /\ c[1] \in Nodes /\ c[1] \in T
             /\ c[2] \in 1 .. Bag(v, S)[c[1]]
  BY DEF Q!Copies
<1>4. ASSUME NEW n \in Nodes, n \in T, NEW k \in 1 .. Bag(v, S)[n]
      PROVE  <<n, k>> \in C
  <2>1. <<n, k>> \in {n} \X (1 .. Bag(v, S)[n])
    OBVIOUS
  <2>2. <<n, k>> \in Q!Copies(Bag(v, S))
    BY <2>1 DEF Q!Copies
  <2>3. QED
    BY <1>4, <2>2
<1> HIDE DEF C
<1>5. F \in [C -> D] /\ \A c \in C : v[F[c]] = c[1]
  <2>1. ASSUME NEW c \in C PROVE F[c] \in D /\ v[F[c]] = c[1]
    <3>1. slot[c[1]][c[2]] \in Holding(c[1])
      BY <1>2, <1>3
    <3>2. QED
      BY <1>3, <3>1
  <2>2. QED
    BY <2>1
<1>6. F \in Injection(C, D)
  <2>1. ASSUME NEW c \in C, NEW d \in C, F[c] = F[d] PROVE c = d
    <3>1. c[1] = d[1]
      BY <1>5, <2>1
    <3>2. slot[c[1]][c[2]] = slot[c[1]][d[2]]
      BY <2>1, <3>1
    <3>3. c[2] = d[2]
      BY <1>2, <1>3, <3>1, <3>2
    <3>4. QED
      BY <1>3, <3>1, <3>3
  <2> HIDE DEF F, D
  <2>2. \A c, d \in C : F[c] = F[d] => c = d
    BY <2>1
  <2>3. QED
    BY <1>5, <2>2, InjectionIs
<1>7. F \in Surjection(C, D)
  <2>1. ASSUME NEW i \in D PROVE \E c \in C : F[c] = i
    <3>1. v[i] \in Nodes /\ v[i] \in T /\ i \in Holding(v[i])
      OBVIOUS
    <3>2. PICK k \in 1 .. Bag(v, S)[v[i]] : slot[v[i]][k] = i
      BY <1>2, <3>1
    <3>3. <<v[i], k>> \in C
      BY <1>4, <3>1
    <3>4. F[<<v[i], k>>] = i
      BY <3>2, <3>3
    <3>5. QED
      BY <3>3, <3>4
  <2>2. QED
    BY <1>5, <2>1 DEF Surjection
<1>8. IsFiniteSet(D)
  BY SlotsFinite
<1> HIDE DEF F, D
<1>9. Cardinality(C) = Cardinality(D)
  BY <1>6, <1>7, <1>8, FS_Injection
<1>10. QED
  BY <1>9 DEF C, D, CopiesIn, HeldIn

LEMMA SameCardinality ==
  ASSUME NEW S
  PROVE  Q!Cardinality(S) = Cardinality(S)
  BY Zenon DEF Q!Cardinality, Cardinality

(* The bag of the nodes aged is the bag aged.                              *)
LEMMA BagAges ==
  ASSUME NEW v, NEW w, NEW S \in SUBSET Slots,
         \A i \in S : v[i] \in Nodes /\ w[i] = Q!Older(v[i])
  PROVE  Bag(w, S) = Q!Aged(Bag(v, S))
<1>1. ASSUME NEW n \in Nodes
      PROVE  Cardinality({ i \in S : w[i] = n }) =
               Q!Cardinality({ c \in Q!Copies(Bag(v, S)) : Q!Older(c[1]) = n })
  <2> DEFINE T == { m \in Nodes : Q!Older(m) = n }
  <2>1. { i \in S : w[i] = n } = HeldIn(v, S, T)
    BY DEF HeldIn
  <2>2. \A c \in Q!Copies(Bag(v, S)) : c[1] \in Nodes
    BY DEF Q!Copies
  <2>3. { c \in Q!Copies(Bag(v, S)) : Q!Older(c[1]) = n } =
          CopiesIn(Bag(v, S), T)
    BY <2>2 DEF CopiesIn
  <2> HIDE DEF T
  <2>4. Cardinality(CopiesIn(Bag(v, S), T)) = Cardinality(HeldIn(v, S, T))
    BY CopiesAreSlots
  <2>5. QED
    BY <2>1, <2>3, <2>4, SameCardinality
<1>2. QED
  BY <1>1 DEF Bag, Q!Aged

LEMMA BagCounts ==
  ASSUME NEW v, NEW S \in SUBSET Slots, \A i \in S : v[i] \in Nodes
  PROVE  Q!Cardinality(Q!Copies(Bag(v, S))) = Cardinality(S)
<1>1. \A c \in Q!Copies(Bag(v, S)) : c[1] \in Nodes
  BY DEF Q!Copies
<1>2. CopiesIn(Bag(v, S), Nodes) = Q!Copies(Bag(v, S))
  BY <1>1 DEF CopiesIn
<1>3. HeldIn(v, S, Nodes) = S
  BY DEF HeldIn
<1>4. Cardinality(CopiesIn(Bag(v, S), Nodes)) = Cardinality(HeldIn(v, S, Nodes))
  BY CopiesAreSlots
<1>5. QED
  BY <1>2, <1>3, <1>4, SameCardinality
-----------------------------------------------------------------------------
(* Regions of the buffer, by how far their slots lie behind the first.     *)

LEMMA Behind ==
  ASSUME NEW f \in Slots, NEW g \in Slots, NEW i \in Slots
  PROVE  Distance(g, i) = IF Distance(f, g) <= Distance(f, i)
                          THEN Distance(f, i) - Distance(f, g)
                          ELSE Distance(f, i) - Distance(f, g) + Capacity
<1>1. Distance(g, i) = IF g <= i THEN i - g ELSE i - g + Capacity
  BY DistanceIs
<1>2. Distance(f, i) = IF f <= i THEN i - f ELSE i - f + Capacity
  BY DistanceIs
<1>3. Distance(f, g) = IF f <= g THEN g - f ELSE g - f + Capacity
  BY DistanceIs
<1>4. Capacity \in Nat
  BY FastInsertAssumption
<1>5. QED
  BY <1>1, <1>2, <1>3, <1>4 DEF Slots

LEMMA BetweenShifts ==
  ASSUME NEW f \in Slots, NEW g \in Slots, NEW n \in Nat,
         Distance(f, g) + n <= Capacity
  PROVE  Between(g, 0, n) = Between(f, Distance(f, g), Distance(f, g) + n)
<1>1. Distance(f, g) \in Slots /\ Capacity \in Nat
  BY Apart, FastInsertAssumption
<1>2. ASSUME NEW i \in Slots
      PROVE  /\ Distance(g, i) \in Slots /\ Distance(f, i) \in Slots
             /\ Distance(g, i) < n <=>
                  /\ Distance(f, g) <= Distance(f, i)
                  /\ Distance(f, i) < Distance(f, g) + n
  <2>1. Distance(g, i) \in Slots /\ Distance(f, i) \in Slots
    BY Apart
  <2>2. Distance(g, i) = IF Distance(f, g) <= Distance(f, i)
                         THEN Distance(f, i) - Distance(f, g)
                         ELSE Distance(f, i) - Distance(f, g) + Capacity
    BY Behind
  <2>3. QED
    BY <1>1, <2>1, <2>2 DEF Slots
<1>3. QED
  BY <1>2 DEF Between, Slots

LEMMA BetweenCounts ==
  ASSUME NEW f \in Slots, NEW n \in 0 .. Capacity
  PROVE  Cardinality(Between(f, 0, n)) = n
<1> DEFINE S == Between(f, 0, n)
<1> DEFINE T == 0 .. (n - 1)
<1> DEFINE d == [i \in S |-> Distance(f, i)]
<1>1. Capacity \in Nat \ {0}
  BY FastInsertAssumption
<1>2. /\ S \subseteq Slots
      /\ \A i \in S : Distance(f, i) \in Slots /\ Distance(f, i) < n
  BY Apart DEF Between
<1>3. d \in [S -> T]
  BY <1>1, <1>2 DEF Slots
<1>4. d \in Injection(S, T)
  <2>1. \A i, j \in S : d[i] = d[j] => i = j
    BY <1>2, Apart
  <2> HIDE DEF d, S, T
  <2>2. QED
    BY <1>3, <2>1, InjectionIs
<1>5. d \in Surjection(S, T)
  <2>1. ASSUME NEW k \in T PROVE \E i \in S : d[i] = k
    <3>1. k \in Slots /\ 0 <= k /\ k < n
      BY <1>1 DEF Slots
    <3>2. /\ (f + k) % Capacity \in Slots
          /\ Distance(f, (f + k) % Capacity) = k
      BY <3>1, AtDistance
    <3>3. (f + k) % Capacity \in S
      BY <3>1, <3>2 DEF Between
    <3>4. QED
      BY <3>2, <3>3
  <2> HIDE DEF d, S, T
  <2>2. QED
    BY <1>3, <2>1 DEF Surjection
<1>6. IsFiniteSet(T) /\ Cardinality(T) = n
  BY <1>1, FS_Interval
<1> HIDE DEF d, S, T
<1>7. Cardinality(S) = Cardinality(T)
  BY <1>4, <1>5, <1>6, FS_Injection
<1>8. QED
  BY <1>6, <1>7 DEF S
-----------------------------------------------------------------------------
(* The abstract bags: of what the nodes are going to be, in the slots the  *)
(* pop knows and in those behind them.                                     *)

View == [i \in Slots |-> Aging(i)]

Front == Between(head, 0, Known)
Back  == Between(head, Known, Known + Since)

Mapped ==
  /\ BagOf(Segment(head, Known)) = Bag(View, Front)
  /\ BagOf(Segment(tailCopy, Since)) = Bag(View, Back)

(* How far the two regions reach.                                          *)
Reach ==
  /\ head \in Slots /\ Distance(head, tail) \in Slots
  /\ Known \in 0 .. Capacity /\ Since \in 0 .. Capacity
  /\ Known + Since <= Capacity
  /\ Used = IF bufFull THEN Capacity ELSE Distance(head, tail)
  /\ ~Serving => Known = Used /\ Since = 0
  /\ WasFull => Known = Capacity /\ Since = 0
  /\ Serving /\ ~WasFull => /\ Known = Distance(head, tailCopy) /\ Known > 0
                            /\ Known + Since = Distance(head, tail)
                            /\ ~bufFull

(* Which nodes have still to be aged.                                      *)
Ageing ==
  \A i \in Slots :
    i \in ToAge <=> /\ pc = "age" /\ cursor # tailCopy
                   /\ Distance(head, cursor) <= Distance(head, i)
                   /\ Distance(head, i) < Known

Viewed ==
  /\ View \in [Slots -> Nodes]
  /\ \A i \in Slots :
       View[i] = IF i \in ToAge THEN Q!Older(buffer[i]) ELSE buffer[i]

(* How many nodes the abstract queue holds.                                *)
Sized ==
  Q!Size = IF Serving /\ ~WasFull THEN Distance(head, tail) ELSE Known

LEMMA Regions == Shape => Reach
<1> SUFFICES ASSUME Shape PROVE Reach
  OBVIOUS
<1>1. Capacity \in Nat \ {0}
  BY FastInsertAssumption
<1>2. /\ head \in Slots /\ tail \in Slots /\ tailCopy \in Slots
      /\ Distance(head, tail) \in Slots /\ Distance(head, tailCopy) \in Slots
  BY Apart DEF Shape, TypeOK
<1>3. Distance(tailCopy, tail) =
        IF Distance(head, tailCopy) <= Distance(head, tail)
        THEN Distance(head, tail) - Distance(head, tailCopy)
        ELSE Distance(head, tail) - Distance(head, tailCopy) + Capacity
  BY <1>2, Behind
<1>4. Serving /\ ~WasFull =>
        /\ Distance(head, tailCopy) <= Distance(head, tail) /\ ~bufFull
        /\ Distance(head, tailCopy) # 0
  BY <1>2, Apart DEF Shape, Filling, WasFull
<1>5. QED
  BY <1>1, <1>2, <1>3, <1>4 DEF Reach, Known, Since, Used, WasFull, Slots

LEMMA BagOfView ==
  ASSUME NEW S \in SUBSET Slots
  PROVE  BagOf(S) = Bag(View, S)
<1>1. \A n : { i \in S : Aging(i) = n } = { i \in S : View[i] = n }
  BY DEF View
<1>2. QED
  BY <1>1 DEF Bag, BagOf

LEMMA IsMapped == Shape => Mapped
<1>1. SUFFICES ASSUME Shape PROVE Mapped
  OBVIOUS
<1>2. /\ head \in Slots /\ tailCopy \in Slots
      /\ Known \in 0 .. Capacity /\ Since \in 0 .. Capacity
      /\ Known + Since <= Capacity
  BY <1>1, Regions DEF Reach, Shape, TypeOK
<1>3. Segment(head, Known) = Front
  BY <1>2, SegmentBetween DEF Front
<1>4. Segment(tailCopy, Since) = Between(tailCopy, 0, Since)
  BY <1>2, SegmentBetween
<1>5. Between(tailCopy, 0, Since) = Back
  <2>1. CASE Since = 0
    <3>1. Distance(head, tailCopy) \in Nat
      BY <1>2, Apart DEF Slots
    <3>2. \A i \in Slots : Distance(head, i) \in Int /\ Distance(tailCopy, i) \in Int
      BY <1>2, Apart DEF Slots
    <3>3. Between(tailCopy, 0, 0) = {} /\ Between(head, Known, Known + 0) = {}
      BY <1>2, <3>2 DEF Between
    <3>4. QED
      BY <2>1, <3>3 DEF Back
  <2>2. CASE Since # 0
    <3>1. Known = Distance(head, tailCopy)
      BY <1>1, <2>2, Regions DEF Reach, WasFull
    <3>2. QED
      BY <1>2, <3>1, BetweenShifts DEF Back
  <2>3. QED
    BY <2>1, <2>2
<1>6. Front \in SUBSET Slots /\ Back \in SUBSET Slots
  BY DEF Front, Back, Between
<1>7. QED
  BY <1>3, <1>4, <1>5, <1>6, BagOfView DEF Mapped

LEMMA AgeingIs == Shape /\ Turns => Ageing
<1> SUFFICES ASSUME Shape, Turns, NEW i \in Slots
             PROVE  i \in ToAge <=> /\ pc = "age" /\ cursor # tailCopy
                                   /\ Distance(head, cursor) <= Distance(head, i)
                                   /\ Distance(head, i) < Known
  BY DEF Ageing
<1>1. Capacity \in Nat \ {0}
  BY FastInsertAssumption
<1>2. /\ head \in Slots /\ cursor \in Slots /\ tailCopy \in Slots
      /\ Distance(head, cursor) \in Slots /\ Distance(head, tailCopy) \in Slots
      /\ Distance(head, i) \in Slots /\ Distance(cursor, i) \in Slots
      /\ Distance(cursor, tailCopy) \in Slots
      /\ Distance(cursor, tailCopy) = 0 <=> tailCopy = cursor
  BY Apart DEF Shape, TypeOK
<1>3. CASE pc = "age"
  <2>1. Distance(head, cursor) <= Distance(head, tailCopy) /\ Serving
    BY <1>3 DEF Turns, Serving
  <2>2. /\ Distance(cursor, tailCopy) =
             Distance(head, tailCopy) - Distance(head, cursor)
        /\ Distance(cursor, i) =
             IF Distance(head, cursor) <= Distance(head, i)
             THEN Distance(head, i) - Distance(head, cursor)
             ELSE Distance(head, i) - Distance(head, cursor) + Capacity
    BY <1>2, <2>1, Behind
  <2>3. cursor # tailCopy => Known = Distance(head, tailCopy)
    <3>1. WasFull => cursor = tailCopy
      <4>1. Distance(head, head) = 0
        BY <1>2, Apart
      <4>2. WasFull => Distance(head, cursor) = 0
        BY <1>2, <2>1, <4>1 DEF WasFull, Slots
      <4>3. QED
        BY <1>2, <4>2, Apart DEF WasFull
    <3>2. QED
      BY <2>1, <3>1, Regions DEF Reach
  <2>4. Distance(cursor, tailCopy) \in 0 .. Capacity
    BY <1>1, <1>2 DEF Slots
  <2>5. ToAge = Between(cursor, 0, Distance(cursor, tailCopy))
    BY <1>2, <1>3, <2>4, SegmentBetween DEF ToAge
  <2>6. i \in ToAge <=> Distance(cursor, i) < Distance(cursor, tailCopy)
    BY <1>2, <2>5 DEF Between, Slots
  <2>7. QED
    BY <1>1, <1>2, <1>3, <2>1, <2>2, <2>3, <2>6 DEF Slots
<1>4. CASE pc # "age"
  BY <1>4 DEF ToAge
<1>5. QED
  BY <1>3, <1>4

LEMMA ViewIs == Shape => Viewed
<1> SUFFICES ASSUME Shape PROVE Viewed
  OBVIOUS
<1>1. ASSUME NEW i \in Slots
      PROVE  buffer[i] \in Nodes /\ [buffer[i] EXCEPT !.priority = Age[@]] \in Nodes
  <2>1. buffer[i] \in Nodes /\ Age[buffer[i].priority] \in Priorities
    BY AgedNode DEF Shape, TypeOK
  <2>2. QED
    BY <2>1 DEF Nodes
<1>2. \A i \in Slots : View[i] = Aging(i)
  BY DEF View
<1>3. \A i \in Slots : Aging(i) \in Nodes
  BY <1>1 DEF Aging
<1>4. View \in [Slots -> Nodes]
  BY <1>3 DEF View
<1>5. QED
  BY <1>2, <1>4 DEF Viewed, Aging, Q!Older

LEMMA SizeIs == Shape => Sized
<1> SUFFICES ASSUME Shape PROVE Sized
  OBVIOUS
<1>1. /\ head \in Slots /\ tailCopy \in Slots
      /\ Known \in 0 .. Capacity /\ Since \in 0 .. Capacity
  BY Regions DEF Reach, Shape, TypeOK
<1>2. ASSUME NEW S \in SUBSET Slots
      PROVE  Q!Cardinality(Q!Copies(BagOf(S))) = Cardinality(S)
  <2>1. \A i \in S : View[i] \in Nodes
    BY ViewIs DEF Viewed
  <2>2. QED
    BY <2>1, BagOfView, BagCounts
<1>3. /\ Segment(head, Known) = Between(head, 0, Known)
      /\ Segment(tailCopy, Since) = Between(tailCopy, 0, Since)
  BY <1>1, SegmentBetween
<1>4. /\ Cardinality(Segment(head, Known)) = Known
      /\ Cardinality(Segment(tailCopy, Since)) = Since
  BY <1>1, <1>3, BetweenCounts
<1>5. /\ Segment(head, Known) \in SUBSET Slots
      /\ Segment(tailCopy, Since) \in SUBSET Slots
  BY <1>3 DEF Between
<1>6. Q!Size = Known + Since
  BY <1>2, <1>4, <1>5 DEF Q!Size
<1>7. QED
  BY <1>1, <1>6, Regions DEF Reach, Sized, WasFull
(* What relates the queue to the abstract one, before and after a step.    *)
Facts == Shape /\ Turns /\ Mapped /\ Reach /\ Ageing /\ Viewed /\ Sized

LEMMA FactsHold == Shape /\ Turns => Facts
  BY IsMapped, Regions, AgeingIs, ViewIs, SizeIs DEF Facts
-----------------------------------------------------------------------------
(* Most steps change nothing of the abstract queue.                        *)

LEMMA FrontBack ==
  ASSUME Reach
  PROVE  /\ Front \in SUBSET Slots /\ Back \in SUBSET Slots
         /\ Front \cap Back = {}
         /\ \A i \in Slots : Distance(head, i) \in Slots
<1>1. head \in Slots /\ Known \in Nat /\ Since \in Nat
  BY FastInsertAssumption DEF Reach
<1>2. \A i \in Slots : Distance(head, i) \in Slots
  BY <1>1, Apart
<1>3. \A i \in Slots : Distance(head, i) \in Int
  BY <1>2 DEF Slots
<1>4. QED
  BY <1>1, <1>2, <1>3 DEF Front, Back, Between

LEMMA SameBags ==
  ASSUME Facts, Facts', UNCHANGED <<head, Known, Since>>,
         \A i \in Slots : View'[i] = View[i],
         UNCHANGED <<Serving, WasFull, accepted, served>>
  PROVE  UNCHANGED Q!avars
<1>1. Front \in SUBSET Slots /\ Back \in SUBSET Slots
  BY DEF Front, Back, Between
<1>2. Front' = Front /\ Back' = Back
  BY DEF Front, Back
<1>3. Bag(View', Front) = Bag(View, Front) /\ Bag(View', Back) = Bag(View, Back)
  BY <1>1, BagAgrees
<1>4. Bag(View', Front') = Bag(View, Front) /\ Bag(View', Back') = Bag(View, Back)
  BY <1>2, <1>3
<1>5. QED
  BY <1>4 DEF Facts, Mapped, Q!avars

(* A step that moves neither the ends nor the nodes.                       *)
LEMMA Quiet ==
  ASSUME Facts, Facts',
         UNCHANGED <<buffer, head, tail, tailCopy, accepted, served, Serving>>,
         ~Serving => UNCHANGED bufFull,
         ToAge' = ToAge
  PROVE  UNCHANGED Q!avars
<1>1. UNCHANGED WasFull
  BY DEF WasFull
<1>2. UNCHANGED <<Known, Since>>
  BY <1>1 DEF Known, Since, Used
<1>3. \A i \in Slots : View'[i] = View[i]
  BY DEF Facts, Viewed
<1>4. QED
  BY <1>1, <1>2, <1>3, SameBags

LEMMA MapPopTest ==
  ASSUME Facts, Facts', Pop \/ Test, head # tail \/ Pop
  PROVE  UNCHANGED Q!avars
<1>1. /\ UNCHANGED <<queue, locals, accepted, served>>
      /\ pc \in {"idle", "test"} /\ pc' \in {"copy", "test"}
  BY DEF Pop, Test, At, Goto
<1>2. UNCHANGED Serving /\ ToAge' = ToAge
  BY <1>1 DEF Serving, ToAge
<1>3. QED
  BY <1>1, <1>2, Quiet DEF queue, locals

LEMMA MapQuiet ==
  ASSUME Facts, Facts', SortTurn \/ FindTurn \/ Take \/ Unfull \/ Follow
  PROVE  UNCHANGED Q!avars
<1>1. /\ UNCHANGED <<buffer, head, tail, tailCopy, accepted, served>>
      /\ pc \in {"sort", "find", "take", "unfull", "follow"}
      /\ pc' \in {"sort", "find", "swap", "take", "unfull", "follow", "move"}
  BY DEF SortTurn, FindTurn, Take, Unfull, Follow, At, Goto, queue, locals
<1>2. Serving /\ Serving' /\ ToAge' = ToAge
  BY <1>1 DEF Serving, ToAge
<1>3. QED
  BY <1>1, <1>2, Quiet

LEMMA MapUnchanged ==
  ASSUME Facts, Facts', UNCHANGED vars
  PROVE  UNCHANGED Q!avars
<1>1. UNCHANGED <<queue, pc, locals, accepted, served>>
  BY DEF vars
<1>2. UNCHANGED Serving /\ ToAge' = ToAge
  BY <1>1 DEF Serving, ToAge, locals
<1>3. QED
  BY <1>1, <1>2, Quiet DEF queue, locals

(* The node that a turn ages is one that was going to be aged.             *)
LEMMA MapAge ==
  ASSUME Facts, Facts', AgeTurn
  PROVE  UNCHANGED Q!avars
<1>1. /\ UNCHANGED <<head, tail, tailCopy, accepted, served>>
      /\ pc = "age" /\ Serving /\ Serving'
  BY DEF AgeTurn, At, Goto, Serving
<1>2. CASE cursor = tailCopy
  <2>1. UNCHANGED <<buffer, cursor>> /\ pc' = "sort"
    BY <1>2 DEF AgeTurn, Goto
  <2>2. ToAge \cap Slots = {} /\ ToAge' = {}
    BY <1>1, <1>2, <2>1 DEF Facts, Ageing, ToAge
  <2>3. UNCHANGED <<WasFull, Known, Since>>
    BY <1>1 DEF WasFull, Known, Since
  <2>4. \A i \in Slots : View'[i] = View[i]
    BY <2>1, <2>2 DEF Facts, Viewed
  <2>5. QED
    BY <1>1, <2>3, <2>4, SameBags
<1>3. CASE cursor # tailCopy
  <2>1. /\ buffer' = [buffer EXCEPT ![cursor].priority = Age[@]]
        /\ cursor' = Advance(cursor) /\ pc' = "age"
    BY <1>1, <1>3 DEF AgeTurn
  <2>2. UNCHANGED <<WasFull, Known, Since>>
    BY <1>1 DEF WasFull, Known, Since
  <2>3. /\ cursor \in Slots /\ head \in Slots /\ tailCopy \in Slots
        /\ buffer \in [Slots -> Nodes]
        /\ \A i \in Slots : Distance(head, i) \in Slots
    BY Apart DEF Facts, Shape, TypeOK
  <2>4. /\ Distance(head, cursor) < Distance(head, tailCopy)
        /\ Known = Distance(head, tailCopy)
    <3>1. Distance(head, cursor) <= Distance(head, tailCopy)
      BY <1>1 DEF Facts, Turns
    <3>2. Distance(head, cursor) # Distance(head, tailCopy)
      BY <1>3, <2>3, Apart
    <3>3. ~WasFull
      <4>1. Distance(head, head) = 0
        BY <2>3, Apart
      <4>2. QED
        BY <2>3, <3>1, <3>2, <4>1 DEF WasFull, Slots
    <3>4. QED
      BY <1>1, <2>3, <3>1, <3>2, <3>3 DEF Facts, Reach, Slots
  <2>5. Distance(head, Advance(cursor)) = Distance(head, cursor) + 1
    <3>1. Distance(head, cursor) # Capacity - 1
      BY <2>3, <2>4, FastInsertAssumption DEF Slots
    <3>2. QED
      BY <2>3, <3>1, Further
  <2>6. ASSUME NEW i \in Slots PROVE View'[i] = View[i]
    <3>1. i \in ToAge <=> /\ Distance(head, cursor) <= Distance(head, i)
                          /\ Distance(head, i) < Known
      BY <1>1, <1>3 DEF Facts, Ageing
    <3>2. i \in ToAge' <=> /\ Advance(cursor) # tailCopy
                           /\ Distance(head, cursor) + 1 <= Distance(head, i)
                           /\ Distance(head, i) < Known
      BY <1>1, <2>1, <2>2, <2>5 DEF Facts, Ageing
    <3>3. CASE i = cursor
      <4>1. i \in ToAge /\ i \notin ToAge'
        BY <2>3, <2>4, <3>1, <3>2, <3>3 DEF Slots
      <4>2. buffer'[i] = [buffer[i] EXCEPT !.priority = Age[@]]
        BY <2>1, <2>3, <3>3
      <4>3. QED
        BY <4>1, <4>2 DEF Facts, Viewed, Q!Older
    <3>4. CASE i # cursor
      <4>1. Distance(head, i) # Distance(head, cursor)
        BY <2>3, <3>4, Apart
      <4>2. Advance(cursor) = tailCopy => ~(i \in ToAge)
        BY <2>3, <2>4, <2>5, <3>1, <4>1 DEF Slots
      <4>3. Distance(head, cursor) \in Int /\ Distance(head, i) \in Int
        BY <2>3 DEF Slots
      <4>4. Distance(head, cursor) + 1 <= Distance(head, i) <=>
              Distance(head, cursor) <= Distance(head, i)
        BY <4>1, <4>3
      <4>5. i \in ToAge' <=> i \in ToAge
        BY <3>1, <3>2, <4>2, <4>4
      <4>6. buffer'[i] = buffer[i]
        BY <2>1, <2>3, <3>4
      <4>7. QED
        BY <4>5, <4>6 DEF Facts, Viewed
    <3>5. QED
      BY <3>3, <3>4
  <2>7. QED
    BY <1>1, <2>2, <2>6, SameBags
<1>4. QED
  BY <1>2, <1>3
(* A swap exchanges two nodes the pop knows.                               *)
LEMMA MapSwap ==
  ASSUME Facts, Facts', Sorting, SwapTurn
  PROVE  UNCHANGED Q!avars
<1>1. /\ UNCHANGED <<head, tail, tailCopy, node, accepted, served>>
      /\ pc = "swap" /\ pc' \in {"swap", "sort"} /\ Serving /\ Serving'
  BY DEF SwapTurn, At, Goto, Serving
<1>2. UNCHANGED <<WasFull, Known, Since>> /\ ToAge' = ToAge
  BY <1>1 DEF WasFull, Known, Since, ToAge
<1>3. CASE cursor = node
  <2>1. UNCHANGED buffer
    BY <1>3 DEF SwapTurn
  <2>2. QED
    BY <1>1, <1>2, <2>1, Quiet
<1>4. CASE cursor # node
  <2>1. buffer' = [buffer EXCEPT ![cursor] = buffer[node],
                                 ![node] = buffer[cursor]]
    BY <1>4 DEF SwapTurn
  <2>2. /\ cursor \in Slots /\ node \in Slots /\ head \in Slots
        /\ tailCopy \in Slots /\ pivot \in Slots
        /\ buffer \in [Slots -> Nodes]
        /\ \A i \in Slots : Distance(head, i) \in Slots
    BY Apart DEF Facts, Shape, TypeOK
  <2>3. /\ node = Advance(pivot) /\ node \notin {head, tailCopy}
        /\ Distance(head, cursor) <= Distance(head, node)
    BY <1>1 DEF Facts, Turns
  <2>4. Distance(head, node) < Known
    <3>1. CASE WasFull
      BY <2>2, <3>1, FastInsertAssumption DEF Facts, Reach, Slots
    <3>2. CASE ~WasFull
      <4>1. Known = Distance(head, tailCopy) /\ Known > 0
        BY <1>1, <3>2 DEF Facts, Reach
      <4>2. Prefix(PrioritiesNow, head, Known)
        BY <1>1 DEF Sorting
      <4>3. Distance(head, pivot) < Known
        BY <4>1, <4>2 DEF Prefix
      <4>4. Distance(head, node) = Distance(head, pivot) + 1
        BY <2>2, <2>3, Further
      <4>5. Distance(head, node) # Distance(head, tailCopy)
        BY <2>2, <2>3, Apart
      <4>6. QED
        BY <2>2, <4>1, <4>3, <4>4, <4>5 DEF Slots
    <3>3. QED
      BY <3>1, <3>2
  <2>5. node \in Front /\ cursor \in Front
    <3>1. /\ Distance(head, node) \in Nat /\ Distance(head, cursor) \in Nat
          /\ Known \in Int
      BY <2>2 DEF Facts, Reach, Slots
    <3>2. Distance(head, cursor) < Known
      BY <2>3, <2>4, <3>1
    <3>3. QED
      BY <2>2, <2>4, <3>1, <3>2 DEF Front, Between
  <2>6. \A i \in Slots : View[i] = buffer[i] /\ View'[i] = buffer'[i]
    BY <1>1, <1>2 DEF Facts, Viewed, ToAge
  <2>7. /\ Front \in SUBSET Slots /\ Back \in SUBSET Slots
        /\ Front \cap Back = {}
    BY FrontBack DEF Facts
  <2>8. Bag(View', Front) = Bag(View, Front)
    <3>1. View'[cursor] = View[node] /\ View'[node] = View[cursor]
      BY <2>1, <2>2, <2>6
    <3>2. \A k \in Front \ {cursor, node} : View'[k] = View[k]
      BY <2>1, <2>2, <2>6, <2>7
    <3>3. QED
      BY <1>4, <2>5, <2>7, <3>1, <3>2, BagSwaps
  <2>9. Bag(View', Back) = Bag(View, Back)
    <3>1. \A k \in Back : View'[k] = View[k]
      BY <2>1, <2>2, <2>5, <2>6, <2>7
    <3>2. QED
      BY <2>7, <3>1, BagAgrees
  <2>10. Front' = Front /\ Back' = Back
    BY <1>1, <1>2 DEF Front, Back
  <2>11. Bag(View', Front') = Bag(View, Front) /\ Bag(View', Back') = Bag(View, Back)
    BY <2>8, <2>9, <2>10
  <2>12. QED
    BY <1>1, <1>2, <2>11 DEF Facts, Mapped, Q!avars
<1>5. QED
  BY <1>3, <1>4

LEMMA BagOfNone ==
  ASSUME NEW v
  PROVE  Bag(v, {}) = Q!Empty
<1>1. \A n : { i \in {} : v[i] = n } = {}
  OBVIOUS
<1>2. QED
  BY <1>1, FS_EmptySet DEF Bag, Q!Empty

(* A pop that finds nothing.                                               *)
LEMMA MapNothing ==
  ASSUME Facts, Facts', Test, head = tail, ~bufFull
  PROVE  Q!PopNothing
<1>1. /\ UNCHANGED <<buffer, head, tail, bufFull, tailCopy, accepted>>
      /\ served' = NoItem /\ pc = "test" /\ pc' = "idle"
  BY DEF Test, At, Goto, queue, locals
<1>2. /\ ~Serving /\ ~Serving' /\ ~WasFull /\ ~WasFull'
      /\ ToAge = {} /\ ToAge' = {}
  BY <1>1 DEF Serving, WasFull, ToAge
<1>3. Known = 0 /\ UNCHANGED <<Known, Since>> /\ Since = 0
  <2>1. Distance(head, tail) = 0
    BY Apart DEF Facts, Reach, Shape, TypeOK
  <2>2. Known = 0 /\ Since = 0
    BY <1>2, <2>1 DEF Facts, Reach
  <2>3. QED
    BY <1>1, <1>2, <2>2 DEF Known, Since, Used
<1>4. Front = {}
  <2>1. \A i \in Slots : Distance(head, i) \in Int
    BY FrontBack DEF Facts, Slots
  <2>2. QED
    BY <1>3, <2>1 DEF Front, Between
<1>5. Bag(View, Front) = Q!Empty
  BY <1>4, BagOfNone
<1>6. \A i \in Slots : View'[i] = View[i]
  BY <1>1, <1>2 DEF Facts, Viewed
<1>7. /\ Front \in SUBSET Slots /\ Back \in SUBSET Slots
      /\ Front' = Front /\ Back' = Back
  BY <1>1, <1>3 DEF Front, Back, Between
<1>8. Bag(View', Front') = Bag(View, Front) /\ Bag(View', Back') = Bag(View, Back)
  <2>1. Bag(View', Front) = Bag(View, Front) /\ Bag(View', Back) = Bag(View, Back)
    BY <1>6, <1>7, BagAgrees
  <2>2. QED
    BY <1>7, <2>1
<1>9. UNCHANGED <<Serving, WasFull>>
  BY <1>1 DEF Serving, WasFull
<1>10. QED
  BY <1>1, <1>2, <1>5, <1>8, <1>9 DEF Facts, Mapped, Q!PopNothing

(* A pop begins: from here on its nodes count as aged, save on a full      *)
(* queue, whose cursors the pop takes for those of an empty one.           *)
LEMMA MapCopy ==
  ASSUME Facts, Facts', Copy
  PROVE  Q!BeginPop
<1>1. /\ UNCHANGED <<buffer, head, tail, bufFull, accepted, served>>
      /\ tailCopy' = tail /\ cursor' = head /\ pc = "copy" /\ pc' = "age"
  BY DEF Copy, At, Goto, queue
<1>2. ~Serving /\ Serving' /\ ~WasFull /\ ToAge = {}
  BY <1>1 DEF Serving, WasFull, ToAge
<1>3. WasFull' <=> bufFull
  BY <1>1, <1>2 DEF WasFull, Facts, Shape, TypeOK, Filling
<1>4. /\ Known = Used /\ Since = 0 /\ Q!Size = Used /\ Capacity \in Nat \ {0}
      /\ Distance(head, tail) \in Slots
  BY <1>2, FastInsertAssumption DEF Facts, Reach, Sized
<1>5. WasFull' <=> Q!Size = Capacity
  BY <1>3, <1>4 DEF Facts, Reach, Slots
<1>6. Known' = Known /\ Since' = 0 /\ Known > 0
  <2>1. CASE WasFull'
    BY <1>3, <1>4, <2>1 DEF Facts, Reach
  <2>2. CASE ~WasFull'
    <3>1. Known' = Distance(head, tail) /\ Known' > 0
          /\ Known' + Since' = Distance(head, tail)
      BY <1>1, <1>2, <2>2 DEF Facts, Reach
    <3>2. Since' \in Nat
      BY <1>4 DEF Facts, Reach
    <3>3. Known = Distance(head, tail)
      BY <1>3, <1>4, <2>2 DEF Facts, Reach
    <3>4. QED
      BY <1>4, <3>1, <3>2, <3>3 DEF Slots
  <2>3. QED
    BY <2>1, <2>2
<1>7. /\ Front \in SUBSET Slots /\ Front' = Front /\ Back = {} /\ Back' = {}
      /\ head \in Front /\ View[head] \in Nodes
  <2>1. Front \in SUBSET Slots /\ Front' = Front
    BY <1>1, <1>6 DEF Front, Between
  <2>2. head \in Slots /\ Distance(head, head) = 0
        /\ \A i \in Slots : Distance(head, i) \in Int
    BY Apart DEF Facts, Reach, Slots
  <2>3. Known \in Int
    BY <1>4 DEF Facts, Reach
  <2>4. Back = {} /\ Back' = {}
    BY <1>1, <1>4, <1>6, <2>2, <2>3 DEF Back, Between
  <2>5. head \in Front
    BY <1>6, <2>2 DEF Front, Between
  <2>6. QED
    BY <2>1, <2>2, <2>4, <2>5 DEF Facts, Viewed
<1>8. Bag(View, Front) # Q!Empty
  <2>1. Bag(View, Front)[View[head]] > 0
    BY <1>7, BagIs
  <2>2. Q!Empty[View[head]] = 0
    BY <1>7 DEF Q!Empty
  <2>3. QED
    BY <2>1, <2>2
<1>9. Bag(View', Front') = IF WasFull' THEN Bag(View, Front)
                           ELSE Q!Aged(Bag(View, Front))
  <2>1. ASSUME NEW i \in Front
        PROVE  /\ View[i] = buffer[i] /\ buffer[i] \in Nodes
               /\ View'[i] = IF WasFull' THEN buffer[i] ELSE Q!Older(buffer[i])
    <3>1. i \in Slots
      BY <1>7
    <3>2. View[i] = buffer[i] /\ buffer[i] \in Nodes
      BY <1>2, <3>1 DEF Facts, Viewed
    <3>3. i \in ToAge' <=> ~WasFull'
      <4>1. Distance(head, i) < Known /\ Distance(head, i) \in Nat
        BY <3>1, FrontBack DEF Facts, Front, Between, Slots
      <4>2. Distance(head, head) = 0
        BY Apart DEF Facts, Reach
      <4>3. (head # tail) <=> ~WasFull'
        BY <1>1, <1>2 DEF WasFull
      <4>4. i \in ToAge' <=> head # tail
        BY <1>1, <1>6, <3>1, <4>1, <4>2 DEF Facts, Ageing
      <4>5. QED
        BY <4>3, <4>4
    <3>4. QED
      BY <1>1, <3>1, <3>2, <3>3 DEF Facts, Viewed
  <2>2. CASE WasFull'
    <3>1. Bag(View', Front) = Bag(View, Front)
      BY <1>7, <2>1, <2>2, BagAgrees
    <3>2. QED
      BY <1>7, <2>2, <3>1
  <2>3. CASE ~WasFull'
    <3>1. \A i \in Front : View[i] \in Nodes /\ View'[i] = Q!Older(View[i])
      BY <2>1, <2>3
    <3>2. Bag(View', Front) = Q!Aged(Bag(View, Front))
      BY <1>7, <3>1, BagAges
    <3>3. QED
      BY <1>7, <2>3, <3>2
  <2>4. QED
    BY <2>2, <2>3
<1>10. Bag(View', Back') = Bag(View, Back)
  BY <1>7, BagOfNone
<1>11. QED
  BY <1>1, <1>2, <1>5, <1>8, <1>9, <1>10 DEF Facts, Mapped, Q!BeginPop
(* An insertion adds a node to those the next pop may serve, or behind     *)
(* those the running one knows.                                            *)
LEMMA MapInsert ==
  ASSUME Facts, Facts', NEW n \in Messages, Insert(n)
  PROVE  Q!Insert(n)
<1>1. /\ UNCHANGED <<head, pc, tailCopy, cursor, served>>
      /\ accepted' = ~bufFull
  BY DEF Insert, locals
<1>2. UNCHANGED <<Serving, WasFull>>
  BY <1>1 DEF Serving, WasFull
<1>3. Serving => ~WasFull
  BY DEF Facts, Shape, Filling, Insert, WasFull, Serving
<1>4. /\ Capacity \in Nat \ {0} /\ Distance(head, tail) \in Slots
      /\ head \in Slots /\ tail \in Slots
  BY FastInsertAssumption DEF Facts, Reach, Shape, TypeOK
<1>5. Q!Size = Used
  BY <1>3 DEF Facts, Sized, Reach
<1>6. accepted' = (Q!Size < Capacity)
  BY <1>1, <1>4, <1>5 DEF Facts, Reach, Shape, TypeOK, Slots
<1>7. CASE bufFull
  <2>1. UNCHANGED <<buffer, tail, bufFull>>
    BY <1>7 DEF Insert
  <2>2. UNCHANGED <<Known, Since>> /\ ToAge' = ToAge
    BY <1>1, <1>2, <2>1 DEF Known, Since, Used, ToAge
  <2>3. \A i \in Slots : View'[i] = View[i]
    BY <2>1, <2>2 DEF Facts, Viewed
  <2>4. /\ Front \in SUBSET Slots /\ Back \in SUBSET Slots
        /\ Front' = Front /\ Back' = Back
    BY <1>1, <2>2 DEF Front, Back, Between
  <2>5. Bag(View', Front) = Bag(View, Front) /\ Bag(View', Back) = Bag(View, Back)
    BY <2>3, <2>4, BagAgrees
  <2>6. Bag(View', Front') = Bag(View, Front) /\ Bag(View', Back') = Bag(View, Back)
    BY <2>4, <2>5
  <2>7. ~accepted'
    BY <1>1, <1>7
  <2>8. QED
    BY <1>1, <1>2, <1>6, <2>6, <2>7 DEF Facts, Mapped, Q!Insert
<1>8. CASE ~bufFull
  <2>1. /\ buffer' = [buffer EXCEPT ![tail] = n] /\ tail' = Advance(tail)
        /\ bufFull' = (head = Advance(tail))
    BY <1>8, Stored DEF Facts, Store
  <2>2. Distance(head, tail) = Known + Since /\ Known + Since < Capacity
        /\ Known \in Nat /\ Since \in Nat
    BY <1>3, <1>4, <1>8 DEF Facts, Reach, Slots
  <2>3. n \in Nodes /\ buffer \in [Slots -> Nodes]
    BY FastInsertAssumption DEF Nodes, Facts, Shape, TypeOK
  <2>4. ToAge' = ToAge /\ tail \notin ToAge
    <3>1. ToAge' = ToAge
      BY <1>1 DEF ToAge
    <3>2. ~(Distance(head, tail) < Known)
      BY <2>2
    <3>3. QED
      BY <1>4, <3>1, <3>2 DEF Facts, Ageing
  <2>5. View'[tail] = n /\ \A i \in Slots : i # tail => View'[i] = View[i]
    BY <1>4, <2>1, <2>3, <2>4 DEF Facts, Viewed
  <2>6. /\ Front \in SUBSET Slots /\ Back \in SUBSET Slots
        /\ \A i \in Slots : Distance(head, i) \in Nat
        /\ \A i \in Slots : Distance(head, i) = Distance(head, tail) => i = tail
    <3>1. /\ Front \in SUBSET Slots /\ Back \in SUBSET Slots
          /\ \A i \in Slots : Distance(head, i) \in Slots
      BY FrontBack DEF Facts
    <3>2. \A i \in Slots : Distance(head, i) = Distance(head, tail) => i = tail
      BY <1>4, Apart
    <3>3. QED
      BY <3>1, <3>2 DEF Slots
  <2>7. tail \notin Front /\ tail \notin Back
    BY <2>2, <2>6 DEF Front, Back, Between
  <2>8. Bag(View', Front) = Bag(View, Front) /\ Bag(View', Back) = Bag(View, Back)
    <3>1. \A i \in Front : View'[i] = View[i]
      BY <2>5, <2>6, <2>7
    <3>2. \A i \in Back : View'[i] = View[i]
      BY <2>5, <2>6, <2>7
    <3>3. QED
      BY <2>6, <3>1, <3>2, BagAgrees
  <2>9. ASSUME NEW S \in SUBSET Slots, tail \notin S,
               Bag(View', S) = Bag(View, S)
        PROVE  Bag(View', S \cup {tail}) = Q!With(Bag(View, S), n)
    <3>1. ASSUME NEW m \in Nodes
          PROVE  Bag(View', S \cup {tail})[m] =
                   Bag(View, S)[m] + (IF n = m THEN 1 ELSE 0)
      BY <1>4, <2>5, <2>9, BagGrows
    <3>2. /\ Bag(View', S \cup {tail}) =
               [m \in Nodes |-> Bag(View', S \cup {tail})[m]]
          /\ Bag(View, S) = [m \in Nodes |-> Bag(View, S)[m]]
      BY DEF Bag
    <3>3. \A m \in Nodes : Bag(View, S)[m] \in Nat
      BY BagIs
    <3>4. ASSUME NEW m \in Nodes
          PROVE  Q!With(Bag(View, S), n)[m] =
                   Bag(View, S)[m] + (IF n = m THEN 1 ELSE 0)
      BY <2>3, <3>2, <3>3 DEF Q!With
    <3>5. Q!With(Bag(View, S), n) = [m \in Nodes |-> Q!With(Bag(View, S), n)[m]]
      BY <3>2 DEF Q!With
    <3>6. QED
      BY <3>1, <3>2, <3>4, <3>5
  <2>10. accepted'
    BY <1>1, <1>8
  <2>11. CASE Serving
    <3>1. ~WasFull' /\ Serving'
      BY <1>2, <1>3, <2>11
    <3>2. /\ Known' = Known /\ Distance(head, Advance(tail)) = Known' + Since'
          /\ Since' \in Nat
      BY <1>1, <2>1, <2>11, <1>3, <3>1, <1>4 DEF Facts, Reach
    <3>3. Distance(head, Advance(tail)) = Distance(head, tail) + 1
      <4>1. Distance(head, Advance(tail)) > 0
        BY <2>2, <2>11, <3>2, <1>3 DEF Facts, Reach
      <4>2. QED
        BY <1>4, <4>1, Further, Next1
    <3>4. Front' = Front /\ Back' = Back \cup {tail}
      <4>1. Since' = Since + 1
        BY <2>2, <3>2, <3>3
      <4>2. \A i \in Slots : Distance(head, i) < Known + (Since + 1) <=>
              Distance(head, i) < Known + Since \/ i = tail
        BY <2>2, <2>6
      <4>3. Back' = Back \cup {tail}
        BY <1>1, <1>4, <2>2, <3>2, <4>1, <4>2 DEF Back, Between
      <4>4. QED
        BY <1>1, <3>2, <4>3 DEF Front
    <3>5. /\ Bag(View', Front') = Bag(View, Front)
          /\ Bag(View', Back') = Q!With(Bag(View, Back), n)
      BY <2>6, <2>7, <2>8, <2>9, <3>4
    <3>6. QED
      BY <1>1, <1>2, <1>6, <2>10, <2>11, <3>5 DEF Facts, Mapped, Q!Insert
  <2>12. CASE ~Serving
    <3>1. /\ Known' = Known + 1 /\ Since' = Since /\ Since = 0
      <4>1. Known' = Used' /\ Since' = 0 /\ Since = 0
        BY <1>2, <2>12 DEF Facts, Reach
      <4>2. Used' = IF head = Advance(tail) THEN Capacity
                    ELSE Distance(head, Advance(tail))
        BY <1>1, <2>1 DEF Facts, Reach
      <4>3. /\ Distance(head, Advance(tail)) =
                 IF Advance(tail) = head THEN 0 ELSE Distance(head, tail) + 1
            /\ Advance(tail) = head <=> Distance(head, tail) = Capacity - 1
        BY <1>4, Further
      <4>4. QED
        BY <1>4, <2>2, <4>1, <4>2, <4>3 DEF Slots
    <3>2. Front' = Front \cup {tail} /\ Back' = {} /\ Back = {}
      <4>1. \A i \in Slots : Distance(head, i) < Known + 1 <=>
              Distance(head, i) < Known \/ i = tail
        BY <2>2, <2>6, <3>1
      <4>2. Front' = Front \cup {tail}
        BY <1>1, <1>4, <2>2, <2>6, <3>1, <4>1 DEF Front, Between
      <4>3. Back' = {} /\ Back = {}
        BY <1>1, <2>2, <2>6, <3>1 DEF Back, Between
      <4>4. QED
        BY <4>2, <4>3
    <3>3. /\ Bag(View', Front') = Q!With(Bag(View, Front), n)
          /\ Bag(View', Back') = Bag(View, Back)
      BY <2>6, <2>7, <2>8, <2>9, <3>2
    <3>4. QED
      BY <1>1, <1>2, <1>6, <2>10, <2>12, <3>3 DEF Facts, Mapped, Q!Insert
  <2>13. QED
    BY <2>11, <2>12
<1>9. QED
  BY <1>7, <1>8
-----------------------------------------------------------------------------
(* What a pop serves, up to its end.                                       *)

Chosen ==
  /\ pc = "test" => ~bufFull
  /\ pc \in {"unfull", "follow", "move"} =>
       /\ out = buffer[head].item
       /\ ~WasFull => \A i \in Front :
                        buffer[head].priority >= buffer[i].priority

RInv == SInv /\ Chosen

LEMMA ChosenStep ==
  ASSUME RInv, Reach, Reach', ~Strict, [Next]_vars
  PROVE  Chosen'
<1> USE DEF At, Goto
<1>1. Shape /\ Chosen /\ Capacity \in Nat \ {0}
  BY FastInsertAssumption DEF RInv, SInv, IInv
<1>2. CASE UNCHANGED <<buffer, head, tail, bufFull, tailCopy, pc, out>>
  BY <1>1, <1>2 DEF Chosen, WasFull, Serving, Front, Between, Known, Used
<1>3. ASSUME NEW n \in Messages, Insert(n) PROVE Chosen'
  <2>1. CASE bufFull
    BY <1>2, <1>3, <2>1 DEF Insert, locals
  <2>2. CASE ~bufFull
    <3>1. /\ UNCHANGED <<pc, head, tailCopy, out>>
          /\ buffer' = [buffer EXCEPT ![tail] = n]
          /\ preemptive \/ pc = "idle"
          /\ preemptive => ~bufFull'
      BY <1>1, <1>3, <2>2, Stored DEF Insert, Store, locals
    <3>2. CASE pc \in {"unfull", "follow", "move"}
      <4>1. /\ Serving /\ ~WasFull /\ UNCHANGED <<Serving, WasFull>>
        BY <1>1, <3>1, <3>2 DEF Serving, WasFull, Shape, Filling
      <4>2. Known' = Known /\ Front' = Front
        BY <3>1, <4>1 DEF Known, Front, Between
      <4>3. tail \notin Front /\ head \in Front
        <5>1. /\ Distance(head, tail) >= Known /\ Known > 0 /\ Known \in Int
              /\ Distance(head, tail) \in Int /\ head \in Slots
          BY <1>1, <4>1 DEF Reach, Slots
        <5>2. Distance(head, head) = 0
          BY <5>1, Apart
        <5>3. QED
          BY <5>1, <5>2 DEF Front, Between
      <4>4. \A i \in Front : buffer'[i] = buffer[i]
        BY <1>1, <3>1, <4>3 DEF Front, Between, Shape, TypeOK
      <4>5. QED
        BY <1>1, <3>1, <3>2, <4>1, <4>2, <4>3, <4>4 DEF Chosen
    <3>3. CASE pc \notin {"unfull", "follow", "move"}
      BY <3>1, <3>3 DEF Chosen
    <3>4. QED
      BY <3>2, <3>3
  <2>3. QED
    BY <2>1, <2>2
<1>4. CASE Take
  <2>1. /\ UNCHANGED <<buffer, head, tail, bufFull, tailCopy>>
        /\ out' = buffer[head].item /\ pc = "take" /\ pc' = "unfull"
    BY <1>4 DEF Take, queue
  <2>2. UNCHANGED <<WasFull, Front>>
    BY <2>1 DEF WasFull, Serving, Front, Between, Known
  <2>3. ~WasFull => \A i \in Front : buffer[head].priority >= buffer[i].priority
    <3>1. Segment(head, Known) = Front
      BY SegmentBetween DEF Reach, Front
    <3>2. QED
      BY <1>4, <3>1, TakesHighest DEF RInv
  <2>4. QED
    BY <2>1, <2>2, <2>3 DEF Chosen
<1>5. CASE Unfull \/ Follow
  <2>1. /\ UNCHANGED <<buffer, head, tail, tailCopy, out>>
        /\ pc \in {"unfull", "follow"} /\ pc' \in {"follow", "move"}
    BY <1>5 DEF Unfull, Follow, locals
  <2>2. UNCHANGED <<WasFull, Front>>
    BY <2>1 DEF WasFull, Serving, Front, Between, Known
  <2>3. QED
    BY <1>1, <2>1, <2>2 DEF Chosen
<1>6. CASE Pop
  BY <1>6 DEF Pop, Chosen, queue
<1>7. CASE Test \/ Copy \/ AgeTurn \/ SortTurn \/ FindTurn \/ SwapTurn \/ Move
  <2>1. pc' \notin {"test", "unfull", "follow", "move"}
    BY <1>7 DEF Test, Copy, AgeTurn, SortTurn, FindTurn, SwapTurn, Move
  <2>2. QED
    BY <2>1 DEF Chosen
<1>8. CASE UNCHANGED vars
  BY <1>2, <1>8 DEF vars, queue, locals
<1>9. QED
  BY <1>3, <1>4, <1>5, <1>6, <1>7, <1>8 DEF Next, Main

LEMMA BagHolds ==
  ASSUME NEW v, NEW S \in SUBSET Slots
  PROVE  \A n \in Nodes : Bag(v, S)[n] > 0 => \E i \in S : v[i] = n
  BY BagIs

(* A pop ends: the first node goes, and those inserted meanwhile may be    *)
(* served from here on.                                                    *)
LEMMA MapMove ==
  ASSUME Facts, Facts', Chosen, Move
  PROVE  Q!EndPop
<1>1. /\ UNCHANGED <<buffer, tail, bufFull, accepted>>
      /\ head' = Advance(head) /\ served' = out
      /\ pc = "move" /\ pc' = "idle"
  BY DEF Move, At, Goto
<1>2. /\ Serving /\ ~Serving' /\ ~WasFull' /\ ~bufFull
      /\ ToAge = {} /\ ToAge' = {}
  BY <1>1 DEF Serving, WasFull, ToAge, Facts, Shape, Filling
<1>3. \A i \in Slots : View[i] = buffer[i] /\ View'[i] = buffer[i]
  BY <1>1, <1>2 DEF Facts, Viewed
<1>4. /\ Capacity \in Nat \ {0} /\ head \in Slots /\ tail \in Slots
      /\ Distance(head, tail) \in Nat /\ buffer \in [Slots -> Nodes]
      /\ \A i \in Slots : Distance(head, i) \in Nat /\ Distance(head, i) < Capacity
      /\ Known \in Nat /\ Since \in Nat /\ Known > 0
  <2>1. /\ Capacity \in Nat \ {0} /\ head \in Slots /\ tail \in Slots
        /\ buffer \in [Slots -> Nodes]
    BY FastInsertAssumption DEF Facts, Shape, TypeOK
  <2>2. \A i \in Slots : Distance(head, i) \in Slots
    BY <2>1, Apart
  <2>3. Known \in Nat /\ Since \in Nat /\ Known > 0
    BY <1>2, <2>1 DEF Facts, Reach
  <2>4. QED
    BY <2>1, <2>2, <2>3 DEF Slots
<1>5. /\ Front \in SUBSET Slots /\ Back \in SUBSET Slots
      /\ Front \cap Back = {} /\ head \in Front
  <2>1. Distance(head, head) = 0
    BY <1>4, Apart
  <2>2. head \in Front
    BY <1>4, <2>1 DEF Front, Between
  <2>3. QED
    BY <2>2, FrontBack DEF Facts
<1>6. Front' = (Front \cup Back) \ {head} /\ Back' = {}
  <2>1. Known' = Distance(Advance(head), tail) /\ Since' = 0
    BY <1>1, <1>2 DEF Facts, Reach
  <2>2. /\ Advance(head) \in Slots
        /\ \A i \in Slots :
             /\ Distance(Advance(head), i) =
                  IF i = head THEN Capacity - 1 ELSE Distance(head, i) - 1
             /\ i # head => Distance(head, i) > 0
    <3>1. \A i \in Slots : i # head => Distance(head, i) > 0
      BY <1>4, Apart
    <3>2. QED
      BY <1>4, <3>1, Further, Next1
  <2>3. \A i \in Slots : i \in Front \cup Back <=> Distance(head, i) < Known + Since
    BY <1>4 DEF Front, Back, Between
  <2>4. \A i \in Slots : Distance(Advance(head), i) < Known' <=>
                           i # head /\ Distance(head, i) < Known + Since
    <3>1. CASE WasFull
      <4>1. Known + Since = Capacity /\ tail = head
        BY <3>1, <1>4 DEF Facts, Reach, Shape, Filling
      <4>2. Known' = Capacity - 1
        BY <1>4, <2>1, <2>2, <4>1
      <4>3. QED
        BY <1>4, <2>2, <4>1, <4>2
    <3>2. CASE ~WasFull
      <4>1. Known + Since = Distance(head, tail)
        BY <1>2, <3>2 DEF Facts, Reach
      <4>2. tail # head
        <5>1. Distance(head, head) = 0
          BY <1>4, Apart
        <5>2. QED
          BY <1>4, <4>1, <5>1
      <4>3. Known' = Known + Since - 1
        BY <1>4, <2>1, <2>2, <4>1, <4>2
      <4>4. ASSUME NEW i \in Slots
            PROVE  Distance(Advance(head), i) < Known' <=>
                     i # head /\ Distance(head, i) < Known + Since
        <5>1. Known + Since < Capacity
          BY <1>4, <4>1
        <5>2. QED
          BY <1>4, <2>2, <4>3, <5>1
      <4>5. QED
        BY <4>4
    <3>3. QED
      BY <3>1, <3>2
  <2>5. \A i \in Slots : Distance(Advance(head), i) \in Nat
    BY <1>4, <2>2
  <2>6. Front' = { i \in Slots : Distance(Advance(head), i) < Known' }
    BY <1>1, <2>5 DEF Front, Between
  <2>7. Front' = (Front \cup Back) \ {head}
    BY <1>5, <2>3, <2>4, <2>6
  <2>8. Known' \in Nat
    BY <1>4, <2>1, <2>5
  <2>9. Back' = {}
    BY <1>1, <2>1, <2>5, <2>8 DEF Back, Between
  <2>10. QED
    BY <2>7, <2>9
<1> DEFINE n == buffer[head]
<1>7. /\ n \in Nodes /\ View[head] = n /\ served' = n.item
      /\ Bag(View, Front)[n] > 0
  <2>1. n \in Nodes /\ View[head] = n
    BY <1>3, <1>4
  <2>2. out = n.item
    BY <1>1 DEF Chosen
  <2>3. Bag(View, Front)[n] > 0
    BY <1>5, <2>1, BagIs
  <2>4. QED
    BY <1>1, <2>1, <2>2, <2>3
<1>8. WasFull \/ \A m \in Nodes : Bag(View, Front)[m] > 0 =>
                                    n.priority >= m.priority
  <2>1. SUFFICES ASSUME ~WasFull, NEW m \in Nodes, Bag(View, Front)[m] > 0
                 PROVE  n.priority >= m.priority
    OBVIOUS
  <2>2. \A k \in Nodes : Bag(View, Front)[k] > 0 => \E i \in Front : View[i] = k
    BY <1>5, BagHolds
  <2>3. PICK i \in Front : View[i] = m
    BY <2>1, <2>2
  <2>4. QED
    BY <1>1, <1>3, <1>5, <2>1, <2>3 DEF Chosen
<1>9. Bag(View', Front') =
        [m \in Nodes |-> Bag(View, Front)[m] + Bag(View, Back)[m]
                         - (IF m = n THEN 1 ELSE 0)]
  <2> DEFINE S == (Front \cup Back) \ {head}
  <2>1. /\ S \in SUBSET Slots /\ head \notin S
        /\ S \cup {head} = Front \cup Back
    BY <1>4, <1>5
  <2>2. ASSUME NEW m \in Nodes
        PROVE  Bag(View, S)[m] = Bag(View, Front)[m] + Bag(View, Back)[m]
                                 - (IF m = n THEN 1 ELSE 0)
    <3>1. Bag(View, Front \cup Back)[m] =
            Bag(View, Front)[m] + Bag(View, Back)[m]
      BY <1>5, BagUnion
    <3> HIDE DEF S
    <3>2. Bag(View, S \cup {head})[m] =
            Bag(View, S)[m] + (IF View[head] = m THEN 1 ELSE 0)
      BY <1>4, <2>1, BagGrows
    <3>3. /\ Bag(View, S)[m] \in Nat /\ Bag(View, Front)[m] \in Nat
          /\ Bag(View, Back)[m] \in Nat
      BY <1>5, <2>1, BagIs
    <3> HIDE DEF n
    <3>4. Bag(View, S \cup {head}) = Bag(View, Front \cup Back)
      BY <2>1
    <3>5. Bag(View, S)[m] + (IF m = n THEN 1 ELSE 0) =
            Bag(View, Front)[m] + Bag(View, Back)[m]
      BY <1>7, <3>1, <3>2, <3>4
    <3>6. QED
      BY <3>3, <3>5
  <2>3. Bag(View', S) = Bag(View, S)
    BY <1>3, <2>1, BagAgrees
  <2>4. Bag(View', S) = [m \in Nodes |-> Bag(View', S)[m]]
    BY DEF Bag
  <2> HIDE DEF S, n
  <2>5. Bag(View', S) =
          [m \in Nodes |-> Bag(View, Front)[m] + Bag(View, Back)[m]
                           - (IF m = n THEN 1 ELSE 0)]
    BY <2>2, <2>3, <2>4
  <2>6. QED
    BY <1>6, <2>5 DEF S
<1>10. Bag(View', Back') = Q!Empty
  BY <1>6, BagOfNone
<1> HIDE DEF n
<1>11. QED
  BY <1>1, <1>2, <1>7, <1>8, <1>9, <1>10 DEF Facts, Mapped, Q!EndPop
LEMMA InitMapped == Init => Q!Init
<1>1. SUFFICES ASSUME Init PROVE Q!Init
  OBVIOUS
<1>2. Facts
  BY <1>1, InitShape, InitOrder, FactsHold
<1>3. ~Serving /\ ~WasFull /\ head = tail /\ ~bufFull
  BY <1>1 DEF Init, Serving, WasFull
<1>4. Known = 0 /\ Since = 0
  <2>1. Distance(head, tail) = 0
    BY <1>2, <1>3, Apart DEF Facts, Shape, TypeOK
  <2>2. QED
    BY <1>2, <1>3, <2>1 DEF Facts, Reach
<1>5. Front = {} /\ Back = {}
  <2>1. \A i \in Slots : Distance(head, i) \in Int
    BY <1>2, FrontBack DEF Facts, Slots
  <2>2. QED
    BY <1>4, <2>1 DEF Front, Back, Between
<1>6. Bag(View, Front) = Q!Empty /\ Bag(View, Back) = Q!Empty
  BY <1>5, BagOfNone
<1>7. Serving = FALSE /\ WasFull = FALSE
  BY <1>3 DEF Serving, WasFull
<1>8. QED
  BY <1>1, <1>2, <1>6, <1>7 DEF Init, Facts, Mapped, Q!Init

LEMMA NextMapped ==
  ASSUME RInv, Facts, Facts', [Next]_vars
  PROVE  [Q!Next]_(Q!avars)
<1>1. ASSUME NEW n \in Messages, Insert(n) PROVE Q!Next
  <2>1. Q!Insert(n)
    BY <1>1, MapInsert
  <2>2. QED
    BY <2>1 DEF Q!Next
<1>2. CASE Test /\ head = tail
  <2>1. ~bufFull
    BY <1>2 DEF RInv, Chosen, Test, At
  <2>2. Q!PopNothing
    BY <1>2, <2>1, MapNothing
  <2>3. QED
    BY <2>2 DEF Q!Next
<1>3. CASE Pop \/ (Test /\ head # tail)
  BY <1>3, MapPopTest
<1>4. CASE Copy
  BY <1>4, MapCopy DEF Q!Next
<1>5. CASE AgeTurn
  BY <1>5, MapAge
<1>6. CASE SortTurn \/ FindTurn \/ Take \/ Unfull \/ Follow
  BY <1>6, MapQuiet
<1>7. CASE SwapTurn
  BY <1>7, MapSwap DEF RInv, SInv, IInv
<1>8. CASE Move
  BY <1>8, MapMove DEF RInv, Q!Next
<1>9. CASE UNCHANGED vars
  BY <1>9, MapUnchanged
<1>10. QED
  BY <1>1, <1>2, <1>3, <1>4, <1>5, <1>6, <1>7, <1>8, <1>9 DEF Next, Main

(* With a comparison that holds of equal priorities the program does what  *)
(* AgingQueue promises, wherever insertions fall: no node is lost, doubled *)
(* or aged twice by any statement of a pop, an insertion is refused on a   *)
(* full queue alone, and a pop that does not begin on one ages all it      *)
(* finds and serves one of the highest.                                    *)
THEOREM Implements == ~Strict => (Spec => ImplementsAgingQueue)
<1> SUFFICES ASSUME ~Strict PROVE Spec => ImplementsAgingQueue
  OBVIOUS
<1>1. Init => RInv
  BY InitShape, InitOrder DEF RInv, SInv, IInv, Init, Chosen
<1>2. RInv => Facts
  BY FactsHold DEF RInv, SInv, IInv
<1>3. RInv /\ Facts /\ Facts' /\ SInv' /\ [Next]_vars => RInv'
  BY ChosenStep DEF RInv, Facts
<1>4. SInv /\ [Next]_vars => SInv'
  BY SortedStep
<1>5. Init => SInv
  BY <1>1 DEF RInv
<1>6. SInv => Facts
  BY FactsHold DEF SInv, IInv
<1>7. RInv => SInv
  BY DEF RInv
<1>8. RInv /\ Facts /\ Facts' /\ [Next]_vars => [Q!Next]_(Q!avars)
  BY NextMapped
<1>9. QED
  BY <1>1, <1>2, <1>3, <1>4, <1>5, <1>6, <1>7, <1>8, InitMapped, PTL
     DEF Spec, ImplementsAgingQueue, Q!Spec
=============================================================================
