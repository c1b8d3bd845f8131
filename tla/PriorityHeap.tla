---------------------------- MODULE PriorityHeap ----------------------------
(***************************************************************************)
(* priority-queue/priority_queue_heap.c: a binary heap in two parallel     *)
(* arrays, the priorities and the elements, whose last place for an        *)
(* element only serves to exchange two others.  The caller's compare says  *)
(* whether a parent has to give way to its child.                          *)
(***************************************************************************)
EXTENDS Integers, FiniteSets

CONSTANTS Priorities, Elements, NoElement,
          Compare(_, _),  \* one of PQH_LT, PQH_LE, PQH_GT, PQH_GE
          Worth(_),       \* a number that goes down as Compare prefers
          MaxElem         \* max_elem: the memory holds one element more

PriorityHeapAssumption ==
  /\ Priorities \subseteq Int /\ NoElement \notin Elements
  /\ MaxElem \in Nat \ {0}
  /\ \A p \in Priorities : Worth(p) \in Int
  /\ \A p, q \in Priorities : /\ Compare(p, q) => Worth(q) <= Worth(p)
                              /\ Worth(q) < Worth(p) => Compare(p, q)

VARIABLES priority, queue, elemCnt,
          pc,      \* the loop or recursion in progress
          cur,     \* the index i it is at
          answer   \* what the last call returned

vars == <<priority, queue, elemCnt, pc, cur, answer>>

Places == 0 .. (MaxElem - 1)
Code(c) == <<"code", c>>

Parent(i) == (i - 1) \div 2
Left(i)   == 2 * i + 1
Right(i)  == 2 * i + 2

(* PQH_init; tail always equals elem_cnt.                                  *)
Init ==
  /\ elemCnt = 0
  /\ priority = [i \in Places |-> 0]
  /\ queue = [i \in 0 .. MaxElem |-> NoElement]
  /\ pc = "idle" /\ cur = 0 /\ answer = Code("OK")

(* _PQH_swap, the elements through the place behind the last.  Bug the     *)
(* runs have to notice: the priorities stay.                               *)
SwapElements(p, q, a, b) ==
  /\ priority' = p
  /\ queue' = [q EXCEPT ![MaxElem] = q[a], ![a] = q[b], ![b] = q[a]]

Swap(p, q, a, b) ==
  /\ priority' = [p EXCEPT ![a] = p[b], ![b] = p[a]]
  /\ queue' = [q EXCEPT ![MaxElem] = q[a], ![a] = q[b], ![b] = q[a]]

IsFull == elemCnt = MaxElem

Insert(p, x) ==
  /\ pc = "idle"
  /\ IF IsFull THEN answer' = Code("FULL") /\ UNCHANGED <<priority, queue, elemCnt, pc, cur>>
     ELSE /\ priority' = [priority EXCEPT ![elemCnt] = p]
          /\ queue' = [queue EXCEPT ![elemCnt] = x]
          /\ cur' = elemCnt /\ elemCnt' = elemCnt + 1
          /\ pc' = "up" /\ answer' = Code("OK")

(* A turn of the loop of PQH_insert.                                       *)
Up ==
  /\ pc = "up"
  /\ IF cur > 0 /\ Compare(priority[Parent(cur)], priority[cur])
     THEN /\ Swap(priority, queue, Parent(cur), cur)
          /\ cur' = Parent(cur)
          /\ UNCHANGED pc
     ELSE pc' = "idle" /\ UNCHANGED <<priority, queue, cur>>
  /\ UNCHANGED <<elemCnt, answer>>

Entry(i) == [priority |-> priority[i], element |-> queue[i]]

(* PQH_top reads whatever the memory holds when the queue is empty: the    *)
(* caller asks PQH_is_empty first.                                         *)
Top ==
  /\ pc = "idle"
  /\ answer' = IF elemCnt = 0 THEN Code("EMPTY") ELSE <<"top", Entry(0)>>
  /\ UNCHANGED <<priority, queue, elemCnt, pc, cur>>

Pop ==
  /\ pc = "idle"
  /\ IF elemCnt = 0
     THEN answer' = Code("EMPTY") /\ UNCHANGED <<priority, queue, elemCnt, pc, cur>>
     ELSE /\ answer' = <<"removed", 0, Entry(0)>>
          /\ Swap(priority, queue, 0, elemCnt - 1)
          /\ elemCnt' = elemCnt - 1
          /\ cur' = 0 /\ pc' = "down"

(* Which of i and its children goes up.  Bug: the right child is compared  *)
(* with i only.                                                            *)
BestOfTwo(i) ==
  IF Right(i) < elemCnt /\ Compare(priority[i], priority[Right(i)]) THEN Right(i)
  ELSE IF Left(i) < elemCnt /\ Compare(priority[i], priority[Left(i)]) THEN Left(i)
  ELSE i

Best(i) ==
  LET best == IF Left(i) < elemCnt /\ Compare(priority[i], priority[Left(i)])
              THEN Left(i) ELSE i
  IN  IF Right(i) < elemCnt /\ Compare(priority[best], priority[Right(i)])
      THEN Right(i) ELSE best

(* A call of _PQH_heap_restore.                                            *)
Down ==
  /\ pc = "down"
  /\ IF Best(cur) # cur
     THEN /\ Swap(priority, queue, cur, Best(cur))
          /\ cur' = Best(cur)
          /\ UNCHANGED pc
     ELSE pc' = "idle" /\ UNCHANGED <<priority, queue, cur>>
  /\ UNCHANGED <<elemCnt, answer>>

Next ==
  \/ \E p \in Priorities, x \in Elements : Insert(p, x)
  \/ Up \/ Top \/ Pop \/ Down

Spec == Init /\ [][Next]_vars

-----------------------------------------------------------------------------
TypeOK ==
  /\ elemCnt \in 0 .. MaxElem /\ cur \in 0 .. MaxElem
  /\ pc \in {"idle", "up", "down"}

Entries == [priority : Priorities, element : Elements]

B == INSTANCE PriorityBag WITH
       Items <- Entries,
       Key <- [e \in Entries |-> Worth(e.priority)],
       Capacity <- MaxElem, count <- elemCnt,
       bag <- [e \in Entries |-> Cardinality({ i \in 0 .. (elemCnt - 1) : Entry(i) = e })]

(* Whatever insertions and pops follow each other, an element keeps its    *)
(* priority, none is lost, and an entry that no other one precedes is      *)
(* served, also when the comparison takes equals for out of order.         *)
ImplementsBag == B!Spec
=============================================================================
