--------------------------- MODULE PriorityQueue ---------------------------
(***************************************************************************)
(* priority-queue/priority_queue.c: a sorted list of nodes taken from a    *)
(* pool that PQ_init allocates, with the comparison it uses by default and *)
(* an operation after each pop that decrements the priorities, as its      *)
(* README says.  Priorities are unsigned integers, compared through a      *)
(* signed difference of the same width.                                    *)
(***************************************************************************)
EXTENDS Integers, Sequences

CONSTANTS Half,        \* half as many as PQ_PriorityTypeDef has values, 2 ^ 15
          Priorities,  \* of new entries
          Items,       \* payloads, at most as large as a pointer
          NoItem,
          Capacity     \* queue_length

Modulus == 2 * Half

(* A priority is decremented at most Capacity - 1 times below zero.        *)
PriorityQueueAssumption ==
  /\ Capacity \in Nat \ {0} /\ Half \in Nat \ {0}
  /\ Priorities \subseteq Nat
  /\ \A p \in Priorities : p + Capacity - 1 < Half
  /\ NoItem \notin Items

VARIABLES head, freeNodes,           \* the two lists
          next, priority, payload,   \* the fields of every node
          answer                     \* what the last call returned

vars == <<head, freeNodes, next, priority, payload, answer>>

Nodes == 1 .. Capacity
Null  == 0

(* PQ_init: each node allocated goes in front of the free list.            *)
Init ==
  /\ head = Null /\ freeNodes = Capacity
  /\ next = [n \in Nodes |-> n - 1]
  /\ priority = [n \in Nodes |-> 0] /\ payload = [n \in Nodes |-> NoItem]
  /\ answer = TRUE

Signed(d) == ((d + Half) % Modulus) - Half

(* _PQ_cmp_int_impl.  Bug the runs have to notice: the difference is not   *)
(* reduced to the width of a priority.                                     *)
CmpWide(a, b) == b - a
Cmp(a, b) == Signed(b - a)

IsEmpty == head = Null

(* The nodes met from n on, following next; Null after the last.           *)
From(n) ==
  LET node[k \in 0 .. Capacity] ==
        IF k = 0 THEN n
        ELSE IF node[k - 1] = Null THEN Null ELSE next[node[k - 1]]
  IN  node

(* Where the loop of PQ_insert stops: the next node, if any, goes after    *)
(* one of priority p.  Bug: it stops before an equal.                      *)
CursorEager(p) ==
  LET Stops(k) ==
        /\ From(head)[k] # Null
        /\ \/ next[From(head)[k]] = Null
           \/ Cmp(priority[next[From(head)[k]]], p) <= 0
  IN  From(head)[CHOOSE k \in 0 .. Capacity :
                   Stops(k) /\ \A j \in 0 .. (k - 1) : ~Stops(j)]

Cursor(p) ==
  LET Stops(k) ==
        /\ From(head)[k] # Null
        /\ \/ next[From(head)[k]] = Null
           \/ Cmp(priority[next[From(head)[k]]], p) < 0
  IN  From(head)[CHOOSE k \in 0 .. Capacity :
                   Stops(k) /\ \A j \in 0 .. (k - 1) : ~Stops(j)]

(* PQ_insert, with the node _PQ_get_free_node takes from the free list.    *)
Insert(p, x) ==
  IF freeNodes = Null
  THEN answer' = FALSE /\ UNCHANGED <<head, freeNodes, next, priority, payload>>
  ELSE LET new == freeNodes IN
       /\ freeNodes' = next[new]
       /\ priority' = [priority EXCEPT ![new] = p]
       /\ payload' = [payload EXCEPT ![new] = x]
       /\ IF IsEmpty \/ Cmp(p, priority[head]) > 0
          THEN next' = [next EXCEPT ![new] = head] /\ head' = new
          ELSE /\ next' = [next EXCEPT ![new] = next[Cursor(p)],
                                       ![Cursor(p)] = new]
               /\ UNCHANGED head
       /\ answer' = TRUE

PeekHighest ==
  /\ answer' = IF IsEmpty THEN NoItem ELSE payload[head]
  /\ UNCHANGED <<head, freeNodes, next, priority, payload>>

(* The operation after a pop, as in the tests.                             *)
Older(p) == (p - 1) % Modulus

Listed(n) == { From(n)[k] : k \in 0 .. Capacity } \ {Null}

(* PQ_pop_highest; what the node freed holds is not read again and         *)
(* forgotten.  Bug: the node is not given back.                            *)
PopHighestLeaks ==
  /\ ~IsEmpty
  /\ answer' = payload[head]
  /\ head' = next[head]
  /\ priority' = [n \in Nodes |-> IF n \in Listed(next[head]) THEN Older(priority[n])
                                  ELSE IF n = head THEN 0 ELSE priority[n]]
  /\ payload' = [payload EXCEPT ![head] = NoItem]
  /\ UNCHANGED <<freeNodes, next>>

PopHighest ==
  /\ ~IsEmpty
  /\ answer' = payload[head]
  /\ head' = next[head]
  /\ next' = [next EXCEPT ![head] = freeNodes] /\ freeNodes' = head
  /\ priority' = [n \in Nodes |-> IF n \in Listed(next[head]) THEN Older(priority[n])
                                  ELSE IF n = head THEN 0 ELSE priority[n]]
  /\ payload' = [payload EXCEPT ![head] = NoItem]

(* With nothing to pop the out parameter keeps what the caller put there.  *)
PopNothing ==
  /\ IsEmpty
  /\ answer' = NoItem
  /\ UNCHANGED <<head, freeNodes, next, priority, payload>>

(* PQ_destroy, then PQ_init of the same queue.                             *)
Renew ==
  /\ head' = Null /\ freeNodes' = Capacity
  /\ next' = [n \in Nodes |-> n - 1]
  /\ priority' = [n \in Nodes |-> 0] /\ payload' = [n \in Nodes |-> NoItem]
  /\ answer' = TRUE

Next ==
  \/ \E p \in Priorities, x \in Items : Insert(p, x)
  \/ PeekHighest \/ PopHighest \/ PopNothing \/ Renew

Spec == Init /\ [][Next]_vars

-----------------------------------------------------------------------------
TypeOK ==
  /\ head \in Nodes \cup {Null} /\ freeNodes \in Nodes \cup {Null}
  /\ next \in [Nodes -> Nodes \cup {Null}]
  /\ priority \in [Nodes -> 0 .. (Modulus - 1)]
  /\ payload \in [Nodes -> Items \cup {NoItem}]

(* Every node is on exactly one of the two lists, which both end: no node  *)
(* is lost, and none is used twice, however insertions and pops follow.    *)
PoolKept ==
  /\ Listed(head) \cup Listed(freeNodes) = Nodes
  /\ Listed(head) \cap Listed(freeNodes) = {}
  /\ From(head)[Capacity] = Null /\ From(freeNodes)[Capacity] = Null

(* A message whose priority has come down to zero waits for at most the    *)
(* others that were in the queue with it: the difference of two priorities *)
(* never reaches half of their range, where the comparison turns round.    *)
WaitBounded ==
  \A n \in Listed(head) : Signed(priority[n]) > -Capacity

R == INSTANCE RankedQueue WITH
       Ranks <- Priorities, Patience <- 1,
       waiting <- [i \in { k + 1 : k \in { j \in 0 .. Capacity : From(head)[j] # Null } } |->
                     [rank |-> Signed(priority[From(head)[i - 1]]),
                      item |-> payload[From(head)[i - 1]]]]

(* The list, with priorities that wrap around below zero, implements the   *)
(* queue whose ranks are integers: the lowest identifier first, the oldest *)
(* of equals first, and each pop brings every message forward by one.      *)
ImplementsRankedQueue == R!Spec
=============================================================================
