------------------------------- MODULE LList -------------------------------
(***************************************************************************)
(* llist-legacy/llist.c: the doubly linked list of nodes from the heap.    *)
(* Each operation is one step, since nothing runs between its statements;  *)
(* it changes the pointers the way the statements of the code do.  Calls   *)
(* with a NULL list or item return before they touch anything.             *)
(***************************************************************************)
EXTENDS Integers, Sequences, FiniteSets

CONSTANTS Items, NoItem,
          Nodes, Null,    \* the heap: what malloc can return
          Rank,           \* comp_func(x, y) is the sign of Rank[x] - Rank[y]
          Equal(_, _),    \* equal_func
          Sizes           \* how many values size_t has

LListAssumption ==
  /\ Null \notin Nodes /\ NoItem \notin Items
  /\ Rank \in [Items -> Int]
  /\ IsFiniteSet(Nodes) /\ Sizes \in Nat /\ Cardinality(Nodes) < Sizes

VARIABLES count, head, tail,
          prev, next, data,  \* the fields of every node
          allocated,         \* the nodes malloc has handed out
          asked,             \* the last call
          answer             \* what it returned

links == <<count, head, tail, prev, next, data, allocated>>
vars  == <<links, asked, answer>>

Code(c) == <<"code", c>>
Answer(a) == answer' = a /\ UNCHANGED links

Indices == 0 .. (Sizes - 1)

(* llist_init.                                                             *)
Init ==
  /\ count = 0 /\ head = Null /\ tail = Null
  /\ prev = [n \in Nodes |-> Null] /\ next = [n \in Nodes |-> Null]
  /\ data = [n \in Nodes |-> NoItem]
  /\ allocated = {}
  /\ asked = <<"init", << >>>> /\ answer = Code("SUCCESS")

(* malloc: any node, NULL only when there is none.                         *)
Malloc == IF allocated = Nodes THEN {Null} ELSE Nodes \ allocated

-----------------------------------------------------------------------------
(* _list_allocate and the assignments of prev and next that follow it,     *)
(* with the neighbours before and after.                                   *)
Allocate(new, x) ==
  /\ allocated' = allocated \cup {new}
  /\ data' = [data EXCEPT ![new] = x]
  /\ count' = count + 1
  /\ answer' = Code("SUCCESS")

(* _list_insert_prev.  Bug the runs have to notice: the node before pos    *)
(* does not learn of the new one.                                          *)
InsertPrevHalf(pos, x) ==
  \E new \in Malloc :
    IF new = Null THEN Answer(Code("MALLOC_ERROR"))
    ELSE /\ Allocate(new, x)
         /\ prev' = [prev EXCEPT ![new] = prev[pos], ![pos] = new]
         /\ next' = [next EXCEPT ![new] = pos]
         /\ head' = IF pos = head THEN new ELSE head
         /\ UNCHANGED tail

InsertPrev(pos, x) ==
  \E new \in Malloc :
    IF new = Null THEN Answer(Code("MALLOC_ERROR"))
    ELSE /\ Allocate(new, x)
         /\ prev' = [prev EXCEPT ![new] = prev[pos], ![pos] = new]
         /\ IF pos = head
            THEN head' = new /\ next' = [next EXCEPT ![new] = pos]
            ELSE /\ next' = [next EXCEPT ![new] = pos, ![prev[pos]] = new]
                 /\ UNCHANGED head
         /\ UNCHANGED tail

(* _list_delete_node; nothing reads a node after it is freed.              *)
Free(n) ==
  LET after  == [m \in Nodes |-> IF m = prev[n] THEN next[n] ELSE next[m]]
      before == [m \in Nodes |-> IF m = next[n] THEN prev[n] ELSE prev[m]]
  IN  /\ next' = [after EXCEPT ![n] = Null]
      /\ prev' = [before EXCEPT ![n] = Null]
      /\ data' = [data EXCEPT ![n] = NoItem]
      /\ allocated' = allocated \ {n}
      /\ count' = count - 1
      /\ answer' = Code("SUCCESS")

(* Bug: tail stays with the node.                                          *)
DeleteNodeKeepsTail(n) ==
  Free(n) /\ head' = (IF n = head THEN next[n] ELSE head) /\ UNCHANGED tail

DeleteNode(n) ==
  /\ Free(n)
  /\ head' = IF n = head THEN next[n] ELSE head
  /\ tail' = IF n = tail THEN prev[n] ELSE tail

-----------------------------------------------------------------------------
(* The nodes met from n on when a link is followed k times.                *)
Follow(link, n) ==
  LET node[k \in 0 .. count] ==
        IF k = 0 THEN n
        ELSE IF node[k - 1] = Null THEN Null ELSE link[node[k - 1]]
  IN  node

Forward == Follow(next, head)

(* _list_get: from the nearer end; Null for NODE_NOT_FOUND.  Bug: counted  *)
(* from the length.                                                        *)
NodeAtLate(i) ==
  IF i <= count \div 2
  THEN IF i < count THEN Forward[i] ELSE Null
  ELSE IF i < count THEN Follow(prev, tail)[count - i] ELSE Null

NodeAt(i) ==
  IF i <= count \div 2
  THEN IF i < count THEN Forward[i] ELSE Null
  ELSE IF i < count THEN Follow(prev, tail)[count - 1 - i] ELSE Null

(* The first of the count nodes from head that holds one of the wanted     *)
(* items, count if none does.                                              *)
FirstAt(wanted) ==
  LET passing == { k \in 0 .. (count - 1) : data[Forward[k]] \in wanted }
  IN  IF passing = {} THEN count
      ELSE CHOOSE k \in passing : \A j \in passing : k <= j

Match(y) == FirstAt({ x \in Items : Equal(y, x) })

-----------------------------------------------------------------------------
PushEmpty(x) ==
  \E new \in Malloc :
    IF new = Null THEN Answer(Code("MALLOC_ERROR"))
    ELSE /\ Allocate(new, x)
         /\ prev' = [prev EXCEPT ![new] = Null]
         /\ next' = [next EXCEPT ![new] = Null]
         /\ head' = new /\ tail' = new

Push(x) == IF count = 0 THEN PushEmpty(x) ELSE InsertPrev(head, x)

PushBack(x) ==
  IF count = 0 THEN PushEmpty(x)
  ELSE \E new \in Malloc :
         IF new = Null THEN Answer(Code("MALLOC_ERROR"))
         ELSE /\ Allocate(new, x)
              /\ prev' = [prev EXCEPT ![new] = tail]
              /\ next' = [next EXCEPT ![new] = Null, ![tail] = new]
              /\ tail' = new
              /\ UNCHANGED head

InsertByNode(y, x) ==
  IF Match(y) = count THEN Answer(Code("NODE_NOT_FOUND"))
  ELSE InsertPrev(Forward[Match(y)], x)

(* On an empty list count - 1 wraps around, and _list_get finds nothing.   *)
InsertByIndex(i, x) ==
  IF i > (count - 1) % Sizes \/ NodeAt(i) = Null
  THEN Answer(Code("NODE_NOT_FOUND"))
  ELSE InsertPrev(NodeAt(i), x)

InsertPriority(x) ==
  LET place == FirstAt({ y \in Items : Rank[x] - Rank[y] >= 0 })
  IN  IF place = count THEN PushBack(x) ELSE InsertPrev(Forward[place], x)

RemoveByNode(y) ==
  IF Match(y) = count THEN Answer(Code("NODE_NOT_FOUND"))
  ELSE DeleteNode(Forward[Match(y)])

RemoveByIndex(i) ==
  IF NodeAt(i) = Null THEN Answer(Code("NODE_NOT_FOUND"))
  ELSE DeleteNode(NodeAt(i))

Find(y) ==
  Answer(IF Match(y) = count THEN Code("NODE_NOT_FOUND")
         ELSE <<"index", Match(y)>>)

Get(i) ==
  Answer(IF NodeAt(i) = Null THEN Code("NODE_NOT_FOUND")
         ELSE <<"item", data[NodeAt(i)]>>)

GetHead == Answer(IF count = 0 THEN Code("NULL") ELSE <<"item", data[head]>>)
GetTail == Answer(IF count = 0 THEN Code("NULL") ELSE <<"item", data[tail]>>)

(* llist_export, and what llist_reduce sums up.                            *)
Export ==
  Answer(<<"array", [k \in 1 .. count |-> data[Forward[k - 1]]]>>)

(* llist_destroy, then llist_init: it frees the nodes it meets.            *)
Destroy ==
  /\ allocated' = allocated \ { Forward[k] : k \in 0 .. count }
  /\ count' = 0 /\ head' = Null /\ tail' = Null
  /\ prev' = [n \in Nodes |-> Null] /\ next' = [n \in Nodes |-> Null]
  /\ data' = [n \in Nodes |-> NoItem]
  /\ answer' = Code("SUCCESS")

Ask(op, arguments) == asked' = <<op, arguments>>

Next ==
  \/ \E x \in Items :
       \/ Ask("push", <<x>>) /\ Push(x)
       \/ Ask("push_back", <<x>>) /\ PushBack(x)
       \/ Ask("insert_priority", <<x>>) /\ InsertPriority(x)
       \/ Ask("remove_by_node", <<x>>) /\ RemoveByNode(x)
       \/ Ask("find", <<x>>) /\ Find(x)
       \/ \E y \in Items : Ask("insert_by_node", <<y, x>>) /\ InsertByNode(y, x)
       \/ \E i \in Indices : Ask("insert_by_index", <<i, x>>) /\ InsertByIndex(i, x)
  \/ \E i \in Indices :
       \/ Ask("remove_by_index", <<i>>) /\ RemoveByIndex(i)
       \/ Ask("get", <<i>>) /\ Get(i)
  \/ Ask("get_head", << >>) /\ GetHead
  \/ Ask("get_tail", << >>) /\ GetTail
  \/ Ask("export", << >>) /\ Export
  \/ Ask("destroy", << >>) /\ Destroy

Spec == Init /\ [][Next]_vars

-----------------------------------------------------------------------------
TypeOK ==
  /\ count \in 0 .. (Sizes - 1)
  /\ head \in Nodes \cup {Null} /\ tail \in Nodes \cup {Null}
  /\ prev \in [Nodes -> Nodes \cup {Null}] /\ next \in [Nodes -> Nodes \cup {Null}]
  /\ data \in [Nodes -> Items \cup {NoItem}]
  /\ allocated \subseteq Nodes

(* The links agree in both directions: the count nodes that next leads to  *)
(* from head are those allocated, the last one is tail, and prev leads     *)
(* back the same way.  So no operation loses a node or leaves one that was *)
(* freed in the list.                                                      *)
LinksCoherent ==
  /\ { Forward[k] : k \in 0 .. (count - 1) } = allocated
  /\ Forward[count] = Null
  /\ \A k \in 0 .. (count - 1) : Follow(prev, tail)[k] = Forward[count - 1 - k]
  /\ count = 0 => tail = Null

L == INSTANCE ItemList WITH
       Memory <- Cardinality(Nodes),
       items <- [k \in 1 .. count |-> data[Forward[k - 1]]]

(* The list is the sequence it stands for: every operation finds its place *)
(* in it, from whichever end it walks, and fails for want of memory only   *)
(* when all the memory holds items.                                        *)
ImplementsList == L!Spec
=============================================================================
