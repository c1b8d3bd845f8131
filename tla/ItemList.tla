------------------------------ MODULE ItemList ------------------------------
(***************************************************************************)
(* What the linked list promises: a sequence of items that can be read and *)
(* changed at its ends, at an index, before or at an item equal to a given *)
(* one, and before the items of no higher rank.  Memory is bounded.        *)
(***************************************************************************)
EXTENDS Integers, Sequences

CONSTANTS Items,
          Rank,       \* the order of the comparator
          Equal(_, _),
          Memory,     \* how many items there is memory for
          Indices     \* those that callers use

VARIABLES items,
          asked,      \* the last call, with its arguments
          answer      \* what it returned

ivars == <<items, asked, answer>>

Front(k) == SubSeq(items, 1, k)
Rest(k)  == SubSeq(items, k + 1, Len(items))

Code(c) == <<"code", c>>

Init == items = << >> /\ asked = <<"init", << >>>> /\ answer = Code("SUCCESS")

Fail(c) == answer' = Code(c) /\ UNCHANGED items

(* x goes behind the first k items, if there is memory.                    *)
Put(x, k) ==
  IF Len(items) = Memory THEN Fail("MALLOC_ERROR")
  ELSE /\ items' = Front(k) \o <<x>> \o Rest(k)
       /\ answer' = Code("SUCCESS")

TakeOut(k) == items' = Front(k - 1) \o Rest(k) /\ answer' = Code("SUCCESS")

Matches(x) == { i \in 1 .. Len(items) : Equal(x, items[i]) }
Least(S)   == CHOOSE i \in S : \A j \in S : i <= j

Push(x)     == Put(x, 0)
PushBack(x) == Put(x, Len(items))

InsertByNode(y, x) ==
  IF Matches(y) = {} THEN Fail("NODE_NOT_FOUND") ELSE Put(x, Least(Matches(y)) - 1)

InsertByIndex(i, x) ==
  IF i >= Len(items) THEN Fail("NODE_NOT_FOUND") ELSE Put(x, i)

InsertPriority(x) ==
  Put(x, Least({ i \in 1 .. Len(items) : Rank[items[i]] <= Rank[x] }
                 \cup {Len(items) + 1}) - 1)

RemoveByNode(y) ==
  IF Matches(y) = {} THEN Fail("NODE_NOT_FOUND") ELSE TakeOut(Least(Matches(y)))

RemoveByIndex(i) ==
  IF i >= Len(items) THEN Fail("NODE_NOT_FOUND") ELSE TakeOut(i + 1)

Find(y) ==
  /\ answer' = IF Matches(y) = {} THEN Code("NODE_NOT_FOUND")
               ELSE <<"index", Least(Matches(y)) - 1>>
  /\ UNCHANGED items

Get(i) ==
  /\ answer' = IF i >= Len(items) THEN Code("NODE_NOT_FOUND") ELSE <<"item", items[i + 1]>>
  /\ UNCHANGED items

GetHead ==
  /\ answer' = IF items = << >> THEN Code("NULL") ELSE <<"item", items[1]>>
  /\ UNCHANGED items

GetTail ==
  /\ answer' = IF items = << >> THEN Code("NULL") ELSE <<"item", items[Len(items)]>>
  /\ UNCHANGED items

Export == answer' = <<"array", items>> /\ UNCHANGED items

Clear == items' = << >> /\ answer' = Code("SUCCESS")

Ask(op, arguments) == asked' = <<op, arguments>>

Next ==
  \/ \E x \in Items :
       \/ Ask("push", <<x>>) /\ Push(x)
       \/ Ask("push_back", <<x>>) /\ PushBack(x)
       \/ Ask("insert_priority", <<x>>) /\ InsertPriority(x)
       \/ Ask("remove_by_node", <<x>>) /\ RemoveByNode(x)
       \/ Ask("find", <<x>>) /\ Find(x)
       \/ \E y \in Items : Ask("insert_by_node", <<y, x>>) /\ InsertByNode(y, x)
       \/ \E i \in Indices : Ask("insert_by_index", <<i, x>>) /\ InsertByIndex(i, x)
  \/ \E i \in Indices :
       \/ Ask("remove_by_index", <<i>>) /\ RemoveByIndex(i)
       \/ Ask("get", <<i>>) /\ Get(i)
  \/ Ask("get_head", << >>) /\ GetHead
  \/ Ask("get_tail", << >>) /\ GetTail
  \/ Ask("export", << >>) /\ Export
  \/ Ask("destroy", << >>) /\ Clear

Spec == Init /\ [][Next]_ivars
=============================================================================
