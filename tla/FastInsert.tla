----------------------------- MODULE FastInsert -----------------------------
(***************************************************************************)
(* priority-queue/priority_queue_fast_insert.c: a circular buffer that an  *)
(* interrupt handler fills with PQFI_insert while the main loop, one       *)
(* statement or one turn of a loop at a time, runs PQFI_pop, which sorts.  *)
(* Greater priorities go first.                                            *)
(***************************************************************************)
EXTENDS Integers, FiniteSets

CONSTANTS Capacity,     \* pq_length
          Priorities,   \* a range of numbers from 0
          Items, NoItem,
          Messages,     \* what may be inserted: a priority and an item
          Age,          \* anti_strv_fn
          Strict,       \* cmp_prty_fn is > and not >=
          Preemptive    \* whether insertions come inside PQFI_pop: the cases

ASSUME FastInsertAssumption ==
  /\ Capacity \in Nat \ {0}
  /\ Priorities \subseteq Nat /\ 0 \in Priorities
  /\ NoItem \notin Items
  /\ Messages \subseteq [priority : Priorities, item : Items]
  /\ Age \in [Priorities -> Priorities]
  /\ \A p, q \in Priorities : p <= q => Age[p] <= Age[q]
  /\ Strict \in BOOLEAN /\ Preemptive \subseteq BOOLEAN

VARIABLES buffer, head, tail, bufFull, pivot,
          pc,                     \* the next statement of PQFI_pop
          tailCopy, cursor, node, \* its locals; node is node_not_sorted
          out,                    \* its parameter payload
          accepted, served,       \* the last results
          preemptive              \* insertions may come inside PQFI_pop

queue  == <<buffer, head, tail, bufFull, pivot>>
locals == <<tailCopy, cursor, node, out>>
vars   == <<queue, pc, locals, accepted, served, preemptive>>

Slots == 0 .. (Capacity - 1)
Nodes == [priority : Priorities, item : Items \cup {NoItem}]

Advance(i) == (i + 1) % Capacity
Distance(i, j) == (j - i) % Capacity

(* The comparison the caller passes to PQFI_init.                          *)
Cmp(a, b) ==
  IF Strict THEN a.priority > b.priority ELSE a.priority >= b.priority

Used == IF bufFull THEN Capacity ELSE Distance(head, tail)

-----------------------------------------------------------------------------
Init ==
  /\ buffer = [i \in Slots |-> [priority |-> 0, item |-> NoItem]]
  /\ head = 0 /\ tail = 0 /\ bufFull = FALSE /\ pivot = 0
  /\ pc = "idle"
  /\ tailCopy = 0 /\ cursor = 0 /\ node = 0 /\ out = NoItem
  /\ accepted = TRUE /\ served = NoItem
  /\ preemptive \in Preemptive

(* PQFI_insert.  When the handler may interrupt a pop, the program leaves  *)
(* a slot free: buf_full is then never set, which both contexts write.     *)
(* Bug: the flag is not set.                                               *)
StoreUnmarked(n) ==
  /\ buffer' = [buffer EXCEPT ![tail] = n]
  /\ tail' = Advance(tail)
  /\ UNCHANGED bufFull

Store(n) ==
  /\ buffer' = [buffer EXCEPT ![tail] = n]
  /\ tail' = Advance(tail)
  /\ bufFull' = (head = Advance(tail))

Insert(n) ==
  /\ IF preemptive THEN Used < Capacity - 1 ELSE pc = "idle"
  /\ accepted' = ~bufFull
  /\ IF bufFull THEN UNCHANGED <<buffer, tail, bufFull>> ELSE Store(n)
  /\ UNCHANGED <<head, pivot, pc, locals, served, preemptive>>

-----------------------------------------------------------------------------
(* PQFI_pop, from the test of buf_full in PQFI_is_empty.                   *)
At(label) == pc = label
Goto(label) == pc' = label

Pop ==
  /\ At("idle")
  /\ Goto(IF bufFull THEN "copy" ELSE "test")
  /\ UNCHANGED <<queue, locals, accepted, served, preemptive>>

Test ==
  /\ At("test")
  /\ IF head = tail
     THEN Goto("idle") /\ served' = NoItem
     ELSE Goto("copy") /\ UNCHANGED served
  /\ UNCHANGED <<queue, locals, accepted, preemptive>>

(* head_cpy needs no variable: only the pop moves head, at its end.        *)
Copy ==
  /\ At("copy")
  /\ Goto("age")
  /\ tailCopy' = tail /\ cursor' = head
  /\ UNCHANGED <<queue, node, out, accepted, served, preemptive>>

(* A turn of _apply_anti_starvation.                                       *)
AgeTurn ==
  /\ At("age")
  /\ IF cursor = tailCopy
     THEN Goto("sort") /\ UNCHANGED <<buffer, cursor>>
     ELSE /\ buffer' = [buffer EXCEPT ![cursor].priority = Age[@]]
          /\ cursor' = Advance(cursor)
          /\ UNCHANGED pc
  /\ UNCHANGED <<head, tail, bufFull, pivot, tailCopy, node, out,
                 accepted, served, preemptive>>

(* The outer loop of _pq_sort: the first node behind the sorted ones.      *)
SortTurn ==
  /\ At("sort")
  /\ IF tailCopy \in {pivot, Advance(pivot)}
     THEN Goto("take") /\ UNCHANGED <<node, cursor>>
     ELSE /\ Goto("find")
          /\ node' = Advance(pivot)
          /\ cursor' = head
  /\ UNCHANGED <<queue, tailCopy, out, accepted, served, preemptive>>

(* Its first inner loop: where node belongs.  Bug: not before its equals,  *)
(* itself included.                                                        *)
FindTurnStrict ==
  /\ At("find")
  /\ IF buffer[node].priority > buffer[cursor].priority
     THEN Goto("swap") /\ UNCHANGED cursor
     ELSE cursor' = Advance(cursor) /\ UNCHANGED pc
  /\ UNCHANGED <<queue, tailCopy, node, out, accepted, served, preemptive>>

FindTurn ==
  /\ At("find")
  /\ IF Cmp(buffer[node], buffer[cursor])
     THEN Goto("swap") /\ UNCHANGED cursor
     ELSE cursor' = Advance(cursor) /\ UNCHANGED pc
  /\ UNCHANGED <<queue, tailCopy, node, out, accepted, served, preemptive>>

(* Its second inner loop: the nodes from there on move one place, through  *)
(* node.  Bug: the last swap is left out.                                  *)
SwapTurnShort ==
  /\ At("swap")
  /\ IF cursor = node \/ Advance(cursor) = node
     THEN /\ Goto("sort")
          /\ pivot' = Advance(pivot)
          /\ UNCHANGED <<buffer, cursor>>
     ELSE /\ buffer' = [buffer EXCEPT ![cursor] = buffer[node],
                                      ![node] = buffer[cursor]]
          /\ cursor' = Advance(cursor)
          /\ UNCHANGED <<pc, pivot>>
  /\ UNCHANGED <<head, tail, bufFull, tailCopy, node, out,
                 accepted, served, preemptive>>

SwapTurn ==
  /\ At("swap")
  /\ IF cursor = node
     THEN /\ Goto("sort")
          /\ pivot' = Advance(pivot)
          /\ UNCHANGED <<buffer, cursor>>
     ELSE /\ buffer' = [buffer EXCEPT ![cursor] = buffer[node],
                                      ![node] = buffer[cursor]]
          /\ cursor' = Advance(cursor)
          /\ UNCHANGED <<pc, pivot>>
  /\ UNCHANGED <<head, tail, bufFull, tailCopy, node, out,
                 accepted, served, preemptive>>

(* The copy of the payload, and _advance_cursor of head in three steps.    *)
(* Bug: buf_full is left set.                                              *)
Take ==
  /\ At("take")
  /\ Goto("unfull")
  /\ out' = buffer[head].item
  /\ UNCHANGED <<queue, tailCopy, cursor, node, accepted, served, preemptive>>

UnfullNot ==
  /\ At("unfull")
  /\ Goto("follow")
  /\ UNCHANGED <<queue, locals, accepted, served, preemptive>>

Unfull ==
  /\ At("unfull")
  /\ Goto("follow")
  /\ bufFull' = FALSE
  /\ UNCHANGED <<buffer, head, tail, pivot, locals, accepted, served, preemptive>>

Follow ==
  /\ At("follow")
  /\ Goto("move")
  /\ pivot' = IF head = pivot THEN Advance(pivot) ELSE pivot
  /\ UNCHANGED <<buffer, head, tail, bufFull, locals, accepted, served, preemptive>>

Move ==
  /\ At("move")
  /\ Goto("idle")
  /\ head' = Advance(head)
  /\ served' = out
  /\ tailCopy' = 0 /\ cursor' = 0 /\ node' = 0 /\ out' = NoItem
  /\ UNCHANGED <<buffer, tail, bufFull, pivot, accepted, preemptive>>

Main ==
  \/ Test \/ Copy \/ AgeTurn \/ SortTurn \/ FindTurn \/ SwapTurn
  \/ Take \/ Unfull \/ Follow \/ Move

Next ==
  \/ \E n \in Messages : Insert(n)
  \/ Pop
  \/ Main

(* Insertions are finitely many while a pop is running, for every one      *)
(* takes a slot; the pop goes on after them.                               *)
Spec == Init /\ [][Next]_vars /\ WF_vars(Main)

-----------------------------------------------------------------------------
TypeOK ==
  /\ buffer \in [Slots -> Nodes]
  /\ {head, tail, pivot, tailCopy, cursor, node} \subseteq Slots
  /\ bufFull \in BOOLEAN /\ (bufFull => head = tail)
  /\ pc \in {"idle", "test", "copy", "age", "sort", "find", "swap",
             "take", "unfull", "follow", "move"}
  /\ {out, served} \subseteq Items \cup {NoItem}
  /\ accepted \in BOOLEAN /\ preemptive \in Preemptive

(* The nodes the running pop knows, and those that have come since.        *)
Serving  == pc \notin {"idle", "test", "copy"}
WasFull  == Serving /\ tailCopy = head
Known    == IF ~Serving THEN Used
            ELSE IF WasFull THEN Capacity
            ELSE Distance(head, tailCopy)
Since    == IF Serving /\ ~WasFull THEN Distance(tailCopy, tail) ELSE 0

Segment(first, n) == { (first + k) % Capacity : k \in 0 .. (n - 1) }

(* The nodes as they are once every node the pop knows is aged, and how    *)
(* many times each is in some slots.                                       *)
ToAge == IF pc = "age" THEN Segment(cursor, Distance(cursor, tailCopy)) ELSE {}
Aging(i) == IF i \in ToAge THEN [buffer[i] EXCEPT !.priority = Age[@]]
                           ELSE buffer[i]

BagOf(slots) == [n \in Nodes |-> Cardinality({ i \in slots : Aging(i) = n })]

Q == INSTANCE AgingQueue WITH
       present <- BagOf(Segment(head, Known)),
       late    <- BagOf(Segment(tailCopy, Since)),
       serving <- Serving,
       full    <- WasFull

(* Inserting between any two statements of a pop, or filling the queue     *)
(* between two pops: no node is lost, doubled or aged twice, a pop serves  *)
(* one of the highest of those it found unless the queue was full, and an  *)
(* insertion is refused exactly if the queue is full.                      *)
ImplementsAgingQueue == Q!Spec

(* sort_pivot is, as its comment says, the last node up to which the nodes *)
(* are ordered, whatever the pops and insertions before: between two pops  *)
(* no node before it is lower than its successor.                          *)
PrefixSorted ==
  pc = "idle" /\ Used > 0 =>
    /\ Distance(head, pivot) < Used
    /\ \A i \in Segment(head, Distance(head, pivot)) :
         buffer[i].priority >= buffer[Advance(i)].priority

(* No handler fills the queue during a pop; a pop that takes the buffer    *)
(* for full is alone with it, and until its end its nodes are a part of    *)
(* those in the buffer.                                                    *)
Filling ==
  /\ preemptive => ~bufFull
  /\ pc = "copy" => bufFull \/ head # tail
  /\ WasFull => ~preemptive /\ tail = head
  /\ Serving /\ ~WasFull =>
       ~bufFull /\ Distance(head, tailCopy) <= Distance(head, tail)
  /\ pc \in {"follow", "move"} => ~bufFull

(* The turns a running pop has still to do.                                *)
Turns ==
  /\ pc = "age" =>
       Distance(head, cursor) <= Distance(head, tailCopy)
  /\ pc \in {"find", "swap"} =>
       /\ node = Advance(pivot) /\ node \notin {head, tailCopy}
       /\ Distance(head, cursor) <= Distance(head, node)
       /\ \A i \in Slots : Advance(i) = cursor /\ cursor # head =>
            buffer[i].priority >= buffer[node].priority
  /\ pc = "swap" => buffer[node].priority >= buffer[cursor].priority

(* The pivot is one of the n nodes from the first on, and the priorities   *)
(* of the nodes do not rise from there to the pivot.                       *)
Prefix(priorities, first, n) ==
  /\ Distance(first, pivot) < n \/ (n = 0 /\ pivot = first)
  /\ \A i \in Slots : Distance(first, i) < Distance(first, pivot) =>
       priorities[i] >= priorities[Advance(i)]

PrioritiesNow == [i \in Slots |-> buffer[i].priority]

(* The priorities once every node the pop knows is aged.                   *)
PrioritiesAged ==
  [i \in Slots |->
     IF cursor # tailCopy /\ Distance(head, cursor) <= Distance(head, i)
     THEN Age[buffer[i].priority] ELSE buffer[i].priority]

Sorting ==
  CASE pc \in {"idle", "test", "copy"} -> Prefix(PrioritiesNow, head, Used)
    [] pc = "age"                      -> Prefix(PrioritiesAged, head, Known)
    [] pc = "move" -> Prefix(PrioritiesNow, Advance(head), Known - 1)
    [] OTHER       -> Prefix(PrioritiesNow, head, Known)

(* The indices stay in the buffer, a full queue is told from an empty one  *)
(* whatever statement a handler comes after, and the prefix is sorted      *)
(* before and after every turn of the loops, and between two pops.         *)
Inv == TypeOK /\ Filling /\ Turns /\ Sorting /\ PrefixSorted

(* Every pop returns.                                                      *)
PopReturns == pc # "idle" ~> pc = "idle"

(* priority_queue_fast_insert.h says of PQFI_pop that it "returns copy of  *)
(* highest priority node in the queue".                                    *)
PopsHighest ==
  [][Take => \A i \in Segment(head, Known) :
               buffer[head].priority >= buffer[i].priority]_vars
=============================================================================
