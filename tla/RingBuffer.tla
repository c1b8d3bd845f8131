----------------------------- MODULE RingBuffer -----------------------------
(***************************************************************************)
(* The ring buffer of ring-buffer/src/ring-buffer.c, statement by          *)
(* statement, used by one processor at several interrupt levels.  Level 0  *)
(* is the main loop, a higher level an interrupt handler.  A handler runs  *)
(* when interrupts are not masked, suspends every lower level between any  *)
(* two statements, and returns before a lower level goes on.  The critical *)
(* section is the one of the library's README: cs_enter saves PRIMASK in a *)
(* global and masks interrupts, cs_exit unmasks them if they were not      *)
(* masked before.                                                          *)
(***************************************************************************)
EXTENDS Integers, Sequences, DequeOps

CONSTANTS Capacity,   \* the CAPACITY of the RingBuffer macro
          Items,      \* the values pushed
          NoItem,     \* a NULL item or out pointer; a slot never written
          MaxLevel,   \* the highest interrupt level that uses the buffer
          Protected   \* cs_enter and cs_exit are given (NULL: the dummy)

(* Without a critical section the library promises nothing once interrupts *)
(* use the buffer, so then there is only the main loop.                    *)
ASSUME RingBufferAssumption ==
  /\ Capacity \in Nat \ {0}
  /\ NoItem \notin Items
  /\ MaxLevel \in Nat
  /\ Protected \in BOOLEAN
  /\ ~Protected => MaxLevel = 0

Levels == 0 .. MaxLevel
Slots  == 0 .. (Capacity - 1)

VARIABLES start, size, data,  \* the fields of the handler structure
          masked,             \* PRIMASK: interrupts are masked
          primask,            \* the global of the critical section
          appMasked,          \* the program itself has masked interrupts
          pc,                 \* pc[l]: the next statement of level l
          frame               \* frame[l]: arguments and locals of its call

buffer == <<start, size, data>>
irq    == <<masked, primask, appMasked>>
vars   == <<buffer, irq, pc, frame>>

(* cur is the local index of push_back and back, and the size a query      *)
(* loaded; out is what *out holds at the return.                           *)
FrameOf(op, arg) == [op |-> op, arg |-> arg, cur |-> 0,
                     code |-> "OK", out |-> NoItem]
NoFrame == FrameOf("size", NoItem)

Frames == [op : Ops, arg : Items \cup {NoItem}, cur : 0 .. Capacity,
           code : Codes, out : Items \cup {NoItem}]

Critical == {"check", "move", "index", "write", "grow", "read", "shrink",
             "reset", "empty", "exit"}
Labels   == Critical \cup {"idle", "enter", "mask", "query", "queried"}

(* Level l has the processor: no handler of a higher level is in a call.   *)
Running(l) == \A k \in Levels : k > l => pc[k] = "idle"

At(l, label) == Running(l) /\ pc[l] = label
Goto(l, label) == pc' = [pc EXCEPT ![l] = label]

(* A bug the runs have to notice (so for every definition with such a      *)
(* remark): the last free slot is counted twice.                           *)
IsFullLate(n) == n > Capacity

IsFull(n) == n >= Capacity
IsEmpty(n) == n = 0

(* cur - capacity when cur runs past the end of the array.                 *)
Wrap(cur) == IF cur >= Capacity THEN cur - Capacity ELSE cur

-----------------------------------------------------------------------------
Init ==
  /\ start = 0 /\ size = 0 /\ data = [i \in Slots |-> NoItem]
  /\ masked = FALSE /\ primask = FALSE /\ appMasked = FALSE
  /\ pc = [l \in Levels |-> "idle"]
  /\ frame = [l \in Levels |-> NoFrame]

(* The main loop masks or unmasks interrupts for reasons of its own.       *)
AppMask ==
  /\ At(0, "idle")
  /\ masked' = ~masked /\ appMasked' = ~masked
  /\ UNCHANGED <<primask, buffer, pc, frame>>

(* The first statement of a call.  Bug: clear without critical section.    *)
EntryBare(op) ==
  CASE op = "size" -> "query"
    [] op \notin {"size", "clear"} /\ Protected -> "enter"
    [] OTHER -> "check"

Entry(op) ==
  CASE op = "size" -> "query"
    [] op # "size" /\ Protected -> "enter"
    [] OTHER -> "check"

(* Level l calls op.  A push without item and a read without out buffer    *)
(* return before they touch anything; a pop may have no out buffer.  The   *)
(* three size queries read one field, outside any critical section.        *)
Call(l, op, arg) ==
  /\ At(l, "idle")
  /\ l > 0 => ~masked
  /\ op \in Pushes \cup Reads => arg # NoItem
  /\ op \notin Pushes \cup Reads \cup Pops => arg = NoItem
  /\ Goto(l, Entry(op))
  /\ frame' = [frame EXCEPT ![l] = FrameOf(op, arg)]
  /\ UNCHANGED <<buffer, irq>>

(* cs_enter: primask = __get_PRIMASK(); __disable_irq();  Bugs: PRIMASK is *)
(* saved when it is already set; interrupts are not masked.                *)
SavePrimaskLate(l) ==
  /\ At(l, "enter")
  /\ primask' = TRUE
  /\ Goto(l, "mask")
  /\ UNCHANGED <<masked, appMasked, buffer, frame>>

DisableIrqLost(l) ==
  /\ At(l, "mask")
  /\ Goto(l, "check")
  /\ UNCHANGED <<irq, buffer, frame>>

SavePrimask(l) ==
  /\ At(l, "enter")
  /\ primask' = masked
  /\ Goto(l, "mask")
  /\ UNCHANGED <<masked, appMasked, buffer, frame>>

DisableIrq(l) ==
  /\ At(l, "mask")
  /\ masked' = TRUE
  /\ Goto(l, "check")
  /\ UNCHANGED <<primask, appMasked, buffer, frame>>

(* The test every operation but clear makes first, and where it goes on.   *)
CheckCode(op) ==
  IF op \in Pushes /\ IsFull(size) THEN "FULL"
  ELSE IF op \in Pops \cup Reads \cup Peeks /\ IsEmpty(size) THEN "EMPTY"
  ELSE "OK"

FirstStatement(op, arg) ==
  CASE op = "push_front"                     -> "move"
    [] op = "pop_front" /\ arg = NoItem      -> "move"
    [] op = "pop_front" /\ arg # NoItem      -> "read"
    [] op = "front"                          -> "read"
    [] op = "pop_back" /\ arg = NoItem       -> "shrink"
    [] op = "clear"                          -> "reset"
    [] OTHER                                 -> "index"

(* Bug: an error returns without cs_exit.                                  *)
CheckLeaks(l) ==
  /\ At(l, "check")
  /\ LET op   == frame[l].op
         code == CheckCode(op)
     IN /\ frame' = [frame EXCEPT ![l] =
                       IF code = "OK" THEN @ ELSE NoFrame]
        /\ Goto(l, IF code = "OK" THEN FirstStatement(op, frame[l].arg)
                   ELSE "idle")
  /\ UNCHANGED <<buffer, irq>>

Check(l) ==
  /\ At(l, "check")
  /\ LET code == CheckCode(frame[l].op)
     IN /\ frame' = [frame EXCEPT ![l].code = code]
        /\ Goto(l, IF code = "OK"
                   THEN FirstStatement(frame[l].op, frame[l].arg)
                   ELSE "exit")
  /\ UNCHANGED <<buffer, irq>>

(* push_front: if (start == 0) start = capacity; --start;                  *)
PushFrontMove(l) ==
  /\ At(l, "move") /\ frame[l].op = "push_front"
  /\ start' = (IF start = 0 THEN Capacity ELSE start) - 1
  /\ Goto(l, "grow")
  /\ UNCHANGED <<size, data, irq, frame>>

(* pop_front: ++start; if (start >= capacity) start = 0;  Bug: no wrap.    *)
PopFrontRunsOn(l) ==
  /\ At(l, "move") /\ frame[l].op = "pop_front"
  /\ start' = start + 1
  /\ Goto(l, "shrink")
  /\ UNCHANGED <<size, data, irq, frame>>

PopFrontMove(l) ==
  /\ At(l, "move") /\ frame[l].op = "pop_front"
  /\ start' = IF start + 1 >= Capacity THEN 0 ELSE start + 1
  /\ Goto(l, "shrink")
  /\ UNCHANGED <<size, data, irq, frame>>

(* The index of the slot behind the last item, of the last item, or of the *)
(* first item for peek_front.  Bug: the last item is looked for one slot   *)
(* too far.                                                                *)
IndexForNext(op) ==
  IF op = "peek_front" THEN start ELSE Wrap(start + size)

IndexFor(op) ==
  CASE op = "push_back"  -> Wrap(start + size)
    [] op = "peek_front" -> start
    [] OTHER             -> Wrap(start + size - 1)

Index(l) ==
  /\ At(l, "index")
  /\ LET op == frame[l].op
     IN /\ frame' = [frame EXCEPT ![l].cur = IndexFor(op)]
        /\ Goto(l, CASE op = "push_back" -> "write"
                     [] op \in Peeks     -> "exit"
                     [] OTHER            -> "read")
  /\ UNCHANGED <<buffer, irq>>

(* The slot a memcpy works on: start is read again, the other index was    *)
(* computed before.                                                        *)
SlotOf(f) == IF f.op \in FrontOps THEN start ELSE f.cur

(* memcpy of the item into its slot: after ++size in push_front, before it *)
(* in push_back.                                                           *)
Write(l) ==
  /\ At(l, "write")
  /\ LET op == frame[l].op
     IN /\ data' = [data EXCEPT ![SlotOf(frame[l])] = frame[l].arg]
        /\ Goto(l, IF op = "push_front" THEN "exit" ELSE "grow")
  /\ UNCHANGED <<start, size, irq, frame>>

Grow(l) ==
  /\ At(l, "grow")
  /\ size' = size + 1
  /\ Goto(l, IF frame[l].op = "push_front" THEN "write" ELSE "exit")
  /\ UNCHANGED <<start, data, irq, frame>>

(* memcpy of the first or last item to *out.                               *)
Read(l) ==
  /\ At(l, "read")
  /\ LET op == frame[l].op
     IN /\ frame' = [frame EXCEPT ![l].out = data[SlotOf(frame[l])]]
        /\ Goto(l, CASE op = "pop_front" -> "move"
                     [] op = "pop_back"  -> "shrink"
                     [] OTHER            -> "exit")
  /\ UNCHANGED <<buffer, irq>>

Shrink(l) ==
  /\ At(l, "shrink")
  /\ size' = size - 1
  /\ Goto(l, "exit")
  /\ UNCHANGED <<start, data, irq, frame>>

ClearStart(l) ==
  /\ At(l, "reset")
  /\ start' = 0
  /\ Goto(l, "empty")
  /\ UNCHANGED <<size, data, irq, frame>>

ClearSize(l) ==
  /\ At(l, "empty")
  /\ size' = 0
  /\ Goto(l, "exit")
  /\ UNCHANGED <<start, data, irq, frame>>

(* cs_exit, if (!primask) __enable_irq(), and the return.  Bug: interrupts *)
(* are unmasked whatever PRIMASK was.                                      *)
ExitUnmasks(l) ==
  /\ At(l, "exit")
  /\ masked' = FALSE
  /\ Goto(l, "idle")
  /\ frame' = [frame EXCEPT ![l] = NoFrame]
  /\ UNCHANGED <<primask, appMasked, buffer>>

Exit(l) ==
  /\ At(l, "exit")
  /\ masked' = (masked /\ (Protected => primask))
  /\ Goto(l, "idle")
  /\ frame' = [frame EXCEPT ![l] = NoFrame]
  /\ UNCHANGED <<primask, appMasked, buffer>>

(* is_empty, is_full and size: one load of the size, then the return.      *)
Query(l) ==
  /\ At(l, "query")
  /\ frame' = [frame EXCEPT ![l].cur = size]
  /\ Goto(l, "queried")
  /\ UNCHANGED <<buffer, irq>>

QueryReturn(l) ==
  /\ At(l, "queried")
  /\ frame' = [frame EXCEPT ![l] = NoFrame]
  /\ Goto(l, "idle")
  /\ UNCHANGED <<buffer, irq>>

Step(l) ==
  \/ SavePrimask(l) \/ DisableIrq(l) \/ Check(l)
  \/ PushFrontMove(l) \/ PopFrontMove(l) \/ Index(l) \/ Write(l) \/ Grow(l)
  \/ Read(l) \/ Shrink(l) \/ ClearStart(l) \/ ClearSize(l) \/ Exit(l)
  \/ Query(l) \/ QueryReturn(l)

Next ==
  \/ AppMask
  \/ \E l \in Levels :
       \/ \E op \in Ops, arg \in Items \cup {NoItem} : Call(l, op, arg)
       \/ Step(l)

Spec == Init /\ [][Next]_vars

(* The processor goes on: a level that has it executes its next statement, *)
(* and handlers leave the lower levels some of its time (strong fairness,  *)
(* for a handler may begin between any two statements of a lower level).   *)
FairSpec == Spec /\ \A l \in Levels : SF_vars(Step(l))

-----------------------------------------------------------------------------
(* The refinement mapping.  A call takes effect at the statement listed    *)
(* here: push_front at its memcpy, push_back at ++size, pop_front at       *)
(* ++start, pop_back at --size, a read at its memcpy, a peek when it takes *)
(* the address, clear at start = 0, an error at the test of the size.      *)
InEffect(l) ==
  \/ pc[l] \in {"exit", "empty", "queried"}
  \/ pc[l] = "shrink" /\ frame[l].op = "pop_front"

(* The items of a level's half-done operation are not seen yet, or already *)
(* gone.                                                                   *)
HalfPushed(label) ==
  \E l \in Levels : pc[l] = label /\ frame[l].op = "push_front"
HalfPopped ==
  \E l \in Levels : pc[l] = "shrink" /\ frame[l].op = "pop_front"
HalfCleared == \E l \in Levels : pc[l] = "empty"

First == IF HalfPushed("grow") \/ HalfPushed("write")
         THEN Wrap(start + 1)
         ELSE start
Count == IF HalfCleared THEN 0
         ELSE IF HalfPushed("write") \/ HalfPopped THEN size - 1
         ELSE size

Contents == [i \in 1 .. Count |-> data[Wrap(First + i - 1)]]

Calls == [l \in Levels |->
  LET f == frame[l]
  IN  [phase |-> IF pc[l] = "idle" THEN "idle"
                 ELSE IF InEffect(l) THEN "done" ELSE "pending",
       op    |-> f.op,
       arg   |-> f.arg,
       code  |-> f.code,
       out   |-> IF ~InEffect(l) THEN NoItem
                 ELSE IF f.op \in Peeks /\ f.code = "OK" THEN data[f.cur]
                 ELSE f.out,
       count |-> IF InEffect(l) /\ f.op = "size" THEN f.cur ELSE 0]]

D == INSTANCE Deque
       WITH contents <- Contents, call <- Calls, Contexts <- Levels

(* The ring buffer implements the deque: whatever the interrupt handlers   *)
(* do between two statements of the main loop, every operation of          *)
(* ring-buffer.c takes effect at one instant, on the whole queue, with the *)
(* return code and the item the queue has at that instant.                 *)
ImplementsDeque == D!Spec

-----------------------------------------------------------------------------
(* The fields, locals and flags have the types of the code; start is an    *)
(* index of the array and size at most the capacity after every statement. *)
TypeOK ==
  /\ start \in Slots /\ size \in 0 .. Capacity
  /\ data \in [Slots -> Items \cup {NoItem}]
  /\ masked \in BOOLEAN /\ primask \in BOOLEAN /\ appMasked \in BOOLEAN
  /\ pc \in [Levels -> Labels]
  /\ frame \in [Levels -> Frames]

(* No two levels are inside the critical sections of ring-buffer.c.        *)
MutualExclusion ==
  \A l, m \in Levels : pc[l] \in Critical /\ pc[m] \in Critical => l = m

(* Outside every critical section interrupts are masked exactly if the     *)
(* program masked them itself: each way out of an operation, the early     *)
(* returns for FULL and EMPTY included, restores PRIMASK, also when the    *)
(* handler that interrupted cs_enter has overwritten the shared global.    *)
MaskRestored ==
  (\A l \in Levels : pc[l] \notin Critical) => masked = appMasked

(* A slot that holds a stored item before and after a step is not written  *)
(* by the step: no push of any level overwrites an item still stored, and  *)
(* so a pointer handed out by a peek reads that item until it is popped.   *)
Stored(first, count) == { Wrap(first + i) : i \in 0 .. (count - 1) }
StoredItemsStay ==
  [][\A i \in Stored(First, Count) \cap Stored(First', Count') :
       data'[i] = data[i]]_vars

(* The library never leaves interrupts masked for good: whatever the       *)
(* outcome of an operation, cs_exit follows cs_enter.                      *)
InterruptsComeBack == (masked # appMasked) ~> (masked = appMasked)

-----------------------------------------------------------------------------
(* The inductive invariant of the proofs.  A level inside its critical     *)
(* section has masked interrupts and suspended the lower levels; then no   *)
(* higher level can have begun.                                            *)
Excluded ==
  \A l \in Levels : pc[l] \in Critical =>
    /\ Protected => masked
    /\ \A k \in Levels : k > l => pc[k] = "idle"

(* The saved PRIMASK is the program's own from the moment it is saved to   *)
(* the moment it is restored, although handlers save theirs over it.       *)
Saved ==
  /\ \A l \in Levels : Protected /\ pc[l] \in Critical \cup {"mask"} =>
       primask = appMasked
  /\ ~Protected => /\ masked = appMasked
                   /\ \A l \in Levels : pc[l] \notin {"enter", "mask"}

(* What a level knows at each of its statements: the test of the size      *)
(* still holds, and the index it has computed is inside the array.         *)
Flow(l) ==
  LET op == frame[l].op
      cur == frame[l].cur
  IN /\ pc[l] = "move"  => \/ op = "push_front" /\ size < Capacity
                           \/ op = "pop_front" /\ size > 0
     /\ pc[l] = "index" => \/ op = "push_back" /\ size < Capacity
                           \/ op \in {"pop_back", "back"} \cup Peeks /\ size > 0
     /\ pc[l] = "write" => \/ op = "push_front"
                           \/ op = "push_back" /\ size < Capacity /\ cur \in Slots
     /\ pc[l] = "grow"  => op \in Pushes /\ size < Capacity
     /\ pc[l] = "read"  => /\ op \in Pops \cup Reads /\ size > 0
                           /\ op \notin FrontOps => cur \in Slots
     /\ pc[l] = "shrink" => op \in Pops /\ size > 0
     /\ pc[l] \in {"enter", "mask", "check"} => op # "size"

IInv ==
  /\ TypeOK
  /\ Excluded
  /\ Saved
  /\ MaskRestored
  /\ \A l \in Levels : Flow(l)

(* What the call of a level has in hand at each of its statements: the     *)
(* index it computed is still the one of the last item or the next slot,   *)
(* and what it copied is still the item it removes or appends.             *)
InHand(l) ==
  LET f    == frame[l]
      last == data[Wrap(start + size - 1)]
  IN /\ pc[l] = "idle" => f = NoFrame
     /\ f.op = "size" <=> pc[l] \in {"idle", "query", "queried"}
     /\ f.op \in Pushes \cup Reads => f.arg # NoItem
     /\ pc[l] # "exit" => f.code = "OK"
     /\ pc[l] \in {"reset", "empty"} => f.op = "clear"
     /\ pc[l] \in {"index", "read"} /\ f.op \in Pops => f.arg # NoItem
     /\ pc[l] = "read" /\ f.op \notin FrontOps => f.cur = Wrap(start + size - 1)
     /\ pc[l] = "write" => IF f.op = "push_front" THEN size > 0
                           ELSE f.cur = Wrap(start + size)
     /\ pc[l] = "grow" /\ f.op = "push_back" => data[Wrap(start + size)] = f.arg
     /\ pc[l] \notin {"move", "shrink", "exit"} => f.out = NoItem
     /\ pc[l] = "move" =>
          f.out = IF f.op = "push_front" \/ f.arg = NoItem THEN NoItem ELSE data[start]
     /\ pc[l] = "shrink" /\ f.op = "pop_back" =>
          f.out = IF f.arg = NoItem THEN NoItem ELSE last

RInv == IInv /\ \A l \in Levels : InHand(l)
=============================================================================
