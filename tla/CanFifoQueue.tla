---------------------------- MODULE CanFifoQueue ----------------------------
(***************************************************************************)
(* can-fifo-queue-legacy/can_fifo_queue.c: a circular buffer without lock, *)
(* that one context fills with CANFQ_push and another empties with         *)
(* CANFQ_pop, one statement at a time in any order of the two.  Messages   *)
(* are copied field by field, so a slot and a copy hold, for each field,   *)
(* the message the field comes from.  Statements are taken in the order    *)
(* they are written.                                                       *)
(***************************************************************************)
EXTENDS Integers, Sequences

CONSTANTS Messages, NoMessage,
          Size,    \* CANFQ_SIZE
          Fields   \* how many fields of a message are copied one by one

CanFifoAssumption ==
  /\ Size \in Nat \ {0} /\ Fields \in Nat \ {0}
  /\ Messages # {} /\ NoMessage \notin Messages

VARIABLES head, tail, queue,
          push,   \* the call of the producer
          pop     \* the call of the consumer

vars == <<head, tail, queue, push, pop>>

Slots == 0 .. (Size - 1)
Advance(i) == (i + 1) % Size
Blank == [f \in 1 .. Fields |-> NoMessage]

(* A call: the next statement, how many fields it has copied, the message  *)
(* of its caller, and what it returned last.                               *)
Idle == [at |-> "idle", copied |-> 0, msg |-> Blank, ok |-> TRUE]

Init ==
  /\ head = 0 /\ tail = 0
  /\ queue = [i \in Slots |-> Blank]
  /\ push = Idle /\ pop = Idle

IsEmpty == head = tail

(* Bug the runs have to notice: the last slot is used.                     *)
IsFullNever == FALSE
IsFull == Advance(head) = tail

-----------------------------------------------------------------------------
(* CANFQ_push.                                                             *)
CallPush(m) ==
  /\ push.at = "idle"
  /\ push' = [Idle EXCEPT !.at = "test", !.msg = [f \in 1 .. Fields |-> m]]
  /\ UNCHANGED <<head, tail, queue, pop>>

TestFull ==
  /\ push.at = "test"
  /\ push' = IF IsFull THEN [push EXCEPT !.at = "return", !.ok = FALSE]
                       ELSE [push EXCEPT !.at = "copy"]
  /\ UNCHANGED <<head, tail, queue, pop>>

Store ==
  /\ push.at = "copy" /\ push.copied < Fields
  /\ queue' = [queue EXCEPT ![head][push.copied + 1] = push.msg[push.copied + 1]]
  /\ push' = [push EXCEPT !.copied = @ + 1]
  /\ UNCHANGED <<head, tail, pop>>

(* Bug: the slot is published before its last field is written.            *)
IncrementHeadEarly ==
  /\ push.at = "copy" /\ push.copied >= Fields - 1
  /\ head' = Advance(head)
  /\ push' = [push EXCEPT !.at = "return"]
  /\ UNCHANGED <<tail, queue, pop>>

IncrementHead ==
  /\ push.at = "copy" /\ push.copied = Fields
  /\ head' = Advance(head)
  /\ push' = [push EXCEPT !.at = "return"]
  /\ UNCHANGED <<tail, queue, pop>>

ReturnPush ==
  /\ push.at = "return"
  /\ push' = Idle
  /\ UNCHANGED <<head, tail, queue, pop>>

-----------------------------------------------------------------------------
(* CANFQ_pop.                                                              *)
CallPop ==
  /\ pop.at = "idle"
  /\ pop' = [Idle EXCEPT !.at = "test"]
  /\ UNCHANGED <<head, tail, queue, push>>

TestEmpty ==
  /\ pop.at = "test"
  /\ pop' = IF IsEmpty THEN [pop EXCEPT !.at = "return", !.ok = FALSE]
                       ELSE [pop EXCEPT !.at = "copy"]
  /\ UNCHANGED <<head, tail, queue, push>>

Load ==
  /\ pop.at = "copy" /\ pop.copied < Fields
  /\ pop' = [pop EXCEPT !.msg[pop.copied + 1] = queue[tail][pop.copied + 1],
                        !.copied = @ + 1]
  /\ UNCHANGED <<head, tail, queue, push>>

IncrementTail ==
  /\ pop.at = "copy" /\ pop.copied = Fields
  /\ tail' = Advance(tail)
  /\ pop' = [pop EXCEPT !.at = "return"]
  /\ UNCHANGED <<head, queue, push>>

ReturnPop ==
  /\ pop.at = "return"
  /\ pop' = Idle
  /\ UNCHANGED <<head, tail, queue, push>>

Next ==
  \/ \E m \in Messages : CallPush(m)
  \/ TestFull \/ Store \/ IncrementHead \/ ReturnPush
  \/ CallPop \/ TestEmpty \/ Load \/ IncrementTail \/ ReturnPop

Spec == Init /\ [][Next]_vars

-----------------------------------------------------------------------------
FieldValues == [1 .. Fields -> Messages \cup {NoMessage}]
CallStates  == [at : {"idle", "test", "copy", "return"}, copied : 0 .. Fields,
                msg : FieldValues, ok : BOOLEAN]

TypeOK ==
  /\ head \in Slots /\ tail \in Slots /\ queue \in [Slots -> FieldValues]
  /\ push \in CallStates /\ pop \in CallStates

(* How many messages are stored, and the slot of the k-th.                 *)
Length(h, t) == (h - t) % Size
Place(t, k)  == (t + k - 1) % Size

(* All fields come from one message.                                       *)
Complete(fields) == \E m \in Messages : fields = [f \in 1 .. Fields |-> m]

(* What each side has copied is the message it copies, and the result of   *)
(* its test still holds, whatever the other side does in between.          *)
Pushing ==
  /\ push.at = "idle" => push = Idle
  /\ push.at # "idle" => Complete(push.msg)
  /\ push.at \in {"test", "copy"} => push.ok
  /\ push.at = "test" => push.copied = 0
  /\ push.at = "copy" =>
       /\ ~IsFull
       /\ \A f \in 1 .. push.copied : queue[head][f] = push.msg[f]

Popping ==
  /\ pop.at = "idle" => pop = Idle
  /\ pop.at \in {"test", "copy"} => pop.ok
  /\ pop.at = "test" \/ ~pop.ok => pop.copied = 0 /\ pop.msg = Blank
  /\ pop.at = "copy" =>
       /\ ~IsEmpty
       /\ \A f \in 1 .. pop.copied : pop.msg[f] = queue[tail][f]

MessagesWhole ==
  \A k \in 1 .. Length(head, tail) : Complete(queue[Place(tail, k)])

(* The indices, the slots between them and the copies agree: the inductive *)
(* invariant of the proofs.                                                *)
Inv == TypeOK /\ Pushing /\ Popping /\ MessagesWhole

(* A slot or a copy as one message, when all its fields come from it.      *)
Whole(fields) == IF Complete(fields) THEN fields[1] ELSE NoMessage

(* The slots from tail on, oldest message first.                           *)
Contents ==
  [k \in 1 .. Length(head, tail) |-> Whole(queue[Place(tail, k)])]

Phase(call) ==
  CASE call.at = "idle"             -> "idle"
    [] call.at \in {"test", "copy"} -> "pending"
    [] call.at = "return"           -> "done"

Code(call, refusal) == IF call.ok THEN "OK" ELSE refusal

(* The calls of the two sides, as calls of the deque; a pop is given an    *)
(* out buffer, for which any message stands.                               *)
Calls ==
  [c \in {"producer", "consumer"} |->
     IF c = "producer"
     THEN [phase |-> Phase(push),
           op    |-> IF push.at = "idle" THEN "size" ELSE "push_back",
           arg   |-> Whole(push.msg),
           code  |-> Code(push, "FULL"), out |-> NoMessage, count |-> 0]
     ELSE [phase |-> Phase(pop),
           op    |-> IF pop.at = "idle" THEN "size" ELSE "pop_front",
           arg   |-> IF pop.at = "idle" THEN NoMessage
                     ELSE CHOOSE m \in Messages : TRUE,
           code  |-> Code(pop, "EMPTY"),
           out   |-> IF pop.at = "return" THEN Whole(pop.msg) ELSE NoMessage,
           count |-> 0]]

D == INSTANCE Deque WITH
       Capacity <- Size - 1, Items <- Messages, NoItem <- NoMessage,
       Contexts <- {"producer", "consumer"},
       contents <- Contents, call <- Calls

(* Without any lock the queue keeps one producer and one consumer apart: a *)
(* push takes effect when head moves, a pop when tail moves, an error at   *)
(* its test; messages come out in their order, once, and whole.            *)
ImplementsDeque == D!Spec
=============================================================================
