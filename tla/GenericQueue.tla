---------------------------- MODULE GenericQueue ----------------------------
(***************************************************************************)
(* generic-queue/generic_queue.c: a circular buffer of elements of one     *)
(* size in memory of the caller, used by one context.                      *)
(***************************************************************************)
EXTENDS Integers, Sequences

CONSTANTS Bytes,      \* size of the memory
          ElemBytes,  \* size of an element
          Elements, NoElement

GenericQueueAssumption ==
  /\ ElemBytes \in Nat \ {0} /\ Bytes \in Nat
  /\ NoElement \notin Elements

VARIABLES head, tail, cntElems, queue,
          answer               \* what the last call returned

vars == <<head, tail, cntElems, queue, answer>>

MaxElems == Bytes \div ElemBytes

(* GENQ_init.                                                              *)
Init ==
  /\ head = 0 /\ tail = 0 /\ cntElems = 0
  /\ queue = [i \in 0 .. (MaxElems - 1) |-> NoElement]
  /\ answer = TRUE

IsEmpty == cntElems = 0
IsFull  == cntElems >= MaxElems

(* Bug the runs have to notice: the end of the memory counts, not the last *)
(* whole element in it.                                                    *)
AdvanceBytes(i) == (i + 1) % (MaxElems + (IF Bytes % ElemBytes = 0 THEN 0 ELSE 1))
Advance(i) == (i + 1) % MaxElems

Push(e) ==
  IF IsFull
  THEN answer' = FALSE /\ UNCHANGED <<head, tail, cntElems, queue>>
  ELSE /\ cntElems' = cntElems + 1
       /\ queue' = [queue EXCEPT ![tail] = e]
       /\ tail' = Advance(tail)
       /\ answer' = TRUE
       /\ UNCHANGED head

Pop ==
  IF IsEmpty
  THEN answer' = NoElement /\ UNCHANGED <<head, tail, cntElems, queue>>
  ELSE /\ cntElems' = cntElems - 1
       /\ answer' = queue[head]
       /\ head' = Advance(head)
       /\ UNCHANGED <<tail, queue>>

(* GENQ_init again, on the same memory.                                    *)
Renew ==
  /\ head' = 0 /\ tail' = 0 /\ cntElems' = 0
  /\ answer' = TRUE
  /\ UNCHANGED queue

Next == (\E e \in Elements : Push(e)) \/ Pop \/ Renew

Spec == Init /\ [][Next]_vars

-----------------------------------------------------------------------------
TypeOK ==
  /\ cntElems \in 0 .. MaxElems
  /\ MaxElems > 0 => {head, tail} \subseteq 0 .. (MaxElems - 1)

R == INSTANCE RankedQueue WITH
       Ranks <- {0}, Patience <- 0, Items <- Elements, NoItem <- NoElement,
       Capacity <- MaxElems,
       waiting <- [i \in 1 .. cntElems |->
                     [rank |-> 0, item |-> queue[(head + i - 1) % MaxElems]]]

(* Elements come out in the order they went in, as many as fit whole into  *)
(* the memory, also once head and tail have gone around.                   *)
ImplementsQueue == R!Spec
=============================================================================
