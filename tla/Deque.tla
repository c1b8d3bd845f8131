------------------------------- MODULE Deque -------------------------------
(***************************************************************************)
(* What the ring buffer promises its callers: a bounded double-ended queue *)
(* whose operations take effect at one instant between the call and the    *)
(* return, although several execution contexts (the main loop and          *)
(* interrupt handlers) use it at once.  Each context has at most one call  *)
(* in progress.                                                            *)
(***************************************************************************)
EXTENDS Integers, Sequences, DequeOps

CONSTANTS Capacity,  \* the number of slots
          Items,     \* the values that can be stored
          NoItem,    \* a NULL item or out pointer, or no value returned
          Contexts   \* who calls

VARIABLES contents,  \* the stored items, front first
          call       \* call[c]: the call context c has in progress

dvars == <<contents, call>>

Idle == [phase |-> "idle", op |-> "size", arg |-> NoItem,
         code |-> "OK", out |-> NoItem, count |-> 0]

(* A call of op with argument arg that has not taken effect.  For a push   *)
(* arg is the item; for a pop or a read any item stands for an out buffer  *)
(* that is given and NoItem for one that is NULL.                          *)
Pending(op, arg) == [Idle EXCEPT !.phase = "pending", !.op = op, !.arg = arg]

(* The same call once it has taken effect, with what it returns.           *)
Done(op, arg, code, out, count) ==
  [phase |-> "done", op |-> op, arg |-> arg,
   code |-> code, out |-> out, count |-> count]

(* The code an operation returns on n stored items.                        *)
CodeOf(op, n) ==
  IF op \in Pushes /\ n >= Capacity THEN "FULL"
  ELSE IF op \in Pops \cup Reads \cup Peeks /\ n = 0 THEN "EMPTY"
  ELSE "OK"

(* What op leaves of s, and what it hands out, when its code is OK.        *)
Result(op, arg, s) ==
  CASE op = "push_front" -> <<arg>> \o s
    [] op = "push_back"  -> Append(s, arg)
    [] op = "pop_front"  -> Tail(s)
    [] op = "pop_back"   -> SubSeq(s, 1, Len(s) - 1)
    [] op = "clear"      -> << >>
    [] OTHER             -> s

OutOf(op, arg, s) ==
  IF op \in Peeks \/ (op \in Pops \cup Reads /\ arg # NoItem)
  THEN IF op \in FrontOps THEN s[1] ELSE s[Len(s)]
  ELSE NoItem

----------------------------------------------------------------------------
Init ==
  /\ contents = << >>
  /\ call = [c \in Contexts |-> Idle]

Invoke(c) ==
  /\ call[c] = Idle
  /\ \E op \in Ops, arg \in Items \cup {NoItem} :
       call' = [call EXCEPT ![c] = Pending(op, arg)]
  /\ UNCHANGED contents

(* The call of c takes effect: at once, on the whole queue.                *)
Effect(c) ==
  /\ call[c].phase = "pending"
  /\ LET op   == call[c].op
         arg  == call[c].arg
         code == CodeOf(op, Len(contents))
     IN /\ contents' = IF code = "OK" THEN Result(op, arg, contents)
                                      ELSE contents
        /\ call' = [call EXCEPT ![c] =
             Done(op, arg, code,
                  IF code = "OK" THEN OutOf(op, arg, contents) ELSE NoItem,
                  IF op = "size" THEN Len(contents) ELSE 0)]

Return(c) ==
  /\ call[c].phase = "done"
  /\ call' = [call EXCEPT ![c] = Idle]
  /\ UNCHANGED contents

Next == \E c \in Contexts : Invoke(c) \/ Effect(c) \/ Return(c)

Spec == Init /\ [][Next]_dvars
============================================================================
