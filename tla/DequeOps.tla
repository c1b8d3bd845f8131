------------------------------ MODULE DequeOps ------------------------------
(***************************************************************************)
(* The vocabulary shared by the abstract deque and the ring buffer: the    *)
(* operations of ring-buffer.h and the return codes.                       *)
(***************************************************************************)

Pushes == {"push_front", "push_back"}
Pops   == {"pop_front", "pop_back"}
Reads  == {"front", "back"}
Peeks  == {"peek_front", "peek_back"}
Ops    == Pushes \cup Pops \cup Reads \cup Peeks \cup {"clear", "size"}

(* The operations that work on the front; all the others on the back.      *)
FrontOps == {"push_front", "pop_front", "front", "peek_front"}

(* RingBufferReturnCode, without the code for NULL arguments: a call with  *)
(* a NULL argument returns before it touches anything.                     *)
Codes == {"OK", "EMPTY", "FULL"}
=============================================================================
