----------------------------- MODULE MCMinHeap -----------------------------
(* Three items of which two compare equal, or three different ones.        *)
EXTENDS MinHeap

CONSTANTS a, b, c

MCItems == {a, b, c}
MCEqualKeys == [x \in MCItems |-> IF x = a THEN 1 ELSE 0]
MCKeys == [x \in MCItems |-> IF x = a THEN 2 ELSE IF x = b THEN 1 ELSE 0]
=============================================================================
