---------------------------- MODULE MCFastInsert ----------------------------
(* Each pop raises the priorities by one, up to the highest.                *)
EXTENDS FastInsert
CONSTANTS a, b
MCMessages ==
  { [priority |-> 0, item |-> a], [priority |-> 1, item |-> a],
    [priority |-> 1, item |-> b], [priority |-> 2, item |-> b] }
MCPriorities == 0 .. 2
MCAge == [p \in MCPriorities |-> IF p = 2 THEN 2 ELSE p + 1]
=============================================================================
