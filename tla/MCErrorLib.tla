----------------------------- MODULE MCErrorLib -----------------------------
(* Three groups, with the thresholds at the edges: 0, 1, and one that     *)
(* takes several sets.                                                     *)
EXTENDS ErrorLib

MCCalls == (0 .. 3) \X (0 .. 3)
MCInstances == [g \in 0 .. 2 |-> IF g = 0 THEN 3 ELSE 1]
MCThreshold == [g \in 0 .. 2 |-> IF g = 0 THEN 3 ELSE IF g = 1 THEN 1 ELSE 0]
=============================================================================
