---------------------------- MODULE MCCanManager ----------------------------
(* Three identifiers: the peripherals have them at different places, one   *)
(* ignores the third, and the other gives it a place behind its table.     *)
EXTENDS CanManager

MCIndexOf == [e \in (0 .. 1) \X (1 .. 3) |->
                CASE e[2] = 3 -> IF e[1] = 0 THEN -1 ELSE 2
                  [] OTHER    -> (e[1] + e[2] + 1) % 2]
=============================================================================
