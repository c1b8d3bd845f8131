----------------------------- MODULE MCLtc6811 -----------------------------
EXTENDS Ltc6811

(* Every bit is set in one pattern and clear in another.                    *)
MCPatterns == { <<0, 0, 0, 0, 0, 0>>, <<1, 35, 69, 103, 137, 171>>,
                <<254, 220, 186, 152, 118, 84>> }

(* No or one bit of the 64 of a frame, the first one and another, or some   *)
(* next to each other.                                                      *)
MCNoise == {{}} \cup { {p} : p \in 0 .. 63 } \cup { {0, p} : p \in 1 .. 63 }
             \cup { p .. (p + n) : p \in {3, 24, 45}, n \in {1, 2, 7, 13, 14} }

Case(g, n, e) == [group |-> g, count |-> n, emptied |-> e]

MCSetups ==
  { Case(g, 2, FALSE) : g \in {"cfg", "cv", "aux", "sta", "sctrl", "pwm"} }
    \cup { Case(g, 1, FALSE) : g \in {"comm", "conv", "pec"} }
    \cup { Case("stb", 2, TRUE) }
=============================================================================
