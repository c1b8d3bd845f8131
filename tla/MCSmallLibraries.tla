-------------------------- MODULE MCSmallLibraries --------------------------
(* Small instances of seven libraries for TLC.                             *)
EXTENDS SmallLibraries

CONSTANTS a, b, c,         \* items
          n1, n2, n3       \* nodes of the linked list

(* Two items that are equal and of one rank, and one of a higher rank.     *)
MCRank == [x \in {a, b, c} |-> IF x = a THEN 2 ELSE 1]
MCEqual(x, y) == MCRank[x] = MCRank[y]

(* PQH_LE, which exchanges equals as well: the highest priority first.     *)
MCCompare(p, q) == p <= q
MCWorth(p) == -p

(* Intervals that differ, and a phase of no length.                        *)
MCPatterns == { <<2>>, <<1, 3>>, <<2, 0, 1>> }

(* malloc leaves a key that has begun or ended, and a character behind the *)
(* terminator or at the end of the array.                                  *)
JunkOf(m, e, place) ==
  [index |-> 0, mode |-> m, escape |-> e,
   text |-> [i \in 0 .. 3 |-> IF i = place THEN "y" ELSE "nul"]]
MCJunk == { JunkOf("none", "nul", 3), JunkOf("waiting", "nul", 1),
            JunkOf("received", "3", 1), JunkOf("received", "B", 1) }
=============================================================================
