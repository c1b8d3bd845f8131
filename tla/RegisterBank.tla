---------------------------- MODULE RegisterBank ----------------------------
(***************************************************************************)
(* What the master of a chain of monitor chips wants of one register       *)
(* group: entry d of its arrays is chip d.  A frame may be lost; a lost    *)
(* frame changes nothing at its end, and the number of answers is known.   *)
(***************************************************************************)
EXTENDS Integers, FiniteSets

VARIABLES held,      \* what each chip holds
          entries,   \* the master's array, as read
          given,     \* the master's array, as last written
          arrived,   \* the chips whose last frames came through
          answers,   \* how many of the last read, as the master knows
          writable,  \* this group is written by the master, not measured
          blank      \* the empty entry

bvars == <<held, entries, given, arrived, answers, writable, blank>>
Chips == DOMAIN held

Init ==
  /\ Chips = DOMAIN entries /\ Chips = DOMAIN given
  /\ \A d \in Chips : entries[d] = blank
  /\ arrived = {} /\ answers = 0

(* The chips whose frames come through take their entries.                 *)
Write ==
  /\ writable
  /\ arrived' \subseteq Chips /\ DOMAIN given' = Chips
  /\ held' = [d \in Chips |-> IF d \in arrived' THEN given'[d] ELSE held[d]]
  /\ UNCHANGED <<entries, answers, writable, blank>>

Clear ==
  /\ writable
  /\ arrived' \subseteq Chips
  /\ held' = [d \in Chips |-> IF d \in arrived' THEN blank ELSE held[d]]
  /\ UNCHANGED <<entries, given, answers, writable, blank>>

Measure ==
  /\ ~writable
  /\ DOMAIN held' = Chips
  /\ UNCHANGED <<entries, given, arrived, answers, writable, blank>>

(* The entries of the chips whose answers come through are up to date.     *)
Read ==
  /\ arrived' \subseteq Chips
  /\ entries' = [d \in Chips |-> IF d \in arrived' THEN held[d] ELSE entries[d]]
  /\ answers' = Cardinality(arrived')
  /\ UNCHANGED <<held, given, writable, blank>>

Empty ==
  /\ entries' = [d \in Chips |-> blank]
  /\ UNCHANGED <<held, given, arrived, answers, writable, blank>>

Next == Write \/ Clear \/ Measure \/ Read \/ Empty

Spec == Init /\ [][Next]_bvars
=============================================================================
