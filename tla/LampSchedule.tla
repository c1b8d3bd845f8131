---------------------------- MODULE LampSchedule ----------------------------
(***************************************************************************)
(* What blinky promises: a lamp that goes through the phases of a pattern  *)
(* in real time.  Whoever looks at it finds the phase over as soon as its  *)
(* interval has passed, and the lamp as the phase has it.                  *)
(***************************************************************************)
EXTENDS Integers, Sequences

CONSTANTS Patterns,   \* sequences of intervals
          Kept,       \* how long a time is kept
          Unknown     \* for a time nobody kept

VARIABLES pattern, phase,      \* phases are counted from 1
          first, lamp,         \* whether it is lit in the first phase; now
          running, repeating,
          since                \* the time since the phase began

lampVars == <<pattern, phase, first, lamp, running, repeating, since>>

Lit(n, f) == IF n % 2 = 1 THEN f ELSE ~f

Init ==
  /\ pattern \in Patterns /\ first \in BOOLEAN /\ lamp = first
  /\ phase = 1 /\ running = TRUE /\ repeating \in BOOLEAN /\ since = Unknown

(* Time goes on.                                                           *)
Pass ==
  /\ since' = IF since = Unknown \/ since + 1 = Kept THEN Unknown ELSE since + 1
  /\ UNCHANGED <<pattern, phase, first, lamp, running, repeating>>

(* A phase that a shorter pattern does not have ends at any time.          *)
Over == IF since = Unknown \/ phase > Len(pattern) THEN BOOLEAN
        ELSE { since >= pattern[phase] }

Look ==
  /\ running = TRUE
  /\ \/ FALSE \in Over /\ UNCHANGED lampVars
     \/ /\ TRUE \in Over
        /\ since' = 0
        /\ phase' = IF phase < Len(pattern) THEN phase + 1 ELSE 1
        /\ running' = (phase < Len(pattern) \/ repeating)
        /\ lamp' = Lit(phase', first)
        /\ UNCHANGED <<pattern, first, repeating>>

Run(b) == running' = b /\ UNCHANGED <<pattern, phase, first, lamp, repeating, since>>

Repeat(b) == repeating' = b /\ UNCHANGED <<pattern, phase, first, lamp, running, since>>

Change(p) == pattern' = p /\ UNCHANGED <<phase, first, lamp, running, repeating, since>>

Restart(f) ==
  /\ first' = f /\ lamp' = f /\ phase' = 1 /\ running' = TRUE /\ since' = Unknown
  /\ UNCHANGED <<pattern, repeating>>

Next ==
  \/ Pass \/ Look
  \/ \E b \in BOOLEAN : Run(b) \/ Repeat(b) \/ Restart(b)
  \/ \E p \in Patterns : Change(p)

Spec == Init /\ [][Next]_lampVars
=============================================================================
