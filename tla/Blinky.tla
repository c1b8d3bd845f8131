------------------------------- MODULE Blinky -------------------------------
(***************************************************************************)
(* blinky/src/blinky.c: a led that follows a pattern of intervals, without *)
(* a timer: blinky_routine is called with the time, a counter that wraps   *)
(* around, and compares it with the time of the last change.  Calls with a *)
(* NULL handler or pattern return before they change anything.             *)
(***************************************************************************)
EXTENDS Integers, Sequences

CONSTANTS Patterns,   \* sequences of intervals
          Modulus,    \* of the time, 2 ^ 32
          Unknown

BlinkyAssumption ==
  /\ Modulus \in Nat \ {0} /\ Unknown \notin Nat
  /\ \A p \in Patterns : p \in Seq(0 .. (Modulus - 1)) /\ p # << >>

VARIABLES pattern, t, index, initialState, state, enable, repeat,
          clock,   \* the time that the program passes on
          watch    \* how long ago the last change really was

handler == <<pattern, t, index, initialState, state, enable, repeat>>
vars    == <<handler, clock, watch>>

(* blinky_init, at any time.  The last change is taken to be at time 0.    *)
Init ==
  /\ pattern \in Patterns /\ t = 0 /\ index = 0
  /\ initialState \in BOOLEAN /\ state = initialState
  /\ enable = TRUE /\ repeat \in BOOLEAN
  /\ clock \in 0 .. (Modulus - 1) /\ watch = Unknown

(* What has passed since the last change can be told for Modulus ticks.    *)
Tick ==
  /\ clock' = (clock + 1) % Modulus
  /\ watch' = IF watch \in {Unknown, Modulus - 1} THEN Unknown ELSE watch + 1
  /\ UNCHANGED handler

(* t - b->t >= b->pattern[b->index].  Behind the pattern the memory holds  *)
(* any number.  Bug the runs have to notice: the sum is compared.          *)
ExpiredSum ==
  IF index < Len(pattern) THEN { clock >= (t + pattern[index + 1]) % Modulus } ELSE BOOLEAN

Expired ==
  IF index < Len(pattern) THEN { (clock - t) % Modulus >= pattern[index + 1] } ELSE BOOLEAN

Routine ==
  /\ enable /\ TRUE \in Expired
  /\ t' = clock /\ watch' = 0
  /\ IF index + 1 >= Len(pattern)
     THEN index' = 0 /\ state' = initialState /\ enable' = repeat
     ELSE index' = index + 1 /\ state' = ~state /\ UNCHANGED enable
  /\ UNCHANGED <<pattern, initialState, repeat, clock>>

(* With nothing to change, or not enabled.                                 *)
RoutineIdle == (~enable \/ FALSE \in Expired) /\ UNCHANGED vars

Enable(b) ==
  enable' = b /\ UNCHANGED <<pattern, t, index, initialState, state, repeat, clock, watch>>

Repeat(b) ==
  repeat' = b /\ UNCHANGED <<pattern, t, index, initialState, state, enable, clock, watch>>

(* The index stays, also where the new pattern is shorter.                 *)
SetPattern(p) ==
  pattern' = p /\ UNCHANGED <<t, index, initialState, state, enable, repeat, clock, watch>>

Reset(s) ==
  /\ t' = 0 /\ index' = 0
  /\ initialState' = s /\ state' = s /\ enable' = TRUE
  /\ watch' = Unknown
  /\ UNCHANGED <<pattern, repeat, clock>>

Next ==
  \/ Tick \/ Routine \/ RoutineIdle
  \/ \E b \in BOOLEAN : Enable(b) \/ Repeat(b) \/ Reset(b)
  \/ \E p \in Patterns : SetPattern(p)

Spec == Init /\ [][Next]_vars

-----------------------------------------------------------------------------
TypeOK ==
  /\ pattern \in Patterns /\ index \in Nat
  /\ t \in 0 .. (Modulus - 1) /\ clock \in 0 .. (Modulus - 1)
  /\ {initialState, state, enable, repeat} \subseteq BOOLEAN
  /\ watch \in 0 .. (Modulus - 1) \cup {Unknown}

S == INSTANCE LampSchedule WITH
       Kept <- Modulus,
       phase <- index + 1, first <- initialState, lamp <- state,
       running <- enable, repeating <- repeat, since <- watch

(* Over wrap-around of the time, and however the pattern, the repetition   *)
(* and the state are changed on the way, the led shows the phase it is in, *)
(* and a phase is found to be over exactly when its interval has passed,   *)
(* unless the last change is as long ago as the counter can tell.          *)
ImplementsSchedule == S!Spec
=============================================================================
