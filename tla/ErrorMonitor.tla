---------------------------- MODULE ErrorMonitor ----------------------------
(***************************************************************************)
(* What errorlib promises: an error expires when it has been set as often  *)
(* as its group's threshold says since it was last reset, only the first   *)
(* error that expires counts, and from then on nothing changes until the   *)
(* monitor is started again.                                               *)
(***************************************************************************)
EXTENDS Integers

CONSTANTS Groups,     \* the number of groups
          Instances,  \* the number of instances of each group
          Threshold,  \* the threshold of each group
          Calls,      \* the groups and instances the callers name
          NoError

Errors == UNION { {g} \X (0 .. (Instances[g] - 1)) : g \in 0 .. (Groups - 1) }

VARIABLES streak,     \* how often each error was set since its last reset
          first,      \* the first error that has expired
          answer      \* what the last call returned, and of what

mvars == <<streak, first, answer>>

Code(c)   == <<"code", c>>
Status(g, i, s) == <<"status", g, i, s>>
Refusal(g, i, c) == <<"refused", g, i, c>>

Init ==
  /\ streak = [e \in Errors |-> 0]
  /\ first = NoError
  /\ answer = Code("OK")

(* The code of a call on instance i of group g.                            *)
Verdict(g, i) ==
  IF first # NoError        THEN "EXPIRED"
  ELSE IF g >= Groups       THEN "INVALID_GROUP"
  ELSE IF i >= Instances[g] THEN "INVALID_INSTANCE"
  ELSE "OK"

Refuse(g, i) ==
  /\ Verdict(g, i) # "OK"
  /\ answer' = Refusal(g, i, Verdict(g, i))
  /\ UNCHANGED <<streak, first>>

Raise(g, i) ==
  /\ Verdict(g, i) = "OK"
  /\ answer' = Code("OK")
  /\ LET n == streak[<<g, i>>] + 1
     IN /\ streak' = [streak EXCEPT ![<<g, i>>] = n]
        /\ first' = IF n >= Threshold[g] THEN <<g, i>> ELSE NoError

Reset(g, i) ==
  /\ Verdict(g, i) = "OK"
  /\ answer' = Code("OK")
  /\ streak' = [streak EXCEPT ![<<g, i>>] = 0]
  /\ UNCHANGED first

Ask(g, i) ==
  /\ answer' = Status(g, i,
                 IF <<g, i>> \notin Errors        THEN "UNSET"
                 ELSE IF first = <<g, i>>     THEN "EXPIRED"
                 ELSE IF streak[<<g, i>>] = 0 THEN "UNSET"
                 ELSE "RUNNING")
  /\ UNCHANGED <<streak, first>>

AskExpired ==
  /\ answer' = <<"expired", IF first = NoError THEN 0 ELSE 1>>
  /\ UNCHANGED <<streak, first>>

AskFirst ==
  /\ answer' = <<"info", IF first = NoError THEN <<0, 0>> ELSE first>>
  /\ UNCHANGED <<streak, first>>

Restart ==
  /\ streak' = [e \in Errors |-> 0]
  /\ first' = NoError
  /\ answer' = Code("OK")

Next ==
  \/ \E c \in Calls : \/ Refuse(c[1], c[2]) \/ Raise(c[1], c[2])
                     \/ Reset(c[1], c[2]) \/ Ask(c[1], c[2])
  \/ AskExpired \/ AskFirst \/ Restart

Spec == Init /\ [][Next]_mvars
=============================================================================
