------------------------------ MODULE ErrorLib ------------------------------
(***************************************************************************)
(* errorlib/src/errorlib.c.  A counter per error is -1 once the error has  *)
(* expired; the handler counts the expired errors and remembers one.  The  *)
(* counters belong to the program: errorlib_init does not clear them.  The *)
(* library has no critical section, so one context makes all the calls.    *)
(***************************************************************************)
EXTENDS Integers

CONSTANTS Groups,        \* the handler's groups
          Instances,     \* the array instances_count
          Threshold,     \* the array thresholds
          Calls,         \* the groups and instances the callers name
          MaxInt,        \* INT32_MAX
          CallerClears,  \* the counters are cleared along with errorlib_init
          NoError        \* in the refinement: no error has expired yet

ASSUME ErrorLibAssumption ==
  /\ Groups \in Nat \ {0} /\ MaxInt \in Nat \ {0}
  /\ Instances \in [0 .. (Groups - 1) -> Nat]
  /\ Threshold \in [0 .. (Groups - 1) -> 0 .. (2 * MaxInt + 1)]
  /\ Calls \subseteq Nat \X Nat
  /\ CallerClears \in BOOLEAN
  /\ NoError \notin Nat \X Nat

Errors == UNION { {g} \X (0 .. (Instances[g] - 1)) : g \in 0 .. (Groups - 1) }

VARIABLES errors,                 \* the counters
          expired, expiredError,  \* the fields of the handler
          answer                  \* what the last call returned, and of what

handler == <<errors, expired, expiredError>>
vars == <<handler, answer>>

Code(c)   == <<"code", c>>
Status(g, i, s) == <<"status", g, i, s>>
Refusal(g, i, c) == <<"refused", g, i, c>>

(* (int32_t) of a threshold, which is a size_t.                            *)
Int32(t) == IF t > MaxInt THEN t - 2 * (MaxInt + 1) ELSE t

-----------------------------------------------------------------------------
Init ==
  /\ errors = [e \in Errors |-> 0]
  /\ expired = 0 /\ expiredError = <<0, 0>>
  /\ answer = Code("OK")

(* The checks of errorlib_error_set and errorlib_error_reset.  Bug the     *)
(* runs have to notice: calls go on after the first expiry.                *)
VerdictAlways(g, i) ==
  IF g >= Groups            THEN "INVALID_GROUP"
  ELSE IF i >= Instances[g] THEN "INVALID_INSTANCE"
  ELSE "OK"

Verdict(g, i) ==
  IF expired > 0            THEN "EXPIRED"
  ELSE IF g >= Groups       THEN "INVALID_GROUP"
  ELSE IF i >= Instances[g] THEN "INVALID_INSTANCE"
  ELSE "OK"

Refuse(g, i) ==
  /\ Verdict(g, i) # "OK"
  /\ answer' = Refusal(g, i, Verdict(g, i))
  /\ UNCHANGED handler

(* errorlib_error_set.  Bug: the counter has to exceed the threshold.      *)
ExpiresLate(g, n) == n > Int32(Threshold[g])

Expires(g, n) == n >= Int32(Threshold[g])

Set(g, i) ==
  /\ Verdict(g, i) = "OK"
  /\ answer' = Code("OK")
  /\ LET n == errors[<<g, i>>] + 1
     IN IF Expires(g, n)
        THEN /\ errors' = [errors EXCEPT ![<<g, i>>] = -1]
             /\ expired' = expired + 1
             /\ expiredError' = <<g, i>>
        ELSE /\ errors' = [errors EXCEPT ![<<g, i>>] = n]
             /\ UNCHANGED <<expired, expiredError>>

Reset(g, i) ==
  /\ Verdict(g, i) = "OK"
  /\ answer' = Code("OK")
  /\ errors' = [errors EXCEPT ![<<g, i>>] = 0]
  /\ UNCHANGED <<expired, expiredError>>

StatusOf(g, i) ==
  IF g >= Groups                  THEN "UNSET"
  ELSE IF i >= Instances[g]       THEN "UNSET"
  ELSE IF errors[<<g, i>>] = 0    THEN "UNSET"
  ELSE IF \/ errors[<<g, i>>] < 0
          \/ Expires(g, errors[<<g, i>>]) THEN "EXPIRED"
  ELSE "RUNNING"

GetStatus(g, i) ==
  /\ answer' = Status(g, i, StatusOf(g, i))
  /\ UNCHANGED handler

GetExpired ==
  /\ answer' = <<"expired", expired>>
  /\ UNCHANGED handler

GetExpiredInfo ==
  /\ answer' = <<"info", expiredError>>
  /\ UNCHANGED handler

(* errorlib_init again, on the same arrays.                                *)
InitAgain ==
  /\ errors' = IF CallerClears THEN [e \in Errors |-> 0] ELSE errors
  /\ expired' = 0 /\ expiredError' = <<0, 0>>
  /\ answer' = Code("OK")

Next ==
  \/ \E c \in Calls : \/ Refuse(c[1], c[2]) \/ Set(c[1], c[2])
                     \/ Reset(c[1], c[2]) \/ GetStatus(c[1], c[2])
  \/ GetExpired \/ GetExpiredInfo \/ InitAgain

Spec == Init /\ [][Next]_vars

-----------------------------------------------------------------------------
(* No counter overflows and at most one error ever counts as expired,      *)
(* whatever the thresholds, also when init finds used counters.            *)
TypeOK ==
  /\ errors \in [Errors -> -1 .. MaxInt]
  /\ expired \in {0, 1}
  /\ expiredError \in Nat \X Nat

(* The counters in terms of the monitor: -1 stands for a threshold that    *)
(* was reached, or for the one set that a threshold of 0 needs.            *)
Streak == [e \in Errors |->
  IF errors[e] # -1 THEN errors[e]
  ELSE IF Threshold[e[1]] = 0 THEN 1 ELSE Threshold[e[1]]]

M == INSTANCE ErrorMonitor
       WITH streak <- Streak,
            first  <- IF expired = 0 THEN NoError ELSE expiredError

(* What ties the counters to the first expiry, for the proofs: a counter   *)
(* is below its threshold until it becomes -1, and only the counter of the *)
(* error that the handler remembers is -1.                                 *)
Faithful ==
  /\ \A e \in Errors :
       \/ errors[e] \in {-1, 0}
       \/ errors[e] < Threshold[e[1]]
  /\ \A e \in Errors : errors[e] = -1 => expired = 1 /\ e = expiredError
  /\ expired = 1 => expiredError \in Errors /\ errors[expiredError] = -1
  /\ expired = 0 => expiredError = <<0, 0>>

(* Along every sequence of calls the library expires an error exactly at   *)
(* its threshold, answers every question from that first expiry on for the *)
(* error that expired first, and refuses all further calls.                *)
ImplementsMonitor == M!Spec
=============================================================================
