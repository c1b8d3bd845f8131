--------------------------- MODULE ErrorLibProofs ---------------------------
(***************************************************************************)
(* errorlib for every number of groups, instances and every threshold: the *)
(* counters never overflow, and the library implements the error monitor   *)
(* if counters are cleared along with errorlib_init and the thresholds fit *)
(* in an int32_t.                                                          *)
(***************************************************************************)
EXTENDS ErrorLib, TLAPS

USE ErrorLibAssumption

(* The thresholds the cast to int32_t leaves as they are.                  *)
ThresholdsFit == \A g \in 0 .. (Groups - 1) : Threshold[g] <= MaxInt

LEMMA ErrorsAre ==
  \A g, i : <<g, i>> \in Errors <=>
    /\ g \in 0 .. (Groups - 1)
    /\ i \in 0 .. (Instances[g] - 1)
  BY DEF Errors

LEMMA ErrorsPairs ==
  \A e \in Errors : /\ e = <<e[1], e[2]>>
                    /\ e[1] \in 0 .. (Groups - 1)
                    /\ e \in Nat \X Nat
  BY DEF Errors

(* A call that is not refused names an error, and none has expired.        *)
LEMMA Accepted ==
  ASSUME TypeOK, NEW c \in Calls, Verdict(c[1], c[2]) = "OK"
  PROVE  <<c[1], c[2]>> \in Errors /\ expired = 0
<1>1. c[1] \in Nat /\ c[2] \in Nat
  OBVIOUS
<1>2. c[1] < Groups /\ ~(c[2] >= Instances[c[1]]) /\ ~(expired > 0)
  BY <1>1 DEF Verdict
<1>3. expired = 0
  BY <1>2 DEF TypeOK
<1>4. c[1] \in 0 .. (Groups - 1) /\ c[2] \in 0 .. (Instances[c[1]] - 1)
  BY <1>1, <1>2
<1>5. QED
  BY <1>3, <1>4, ErrorsAre

(* A counter that does not expire stays within an int32_t.                 *)
LEMMA Bounded ==
  ASSUME NEW g \in 0 .. (Groups - 1), NEW n \in Nat, ~Expires(g, n)
  PROVE  n <= MaxInt
  BY DEF Expires, Int32

(* What the two calls that change a counter do to it.                      *)
LEMMA SetIs ==
  ASSUME NEW g, NEW i, NEW e, e = <<g, i>>, Set(g, i)
  PROVE  LET n == errors[e] + 1
         IN  \/ /\ Expires(g, n)
                /\ errors' = [errors EXCEPT ![e] = -1]
                /\ expired' = expired + 1 /\ expiredError' = e
             \/ /\ ~Expires(g, n)
                /\ errors' = [errors EXCEPT ![e] = n]
                /\ expired' = expired /\ expiredError' = expiredError
  BY DEF Set

LEMMA ResetIs ==
  ASSUME NEW g, NEW i, NEW e, e = <<g, i>>, Reset(g, i)
  PROVE  /\ errors' = [errors EXCEPT ![e] = 0]
         /\ expired' = expired /\ expiredError' = expiredError
  BY DEF Reset

LEMMA TypeStep == TypeOK /\ [Next]_vars => TypeOK'
<1> SUFFICES ASSUME TypeOK, [Next]_vars PROVE TypeOK'
  OBVIOUS
<1>1. ASSUME NEW c \in Calls, Set(c[1], c[2]) PROVE TypeOK'
  <2>1. PICK e : e = <<c[1], c[2]>>
    OBVIOUS
  <2> DEFINE n == errors[e] + 1
  <2>2. e \in Errors /\ expired = 0 /\ c[1] \in 0 .. (Groups - 1)
    BY <1>1, <2>1, Accepted, ErrorsAre DEF Set
  <2>3. errors[e] \in -1 .. MaxInt /\ e \in Nat \X Nat
    BY <2>2, ErrorsPairs DEF TypeOK
  <2>4. CASE Expires(c[1], n)
    <3>1. /\ errors' = [errors EXCEPT ![e] = -1]
          /\ expired' = 1 /\ expiredError' = e
      BY <1>1, <2>1, <2>2, <2>4, SetIs
    <3>2. -1 \in -1 .. MaxInt
      OBVIOUS
    <3>3. QED
      BY <2>3, <3>1, <3>2 DEF TypeOK
  <2>5. CASE ~Expires(c[1], n)
    <3>1. n \in Nat
      BY <2>3
    <3>2. n <= MaxInt
      BY <2>2, <2>5, <3>1, Bounded
    <3>3. n \in -1 .. MaxInt
      BY <3>1, <3>2
    <3>4. /\ errors' = [errors EXCEPT ![e] = n]
          /\ expired' = expired /\ expiredError' = expiredError
      BY <1>1, <2>1, <2>5, SetIs
    <3>5. errors' \in [Errors -> -1 .. MaxInt]
      BY <3>3, <3>4 DEF TypeOK
    <3>6. QED
      BY <3>4, <3>5 DEF TypeOK
  <2>6. QED
    BY <2>4, <2>5
<1>2. ASSUME NEW c \in Calls, Reset(c[1], c[2]) PROVE TypeOK'
  <2>1. PICK e : e = <<c[1], c[2]>>
    OBVIOUS
  <2>2. QED
    BY <1>2, <2>1, ResetIs DEF TypeOK
<1>3. CASE InitAgain
  BY <1>3 DEF InitAgain, TypeOK
<1>4. CASE UNCHANGED handler
  BY <1>4 DEF handler, TypeOK
<1>5. QED
  BY <1>1, <1>2, <1>3, <1>4
     DEF Next, vars, Refuse, GetStatus, GetExpired, GetExpiredInfo

(* No counter ever overflows, and at most one error expires: whatever the  *)
(* thresholds, and whether or not init finds cleared counters.             *)
THEOREM TypeCorrect == Spec => []TypeOK
<1>1. Init => TypeOK
  BY DEF Init, TypeOK
<1>2. QED
  BY <1>1, TypeStep, PTL DEF Spec

-----------------------------------------------------------------------------
LEMMA FaithfulStep ==
  ASSUME CallerClears, ThresholdsFit, TypeOK, Faithful, [Next]_vars
  PROVE  Faithful'
<1>1. ASSUME NEW c \in Calls, Set(c[1], c[2]) PROVE Faithful'
  <2>1. PICK e : e = <<c[1], c[2]>>
    OBVIOUS
  <2> DEFINE n == errors[e] + 1
  <2>2. /\ e \in Errors /\ expired = 0
        /\ c[1] \in 0 .. (Groups - 1) /\ e[1] = c[1]
    BY <1>1, <2>1, Accepted, ErrorsAre DEF Set
  <2>3. errors[e] \in Nat /\ \A d \in Errors : errors[d] # -1
    BY <2>2 DEF TypeOK, Faithful
  <2>4. CASE Expires(c[1], n)
    <3>1. /\ errors' = [errors EXCEPT ![e] = -1]
          /\ expired' = 1 /\ expiredError' = e
      BY <1>1, <2>1, <2>2, <2>4, SetIs
    <3>2. errors'[e] = -1 /\ \A d \in Errors \ {e} : errors'[d] = errors[d]
      BY <2>2, <3>1 DEF TypeOK
    <3>3. QED
      BY <2>2, <2>3, <3>1, <3>2 DEF Faithful
  <2>5. CASE ~Expires(c[1], n)
    <3>1. n < Threshold[c[1]] /\ n # -1
      BY <2>2, <2>3, <2>5 DEF Expires, Int32, ThresholdsFit
    <3>2. QED
      <4>1. /\ errors' = [errors EXCEPT ![e] = n]
            /\ expired' = 0 /\ expiredError' = expiredError
        BY <1>1, <2>1, <2>2, <2>5, SetIs
      <4>2. errors'[e] = n /\ \A d \in Errors \ {e} : errors'[d] = errors[d]
        BY <2>2, <4>1 DEF TypeOK
      <4>3. QED
        BY <2>2, <2>3, <3>1, <4>1, <4>2 DEF Faithful
  <2>6. QED
    BY <2>4, <2>5
<1>2. ASSUME NEW c \in Calls, Reset(c[1], c[2]) PROVE Faithful'
  <2>1. PICK e : e = <<c[1], c[2]>>
    OBVIOUS
  <2>2. e \in Errors /\ expired = 0
    BY <1>2, <2>1, Accepted DEF Reset
  <2>3. QED
    <3>1. /\ errors' = [errors EXCEPT ![e] = 0]
          /\ expired' = 0 /\ expiredError' = expiredError
      BY <1>2, <2>1, <2>2, ResetIs
    <3>2. errors'[e] = 0 /\ \A d \in Errors \ {e} : errors'[d] = errors[d]
      BY <2>2, <3>1 DEF TypeOK
    <3>3. QED
      BY <2>2, <3>1, <3>2 DEF Faithful
<1>3. CASE InitAgain
  BY <1>3 DEF InitAgain, Faithful
<1>4. CASE UNCHANGED handler
  BY <1>4 DEF handler, Faithful
<1>5. QED
  BY <1>1, <1>2, <1>3, <1>4
     DEF Next, vars, Refuse, GetStatus, GetExpired, GetExpiredInfo

-----------------------------------------------------------------------------
(* The refinement: each call is the monitor's.                             *)

LEMMA SameErrors == M!Errors = Errors
  BY DEF M!Errors, Errors

(* The monitor refuses what the library refuses.                           *)
LEMMA SameVerdict ==
  ASSUME TypeOK, Faithful, NEW g, NEW i
  PROVE  M!Verdict(g, i) = Verdict(g, i)
<1>1. CASE expired = 0
  BY <1>1 DEF M!Verdict, Verdict
<1>2. CASE expired = 1
  <2>1. expiredError # NoError
    BY <1>2, ErrorsPairs DEF Faithful
  <2>2. QED
    BY <1>2, <2>1 DEF M!Verdict, Verdict
<1>3. QED
  BY <1>1, <1>2 DEF TypeOK

LEMMA RefineSet ==
  ASSUME ThresholdsFit, TypeOK, Faithful, NEW c \in Calls, Set(c[1], c[2])
  PROVE  M!Raise(c[1], c[2])
<1>1. PICK e : e = <<c[1], c[2]>>
  OBVIOUS
<1> DEFINE n == errors[e] + 1
<1>2. /\ e \in Errors /\ expired = 0 /\ e # NoError
      /\ c[1] \in 0 .. (Groups - 1) /\ e[1] = c[1]
  BY <1>1, Accepted, ErrorsAre, ErrorsPairs DEF Set
<1>3. errors[e] \in Nat /\ Streak[e] = errors[e]
  BY <1>2 DEF TypeOK, Faithful, Streak
<1>4. M!Verdict(c[1], c[2]) = "OK" /\ answer' = M!Code("OK")
  BY SameVerdict DEF Set, Code, M!Code
<1>5. Expires(c[1], n) <=> n >= Threshold[c[1]]
  BY <1>2, <1>3 DEF Expires, Int32, ThresholdsFit
<1>6. ASSUME Expires(c[1], n) PROVE M!Raise(c[1], c[2])
  <2>1. /\ errors' = [errors EXCEPT ![e] = -1]
        /\ expired' = 1 /\ expiredError' = e
    BY <1>1, <1>2, <1>6, SetIs
  <2>2. errors[e] = 0 \/ errors[e] < Threshold[e[1]]
    BY <1>2, <1>3 DEF Faithful
  <2>3. n = IF Threshold[e[1]] = 0 THEN 1 ELSE Threshold[e[1]]
    BY <1>2, <1>3, <1>5, <1>6, <2>2
  <2>4. Streak' = [Streak EXCEPT ![e] = n]
    BY <1>2, <2>1, <2>3 DEF Streak, TypeOK
  <2>5. QED
    <3>1. (IF expired = 0 THEN NoError ELSE expiredError)' = e
      BY <2>1
    <3>2. QED
      BY <1>1, <1>3, <1>4, <1>5, <1>6, <2>4, <3>1 DEF M!Raise
<1>7. ASSUME ~Expires(c[1], n) PROVE M!Raise(c[1], c[2])
  <2>1. /\ errors' = [errors EXCEPT ![e] = n]
        /\ expired' = 0
    BY <1>1, <1>2, <1>7, SetIs
  <2>2. Streak' = [Streak EXCEPT ![e] = n]
    <3>1. n # -1
      BY <1>3
    <3>2. errors'[e] = n /\ \A d \in Errors \ {e} : errors'[d] = errors[d]
      BY <1>2, <2>1 DEF TypeOK
    <3>3. QED
      BY <1>2, <3>1, <3>2 DEF Streak
  <2>3. QED
    BY <1>1, <1>3, <1>4, <1>5, <1>7, <2>1, <2>2 DEF M!Raise
<1>8. QED
  BY <1>6, <1>7

LEMMA RefineReset ==
  ASSUME TypeOK, Faithful, NEW c \in Calls, Reset(c[1], c[2])
  PROVE  M!Reset(c[1], c[2])
<1>1. PICK e : e = <<c[1], c[2]>>
  OBVIOUS
<1>2. e \in Errors /\ expired = 0
  BY <1>1, Accepted DEF Reset
<1>3. M!Verdict(c[1], c[2]) = "OK" /\ answer' = M!Code("OK")
  BY SameVerdict DEF Reset, Code, M!Code
<1>4. Streak' = [Streak EXCEPT ![e] = 0]
  <2>1. errors' = [errors EXCEPT ![e] = 0]
    BY <1>1, ResetIs
  <2>2. errors'[e] = 0 /\ \A d \in Errors \ {e} : errors'[d] = errors[d]
    BY <1>2, <2>1 DEF TypeOK
  <2>3. Streak'[e] = 0 /\ \A d \in Errors \ {e} : Streak'[d] = Streak[d]
    BY <1>2, <2>2 DEF Streak
  <2>4. QED
    BY <1>2, <2>3 DEF Streak
<1>5. QED
  BY <1>1, <1>2, <1>3, <1>4, ResetIs DEF M!Reset

LEMMA SameStatus ==
  ASSUME ThresholdsFit, TypeOK, Faithful, NEW c \in Calls, GetStatus(c[1], c[2])
  PROVE  M!Ask(c[1], c[2])
<1>1. PICK e : e = <<c[1], c[2]>>
  OBVIOUS
<1> DEFINE g == c[1]
           i == c[2]
           first == IF expired = 0 THEN NoError ELSE expiredError
           st == IF e \notin Errors     THEN "UNSET"
                 ELSE IF first = e       THEN "EXPIRED"
                 ELSE IF Streak[e] = 0   THEN "UNSET"
                 ELSE "RUNNING"
<1>2. UNCHANGED <<Streak, expired, expiredError>>
  BY DEF GetStatus, handler, Streak
<1>3. StatusOf(g, i) = st
  <2>1. CASE e \notin Errors
    <3>1. g >= Groups \/ i >= Instances[g]
      BY <1>1, <2>1, ErrorsAre
    <3>2. QED
      BY <2>1, <3>1 DEF StatusOf
  <2>2. CASE e \in Errors
    <3>1. /\ ~(g >= Groups) /\ ~(i >= Instances[g])
          /\ g \in 0 .. (Groups - 1) /\ e[1] = g /\ e # NoError
      BY <1>1, <2>2, ErrorsAre, ErrorsPairs
    <3>2. /\ errors[e] \in -1 .. MaxInt
          /\ errors[e] \in {-1, 0} \/ errors[e] < Threshold[g]
          /\ errors[e] = -1 <=> first = e
      BY <2>2, <3>1 DEF TypeOK, Faithful
    <3>3. Streak[e] = 0 <=> errors[e] = 0
      BY <2>2, <3>1, <3>2 DEF Streak
    <3>4. StatusOf(g, i) = IF errors[e] = 0 THEN "UNSET"
                           ELSE IF errors[e] < 0 \/ Expires(g, errors[e])
                             THEN "EXPIRED"
                           ELSE "RUNNING"
      BY <1>1, <3>1 DEF StatusOf
    <3>5. errors[e] \in {-1, 0} \/ ~Expires(g, errors[e])
      BY <3>1, <3>2 DEF Expires, Int32, ThresholdsFit
    <3> HIDE DEF g, i, first
    <3>6. QED
      BY <2>2, <3>2, <3>3, <3>4, <3>5
  <2>3. QED
    BY <2>1, <2>2
<1>4. QED
  BY <1>1, <1>2, <1>3, SameErrors DEF M!Ask, M!Status, GetStatus, Status

LEMMA RefineStep ==
  ASSUME CallerClears, ThresholdsFit, TypeOK, TypeOK', Faithful, Faithful',
         [Next]_vars
  PROVE  [M!Next]_M!mvars
<1>1. ASSUME NEW c \in Calls, Refuse(c[1], c[2]) PROVE M!Refuse(c[1], c[2])
  BY <1>1, SameVerdict DEF M!Refuse, M!Refusal, Refuse, Refusal, handler, Streak
<1>2. CASE GetExpired
  <2>1. expired # 0 => expired = 1 /\ expiredError # NoError
    BY ErrorsPairs DEF TypeOK, Faithful
  <2>2. QED
    BY <1>2, <2>1 DEF TypeOK, M!AskExpired, GetExpired, handler, Streak, M!Next
<1>3. CASE GetExpiredInfo
  <2>1. expired # 0 => expired = 1 /\ expiredError # NoError
    BY ErrorsPairs DEF TypeOK, Faithful
  <2>2. expired = 0 => expiredError = <<0, 0>>
    BY DEF Faithful
  <2>3. QED
    BY <1>3, <2>1, <2>2
       DEF TypeOK, M!AskFirst, GetExpiredInfo, handler, Streak, M!Next
<1>4. CASE InitAgain
  BY <1>4, SameErrors DEF InitAgain, M!Restart, M!Code, Code, Streak, M!Next
<1>5. CASE UNCHANGED vars
  BY <1>5 DEF vars, handler, M!mvars, Streak
<1>6. QED
  BY <1>1, <1>2, <1>3, <1>4, <1>5, RefineSet, RefineReset, SameStatus
     DEF Next, M!Next

(* The library implements the error monitor.                               *)
THEOREM Implements ==
  ASSUME CallerClears, ThresholdsFit
  PROVE  Spec => ImplementsMonitor
<1>1. Init => TypeOK /\ Faithful /\ M!Init
  BY SameErrors DEF Init, TypeOK, Faithful, M!Init, M!Code, Code, Streak
<1>2. TypeOK /\ Faithful /\ [Next]_vars => (TypeOK /\ Faithful)'
  BY TypeStep, FaithfulStep
<1>3. /\ TypeOK /\ Faithful /\ (TypeOK /\ Faithful)' /\ [Next]_vars
      => [M!Next]_M!mvars
  BY RefineStep
<1>4. QED
  BY <1>1, <1>2, <1>3, PTL DEF Spec, ImplementsMonitor, M!Spec
=============================================================================
