----------------------------- MODULE UcliProofs -----------------------------
(***************************************************************************)
(* Ucli for any characters, commands, hash function, sizes of the          *)
(* dictionary and length of the line.                                      *)
(*                                                                         *)
(* PromptOncePerLine speaks of the idle state only; the invariant PInv     *)
(* follows the prompts through the states and the two steps of             *)
(* ucli_event_status_reset that lead back to it.  UInv adds what each      *)
(* state relies on, and from it follow the types and the refinement of     *)
(* LineEditor: the tokens strtok makes of a line are its words, the first  *)
(* pair of a name in the dictionary stays the one that is found, and every *)
(* step is one of the editor's or changes nothing of it.                   *)
(***************************************************************************)
EXTENDS Ucli, SequenceTheorems, FiniteSetTheorems, WellFoundedInduction, TLAPS

-----------------------------------------------------------------------------
(* The prompts.                                                            *)

(* What the prompts sent so far have to come to at the end of a line.      *)
PromptDue == IF buffer = << >> /\ handled # Backspace THEN 1 ELSE 0

Prompting ==
  /\ buffer \in Seq(Printable) /\ prompts \in 0 .. 2
  /\ state \in States /\ pc \in {"loop", "enable", "manage"}
  /\ state \in {"drop", "parse", "exec"} => handled # Backspace
  /\ state = "exec" => buffer = << >>
  /\ pc # "loop" =>
       /\ next = "idle"
       /\ prompts + (IF state # "idle" THEN 1 ELSE 0) = PromptDue

PInv == Prompting /\ PromptOncePerLine

-----------------------------------------------------------------------------
LEMMA InitPrompt == Init => PInv
  BY UcliAssumption DEF Init, PInv, Prompting, PromptOncePerLine, States

LEMMA StepPrompt == PInv /\ [Next]_vars => PInv'
<1> SUFFICES ASSUME PInv, [Next]_vars PROVE PInv'
  OBVIOUS
<1> USE UcliAssumption
    DEF PInv, Prompting, PromptOncePerLine, PromptDue, fsm, uart, evt, seen
<1>1. ASSUME NEW c \in Chars, Type(c) PROVE PInv'
  BY <1>1 DEF Type
<1>2. CASE Receive
  BY <1>2 DEF Receive, Trigger
<1>3. CASE EnableReceive
  BY <1>3 DEF EnableReceive
<1>4. CASE SetManaged
  BY <1>4 DEF SetManaged, FinishTo, States
<1> USE DEF In, States
<1>5. CASE DoInit
  BY <1>5 DEF DoInit, FinishTo, Chars
<1>6. CASE IdleNothing \/ UNCHANGED vars
  BY <1>6 DEF IdleNothing, vars
<1>7. CASE IdlePrintable
  <2>1. PICK c \in Printable :
          /\ Take(c)
          /\ IF LineFull
             THEN FinishTo("drop", 0) /\ UNCHANGED buffer
             ELSE ResetThen("idle", 0) /\ buffer' = Append(buffer, c)
    BY <1>7 DEF IdlePrintable
  <2>2. Append(buffer, c) \in Seq(Printable) /\ Append(buffer, c) # << >>
    BY AppendProperties
  <2>3. c # Backspace
    OBVIOUS
  <2>4. QED
    BY <1>7, <2>1, <2>2, <2>3 DEF IdlePrintable, Take, FinishTo, ResetThen
<1>8. CASE IdleBackspace
  <2>1. buffer # << >> => SubSeq(buffer, 1, Len(buffer) - 1) \in Seq(Printable)
    BY SubSeqProperties
  <2>2. QED
    BY <1>8, <2>1 DEF IdleBackspace, Take, ResetThen
<1>9. CASE IdleEnter
  BY <1>9 DEF IdleEnter, Take, ResetThen, FinishTo
<1>10. CASE IdleOther
  BY <1>10 DEF IdleOther, Take, FinishTo
<1>11. CASE DoDrop
  BY <1>11 DEF DoDrop, ResetThen
<1>12. CASE DoParse
  <2>1. /\ buffer' = << >> /\ handled' = handled /\ managed' = managed
        /\ In("parse") /\ (FinishTo("exec", 0) \/ ResetThen("idle", 0))
    BY <1>12 DEF DoParse
  <2>2. QED
    BY <2>1 DEF FinishTo, ResetThen
<1>13. CASE DoExec
  BY <1>13 DEF DoExec, ResetThen
<1>14. CASE Reinit
  BY <1>14 DEF Reinit
<1>15. ASSUME NEW n, NEW f, AddCommand(n, f) PROVE PInv'
  BY <1>15 DEF AddCommand
<1>16. QED
  BY <1>1, <1>2, <1>3, <1>4, <1>5, <1>6, <1>7, <1>8, <1>9, <1>10, <1>11, <1>12,
     <1>13, <1>14, <1>15 DEF Next, Main

(* Each line is answered by one prompt, and a line that goes on by none,   *)
(* whatever arrives in between and whenever ucli_init is called again.     *)
THEOREM Prompts == Spec => []PromptOncePerLine
<1>1. PInv => PromptOncePerLine
  BY DEF PInv
<1>2. QED
  BY <1>1, InitPrompt, StepPrompt, PTL DEF Spec

-----------------------------------------------------------------------------
(* Numbers: the least of a set, and how many of a set are not beyond one.  *)

LEMMA LeastOf ==
  ASSUME NEW S \in SUBSET Nat, S # {}
  PROVE  First(S) \in S /\ \A y \in S : First(S) <= y
<1>1. IsWellFoundedOn(OpToRel(<, Nat), Nat)
  BY NatLessThanWellFounded, Zenon
<1>2. PICK x \in S : \A y \in S : ~(<<y, x>> \in OpToRel(<, Nat))
  BY <1>1, WFMin, Zenon
<1>3. \A y \in S : ~(y < x)
  BY <1>2 DEF OpToRel
<1>4. \E i \in S : \A j \in S : i <= j
  BY <1>3
<1>5. QED
  BY <1>4 DEF First

LEMMA SetInduction ==
  ASSUME NEW S, 0 \in S, \A n \in Nat : n \in S => n + 1 \in S,
         NEW n \in Nat
  PROVE  n \in S
<1> DEFINE Out == Nat \ S
           m == First(Out)
<1>1. CASE Out # {}
  <2>1. m \in Out /\ \A y \in Out : m <= y
    BY <1>1, LeastOf
  <2>2. m \in Nat /\ m # 0 /\ m \notin S
    BY <2>1
  <2>3. m - 1 \in Nat /\ m - 1 \notin Out
    BY <2>1, <2>2
  <2>4. (m - 1) + 1 \in S
    BY <2>3
  <2>5. QED
    BY <2>2, <2>4
<1>2. QED
  BY <1>1

Rank(S, i) == Cardinality({ j \in S : j <= i })

LEMMA RankIs ==
  ASSUME NEW n \in Nat, NEW S \in SUBSET (1 .. n), NEW i \in Nat
  PROVE  /\ IsFiniteSet({ j \in S : j <= i }) /\ IsFiniteSet(S)
         /\ Rank(S, i) \in Nat /\ Cardinality(S) \in Nat
         /\ Rank(S, i) <= Cardinality(S)
         /\ i >= n => Rank(S, i) = Cardinality(S)
         /\ i = 0 => Rank(S, i) = 0
<1>0. \A j \in S : j \in Nat /\ 1 <= j /\ j <= n
  <2>1. \A j \in S : j \in 1 .. n
    OBVIOUS
  <2>2. QED
    BY <2>1
<1>1. IsFiniteSet(S)
  <2>1. IsFiniteSet(1 .. n)
    BY FS_Interval
  <2>2. QED
    BY <2>1, FS_Subset
<1>2. /\ IsFiniteSet({ j \in S : j <= i })
      /\ Cardinality({ j \in S : j <= i }) <= Cardinality(S)
  BY <1>1, FS_Subset
<1>3. ASSUME i >= n PROVE { j \in S : j <= i } = S
  <2>1. \A j \in S : j <= i
    BY <1>0, <1>3
  <2>2. QED
    BY <2>1
<1>4. ASSUME i = 0 PROVE { j \in S : j <= i } = {}
  <2>1. \A j \in S : ~(j <= i)
    BY <1>0, <1>4
  <2>2. QED
    BY <2>1
<1>5. QED
  BY <1>1, <1>2, <1>3, <1>4, FS_CardinalityType, FS_EmptySet DEF Rank

(* Between two numbers there is one of the set, or none.                   *)
LEMMA RankNext ==
  ASSUME NEW n \in Nat, NEW S \in SUBSET (1 .. n), NEW i \in Nat,
         NEW k \in Nat, i < k
  PROVE  /\ (\A j \in S : j <= i \/ j >= k) /\ k \in S =>
              Rank(S, k) = Rank(S, i) + 1
         /\ (\A j \in S : j <= i \/ j > k) => Rank(S, k) = Rank(S, i)
         /\ (\E j \in S : i < j /\ j <= k) => Rank(S, i) < Rank(S, k)
         /\ Rank(S, i) <= Rank(S, k)
<1> DEFINE Low == { j \in S : j <= i }
           Upto == { j \in S : j <= k }
<1>0. \A j \in S : j \in Nat
  <2>1. \A j \in S : j \in 1 .. n
    OBVIOUS
  <2>2. QED
    BY <2>1
<1>8. Low \subseteq Upto
  <2>1. ASSUME NEW j \in Low PROVE j \in Upto
    <3>1. j \in S /\ j <= i
      OBVIOUS
    <3>2. j <= k
      BY <1>0, <3>1
    <3>3. QED
      BY <3>1, <3>2
  <2>2. QED
    BY <2>1
<1>1. IsFiniteSet(Low) /\ IsFiniteSet(Upto)
  BY RankIs
<1>2. /\ Cardinality(Low) \in Nat /\ Cardinality(Upto) \in Nat
      /\ Cardinality(Low) <= Cardinality(Upto)
      /\ Cardinality(Low) = Cardinality(Upto) => Low = Upto
  BY <1>1, <1>8, FS_Subset, FS_CardinalityType
<1>3. ASSUME \A j \in S : j <= i \/ j >= k, k \in S
      PROVE  Rank(S, k) = Rank(S, i) + 1
  <2>1. k \notin Low /\ k \in Upto
    BY <1>0, <1>3
  <2>2. ASSUME NEW j \in Upto PROVE j \in Low \cup {k}
    <3>1. j \in S /\ j <= k /\ j \in Nat
      BY <1>0
    <3>2. j <= i \/ j = k
      BY <1>3, <3>1
    <3>3. QED
      BY <3>1, <3>2
  <2>3. Upto = Low \cup {k}
    BY <1>8, <2>1, <2>2
  <2>4. QED
    BY <1>1, <2>1, <2>3, FS_AddElement DEF Rank
<1>4. ASSUME \A j \in S : j <= i \/ j > k
      PROVE  Rank(S, k) = Rank(S, i)
  <2>1. ASSUME NEW j \in Upto PROVE j \in Low
    <3>1. j \in S /\ j <= k /\ j \in Nat
      BY <1>0
    <3>2. j <= i
      BY <1>4, <3>1
    <3>3. QED
      BY <3>1, <3>2
  <2>2. QED
    BY <1>8, <2>1 DEF Rank
<1>5. (\E j \in S : i < j /\ j <= k) => Low # Upto
  OBVIOUS
<1>6. QED
  BY <1>2, <1>3, <1>4, <1>5 DEF Rank

(* A member of the set is the one of its rank.                             *)
LEMMA NthIs ==
  ASSUME NEW n \in Nat, NEW S \in SUBSET (1 .. n), NEW i \in S
  PROVE  Nth(S, Rank(S, i)) = i
<1> DEFINE r == Rank(S, i)
           m == Nth(S, r)
<1>1. m \in S /\ Rank(S, m) = r
  BY DEF Nth, Rank
<1> HIDE DEF m
<1>2. m \in Nat /\ i \in Nat /\ m \in S
  <2>1. \A j \in S : j \in 1 .. n
    OBVIOUS
  <2>2. QED
    BY <1>1, <2>1
<1>7. Rank(S, m) \in Nat /\ Rank(S, i) \in Nat
  BY <1>2, RankIs
<1>3. ~(m < i)
  <2>1. m < i => Rank(S, m) < Rank(S, i)
    BY <1>2, RankNext, i <= i
  <2>2. QED
    BY <1>1, <1>7, <2>1
<1>4. ~(i < m)
  <2>1. i < m => Rank(S, i) < Rank(S, m)
    BY <1>2, RankNext, m <= m
  <2>2. QED
    BY <1>1, <1>7, <2>1
<1>5. QED
  BY <1>2, <1>3, <1>4 DEF m

-----------------------------------------------------------------------------
(* The words of a line, and the tokens strtok makes of it.                 *)

Starts(l) == L!WordStarts(l)
Stops(l)  == L!WordEnds(l)

LEMMA WordPlaces ==
  ASSUME NEW l \in Seq(Printable), NEW i \in Nat
  PROVE  /\ Len(l) \in Nat
         /\ Starts(l) \in SUBSET (1 .. Len(l))
         /\ Stops(l) \in SUBSET (1 .. Len(l))
         /\ i \in Starts(l) <=> /\ 1 <= i /\ i <= Len(l) /\ l[i] # Space
                                /\ i > 1 => l[i - 1] = Space
         /\ i \in Stops(l) <=> /\ 1 <= i /\ i <= Len(l) /\ l[i] # Space
                               /\ i < Len(l) => l[i + 1] = Space
<1>1. Len(l) \in Nat
  OBVIOUS
<1>2. QED
  BY <1>1 DEF Starts, Stops, L!WordStarts, L!WordEnds

LEMMA StartIs ==
  ASSUME NEW l \in Seq(Printable), NEW p \in Nat
  PROVE  LET q == TokenStart(l, p + 1)
         IN  /\ q \in Nat
             /\ q = Len(l) + 1 \/ (p < q /\ q <= Len(l) /\ l[q] # Space)
             /\ \A i \in Nat : p < i /\ i < q => l[i] = Space
             /\ q <= Len(l) + 1
<1> DEFINE N == Len(l)
           A == { i \in (p + 1) .. Len(l) : l[i] # Space } \cup {Len(l) + 1}
           q == TokenStart(l, p + 1)
<1>1. N \in Nat
  OBVIOUS
<1>2. A \in SUBSET Nat /\ A # {}
  BY <1>1
<1>3. q \in A /\ \A y \in A : q <= y
  BY <1>2, LeastOf DEF TokenStart
<1>4. ASSUME NEW i \in Nat, p < i, i < q, l[i] # Space
      PROVE  FALSE
  <2>1. N + 1 \in A
    OBVIOUS
  <2>2. i <= N
    BY <1>1, <1>3, <1>4, <2>1
  <2>3. i \in A
    BY <1>1, <1>4, <2>2
  <2>4. q \in Nat
    BY <1>2, <1>3
  <2>5. QED
    BY <1>3, <1>4, <2>3, <2>4
<1>5. q = N + 1 \/ q \in { i \in (p + 1) .. N : l[i] # Space }
  BY <1>3
<1>6. QED
  BY <1>1, <1>3, <1>4, <1>5

LEMMA EndIs ==
  ASSUME NEW l \in Seq(Printable), NEW q \in Nat, 1 <= q, q <= Len(l)
  PROVE  LET r == TokenEnd(l, q)
         IN  /\ r \in Nat /\ q <= r /\ r <= Len(l)
             /\ r = Len(l) \/ l[r + 1] = Space
             /\ \A j \in Nat : q <= j /\ j < r => l[j + 1] # Space
<1> DEFINE N == Len(l)
           A == { j \in q .. Len(l) : j = Len(l) \/ l[j + 1] = Space }
                  \cup {Len(l) + 1}
           r == TokenEnd(l, q)
<1>1. N \in Nat
  OBVIOUS
<1>2. A \in SUBSET Nat /\ N \in A
  BY <1>1
<1>3. r \in A /\ \A y \in A : r <= y
  BY <1>2, LeastOf DEF TokenEnd
<1>4. r <= N /\ r \in Nat
  BY <1>1, <1>2, <1>3
<1>5. ASSUME NEW j \in Nat, q <= j, j < r, l[j + 1] = Space
      PROVE  FALSE
  <2>1. j \in A
    BY <1>1, <1>4, <1>5
  <2>2. QED
    BY <1>3, <1>4, <1>5, <2>1
<1>6. r \in { j \in q .. N : j = N \/ l[j + 1] = Space }
  BY <1>1, <1>3, <1>4
<1>7. QED
  BY <1>1, <1>4, <1>5, <1>6

LEMMA EndBeyond ==
  ASSUME NEW l \in Seq(Printable)
  PROVE  TokenEnd(l, Len(l) + 1) = Len(l) + 1
<1> DEFINE A == { j \in (Len(l) + 1) .. Len(l) : j = Len(l) \/ l[j + 1] = Space }
                  \cup {Len(l) + 1}
<1>1. Len(l) \in Nat
  OBVIOUS
<1>2. A = {Len(l) + 1}
  BY <1>1
<1>3. First(A) \in A
  BY <1>1, <1>2, LeastOf
<1>4. TokenEnd(l, Len(l) + 1) = First(A)
  BY DEF TokenEnd
<1>5. QED
  BY <1>2, <1>3, <1>4

(* From the end of one word strtok finds the next one, or that there is    *)
(* none.                                                                   *)
LEMMA NextWord ==
  ASSUME NEW l \in Seq(Printable), NEW p \in Nat, p = 0 \/ p \in Stops(l)
  PROVE  LET q == TokenStart(l, p + 1)
             r == TokenEnd(l, q)
         IN  \/ /\ q = Len(l) + 1 /\ r = Len(l) + 1
                /\ Rank(Starts(l), p) = Cardinality(Starts(l))
                /\ p < Len(l) => l[Len(l)] = Space
             \/ /\ q \in Starts(l) /\ r \in Stops(l) /\ r \in Nat
                /\ q <= r /\ (p = 0 \/ p + 2 <= q) /\ p < q
                /\ Rank(Starts(l), q) = Rank(Starts(l), p) + 1
                /\ Rank(Starts(l), r) = Rank(Starts(l), p) + 1
                /\ Rank(Stops(l), r) = Rank(Stops(l), p) + 1
<1> DEFINE N == Len(l)
           q == TokenStart(l, p + 1)
           r == TokenEnd(l, q)
           S == Starts(l)
           E == Stops(l)
<1>1. N \in Nat /\ S \in SUBSET (1 .. N) /\ E \in SUBSET (1 .. N)
  BY WordPlaces
<1>2. /\ q \in Nat /\ q <= N + 1
      /\ q = N + 1 \/ (p < q /\ q <= N /\ l[q] # Space)
      /\ \A i \in Nat : p < i /\ i < q => l[i] = Space
  BY StartIs
<1>3. p <= N
  <2>1. p \in E => p <= N
    BY WordPlaces
  <2>2. QED
    BY <1>1, <2>1
<1>9. (\A j \in S : j \in Nat) /\ (\A j \in E : j \in Nat)
  <2>1. (\A j \in S : j \in 1 .. N) /\ (\A j \in E : j \in 1 .. N)
    BY <1>1
  <2>2. QED
    BY <2>1
<1>4. ASSUME NEW i \in Nat, p < i, i < q
      PROVE  i \notin S /\ i \notin E
  BY <1>2, <1>4, WordPlaces
<1> HIDE DEF N, q, r, S, E
<1>5. CASE q = N + 1
  <2>1. r = N + 1
    BY <1>5, EndBeyond DEF N, r
  <2>2. \A j \in S : j <= p \/ j > N
    BY <1>1, <1>3, <1>4, <1>5, <1>9
  <2>3. Rank(S, N) = Cardinality(S)
    <3>1. N >= N
      BY <1>1
    <3>2. QED
      BY <1>1, <3>1, RankIs
  <2>4. Rank(S, p) = Cardinality(S)
    <3>1. CASE p = N
      BY <2>3, <3>1
    <3>2. CASE p < N
      BY <1>1, <2>2, <2>3, <3>2, RankNext
    <3>3. QED
      BY <1>1, <1>3, <3>1, <3>2
  <2>5. p < N => l[N] = Space
    BY <1>1, <1>2, <1>5
  <2>6. QED
    BY <1>5, <2>1, <2>4, <2>5 DEF N, q, r, S
<1>6. CASE q # N + 1
  <2>1. p < q /\ q <= N /\ l[q] # Space /\ 1 <= q
    BY <1>2, <1>6
  <2>2. /\ r \in Nat /\ q <= r /\ r <= N
        /\ r = N \/ l[r + 1] = Space
        /\ \A j \in Nat : q <= j /\ j < r => l[j + 1] # Space
    BY <1>2, <2>1, EndIs DEF N, r
  <2>3. l[r] # Space
    <3>1. CASE q = r
      BY <2>1, <3>1
    <3>2. CASE q < r
      <4>1. r - 1 \in Nat /\ q <= r - 1 /\ r - 1 < r /\ (r - 1) + 1 = r
        BY <1>2, <2>2, <3>2
      <4>2. QED
        BY <2>2, <4>1
    <3>3. QED
      BY <1>2, <2>2, <3>1, <3>2
  <2>4. r \in E
    BY <2>1, <2>2, <2>3, <1>2, <1>1, WordPlaces DEF N, E
  <2>5. p = 0 \/ p + 2 <= q
    <3>1. ASSUME p \in E, q = p + 1 PROVE FALSE
      <4>1. p < N
        BY <1>1, <1>2, <2>1, <3>1
      <4>2. l[p + 1] = Space
        BY <3>1, <4>1, WordPlaces DEF E, N
      <4>3. QED
        BY <2>1, <3>1, <4>2
    <3>2. QED
      BY <1>2, <2>1, <3>1 DEF E
  <2>6. q \in S
    <3>1. q > 1 => l[q - 1] = Space
      <4>1. CASE p = 0
        <5>1. q > 1 => q - 1 \in Nat /\ p < q - 1 /\ q - 1 < q
          BY <1>2, <4>1
        <5>2. QED
          BY <1>2, <5>1
      <4>2. CASE p + 2 <= q
        <5>1. q - 1 \in Nat /\ p < q - 1 /\ q - 1 < q
          BY <1>2, <4>2
        <5>2. QED
          BY <1>2, <5>1
      <4>3. QED
        BY <2>5, <4>1, <4>2
    <3>2. QED
      BY <1>2, <2>1, <3>1, WordPlaces DEF S, N
  <2>7. ASSUME NEW j \in Nat, q <= j, j < r
        PROVE  j \notin E /\ j + 1 \notin S
    <3>1. l[j + 1] # Space
      BY <2>2, <2>7
    <3>2. l[j] # Space
      <4>1. CASE j = q
        BY <2>1, <4>1
      <4>2. CASE q < j
        <5>1. j - 1 \in Nat /\ q <= j - 1 /\ j - 1 < r /\ (j - 1) + 1 = j
          BY <1>2, <2>2, <2>7, <4>2
        <5>2. QED
          BY <2>2, <5>1
      <4>3. QED
        BY <1>2, <2>7, <4>1, <4>2
    <3>3. j < N /\ j + 1 > 1 /\ (j + 1) - 1 = j /\ j + 1 \in Nat
      BY <1>1, <1>2, <2>1, <2>2, <2>7
    <3>4. QED
      BY <3>1, <3>2, <3>3, WordPlaces DEF E, S, N
  <2>8. Rank(S, q) = Rank(S, p) + 1
    <3>1. \A j \in S : j <= p \/ j >= q
      BY <1>2, <1>4, <1>9
    <3>2. QED
      BY <1>1, <1>2, <2>1, <2>6, <3>1, RankNext
  <2>9. Rank(S, r) = Rank(S, q)
    <3>1. CASE q = r
      BY <3>1
    <3>2. CASE q < r
      <4>1. ASSUME NEW j \in S, q < j, j <= r PROVE FALSE
        <5>1. j - 1 \in Nat /\ q <= j - 1 /\ j - 1 < r /\ (j - 1) + 1 = j
          BY <1>2, <1>9, <2>2, <4>1
        <5>2. QED
          BY <2>7, <5>1
      <4>2. \A j \in S : j <= q \/ j > r
        BY <1>2, <1>9, <2>2, <4>1
      <4>3. QED
        BY <1>1, <1>2, <2>2, <3>2, <4>2, RankNext
    <3>3. QED
      BY <1>2, <2>2, <3>1, <3>2
  <2>10. Rank(E, r) = Rank(E, p) + 1
    <3>1. \A j \in E : j <= p \/ j >= r
      BY <1>2, <1>4, <1>9, <2>2, <2>7
    <3>2. p < r
      BY <1>2, <2>1, <2>2
    <3>3. QED
      BY <1>1, <2>2, <2>4, <3>1, <3>2, RankNext
  <2>11. QED
    BY <2>1, <2>2, <2>4, <2>5, <2>6, <2>8, <2>9, <2>10 DEF N, q, r, S, E
<1>7. QED
  BY <1>5, <1>6

LEMMA TokenCount ==
  /\ TokenN \in Nat /\ 1 <= TokenN
  /\ BufferLen <= 2 * TokenN /\ 2 * TokenN <= BufferLen + 1
  BY UcliAssumption DEF TokenN

(* The recursion of Ends is well founded, and its function exists.         *)
Chain(l, m, f) ==
  f = [n \in 0 .. m |->
         IF n = 0 THEN 0 ELSE TokenEnd(l, TokenStart(l, f[n - 1] + 1))]

LEMMA ChainExists ==
  ASSUME NEW l, NEW m \in Nat
  PROVE  \E f : Chain(l, m, f)
<1> DEFINE S == { k \in Nat : \E f : Chain(l, k, f) }
<1>1. 0 \in S
  <2> DEFINE f == [n \in 0 .. 0 |-> 0]
  <2>1. f = [n \in 0 .. 0 |->
               IF n = 0 THEN 0 ELSE TokenEnd(l, TokenStart(l, f[n - 1] + 1))]
    OBVIOUS
  <2>2. Chain(l, 0, f)
    BY <2>1 DEF Chain
  <2>3. QED
    BY <2>2
<1>2. ASSUME NEW k \in Nat, k \in S PROVE k + 1 \in S
  <2>1. PICK f : Chain(l, k, f)
    BY <1>2
  <2> DEFINE Link(h, n) ==
               IF n = 0 THEN 0 ELSE TokenEnd(l, TokenStart(l, h[n - 1] + 1))
             g == [n \in 0 .. (k + 1) |-> Link(f, n)]
  <2>2. \A n \in 0 .. k : f[n] = Link(f, n)
    BY <2>1 DEF Chain
  <2>3. \A n \in 0 .. k : g[n] = f[n]
    BY <2>2
  <2>4. ASSUME NEW n \in 0 .. (k + 1) PROVE Link(f, n) = Link(g, n)
    <3>1. CASE n = 0
      BY <3>1
    <3>2. CASE n # 0
      <4>1. n - 1 \in 0 .. k
        BY <3>2
      <4>2. QED
        BY <2>3, <4>1
    <3>3. QED
      BY <3>1, <3>2
  <2>5. g = [n \in 0 .. (k + 1) |-> Link(g, n)]
    BY <2>4
  <2>6. Chain(l, k + 1, g)
    BY <2>5 DEF Chain
  <2>7. QED
    BY <2>6
<1> HIDE DEF S
<1>3. m \in S
  BY <1>1, <1>2, SetInduction
<1>4. QED
  BY <1>3 DEF S

LEMMA EndsAre ==
  ASSUME NEW l
  PROVE  /\ Ends(l)[0] = 0
         /\ \A n \in 1 .. TokenN :
              Ends(l)[n] = TokenEnd(l, TokenStart(l, Ends(l)[n - 1] + 1))
<1>1. \E f : Chain(l, TokenN, f)
  BY ChainExists, TokenCount
<1>2. Ends(l) = CHOOSE f : Chain(l, TokenN, f)
  BY DEF Ends, Chain
<1>3. Chain(l, TokenN, Ends(l))
  BY <1>1, <1>2
<1>4. \A n \in 0 .. TokenN :
        Ends(l)[n] = IF n = 0 THEN 0
                     ELSE TokenEnd(l, TokenStart(l, Ends(l)[n - 1] + 1))
  <2>1. \A f : Chain(l, TokenN, f) =>
          \A n \in 0 .. TokenN :
            f[n] = IF n = 0 THEN 0
                   ELSE TokenEnd(l, TokenStart(l, f[n - 1] + 1))
    BY DEF Chain
  <2>2. QED
    BY <1>3, <2>1
<1>5. QED
  BY <1>4, TokenCount

(* The tokens of a line are its words, in order and nothing else: the      *)
(* array of tokens is long enough.                                         *)
WordCount(l) == Cardinality(Starts(l))
From(l, n)   == TokenStart(l, Ends(l)[n - 1] + 1)

Met(l, n) ==
  LET e == Ends(l)[n]
  IN  \/ /\ e \in Nat /\ ((n = 0 /\ e = 0) \/ e \in Stops(l))
         /\ Rank(Starts(l), e) = n /\ Rank(Stops(l), e) = n
         /\ n > 0 => /\ From(l, n) \in Starts(l) /\ Rank(Starts(l), From(l, n)) = n
                     /\ From(l, n) <= e /\ 2 * n - 1 <= e
      \/ /\ n > 0 /\ e = Len(l) + 1 /\ From(l, n) = Len(l) + 1
         /\ WordCount(l) < n

LEMMA AllMet ==
  ASSUME NEW l \in Seq(Printable), NEW m \in 0 .. TokenN
  PROVE  Met(l, m)
<1> DEFINE S == { n \in Nat : n <= TokenN => Met(l, n) }
           N == Len(l)
<1>1. N \in Nat /\ Starts(l) \in SUBSET (1 .. N) /\ Stops(l) \in SUBSET (1 .. N)
  BY WordPlaces
<1>2. WordCount(l) \in Nat /\ \A n \in Nat : Rank(Starts(l), n) <= WordCount(l)
  BY <1>1, RankIs DEF WordCount
<1>3. 0 \in S
  <2>1. Rank(Starts(l), 0) = 0 /\ Rank(Stops(l), 0) = 0
    BY <1>1, RankIs
  <2>2. QED
    BY <2>1, EndsAre DEF Met
<1>4. ASSUME NEW n \in Nat, n \in S PROVE n + 1 \in S
  <2> SUFFICES ASSUME n + 1 <= TokenN PROVE Met(l, n + 1)
    OBVIOUS
  <2> DEFINE e == Ends(l)[n]
             q == TokenStart(l, e + 1)
             r == TokenEnd(l, q)
  <2>1. Ends(l)[n + 1] = r /\ From(l, n + 1) = q
    <3>1. n + 1 \in 1 .. TokenN /\ (n + 1) - 1 = n
      BY TokenCount
    <3>2. QED
      BY <3>1, EndsAre DEF From
  <2>2. Met(l, n)
    BY <1>4, TokenCount
  <2>3. CASE /\ e \in Nat /\ ((n = 0 /\ e = 0) \/ e \in Stops(l))
             /\ Rank(Starts(l), e) = n /\ Rank(Stops(l), e) = n
             /\ n > 0 => 2 * n - 1 <= e
    <3>1. \/ /\ q = Len(l) + 1 /\ r = Len(l) + 1
             /\ Rank(Starts(l), e) = Cardinality(Starts(l))
          \/ /\ q \in Starts(l) /\ r \in Stops(l) /\ r \in Nat
             /\ q <= r /\ (e = 0 \/ e + 2 <= q) /\ e < q
             /\ Rank(Starts(l), q) = Rank(Starts(l), e) + 1
             /\ Rank(Starts(l), r) = Rank(Starts(l), e) + 1
             /\ Rank(Stops(l), r) = Rank(Stops(l), e) + 1
      BY <2>3, NextWord
    <3> HIDE DEF e, q, r
    <3>2. CASE /\ q = Len(l) + 1 /\ r = Len(l) + 1
               /\ Rank(Starts(l), e) = Cardinality(Starts(l))
      BY <1>1, <1>2, <2>1, <2>3, <3>2 DEF Met, WordCount
    <3>3. CASE /\ q \in Starts(l) /\ r \in Stops(l) /\ r \in Nat
               /\ q <= r /\ (e = 0 \/ e + 2 <= q) /\ e < q
               /\ Rank(Starts(l), q) = Rank(Starts(l), e) + 1
               /\ Rank(Starts(l), r) = Rank(Starts(l), e) + 1
               /\ Rank(Stops(l), r) = Rank(Stops(l), e) + 1
      <4>1. q \in Nat
        <5>1. q \in 1 .. N
          BY <1>1, <3>3
        <5>2. QED
          BY <5>1
      <4>2. 0 \notin Stops(l)
        BY WordPlaces
      <4>3. n > 0 => e > 0
        BY <2>3, <4>2
      <4>4. 2 * (n + 1) - 1 <= r
        BY <2>3, <3>3, <4>1, <4>3
      <4>5. QED
        BY <2>1, <2>3, <3>3, <4>4 DEF Met
    <3>4. QED
      BY <3>1, <3>2, <3>3
  <2>4. CASE n > 0 /\ e = N + 1 /\ WordCount(l) < n
    <3>1. q = N + 1
      <4>1. N + 1 \in Nat
        BY <1>1
      <4>2. /\ q \in Nat /\ q <= N + 1
            /\ q = N + 1 \/ (N + 1 < q /\ q <= N /\ l[q] # Space)
        BY <2>4, <4>1, StartIs
      <4>3. QED
        BY <1>1, <4>2
    <3>2. r = N + 1
      BY <3>1, EndBeyond
    <3> HIDE DEF e, q, r
    <3>3. QED
      BY <1>2, <2>1, <2>4, <3>1, <3>2 DEF Met
  <2>5. QED
    BY <2>2, <2>3, <2>4 DEF Met
<1> HIDE DEF S
<1>5. m \in Nat /\ m <= TokenN
  BY TokenCount
<1>6. m \in S
  BY <1>3, <1>4, <1>5, SetInduction
<1>7. QED
  BY <1>5, <1>6 DEF S

LEMMA SameCount ==
  ASSUME NEW S
  PROVE  L!Cardinality(S) = Cardinality(S)
  BY Zenon DEF L!Cardinality, Cardinality

LEMMA NthPlaces ==
  ASSUME NEW S, NEW n
  PROVE  L!Nth(S, n) = Nth(S, n)
  BY SameCount DEF L!Nth, Nth

LEMMA TokensAreWords ==
  ASSUME NEW l \in Seq(Printable), Len(l) <= BufferLen
  PROVE  /\ WordCount(l) \in Nat /\ WordCount(l) <= TokenN
         /\ \A n \in 1 .. TokenN :
              IF n <= WordCount(l)
              THEN /\ From(l, n) = L!Nth(L!WordStarts(l), n)
                   /\ Ends(l)[n] = L!Nth(L!WordEnds(l), n)
                   /\ From(l, n) \in 1 .. Len(l) /\ Ends(l)[n] \in 1 .. Len(l)
                   /\ From(l, n) <= Ends(l)[n]
              ELSE From(l, n) = Len(l) + 1 /\ Ends(l)[n] = Len(l) + 1
         /\ Len(l) > 0 /\ l[Len(l)] # Space =>
              /\ WordCount(l) > 0
              /\ \A n \in 1 .. TokenN : Ends(l)[n] = Len(l) <=> n = WordCount(l)
<1> DEFINE S == Starts(l)
           E == Stops(l)
           N == Len(l)
           W == WordCount(l)
<1>1. N \in Nat /\ S \in SUBSET (1 .. N) /\ E \in SUBSET (1 .. N)
  BY WordPlaces
<1>2. W \in Nat /\ \A n \in Nat : Rank(S, n) <= W
  BY <1>1, RankIs DEF WordCount
<1>3. TokenN \in Nat /\ 1 <= TokenN
  BY TokenCount
<1> HIDE DEF S, E, N, W
<1>4. ASSUME NEW n \in 1 .. TokenN
      PROVE  IF n <= W
             THEN /\ From(l, n) = Nth(S, n) /\ Ends(l)[n] = Nth(E, n)
                  /\ From(l, n) \in 1 .. N /\ Ends(l)[n] \in 1 .. N
                  /\ From(l, n) <= Ends(l)[n]
                  /\ Ends(l)[n] \in E /\ Rank(E, Ends(l)[n]) = n
                  /\ Rank(S, Ends(l)[n]) = n
             ELSE From(l, n) = N + 1 /\ Ends(l)[n] = N + 1
  <2>1. n \in Nat /\ n > 0 /\ n \in 0 .. TokenN
    BY <1>3
  <2>2. Met(l, n)
    BY <2>1, AllMet
  <2>3. CASE n <= W
    <3>1. /\ Ends(l)[n] \in E /\ Rank(S, Ends(l)[n]) = n /\ Rank(E, Ends(l)[n]) = n
          /\ From(l, n) \in S /\ Rank(S, From(l, n)) = n
          /\ From(l, n) <= Ends(l)[n]
      BY <1>2, <2>1, <2>2, <2>3 DEF Met, S, E, N, W
    <3>2. From(l, n) = Nth(S, n)
      <4>1. Nth(S, Rank(S, From(l, n))) = From(l, n)
        BY <1>1, <3>1, NthIs
      <4>2. QED
        BY <3>1, <4>1
    <3>3. Ends(l)[n] = Nth(E, n)
      <4>1. Nth(E, Rank(E, Ends(l)[n])) = Ends(l)[n]
        BY <1>1, <3>1, NthIs
      <4>2. QED
        BY <3>1, <4>1
    <3>4. From(l, n) \in 1 .. N /\ Ends(l)[n] \in 1 .. N
      BY <1>1, <3>1
    <3>5. QED
      BY <2>3, <3>1, <3>2, <3>3, <3>4
  <2>4. CASE ~(n <= W)
    <3>1. \A i \in Nat : Rank(S, i) # n
      <4>1. ASSUME NEW i \in Nat PROVE Rank(S, i) # n
        <5>1. Rank(S, i) \in Nat
          BY <1>1, RankIs
        <5>2. QED
          BY <1>2, <2>1, <2>4, <5>1
      <4>2. QED
        BY <4>1
    <3>2. From(l, n) = N + 1 /\ Ends(l)[n] = N + 1
      BY <2>1, <2>2, <3>1 DEF Met, S, E, N, W
    <3>3. QED
      BY <2>4, <3>2
  <2>5. QED
    BY <2>3, <2>4
<1>5. W <= TokenN
  <2> DEFINE e == Ends(l)[TokenN]
             q == TokenStart(l, e + 1)
  <2>1. Met(l, TokenN)
    <3>1. TokenN \in 0 .. TokenN
      BY <1>3
    <3>2. QED
      BY <3>1, AllMet
  <2>2. CASE /\ e \in Nat /\ e \in Stops(l) /\ Rank(Starts(l), e) = TokenN
             /\ 2 * TokenN - 1 <= e
    <3>1. \/ q = N + 1 /\ Rank(S, e) = W
          \/ q \in S /\ (e = 0 \/ e + 2 <= q)
      BY <2>2, NextWord DEF S, N, W, WordCount
    <3>2. q \in S => q <= N /\ q \in Nat
      <4>1. q \in S => q \in 1 .. N
        BY <1>1
      <4>2. QED
        BY <4>1
    <3>3. N <= e + 1
      BY TokenCount, UcliAssumption, <1>1, <2>2 DEF N
    <3>4. e # 0
      BY <1>3, <2>2
    <3>5. QED
      BY <1>1, <1>3, <2>2, <3>1, <3>2, <3>3, <3>4 DEF S
  <2>3. CASE W < TokenN
    BY <1>2, <1>3, <2>3
  <2>4. QED
    BY <1>3, <2>1, <2>2, <2>3 DEF Met, W
<1>6. ASSUME N > 0, l[N] # Space
      PROVE  W > 0 /\ \A n \in 1 .. TokenN : Ends(l)[n] = N <=> n = W
  <2>1. N \in E
    <3>1. N \in Nat /\ 1 <= N
      BY <1>1, <1>6
    <3>2. QED
      BY <1>6, <3>1, WordPlaces DEF E, N
  <2>2. N \in Nat /\ N >= N
    BY <1>1
  <2> DEFINE e == Ends(l)[W]
             q == TokenStart(l, e + 1)
  <2>3. /\ e \in Nat /\ (e = 0 \/ e \in E) /\ (W > 0 => e \in E /\ Rank(E, e) = W)
        /\ Rank(S, e) = W /\ (W = 0 => e = 0)
    <3>1. CASE W = 0
      <4>1. e = 0 /\ Rank(S, 0) = 0
        BY <1>1, <3>1, EndsAre, RankIs
      <4>2. QED
        BY <3>1, <4>1
    <3>2. CASE W > 0
      <4>1. W \in 1 .. TokenN /\ W <= W
        BY <1>2, <1>3, <1>5, <3>2
      <4>2. /\ e \in E /\ Rank(S, e) = W /\ Rank(E, e) = W
            /\ e \in 1 .. N
        BY <1>4, <4>1
      <4>3. e \in Nat
        BY <4>2
      <4>4. QED
        BY <3>2, <4>2, <4>3
    <3>3. QED
      BY <1>2, <3>1, <3>2
  <2>4. \/ e < N => l[N] = Space
        \/ q \in S /\ q \in Nat /\ Rank(S, q) = Rank(S, e) + 1
    <3>1. \/ e < N => l[N] = Space
          \/ q \in S /\ Rank(S, q) = Rank(S, e) + 1
      BY <2>3, NextWord DEF S, E, N
    <3>2. q \in S => q \in 1 .. N
      BY <1>1
    <3>3. QED
      BY <3>1, <3>2
  <2>5. ~(e < N)
    BY <1>2, <1>6, <2>3, <2>4
  <2>6. e <= N
    <3>1. e \in E => e \in 1 .. N
      BY <1>1
    <3>2. QED
      BY <2>2, <2>3, <3>1
  <2>7. e = N /\ W > 0
    BY <1>2, <1>6, <2>2, <2>3, <2>5, <2>6
  <2>8. ASSUME NEW n \in 1 .. TokenN, Ends(l)[n] = N PROVE n = W
    <3>1. n <= W
      BY <1>4, <2>2, <2>8
    <3>2. Rank(E, N) = n
      BY <1>4, <2>8, <3>1
    <3>3. QED
      BY <2>3, <2>7, <3>2
  <2>9. QED
    BY <2>7, <2>8
<1>7. QED
  BY <1>2, <1>4, <1>5, <1>6, NthPlaces DEF S, E, N, W, Starts, Stops

-----------------------------------------------------------------------------
(* The dictionary: used slots come first, and hold names and functions.    *)

Slots == [key : Names \cup {<< >>}, function : Functions \cup {NoFunction}]

Dictionary ==
  /\ buckets \in [0 .. (BucketsN - 1) -> [1 .. BucketsSize -> Slots]]
  /\ \A b \in 0 .. (BucketsN - 1) : \A i \in 1 .. BucketsSize :
       /\ buckets[b][i].function = NoFunction <=> buckets[b][i].key = << >>
       /\ buckets[b][i].function = NoFunction =>
            \A j \in (i + 1) .. BucketsSize : buckets[b][j].function = NoFunction

Registry(m) == IF ContainsKey(m) THEN Get(m) ELSE NoFunction

LEMMA FirstIs ==
  ASSUME NEW S \in SUBSET Nat, NEW m \in S, \A y \in S : m <= y
  PROVE  First(S) = m
<1>1. First(S) \in S /\ \A y \in S : First(S) <= y
  BY LeastOf
<1>2. First(S) <= m /\ m <= First(S) /\ First(S) \in Nat /\ m \in Nat
  BY <1>1
<1>3. QED
  BY <1>2

LEMMA BucketIs ==
  ASSUME NEW key, Hash(key) \in Nat
  PROVE  BucketOf(key) \in 0 .. (BucketsN - 1)
  BY DictionaryAssumption DEF BucketOf

LEMMA KnownIs ==
  ASSUME Dictionary, NEW key, Hash(key) \in Nat, key # << >>
  PROVE  /\ ContainsKey(key) <=> key \in Names /\ Registry(key) # NoFunction
         /\ ContainsKey(key) => Get(key) \in Functions
         /\ ContainsKey(key) => /\ First(SlotsOf(key)) \in SlotsOf(key)
                                /\ \A y \in SlotsOf(key) : First(SlotsOf(key)) <= y
<1> DEFINE b == BucketOf(key)
           S == SlotsOf(key)
           i == First(S)
<1>1. b \in 0 .. (BucketsN - 1)
  BY BucketIs
<1>2. ASSUME ContainsKey(key)
      PROVE  /\ i \in S /\ \A y \in S : i <= y
             /\ buckets[b][i].key = key /\ i \in 1 .. BucketsSize
  <2>1. S \in SUBSET Nat /\ S # {}
    BY <1>2, DictionaryAssumption DEF SlotsOf, ContainsKey
  <2>2. i \in S /\ \A y \in S : i <= y
    BY <2>1, LeastOf
  <2>3. QED
    BY <2>2 DEF SlotsOf
<1>3. ASSUME ContainsKey(key)
      PROVE  key \in Names /\ Get(key) \in Functions
  <2>1. buckets[b][i] \in Slots /\ buckets[b][i].function # NoFunction
    BY <1>1, <1>2, <1>3 DEF Dictionary
  <2>2. QED
    BY <1>2, <1>3, <2>1 DEF Slots, Get
<1>4. QED
  BY <1>2, <1>3, DictionaryAssumption DEF Registry

LEMMA AddIs ==
  ASSUME Dictionary, NEW n \in Names, NEW f \in Functions, Add(n, f)
  PROVE  /\ Dictionary'
         /\ \A m \in Names :
              /\ ContainsKey(m) => ContainsKey(m)'
              /\ \/ Registry(m)' = Registry(m)
                 \/ m = n /\ Registry(n) = NoFunction /\ Registry(n)' = f
<1> DEFINE b == BucketOf(n)
           F == FreeSlots(n)
           k == First(F)
<1>1. \A m \in Names : BucketOf(m) \in 0 .. (BucketsN - 1) /\ m # << >>
  BY UcliAssumption, BucketIs
<1>2. CASE F = {}
  <2>1. buckets' = buckets
    BY <1>2 DEF Add
  <2>2. Dictionary'
    BY <2>1 DEF Dictionary
  <2>3. ASSUME NEW m \in Names
        PROVE  ContainsKey(m)' = ContainsKey(m) /\ Registry(m)' = Registry(m)
    BY <2>1 DEF ContainsKey, Registry, Get, SlotsOf
  <2>4. QED
    BY <2>2, <2>3
<1>3. CASE F # {}
  <2>1. buckets' = [buckets EXCEPT ![b][k] = [key |-> n, function |-> f]]
    BY <1>3 DEF Add
  <2>2. F \in SUBSET Nat
    BY DictionaryAssumption DEF FreeSlots
  <2>3. k \in F /\ \A y \in F : k <= y
    BY <1>3, <2>2, LeastOf
  <2>4. k \in 1 .. BucketsSize /\ buckets[b][k].function = NoFunction
    BY <2>3 DEF FreeSlots
  <2> HIDE DEF k
  <2>5. b \in 0 .. (BucketsN - 1) /\ buckets[b][k].key = << >>
    BY <1>1, <2>4 DEF Dictionary
  <2>6. [key |-> n, function |-> f] \in Slots
    BY DEF Slots
  <2>7. /\ buckets' \in [0 .. (BucketsN - 1) -> [1 .. BucketsSize -> Slots]]
        /\ \A c \in 0 .. (BucketsN - 1) : \A i \in 1 .. BucketsSize :
             buckets'[c][i] = IF c = b /\ i = k THEN [key |-> n, function |-> f]
                              ELSE buckets[c][i]
    BY <2>1, <2>4, <2>5, <2>6 DEF Dictionary
  <2>8. ASSUME NEW i \in 1 .. BucketsSize, i < k
        PROVE  buckets[b][i].function # NoFunction
    <3>1. i \notin F
      BY <2>2, <2>3, <2>4, <2>8
    <3>2. QED
      BY <3>1 DEF FreeSlots
  <2>9. Dictionary'
    <3>1. ASSUME NEW c \in 0 .. (BucketsN - 1), NEW i \in 1 .. BucketsSize
          PROVE  /\ buckets'[c][i].function = NoFunction <=> buckets'[c][i].key = << >>
                 /\ buckets'[c][i].function = NoFunction =>
                      \A j \in (i + 1) .. BucketsSize :
                        buckets'[c][j].function = NoFunction
      <4>1. n # << >> /\ f # NoFunction
        BY <1>1, DictionaryAssumption
      <4>2. buckets'[c][i].function = NoFunction <=> buckets'[c][i].key = << >>
        BY <2>7, <4>1 DEF Dictionary
      <4>3. ASSUME buckets'[c][i].function = NoFunction,
                   NEW j \in (i + 1) .. BucketsSize
            PROVE  buckets'[c][j].function = NoFunction
        <5>1. buckets[c][i].function = NoFunction /\ ~(c = b /\ i = k)
          BY <2>7, <4>1, <4>3
        <5>2. j \in 1 .. BucketsSize /\ i < j
          BY DictionaryAssumption
        <5>3. buckets[c][j].function = NoFunction
          BY <5>1 DEF Dictionary
        <5>4. ~(c = b /\ j = k)
          BY <2>8, <5>1, <5>2
        <5>5. QED
          BY <2>7, <5>2, <5>3, <5>4
      <4>4. QED
        BY <4>2, <4>3
    <3>2. QED
      BY <2>7, <3>1 DEF Dictionary
  <2>10. ASSUME NEW m \in Names, ~(m = n /\ SlotsOf(n) = {})
         PROVE  /\ (SlotsOf(m) # {} => SlotsOf(m)' # {})
                /\ (SlotsOf(m)' # {} => SlotsOf(m) # {})
                /\ SlotsOf(m) # {} => Get(m)' = Get(m)
    <3>1. BucketOf(m) \in 0 .. (BucketsN - 1) /\ m # << >>
      BY <1>1
    <3>2. \A i \in 1 .. BucketsSize :
            i \in SlotsOf(m)' <=> i \in SlotsOf(m) \/ (m = n /\ i = k)
      BY <2>5, <2>7, <3>1 DEF SlotsOf
    <3>3. SlotsOf(m) \subseteq 1 .. BucketsSize /\ SlotsOf(m)' \subseteq 1 .. BucketsSize
      BY DEF SlotsOf
    <3>4. ASSUME SlotsOf(m) # {}
          PROVE  First(SlotsOf(m)') = First(SlotsOf(m)) /\ First(SlotsOf(m)) \in SlotsOf(m)
                 /\ ~(m = n /\ First(SlotsOf(m)) = k)
      <4> DEFINE i == First(SlotsOf(m))
      <4>1. SlotsOf(m) \in SUBSET Nat /\ SlotsOf(m)' \in SUBSET Nat
        BY <3>3, DictionaryAssumption
      <4>2. i \in SlotsOf(m) /\ \A y \in SlotsOf(m) : i <= y
        BY <3>4, <4>1, LeastOf
      <4> HIDE DEF i
      <4>3. i \in 1 .. BucketsSize /\ buckets[BucketOf(m)][i].key = m
        BY <4>2 DEF SlotsOf
      <4>4. m = n => i < k
        <5>1. buckets[BucketOf(m)][i].function # NoFunction
          BY <3>1, <4>3 DEF Dictionary
        <5>2. ASSUME m = n, k < i PROVE FALSE
          <6>1. i \in (k + 1) .. BucketsSize
            BY <2>4, <4>3, <5>2, DictionaryAssumption
          <6>2. buckets[b][i].function = NoFunction
            BY <2>4, <2>5, <6>1 DEF Dictionary
          <6>3. QED
            BY <5>1, <5>2, <6>2
        <5>3. m = n => i # k
          BY <2>4, <5>1
        <5>4. QED
          BY <2>4, <4>3, <5>2, <5>3, DictionaryAssumption
      <4>5. i \in SlotsOf(m)' /\ \A y \in SlotsOf(m)' : i <= y
        BY <2>4, <3>2, <3>3, <4>1, <4>2, <4>3, <4>4
      <4>6. First(SlotsOf(m)') = i
        BY <4>1, <4>5, FirstIs
      <4>7. QED
        BY <2>4, <4>1, <4>2, <4>3, <4>4, <4>6 DEF i
    <3>5. SlotsOf(m)' # {} => SlotsOf(m) # {}
      BY <2>10, <3>2, <3>3
    <3>6. SlotsOf(m) # {} => SlotsOf(m)' # {}
      BY <3>2, <3>3
    <3>7. ASSUME SlotsOf(m) # {} PROVE Get(m)' = Get(m)
      <4>1. First(SlotsOf(m)) \in 1 .. BucketsSize
        BY <3>3, <3>4, <3>7
      <4>2. /\ Get(m)' = buckets'[BucketOf(m)][First(SlotsOf(m)')].function
            /\ Get(m) = buckets[BucketOf(m)][First(SlotsOf(m))].function
        BY DEF Get
      <4>3. buckets'[BucketOf(m)][First(SlotsOf(m))] =
              buckets[BucketOf(m)][First(SlotsOf(m))]
        <5>1. /\ ~(BucketOf(m) = b /\ First(SlotsOf(m)) = k)
              /\ BucketOf(m) \in 0 .. (BucketsN - 1)
          <6>1. CASE m = n
            BY <3>1, <3>4, <3>7, <6>1
          <6>2. CASE m # n
            <7>1. buckets[BucketOf(m)][First(SlotsOf(m))].key = m
              BY <3>4, <3>7 DEF SlotsOf
            <7>2. QED
              BY <2>5, <3>1, <7>1
          <6>3. QED
            BY <6>1, <6>2
        <5>2. QED
          BY <2>7, <4>1, <5>1
      <4>4. QED
        BY <3>4, <3>7, <4>2, <4>3
    <3>8. QED
      BY <3>5, <3>6, <3>7
  <2>11. ASSUME SlotsOf(n) = {}
         PROVE  SlotsOf(n)' # {} /\ Get(n)' = f
    <3>1. \A i \in 1 .. BucketsSize : i \in SlotsOf(n)' <=> i \in SlotsOf(n) \/ i = k
      BY <1>1, <2>5, <2>7 DEF SlotsOf
    <3>2. SlotsOf(n)' = {k}
      <4>1. SlotsOf(n)' \subseteq 1 .. BucketsSize
        BY DEF SlotsOf
      <4>2. QED
        BY <2>4, <2>11, <3>1, <4>1
    <3>3. First(SlotsOf(n)') = k
      <4>1. {k} \in SUBSET Nat /\ k <= k
        BY <2>4
      <4>2. QED
        BY <3>2, <4>1, FirstIs
    <3>4. Get(n)' = buckets'[b][First(SlotsOf(n)')].function
      BY DEF Get
    <3>5. QED
      BY <2>4, <2>5, <2>7, <3>2, <3>3, <3>4
  <2>12. QED
    <3>1. ASSUME NEW m \in Names
          PROVE  /\ ContainsKey(m) => ContainsKey(m)'
                 /\ \/ Registry(m)' = Registry(m)
                    \/ m = n /\ Registry(n) = NoFunction /\ Registry(n)' = f
      <4>1. ContainsKey(m) <=> SlotsOf(m) # {}
        BY DEF ContainsKey
      <4>2. ContainsKey(m)' <=> SlotsOf(m)' # {}
        BY DEF ContainsKey
      <4>3. /\ Registry(m) = IF ContainsKey(m) THEN Get(m) ELSE NoFunction
            /\ Registry(m)' = IF ContainsKey(m)' THEN Get(m)' ELSE NoFunction
        BY DEF Registry
      <4>4. QED
        BY <2>10, <2>11, <4>1, <4>2, <4>3
    <3>2. QED
      BY <2>9, <3>1
<1>4. QED
  BY <1>2, <1>3

-----------------------------------------------------------------------------
(* Arguments in order: every rank up to their number is taken.             *)

LEMMA NthExists ==
  ASSUME NEW n \in Nat, NEW S \in SUBSET (1 .. n), NEW i \in 1 .. Cardinality(S)
  PROVE  Nth(S, i) \in S /\ Rank(S, Nth(S, i)) = i
<1> DEFINE A == { j \in Nat : i <= Rank(S, j) }
           m == First(A)
<1>0. /\ i \in Nat /\ 0 < i /\ \A j \in Nat : Rank(S, j) \in Nat
      /\ i <= Cardinality(S) /\ Rank(S, 0) = 0
  <2>1. Cardinality(S) \in Nat /\ Rank(S, 0) = 0
    BY RankIs
  <2>2. \A j \in Nat : Rank(S, j) \in Nat
    BY RankIs
  <2>3. QED
    BY <2>1, <2>2
<1>1. n \in A
  <2>1. n >= n
    OBVIOUS
  <2>2. Rank(S, n) = Cardinality(S)
    BY <2>1, RankIs
  <2>3. QED
    BY <1>0, <2>2
<1>2. m \in A /\ \A j \in A : m <= j
  <2>1. A \in SUBSET Nat /\ A # {}
    BY <1>1
  <2>2. QED
    BY <2>1, LeastOf
<1> HIDE DEF m
<1>3. m \in Nat /\ i <= Rank(S, m) /\ m # 0
  BY <1>0, <1>2
<1>4. m - 1 \in Nat /\ m - 1 < m /\ Rank(S, m - 1) < i
  <2>1. m - 1 \in Nat /\ ~(m <= m - 1)
    BY <1>3
  <2>2. m - 1 \notin A
    BY <1>2, <2>1
  <2>3. ~(i <= Rank(S, m - 1))
    BY <2>1, <2>2
  <2>4. Rank(S, m - 1) \in Nat /\ i \in Nat
    BY <1>0, <2>1
  <2>5. QED
    BY <1>3, <2>1, <2>3, <2>4
<1>5. \A j \in S : j \in Nat
  <2>1. \A j \in S : j \in 1 .. n
    OBVIOUS
  <2>2. QED
    BY <2>1
<1>6. m \in S
  <2>1. ASSUME m \notin S PROVE FALSE
    <3>1. \A j \in S : j <= m - 1 \/ j > m
      BY <1>3, <1>5, <2>1
    <3>2. Rank(S, m) = Rank(S, m - 1)
      BY <1>3, <1>4, <3>1, RankNext
    <3>3. QED
      BY <1>0, <1>3, <1>4, <3>2
  <2>2. QED
    BY <2>1
<1>7. Rank(S, m) = Rank(S, m - 1) + 1
  <2>1. \A j \in S : j <= m - 1 \/ j >= m
    BY <1>3, <1>5
  <2>2. QED
    BY <1>3, <1>4, <1>6, <2>1, RankNext
<1>8. Rank(S, m) = i
  BY <1>0, <1>3, <1>4, <1>7
<1>9. QED
  BY <1>6, <1>8 DEF Nth, Rank

(* A further member behind all others is the last one.                     *)
LEMMA NthMore ==
  ASSUME NEW n \in Nat, NEW S \in SUBSET (1 .. n), NEW k \in Nat, n < k
  PROVE  /\ Cardinality(S \cup {k}) = Cardinality(S) + 1
         /\ \A i \in 1 .. Cardinality(S) : Nth(S \cup {k}, i) = Nth(S, i)
         /\ Nth(S \cup {k}, Cardinality(S) + 1) = k
<1> DEFINE T == S \cup {k}
<1>1. T \in SUBSET (1 .. k) /\ \A j \in S : j \in Nat /\ j <= n
  <2>1. \A j \in S : j \in 1 .. n
    OBVIOUS
  <2>2. QED
    BY <2>1
<1>2. \A j \in Nat : j <= n => Rank(T, j) = Rank(S, j)
  <2>1. ASSUME NEW j \in Nat, j <= n
        PROVE  Rank(T, j) = Rank(S, j)
    <3>1. { h \in T : h <= j } = { h \in S : h <= j }
      <4>1. ~(k <= j)
        BY <2>1
      <4>2. QED
        BY <4>1
    <3>2. QED
      BY <3>1 DEF Rank
  <2>2. QED
    BY <2>1
<1>3. Cardinality(T) = Cardinality(S) + 1 /\ Cardinality(S) \in Nat
  <2>1. IsFiniteSet(S) /\ Cardinality(S) \in Nat
    BY RankIs
  <2>2. k \notin S
    BY <1>1
  <2>3. QED
    BY <2>1, <2>2, FS_AddElement
<1>4. ASSUME NEW i \in 1 .. Cardinality(S) PROVE Nth(T, i) = Nth(S, i)
  <2> DEFINE j == Nth(S, i)
  <2>1. j \in S /\ Rank(S, j) = i
    BY NthExists
  <2> HIDE DEF j
  <2>2. Rank(T, j) = i /\ j \in T
    BY <1>1, <1>2, <2>1
  <2>3. Nth(T, Rank(T, j)) = j
    BY <1>1, <2>2, NthIs
  <2>4. QED
    BY <2>2, <2>3 DEF j
<1>5. Nth(T, Cardinality(S) + 1) = k
  <2>1. k >= k /\ k \in T
    OBVIOUS
  <2>2. Rank(T, k) = Cardinality(T)
    BY <1>1, <2>1, RankIs
  <2>3. Nth(T, Rank(T, k)) = k
    BY <1>1, <2>1, NthIs
  <2>4. QED
    BY <1>3, <2>2, <2>3
<1>6. QED
  BY <1>3, <1>4, <1>5

-----------------------------------------------------------------------------
(* The tokens of a line are one of its readings.                           *)

Texts == Names \cup {<<Junk>>} \cup Seq(Printable)

Match(t, w) ==
  /\ w \in Seq(Texts) /\ Len(w) <= TokenN
  /\ \A n \in 1 .. Len(w) : w[n] # << >> /\ Hash(w[n]) \in Nat
  /\ \A n \in 1 .. TokenN :
       t[n] = IF n <= Len(w) THEN Classified(w[n]) ELSE NoToken

LEMMA TextHashed ==
  ASSUME NEW l \in Seq(Printable), Len(l) <= BufferLen,
         NEW a \in 1 .. Len(l), NEW b \in 1 .. Len(l), a <= b
  PROVE  /\ SubSeq(l, a, b) \in Seq(Printable) /\ SubSeq(l, a, b) # << >>
         /\ Hash(SubSeq(l, a, b)) \in Nat
<1>1. Len(l) \in Nat
  OBVIOUS
<1>2. /\ SubSeq(l, a, b) \in Seq(Printable)
      /\ Len(SubSeq(l, a, b)) = (b - a) + 1
  BY <1>1, SubSeqProperties
<1>3. (b - a) + 1 \in 1 .. BufferLen
  BY <1>1, UcliAssumption
<1>4. SubSeq(l, a, b) \in [1 .. ((b - a) + 1) -> Printable]
  BY <1>2, LenProperties
<1>5. SubSeq(l, a, b) # << >>
  BY <1>2, <1>3, EmptySeq
<1>6. \A n \in 1 .. BufferLen : \A key \in [1 .. n -> Printable] : Hash(key) \in Nat
  BY UcliAssumption
<1>7. QED
  BY <1>2, <1>3, <1>4, <1>5, <1>6

LEMMA LexerMatches ==
  ASSUME NEW l \in Seq(Printable), Len(l) <= BufferLen
  PROVE  Match(Lexer(l), L!Words(l)) /\ Len(L!Words(l)) = WordCount(l)
<1> DEFINE W == WordCount(l)
           w == L!Words(l)
           text(n) == SubSeq(l, L!Nth(L!WordStarts(l), n), L!Nth(L!WordEnds(l), n))
<1>1. W \in Nat /\ W <= TokenN /\ Len(l) \in Nat
  BY TokensAreWords
<1>2. \A n \in 1 .. TokenN :
        IF n <= W
        THEN /\ From(l, n) = L!Nth(L!WordStarts(l), n)
             /\ Ends(l)[n] = L!Nth(L!WordEnds(l), n)
             /\ From(l, n) \in 1 .. Len(l) /\ Ends(l)[n] \in 1 .. Len(l)
             /\ From(l, n) <= Ends(l)[n]
        ELSE From(l, n) = Len(l) + 1 /\ Ends(l)[n] = Len(l) + 1
  BY TokensAreWords
<1>3. w = [n \in 1 .. W |-> text(n)]
  BY SameCount DEF L!Words, WordCount, Starts
<1> HIDE DEF w, W, text
<1>4. \A n \in 1 .. W : n \in 1 .. TokenN /\ n <= W
  BY <1>1, TokenCount
<1>5. ASSUME NEW n \in 1 .. W
      PROVE  /\ text(n) \in Seq(Printable) /\ text(n) # << >>
             /\ Hash(text(n)) \in Nat
             /\ text(n) = SubSeq(l, From(l, n), Ends(l)[n])
             /\ ~(From(l, n) > Len(l))
  <2>1. /\ From(l, n) = L!Nth(L!WordStarts(l), n)
        /\ Ends(l)[n] = L!Nth(L!WordEnds(l), n)
        /\ From(l, n) \in 1 .. Len(l) /\ Ends(l)[n] \in 1 .. Len(l)
        /\ From(l, n) <= Ends(l)[n]
    BY <1>2, <1>4
  <2>2. text(n) = SubSeq(l, From(l, n), Ends(l)[n])
    BY <2>1 DEF text
  <2>3. ~(From(l, n) > Len(l))
    BY <1>1, <2>1
  <2>4. QED
    BY <2>1, <2>2, <2>3, TextHashed
<1>6. w \in [1 .. W -> Texts]
  BY <1>3, <1>5 DEF Texts
<1>7. w \in Seq(Texts) /\ Len(w) = W
  BY <1>1, <1>6
<1>8. \A n \in 1 .. W : w[n] = text(n)
  BY <1>3
<1>9. ASSUME NEW n \in 1 .. TokenN
      PROVE  Lexer(l)[n] = IF n <= W THEN Classified(w[n]) ELSE NoToken
  <2>1. Lexer(l)[n] = IF From(l, n) > Len(l) THEN NoToken
                      ELSE Classified(SubSeq(l, From(l, n), Ends(l)[n]))
    BY DEF Lexer, From
  <2>2. CASE n <= W
    <3>1. n \in 1 .. W
      BY <1>1, <2>2
    <3>2. w[n] = SubSeq(l, From(l, n), Ends(l)[n]) /\ ~(From(l, n) > Len(l))
      BY <1>5, <1>8, <3>1
    <3>3. QED
      BY <2>1, <2>2, <3>2
  <2>3. CASE ~(n <= W)
    <3>1. From(l, n) > Len(l)
      BY <1>1, <1>2, <2>3
    <3>2. QED
      BY <2>1, <2>3, <3>1
  <2>4. QED
    BY <2>2, <2>3
<1>10. \A n \in 1 .. Len(w) : w[n] # << >> /\ Hash(w[n]) \in Nat
  BY <1>5, <1>7, <1>8
<1>11. QED
  BY <1>1, <1>7, <1>9, <1>10 DEF Match, w, W

LEMMA TokensMatch ==
  ASSUME NEW l \in Seq(Printable), l # << >>, Len(l) <= BufferLen,
         NEW t \in Tokens(l)
  PROVE  \E w : /\ Match(t, w) /\ w \in L!Readings(l)
                /\ RunsOff(l) => /\ w # << >>
                                 /\ w \o << <<Junk>> >> \in L!Readings(l)
<1> DEFINE N == Len(l)
           w == L!Words(l)
           W == WordCount(l)
<1>1. N \in Nat /\ N > 0 /\ BufferLen \in Nat
  BY EmptySeq, UcliAssumption
<1>2. Match(Lexer(l), w) /\ Len(w) = W /\ W \in Nat /\ W <= TokenN
  BY LexerMatches, TokensAreWords
<1>3. L!Unterminated(l) <=> RunsOff(l)
  BY <1>1 DEF L!Unterminated, RunsOff
<1>4. CASE ~RunsOff(l)
  <2>1. t = Lexer(l) /\ w \in L!Readings(l)
    BY <1>3, <1>4 DEF Tokens, L!Readings
  <2>2. QED
    BY <1>2, <1>4, <2>1
<1>5. CASE RunsOff(l)
  <2> DEFINE last == CHOOSE n \in 1 .. TokenN : Ends(l)[n] = Len(l)
             value == Lexer(l)[last].value
  <2>1. W > 0 /\ \A n \in 1 .. TokenN : Ends(l)[n] = N <=> n = W
    BY <1>1, <1>5, TokensAreWords DEF RunsOff
  <2>2. W \in 1 .. TokenN
    BY <1>2, <2>1
  <2>3. last = W
    BY <2>1, <2>2
  <2>4. value = w[W]
    <3>1. Lexer(l)[W] = Classified(w[W])
      BY <1>2, <2>2 DEF Match
    <3>2. Lexer(l)[last].value = Lexer(l)[W].value
      BY <2>3
    <3> HIDE DEF last
    <3>3. Lexer(l)[W].value = w[W]
      BY <3>1 DEF Classified
    <3>4. QED
      BY <3>2, <3>3
  <2>5. PICK v \in { name \in Names : Completes(name, value) } \cup {value, <<Junk>>} :
          t = [Lexer(l) EXCEPT ![last] = Classified(v)]
    BY <1>5 DEF Tokens
  <2>6. v \in Names \cup {w[W], <<Junk>>}
    BY <2>4, <2>5
  <2>7. t = [Lexer(l) EXCEPT ![W] = Classified(v)]
    BY <2>3, <2>5
  <2> HIDE DEF w, W, N, last, value
  <2> DEFINE u == [w EXCEPT ![W] = v]
  <2>8. w \in Seq(Texts) /\ W \in 1 .. Len(w)
    BY <1>2, <2>2 DEF Match
  <2>9. v \in Texts /\ v # << >> /\ Hash(v) \in Nat
    <3>1. w[W] \in Texts /\ w[W] # << >> /\ Hash(w[W]) \in Nat
      BY <1>2, <2>8, ElementOfSeq DEF Match
    <3>2. <<Junk>> # << >> /\ \A n \in Names : n # << >>
      BY UcliAssumption
    <3>3. \A key \in Names \cup {<<Junk>>} : Hash(key) \in Nat
      BY UcliAssumption
    <3>4. QED
      BY <2>6, <3>1, <3>2, <3>3 DEF Texts
  <2>10. /\ u \in Seq(Texts) /\ Len(u) = W
         /\ \A n \in 1 .. W : u[n] = IF n = W THEN v ELSE w[n]
    BY <1>2, <2>8, <2>9, ExceptSeq
  <2> HIDE DEF u
  <2>11. Match(t, u)
    <3>1. \A n \in 1 .. Len(u) : u[n] # << >> /\ Hash(u[n]) \in Nat
      BY <1>2, <2>9, <2>10 DEF Match
    <3>2. ASSUME NEW n \in 1 .. TokenN
          PROVE  t[n] = IF n <= Len(u) THEN Classified(u[n]) ELSE NoToken
      <4>1. t[n] = IF n = W THEN Classified(v) ELSE Lexer(l)[n]
        BY <2>7 DEF Lexer
      <4>2. Lexer(l)[n] = IF n <= W THEN Classified(w[n]) ELSE NoToken
        BY <1>2 DEF Match
      <4>3. n <= W => n \in 1 .. W
        BY <2>2
      <4>4. W <= W
        BY <1>2
      <4>5. QED
        BY <2>10, <4>1, <4>2, <4>3, <4>4
    <3>3. QED
      BY <1>2, <2>10, <3>1, <3>2 DEF Match
  <2>12. ASSUME NEW more \in { << >>, << <<Junk>> >> }
         PROVE  u \o more \in L!Readings(l)
    <3>1. v \in Names \cup {L!Words(l)[Len(L!Words(l))], <<Junk>>}
      BY <1>2, <2>6 DEF w
    <3>2. u \o more = [L!Words(l) EXCEPT ![Len(L!Words(l))] = v] \o more
      BY <1>2 DEF w, u
    <3>3. L!Unterminated(l)
      BY <1>3, <1>5
    <3>4. QED
      BY <3>1, <3>2, <3>3 DEF L!Readings
  <2>13. u \o << >> = u /\ u # << >>
    BY <1>2, <2>1, <2>10, ConcatEmptySeq, EmptySeq
  <2>14. u \in L!Readings(l) /\ u \o << <<Junk>> >> \in L!Readings(l)
    BY <2>12, <2>13
  <2>15. QED
    BY <2>11, <2>13, <2>14
<1>6. QED
  BY <1>4, <1>5

-----------------------------------------------------------------------------
(* The tokens are parsed as the words they stand for.                      *)

LEMMA KnownWord ==
  ASSUME Dictionary, NEW key, Hash(key) \in Nat, key # << >>
  PROVE  ContainsKey(key) <=> key \in L!Registered
  BY KnownIs DEF L!Registered, Registry

LEMMA FirstToken ==
  ASSUME Dictionary, NEW t, NEW w, Match(t, w)
  PROVE  /\ t[1].type = "command" <=> w # << >> /\ w[1] \in L!Registered
         /\ t[1].type = "command" => t[1].value = w[1] /\ w[1] \in Names
<1>1. 1 \in 1 .. TokenN
  BY TokenCount
<1>2. t[1] = IF 1 <= Len(w) THEN Classified(w[1]) ELSE NoToken
  BY <1>1 DEF Match
<1>3. w \in Seq(Texts)
  BY DEF Match
<1>4. Len(w) \in Nat /\ (w = << >> <=> Len(w) = 0)
  BY <1>3, EmptySeq
<1>5. CASE w = << >>
  BY <1>2, <1>4, <1>5 DEF NoToken
<1>6. CASE w # << >>
  <2>1. 1 \in 1 .. Len(w) /\ 1 <= Len(w)
    BY <1>4, <1>6
  <2>2. Hash(w[1]) \in Nat /\ w[1] # << >>
    BY <2>1 DEF Match
  <2>3. ContainsKey(w[1]) <=> w[1] \in L!Registered
    BY <2>2, KnownWord
  <2>4. w[1] \in L!Registered => w[1] \in Names
    BY DEF L!Registered
  <2>5. t[1] = [type |-> IF ContainsKey(w[1]) THEN "command" ELSE "argument",
                value |-> w[1]]
    BY <1>2, <2>1 DEF Classified
  <2>6. QED
    BY <1>6, <2>3, <2>4, <2>5
<1>7. QED
  BY <1>5, <1>6

(* The positions of the arguments.                                         *)
Others(w) == { n \in 2 .. Len(w) : w[n] \notin L!Registered }

LEMMA OthersAre ==
  ASSUME Dictionary, NEW t, NEW w, Match(t, w)
  PROVE  /\ { n \in 2 .. TokenN : t[n].type = "argument" } = Others(w)
         /\ Others(w) \in SUBSET (1 .. Len(w)) /\ Len(w) \in Nat
         /\ Cardinality(Others(w)) \in Nat /\ Cardinality(Others(w)) <= TokenN - 1
         /\ \A n \in Others(w) : t[n].value = w[n] /\ w[n] \in Texts
<1>1. w \in Seq(Texts) /\ Len(w) <= TokenN /\ TokenN \in Nat /\ 1 <= TokenN
  BY TokenCount DEF Match
<1>2. Len(w) \in Nat
  BY <1>1
<1>3. ASSUME NEW n \in 2 .. TokenN, n <= Len(w)
      PROVE  /\ t[n].type = "argument" <=> w[n] \notin L!Registered
             /\ t[n].value = w[n]
  <2>1. n \in 1 .. TokenN /\ n \in 1 .. Len(w)
    BY <1>1, <1>2, <1>3
  <2>2. Hash(w[n]) \in Nat /\ w[n] # << >>
    BY <2>1 DEF Match
  <2>3. ContainsKey(w[n]) <=> w[n] \in L!Registered
    BY <2>2, KnownWord
  <2>4. t[n] = [type |-> IF ContainsKey(w[n]) THEN "command" ELSE "argument",
                value |-> w[n]]
    BY <1>3, <2>1 DEF Match, Classified
  <2>5. QED
    BY <2>3, <2>4
<1>4. ASSUME NEW n \in 2 .. TokenN, ~(n <= Len(w))
      PROVE  t[n].type # "argument"
  <2>1. n \in 1 .. TokenN
    BY <1>1
  <2>2. t[n] = NoToken
    BY <1>4, <2>1 DEF Match
  <2>3. QED
    BY <2>2 DEF NoToken
<1>5. { n \in 2 .. TokenN : t[n].type = "argument" } = Others(w)
  <2>1. ASSUME NEW n PROVE n \in 2 .. Len(w) => n \in 2 .. TokenN /\ n <= Len(w)
    BY <1>1, <1>2
  <2>2. ASSUME NEW n PROVE n \in 2 .. TokenN /\ n <= Len(w) => n \in 2 .. Len(w)
    BY <1>1, <1>2
  <2>3. QED
    BY <1>3, <1>4, <2>1, <2>2 DEF Others
<1>6. /\ Others(w) \in SUBSET (2 .. TokenN) /\ Others(w) \in SUBSET (1 .. Len(w))
      /\ \A n \in Others(w) : t[n].value = w[n]
  <2>1. \A n \in 2 .. Len(w) : n \in 1 .. Len(w) /\ n \in 2 .. TokenN /\ n <= Len(w)
    BY <1>1, <1>2
  <2>2. QED
    BY <1>3, <2>1 DEF Others
<1>7. \A n \in Others(w) : w[n] \in Texts
  BY <1>1, <1>6, ElementOfSeq
<1>8. Cardinality(Others(w)) \in Nat /\ Cardinality(Others(w)) <= TokenN - 1
  <2>1. IsFiniteSet(2 .. TokenN) /\ Cardinality(2 .. TokenN) = TokenN - 1
    BY <1>1, FS_Interval
  <2>2. QED
    BY <1>6, <2>1, FS_Subset, FS_CardinalityType
<1>9. QED
  BY <1>2, <1>5, <1>6, <1>7, <1>8

LEMMA ArgumentsAre ==
  ASSUME NEW w
  PROVE  L!Arguments(w) =
           [i \in 1 .. Cardinality(Others(w)) |-> w[Nth(Others(w), i)]]
<1>1. L!Cardinality(Others(w)) = Cardinality(Others(w))
  BY SameCount
<1>2. \A i : L!Nth(Others(w), i) = Nth(Others(w), i)
  BY NthPlaces
<1>3. L!Arguments(w) =
        [i \in 1 .. L!Cardinality(Others(w)) |-> w[L!Nth(Others(w), i)]]
  BY DEF L!Arguments, Others
<1>4. QED
  BY <1>1, <1>2, <1>3

LEMMA ParsedIs ==
  ASSUME Dictionary, NEW t, NEW w, Match(t, w), t[1].type = "command"
  PROVE  /\ Parsed(t) = [command |-> w[1], args |-> L!Arguments(w)]
         /\ L!Arguments(w) \in Seq(Texts) /\ Len(L!Arguments(w)) <= TokenN - 1
<1> DEFINE O == Others(w)
<1>1. /\ { n \in 2 .. TokenN : t[n].type = "argument" } = O
      /\ O \in SUBSET (1 .. Len(w)) /\ Len(w) \in Nat
      /\ Cardinality(O) \in Nat /\ Cardinality(O) <= TokenN - 1
      /\ \A n \in O : t[n].value = w[n] /\ w[n] \in Texts
  BY OthersAre
<1>2. \A i \in 1 .. Cardinality(O) : Nth(O, i) \in O
  BY <1>1, NthExists
<1>3. L!Arguments(w) = [i \in 1 .. Cardinality(O) |-> w[Nth(O, i)]]
  BY ArgumentsAre
<1> HIDE DEF O
<1>4. [i \in 1 .. Cardinality(O) |-> t[Nth(O, i)].value] = L!Arguments(w)
  BY <1>1, <1>2, <1>3
<1>5. Parsed(t) = [command |-> t[1].value,
                   args |-> [i \in 1 .. Cardinality(O) |-> t[Nth(O, i)].value]]
  BY <1>1 DEF Parsed
<1>6. t[1].value = w[1]
  BY FirstToken
<1>7. L!Arguments(w) \in [1 .. Cardinality(O) -> Texts]
  BY <1>1, <1>2, <1>3
<1>8. L!Arguments(w) \in Seq(Texts) /\ Len(L!Arguments(w)) = Cardinality(O)
  BY <1>1, <1>7
<1>9. QED
  BY <1>1, <1>4, <1>5, <1>6, <1>8

(* One more word that is no command is one more argument.                  *)
LEMMA OneMore ==
  ASSUME NEW w \in Seq(Texts), w # << >>
  PROVE  /\ L!Arguments(w \o << <<Junk>> >>) = L!Arguments(w) \o << <<Junk>> >>
         /\ (w \o << <<Junk>> >>)[1] = w[1] /\ w \o << <<Junk>> >> # << >>
<1> DEFINE J == << <<Junk>> >>
           u == w \o J
           n == Len(w)
           O == Others(w)
           c == Cardinality(O)
<1>1. J \in Seq(Texts) /\ Len(J) = 1 /\ J[1] = <<Junk>>
  BY DEF Texts
<1>2. n \in Nat /\ 1 <= n
  BY EmptySeq
<1>3. /\ u \in Seq(Texts) /\ Len(u) = n + 1
      /\ \A i \in 1 .. (n + 1) : u[i] = IF i <= n THEN w[i] ELSE <<Junk>>
  BY <1>1, <1>2, ConcatProperties
<1>4. <<Junk>> \notin L!Registered
  BY UcliAssumption DEF L!Registered
<1> HIDE DEF u, J, n
<1>5. Others(u) = O \cup {n + 1}
  <2>1. ASSUME NEW i \in 2 .. (n + 1)
        PROVE  i \in Others(u) <=> i \in O \/ i = n + 1
    <3>1. CASE i <= n
      <4>1. i \in 2 .. n /\ i \in 1 .. (n + 1) /\ i # n + 1
        BY <1>2, <3>1
      <4>2. u[i] = w[i]
        BY <1>3, <3>1, <4>1
      <4>3. QED
        BY <1>3, <4>1, <4>2 DEF Others, n
    <3>2. CASE ~(i <= n)
      <4>1. i = n + 1 /\ i \in 1 .. (n + 1)
        BY <1>2, <3>2
      <4>2. u[i] = <<Junk>>
        BY <1>3, <3>2, <4>1
      <4>3. QED
        BY <1>3, <1>4, <4>1, <4>2 DEF Others
    <3>3. QED
      BY <3>1, <3>2
  <2>2. Others(u) \subseteq 2 .. (n + 1) /\ n + 1 \in 2 .. (n + 1)
    BY <1>2, <1>3 DEF Others
  <2>3. O \subseteq 2 .. (n + 1)
    <3>1. \A i \in 2 .. n : i \in 2 .. (n + 1)
      BY <1>2
    <3>2. QED
      BY <3>1 DEF Others, n
  <2> HIDE DEF O
  <2>4. QED
    BY <2>1, <2>2, <2>3
<1>6. O \in SUBSET (1 .. n)
  <2>1. \A i \in 2 .. n : i \in 1 .. n
    BY <1>2
  <2>2. QED
    BY <2>1 DEF Others, n
<1> HIDE DEF O
<1>7. c \in Nat
  BY <1>2, <1>6, RankIs
<1>8. /\ Cardinality(Others(u)) = c + 1
      /\ \A i \in 1 .. c : Nth(Others(u), i) = Nth(O, i) /\ Nth(O, i) \in O
      /\ Nth(Others(u), c + 1) = n + 1
  <2>1. n + 1 \in Nat /\ n < n + 1
    BY <1>2
  <2>2. /\ Cardinality(O \cup {n + 1}) = Cardinality(O) + 1
        /\ \A i \in 1 .. Cardinality(O) : Nth(O \cup {n + 1}, i) = Nth(O, i)
        /\ Nth(O \cup {n + 1}, Cardinality(O) + 1) = n + 1
    BY <1>2, <1>6, <2>1, NthMore
  <2>3. \A i \in 1 .. Cardinality(O) : Nth(O, i) \in O
    BY <1>2, <1>6, NthExists
  <2>4. QED
    BY <1>5, <2>2, <2>3
<1> HIDE DEF c
<1>9. /\ L!Arguments(u) = [i \in 1 .. (c + 1) |-> u[Nth(Others(u), i)]]
      /\ L!Arguments(w) = [i \in 1 .. c |-> w[Nth(O, i)]]
  BY <1>8, ArgumentsAre DEF O, c
<1>10. \A i \in 1 .. c : /\ Nth(O, i) \in 1 .. n /\ Nth(O, i) \in 1 .. (n + 1)
                         /\ Nth(O, i) <= n
  <2>1. \A j \in 1 .. n : j \in 1 .. (n + 1) /\ j <= n
    BY <1>2
  <2>2. \A j \in O : j \in 1 .. n
    BY <1>6
  <2>3. QED
    BY <1>8, <2>1, <2>2
<1>11. L!Arguments(w) \in Seq(Texts) /\ Len(L!Arguments(w)) = c
  <2>1. \A i \in 1 .. c : w[Nth(O, i)] \in Texts
    BY <1>10, ElementOfSeq DEF n
  <2>2. L!Arguments(w) \in [1 .. c -> Texts]
    BY <1>9, <2>1
  <2>3. QED
    BY <1>7, <2>2
<1>12. L!Arguments(u) \in Seq(Texts) /\ Len(L!Arguments(u)) = c + 1
  <2>1. ASSUME NEW i \in 1 .. (c + 1) PROVE u[Nth(Others(u), i)] \in Texts
    <3>1. Nth(Others(u), i) \in 1 .. (n + 1)
      <4>1. i \in 1 .. c \/ i = c + 1
        BY <1>7
      <4>2. n + 1 \in 1 .. (n + 1)
        BY <1>2
      <4>3. QED
        BY <1>8, <1>10, <4>1, <4>2
    <3>2. QED
      BY <1>3, <3>1, ElementOfSeq
  <2>2. L!Arguments(u) \in [1 .. (c + 1) -> Texts] /\ c + 1 \in Nat
    BY <1>7, <1>9, <2>1
  <2>3. QED
    BY <2>2
<1>13. ASSUME NEW i \in 1 .. (c + 1)
       PROVE  L!Arguments(u)[i] = IF i <= c THEN L!Arguments(w)[i] ELSE <<Junk>>
  <2>1. CASE i <= c
    <3>1. i \in 1 .. c
      BY <1>7, <2>1
    <3>2. u[Nth(O, i)] = w[Nth(O, i)]
      BY <1>3, <1>10, <3>1
    <3>3. QED
      BY <1>8, <1>9, <2>1, <3>1, <3>2
  <2>2. CASE ~(i <= c)
    <3>1. i = c + 1
      BY <1>7, <2>2
    <3>2. u[n + 1] = <<Junk>>
      BY <1>2, <1>3
    <3>3. QED
      BY <1>8, <1>9, <2>2, <3>1, <3>2
  <2>3. QED
    BY <2>1, <2>2
<1>14. L!Arguments(u) = L!Arguments(w) \o J
  <2> DEFINE v == L!Arguments(w) \o J
  <2>1. /\ v \in Seq(Texts) /\ Len(v) = c + 1
        /\ \A i \in 1 .. (c + 1) : v[i] = IF i <= c THEN L!Arguments(w)[i]
                                          ELSE J[i - c]
    <3>1. Len(L!Arguments(w)) + Len(J) = c + 1
      BY <1>1, <1>7, <1>11
    <3> HIDE DEF J
    <3>2. /\ v \in Seq(Texts) /\ Len(v) = Len(L!Arguments(w)) + Len(J)
          /\ \A i \in 1 .. Len(L!Arguments(w)) + Len(J) :
               v[i] = IF i <= Len(L!Arguments(w)) THEN L!Arguments(w)[i]
                      ELSE J[i - Len(L!Arguments(w))]
      BY <1>1, <1>11, ConcatProperties
    <3> HIDE DEF v
    <3>3. QED
      BY <1>11, <3>1, <3>2
  <2>2. \A i \in 1 .. (c + 1) : ~(i <= c) => J[i - c] = <<Junk>>
    BY <1>1, <1>7
  <2> HIDE DEF v
  <2>3. \A i \in 1 .. Len(v) : v[i] = L!Arguments(u)[i]
    BY <1>13, <2>1, <2>2
  <2>4. QED
    BY <1>12, <2>1, <2>3, SeqEqual DEF v
<1>15. u[1] = w[1] /\ u # << >>
  BY <1>2, <1>3, EmptySeq
<1>16. QED
  BY <1>14, <1>15 DEF u, J

-----------------------------------------------------------------------------
(* What each state of the machine may rely on: between a state function    *)
(* that manages the event and the next state only idle follows; a line is  *)
(* there to be parsed, and a command that the dictionary knows to be run.  *)

Flow ==
  /\ pc # "loop" => next = "idle" /\ ~managed /\ state # "init"
  /\ state \in {"drop", "parse", "exec"} => ~managed
  /\ ~managed => event \in Chars
  /\ state \in {"drop", "parse", "exec"} /\ pc # "loop" => buffer = << >>
  /\ state = "exec" => buffer = << >>
  /\ state = "parse" /\ pc = "loop" => buffer # << >>
  /\ parsed.args \in Seq(Texts)
  /\ IF state = "exec" /\ pc = "loop"
     THEN /\ parsed = [command |-> parsed.command, args |-> parsed.args]
          /\ parsed.command \in Names /\ ContainsKey(parsed.command)
     ELSE parsed = NoOrder

UInv == TypeOK /\ PInv /\ Dictionary /\ Flow

LEMMA InitInv == Init => UInv
<1> SUFFICES ASSUME Init PROVE UInv
  OBVIOUS
<1>1. PInv
  BY InitPrompt
<1>2. Dictionary
  BY DictionaryAssumption
     DEF Init, Dictionary, DictionaryEmpty, EmptySlot, Slots
<1>3. << >> \in Seq(Texts) /\ << >> \in Seq(Printable) /\ Len(<< >>) = 0
  BY EmptySeq
<1>4. TypeOK
  BY <1>3, TokenCount, UcliAssumption, DictionaryAssumption
     DEF Init, TypeOK, States, NoOrder, Silence
<1>5. Flow
  BY <1>3 DEF Init, Flow, NoOrder
<1>6. QED
  BY <1>1, <1>2, <1>4, <1>5 DEF UInv

(* do_parse: the line is read as one of its readings.                      *)
LEMMA ParseWords ==
  ASSUME UInv, DoParse
  PROVE  \E w \in L!Readings(buffer) :
           \/ /\ w # << >> /\ w[1] \in L!Registered /\ w[1] \in Names
              /\ ContainsKey(w[1])
              /\ parsed' = [command |-> w[1], args |-> L!Arguments(w)]
              /\ L!Arguments(w) \in Seq(Texts) /\ Len(L!Arguments(w)) <= TokenN
              /\ FinishTo("exec", 0) /\ UNCHANGED reply
           \/ /\ w = << >> \/ w[1] \notin L!Registered
              /\ ResetThen("idle", 0) /\ reply' = Unknown /\ UNCHANGED parsed
<1> DEFINE Good(w) == /\ w # << >> /\ w[1] \in L!Registered /\ w[1] \in Names
                      /\ ContainsKey(w[1])
                      /\ parsed' = [command |-> w[1], args |-> L!Arguments(w)]
                      /\ L!Arguments(w) \in Seq(Texts)
                      /\ Len(L!Arguments(w)) <= TokenN
                      /\ FinishTo("exec", 0) /\ UNCHANGED reply
<1>1. /\ buffer \in Seq(Printable) /\ Len(buffer) <= BufferLen
      /\ buffer # << >> /\ Dictionary
  BY DEF UInv, TypeOK, Flow, DoParse, In
<1>2. PICK t \in Tokens(buffer) :
        IF t[1].type = "command"
        THEN /\ \/ parsed' = Parsed(t)
                \/ /\ RunsOff(buffer)
                   /\ parsed' = [Parsed(t) EXCEPT !.args = @ \o << <<Junk>> >>]
             /\ FinishTo("exec", 0) /\ UNCHANGED reply
        ELSE ResetThen("idle", 0) /\ reply' = Unknown /\ UNCHANGED parsed
  BY DEF DoParse
<1>3. PICK w : /\ Match(t, w) /\ w \in L!Readings(buffer)
               /\ RunsOff(buffer) =>
                    w # << >> /\ w \o << <<Junk>> >> \in L!Readings(buffer)
  BY <1>1, TokensMatch
<1>4. /\ t[1].type = "command" <=> w # << >> /\ w[1] \in L!Registered
      /\ t[1].type = "command" => w[1] \in Names
  BY <1>1, <1>3, FirstToken
<1>5. CASE t[1].type = "command"
  <2>1. /\ Parsed(t) = [command |-> w[1], args |-> L!Arguments(w)]
        /\ L!Arguments(w) \in Seq(Texts) /\ Len(L!Arguments(w)) <= TokenN - 1
    BY <1>1, <1>3, <1>5, ParsedIs
  <2>2. ContainsKey(w[1])
    <3>1. w \in Seq(Texts)
      BY <1>3 DEF Match
    <3>2. 1 \in 1 .. Len(w)
      BY <1>4, <1>5, <3>1, EmptySeq
    <3>3. Hash(w[1]) \in Nat /\ w[1] # << >>
      BY <1>3, <3>2 DEF Match
    <3>4. QED
      BY <1>1, <1>4, <1>5, <3>3, KnownWord
  <2>3. Len(L!Arguments(w)) \in Nat /\ TokenN \in Nat
    BY <2>1, TokenCount, LenProperties
  <2>4. CASE parsed' = Parsed(t)
    <3>1. Good(w)
      BY <1>2, <1>4, <1>5, <2>1, <2>2, <2>3, <2>4
    <3>2. QED
      BY <1>3, <3>1
  <2>5. CASE /\ RunsOff(buffer)
             /\ parsed' = [Parsed(t) EXCEPT !.args = @ \o << <<Junk>> >>]
    <3> DEFINE u == w \o << <<Junk>> >>
               args == L!Arguments(w) \o << <<Junk>> >>
    <3>1. w \in Seq(Texts) /\ << <<Junk>> >> \in Seq(Texts)
          /\ Len(<< <<Junk>> >>) = 1
      BY <1>3 DEF Match, Texts
    <3>2. L!Arguments(u) = args /\ u[1] = w[1] /\ u # << >>
      BY <1>3, <2>5, <3>1, OneMore
    <3>3. args \in Seq(Texts) /\ Len(args) = Len(L!Arguments(w)) + 1
      BY <2>1, <3>1, ConcatProperties
    <3>4. parsed' = [command |-> w[1], args |-> args]
      <4>1. parsed' = [Parsed(t) EXCEPT !.args = Parsed(t).args \o << <<Junk>> >>]
        BY <2>5
      <4>2. Parsed(t).args \o << <<Junk>> >> = args
        BY <2>1
      <4> HIDE DEF args
      <4>3. parsed' = [Parsed(t) EXCEPT !.args = args]
        BY <4>1, <4>2
      <4>4. QED
        BY <2>1, <4>3
    <3> HIDE DEF args, u
    <3>5. Len(args) <= TokenN
      BY <2>1, <2>3, <3>3
    <3>6. Good(u)
      BY <1>2, <1>4, <1>5, <2>2, <3>2, <3>3, <3>4, <3>5
    <3>7. u \in L!Readings(buffer)
      BY <1>3, <2>5 DEF u
    <3>8. QED
      BY <3>6, <3>7
  <2>6. QED
    BY <1>2, <1>5, <2>4, <2>5
<1>6. CASE t[1].type # "command"
  BY <1>2, <1>3, <1>4, <1>6
<1>7. QED
  BY <1>5, <1>6

LEMMA SameKeys ==
  ASSUME Dictionary, UNCHANGED buckets
  PROVE  /\ Dictionary'
         /\ \A v : ContainsKey(v)' <=> ContainsKey(v)
         /\ \A v : Get(v)' = Get(v)
<1>1. Dictionary'
  BY DEF Dictionary
<1>2. ASSUME NEW v
      PROVE  (ContainsKey(v)' <=> ContainsKey(v)) /\ Get(v)' = Get(v)
  BY DEF ContainsKey, Get, SlotsOf
<1>3. QED
  BY <1>1, <1>2

LEMMA StepInv == UInv /\ [Next]_vars => UInv'
<1> SUFFICES ASSUME UInv, [Next]_vars PROVE UInv'
  OBVIOUS
<1>1. PInv'
  BY StepPrompt DEF UInv
<1>2. /\ buffer' \in Seq(Printable) /\ prompts' \in 0 .. 2
      /\ state' \in States /\ pc' \in {"loop", "enable", "manage"}
  BY <1>1 DEF PInv, Prompting
<1>3. Dictionary
  BY DEF UInv
<1>4. /\ NoOrder.command = << >> /\ NoOrder.args = << >>
      /\ << >> \in Seq(Texts) /\ Len(<< >>) = 0
      /\ TokenN \in Nat /\ 1 <= TokenN
      /\ Nothing \notin Chars
      /\ NoFunction \notin Functions
  BY EmptySeq, TokenCount, UcliAssumption, DictionaryAssumption DEF NoOrder
<1> USE DEF UInv, TypeOK, Flow, fsm, uart, evt, seen
<1>5. ASSUME UNCHANGED buckets
      PROVE  Dictionary' /\ \A v : ContainsKey(v)' <=> ContainsKey(v)
  BY <1>3, <1>5, SameKeys
<1>6. ASSUME NEW c \in Chars, Type(c) PROVE UInv'
  BY <1>1, <1>2, <1>5, <1>6 DEF Type
<1>7. CASE Receive
  BY <1>1, <1>2, <1>4, <1>5, <1>7 DEF Receive, Trigger
<1>8. CASE EnableReceive
  BY <1>1, <1>2, <1>5, <1>8 DEF EnableReceive
<1>9. CASE SetManaged
  BY <1>1, <1>2, <1>5, <1>9 DEF SetManaged, FinishTo
<1>10. CASE DoInit
  <2>1. Len(buffer') <= BufferLen
    BY <1>4, <1>10, UcliAssumption DEF DoInit
  <2>2. QED
    BY <1>1, <1>2, <1>4, <1>5, <1>10, <2>1 DEF DoInit, In, FinishTo
<1>11. CASE IdleNothing \/ UNCHANGED vars
  BY <1>1, <1>2, <1>5, <1>11 DEF IdleNothing, vars
<1>12. CASE IdlePrintable
  <2>1. PICK c \in Printable :
          /\ Take(c)
          /\ IF LineFull
             THEN FinishTo("drop", 0) /\ UNCHANGED buffer
             ELSE ResetThen("idle", 0) /\ buffer' = Append(buffer, c)
    BY <1>12 DEF IdlePrintable
  <2>2. /\ state = "idle" /\ pc = "loop" /\ ~managed /\ handled' = c
        /\ reply' = Silence /\ UNCHANGED <<evt, uart, parsed, reinits, buckets>>
        /\ c \in Chars
    BY <1>12, <2>1 DEF IdlePrintable, Take, In, Chars
  <2>3. CASE LineFull
    <3>1. state' = "drop" /\ pc' = "loop" /\ next' = "drop" /\ buffer' = buffer
      BY <2>1, <2>3 DEF FinishTo
    <3>2. QED
      BY <1>1, <1>2, <1>4, <1>5, <2>2, <3>1 DEF Silence, States
  <2>4. CASE ~LineFull
    <3>1. /\ state' = "idle" /\ pc' = "enable" /\ next' = "idle"
          /\ buffer' = Append(buffer, c)
      BY <2>1, <2>2, <2>4 DEF ResetThen
    <3>2. Len(buffer') <= BufferLen
      BY <2>4, <3>1, UcliAssumption DEF LineFull
    <3>3. QED
      BY <1>1, <1>2, <1>4, <1>5, <2>2, <3>1, <3>2 DEF Silence, States
  <2>5. QED
    BY <2>3, <2>4
<1>13. CASE IdleBackspace
  <2>1. /\ state = "idle" /\ pc = "loop" /\ ~managed /\ handled' = Backspace
        /\ reply' = Silence /\ UNCHANGED <<evt, uart, parsed, reinits, buckets>>
        /\ state' = "idle" /\ pc' = "enable" /\ next' = "idle"
        /\ buffer' = IF buffer = << >> THEN buffer
                     ELSE SubSeq(buffer, 1, Len(buffer) - 1)
    BY <1>13 DEF IdleBackspace, Take, In, ResetThen
  <2>2. Backspace \in Chars
    BY DEF Chars
  <2>3. Len(buffer') <= BufferLen
    <3>1. Len(buffer) \in Nat /\ BufferLen \in Nat
      BY UcliAssumption, LenProperties
    <3>2. ASSUME buffer # << >>
          PROVE  Len(SubSeq(buffer, 1, Len(buffer) - 1)) = Len(buffer) - 1
      <4>1. Len(buffer) - 1 \in Nat
        BY <3>1, <3>2, EmptySeq
      <4>2. \A i \in 1 .. (Len(buffer) - 1) : buffer[i] \in Printable
        BY <3>1, ElementOfSeq
      <4>3. ASSUME NEW k \in Nat, k = Len(buffer) - 1
            PROVE  Len(SubSeq(buffer, 1, k)) = k
        <5>1. 1 \in Int /\ k \in Int /\ \A i \in 1 .. k : buffer[i] \in Printable
          BY <4>2, <4>3
        <5>2. Len(SubSeq(buffer, 1, k)) = IF 1 <= k THEN k - 1 + 1 ELSE 0
          BY <5>1, SubSeqProperties
        <5>3. QED
          BY <5>2
      <4>4. QED
        BY <4>1, <4>3
    <3>3. QED
      BY <2>1, <3>1, <3>2
  <2>4. QED
    BY <1>1, <1>2, <1>4, <1>5, <2>1, <2>2, <2>3 DEF Silence, States
<1>14. CASE IdleEnter
  <2>1. PICK c \in Enter : Take(c)
    BY <1>14 DEF IdleEnter
  <2>2. /\ state = "idle" /\ pc = "loop" /\ ~managed /\ handled' = c /\ c \in Chars
        /\ reply' = Silence /\ UNCHANGED <<evt, uart, buffer, parsed, reinits, buckets>>
    BY <1>14, <2>1 DEF IdleEnter, Take, In, Chars
  <2>3. IF buffer = << >>
        THEN state' = "idle" /\ pc' = "enable" /\ next' = "idle"
        ELSE state' = "parse" /\ pc' = "loop" /\ next' = "parse"
    BY <1>14, <2>2 DEF IdleEnter, FinishTo, ResetThen
  <2>4. QED
    BY <1>1, <1>2, <1>4, <1>5, <2>2, <2>3 DEF Silence, States
<1>15. CASE IdleOther
  <2>1. PICK c \in Other : Take(c)
    BY <1>15 DEF IdleOther
  <2>2. /\ state = "idle" /\ pc = "loop" /\ ~managed /\ handled' = c /\ c \in Chars
        /\ reply' = Silence /\ UNCHANGED <<evt, uart, buffer, parsed, reinits, buckets>>
        /\ state' = "drop" /\ pc' = "loop" /\ next' = "drop"
    BY <1>15, <2>1 DEF IdleOther, Take, In, Chars, FinishTo
  <2>3. QED
    BY <1>1, <1>2, <1>4, <1>5, <2>2 DEF Silence, States
<1>16. CASE DoDrop
  <2>1. /\ state = "drop" /\ pc = "loop" /\ buffer' = << >>
        /\ state' = "drop" /\ pc' = "enable" /\ next' = "idle"
        /\ UNCHANGED <<evt, uart, parsed, handled, reply, reinits, buckets>>
    BY <1>16 DEF DoDrop, In, ResetThen
  <2>2. Len(buffer') <= BufferLen
    BY <1>4, <2>1, UcliAssumption
  <2>3. QED
    BY <1>1, <1>2, <1>4, <1>5, <2>1, <2>2 DEF States
<1>17. CASE DoParse
  <2>1. /\ state = "parse" /\ pc = "loop" /\ buffer' = << >>
        /\ UNCHANGED <<evt, uart, handled, reinits, buckets>>
    BY <1>17 DEF DoParse, In
  <2>2. Len(buffer') <= BufferLen
    BY <1>4, <2>1, UcliAssumption
  <2>3. PICK w \in L!Readings(buffer) :
          \/ /\ w # << >> /\ w[1] \in L!Registered /\ w[1] \in Names
             /\ ContainsKey(w[1])
             /\ parsed' = [command |-> w[1], args |-> L!Arguments(w)]
             /\ L!Arguments(w) \in Seq(Texts) /\ Len(L!Arguments(w)) <= TokenN
             /\ FinishTo("exec", 0) /\ UNCHANGED reply
          \/ /\ w = << >> \/ w[1] \notin L!Registered
             /\ ResetThen("idle", 0) /\ reply' = Unknown /\ UNCHANGED parsed
    BY <1>17, ParseWords
  <2>4. CASE /\ w[1] \in Names /\ ContainsKey(w[1])
             /\ parsed' = [command |-> w[1], args |-> L!Arguments(w)]
             /\ L!Arguments(w) \in Seq(Texts) /\ Len(L!Arguments(w)) <= TokenN
             /\ FinishTo("exec", 0) /\ UNCHANGED reply
    <3>1. /\ state' = "exec" /\ pc' = "loop" /\ next' = "exec"
          /\ parsed'.command = w[1] /\ parsed'.args = L!Arguments(w)
          /\ parsed' = [command |-> parsed'.command, args |-> parsed'.args]
      BY <2>4 DEF FinishTo
    <3>2. ContainsKey(w[1])'
      BY <1>5, <2>1, <2>4 DEF ContainsKey, SlotsOf
    <3>3. ContainsKey(parsed.command)'
      BY <2>1, <2>4, <3>1 DEF ContainsKey, SlotsOf
    <3>4. QED
      BY <1>1, <1>2, <1>5, <2>1, <2>2, <2>4, <3>1, <3>3 DEF States
  <2>5. CASE ResetThen("idle", 0) /\ reply' = Unknown /\ UNCHANGED parsed
    <3>1. state' = "parse" /\ pc' = "enable" /\ next' = "idle"
      BY <2>1, <2>5 DEF ResetThen
    <3>2. QED
      BY <1>1, <1>2, <1>4, <1>5, <2>1, <2>2, <2>5, <3>1 DEF Unknown, States
  <2>6. QED
    BY <2>3, <2>4, <2>5
<1>18. CASE DoExec
  <2>1. /\ state = "exec" /\ pc = "loop"
        /\ parsed' = NoOrder
        /\ state' = "exec" /\ pc' = "enable" /\ next' = "idle"
        /\ UNCHANGED <<evt, uart, buffer, handled, reinits, buckets>>
    BY <1>18 DEF DoExec, In, ResetThen
  <2>2. ContainsKey(parsed.command) /\ Get(parsed.command) \in Functions
    <3>1. /\ parsed.command \in Names /\ ContainsKey(parsed.command)
      BY <2>1
    <3>2. Hash(parsed.command) \in Nat /\ parsed.command # << >>
      BY <3>1, UcliAssumption
    <3>3. QED
      BY <1>3, <3>1, <3>2, KnownIs
  <2>3. reply' = [kind |-> "run", function |-> Get(parsed.command),
                  args |-> parsed.args]
    BY <1>18, <2>2 DEF DoExec
  <2>4. /\ reply'.kind = "run" /\ reply'.function = Get(parsed.command)
        /\ parsed'.command = << >> /\ parsed'.args = << >>
    BY <1>4, <2>1, <2>3
  <2>5. TypeOK'
    BY <1>2, <1>4, <2>1, <2>2, <2>4 DEF States
  <2>6. Flow'
    BY <1>4, <2>1, <2>4
  <2>7. QED
    BY <1>1, <1>5, <2>1, <2>5, <2>6
<1>19. CASE Reinit
  <2>1. Dictionary'
    BY <1>19, DictionaryAssumption
       DEF Reinit, Dictionary, DictionaryEmpty, EmptySlot, Slots
  <2>2. /\ state' = "init" /\ pc = "loop" /\ parsed' = NoOrder
        /\ reinits' \in 0 .. MaxReinits
        /\ UNCHANGED <<pc, next, uart, evt, buffer, handled, prompts, reply>>
    BY <1>19, UcliAssumption DEF Reinit
  <2>3. QED
    BY <1>1, <1>2, <1>4, <2>1, <2>2 DEF States
<1>20. ASSUME NEW offer \in Offers, AddCommand(offer[1], offer[2]) PROVE UInv'
  <2>1. offer[1] \in Names /\ offer[2] \in Functions
    BY UcliAssumption
  <2>2. /\ Add(offer[1], offer[2])
        /\ UNCHANGED <<fsm, uart, evt, buffer, parsed, seen>>
    BY <1>20 DEF AddCommand
  <2>3. Dictionary' /\ \A m \in Names : ContainsKey(m) => ContainsKey(m)'
    BY <1>3, <2>1, <2>2, AddIs
  <2>4. QED
    BY <1>1, <1>2, <2>2, <2>3
<1>21. QED
  BY <1>6, <1>7, <1>8, <1>9, <1>10, <1>11, <1>12, <1>13, <1>14, <1>15, <1>16,
     <1>17, <1>18, <1>19, <1>20 DEF Next, Main

(* No text but the names and words of the line gets into a command, the    *)
(* token array is long enough for every line, and a reply of kind run      *)
(* names a function that was registered, in every state.                   *)
THEOREM TypeCorrect == Spec => []TypeOK
<1>1. UInv => TypeOK
  BY DEF UInv
<1>2. QED
  BY <1>1, InitInv, StepInv, PTL DEF Spec

-----------------------------------------------------------------------------
(* The refinement: what the variables of LineEditor are.                   *)

Pending == IF ~managed /\ pc = "loop" /\ state \in {"init", "idle"}
           THEN event ELSE Nothing
Line    == IF state = "idle" THEN buffer ELSE << >>
Entered == IF In("parse") THEN buffer ELSE << >>
Known   == [n \in Names |-> IF ContainsKey(n) THEN Get(n) ELSE NoFunction]

LEMMA Stutters ==
  ASSUME Pending' = Pending, Line' = Line, Entered' = Entered, Known' = Known,
         UNCHANGED <<parsed, reply, reinits>>
  PROVE  UNCHANGED L!lvars
  BY DEF L!lvars, Pending, Line, Entered, Known

LEMMA SameKnown ==
  ASSUME Dictionary, UNCHANGED buckets
  PROVE  Known' = Known
  BY SameKeys DEF Known

LEMMA EntryCases ==
  ASSUME UInv
  PROVE  /\ Pending = IF ~managed /\ pc = "loop" /\ state \in {"init", "idle"}
                      THEN event ELSE Nothing
         /\ managed => Pending = Nothing /\ Entered = << >> /\ parsed = NoOrder
                       /\ pc = "loop" /\ state \in {"init", "idle"}
         /\ ~managed => event \in Chars /\ event # Nothing
         /\ pc # "loop" => Pending = Nothing /\ Entered = << >> /\ parsed = NoOrder
<1>1. Nothing \notin Chars
  BY UcliAssumption DEF Chars
<1>2. QED
  BY <1>1 DEF UInv, Flow, TypeOK, States, Pending, Entered, In

LEMMA InitMaps == Init => L!Init
<1> SUFFICES ASSUME Init PROVE L!Init
  OBVIOUS
<1>1. Dictionary
  BY InitInv DEF UInv
<1>2. ASSUME NEW n \in Names PROVE ~ContainsKey(n)
  <2>1. Hash(n) \in Nat /\ n # << >>
    BY UcliAssumption
  <2>2. BucketOf(n) \in 0 .. (BucketsN - 1)
    BY <2>1, BucketIs
  <2>3. \A i \in 1 .. BucketsSize : buckets[BucketOf(n)][i].key = << >>
    BY <2>2 DEF Init, DictionaryEmpty, EmptySlot
  <2>4. QED
    BY <2>1, <2>3 DEF ContainsKey, SlotsOf
<1>3. QED
  BY <1>2 DEF Init, L!Init, In, NoOrder, L!NoOrder, Silence, L!Silence

LEMMA StepMaps ==
  ASSUME UInv, UInv', [Next]_vars
  PROVE  L!Next \/ UNCHANGED L!lvars
<1>1. /\ Dictionary
      /\ managed => Pending = Nothing /\ Entered = << >> /\ parsed = NoOrder
                    /\ pc = "loop" /\ state \in {"init", "idle"}
      /\ ~managed => event \in Chars /\ event # Nothing
      /\ pc # "loop" => Pending = Nothing /\ Entered = << >> /\ parsed = NoOrder
  BY EntryCases DEF UInv
<1>2. UNCHANGED buckets => Known' = Known
  BY <1>1, SameKnown
<1>3. Flow
  BY DEF UInv
<1> USE DEF fsm, uart, evt, seen
<1>4. ASSUME NEW c \in Chars, Type(c) PROVE UNCHANGED L!lvars
  <2>1. UNCHANGED <<Pending, Line, Entered>>
    BY <1>4 DEF Type, Pending, Line, Entered, In
  <2>2. QED
    BY <1>2, <1>4, <2>1, Stutters DEF Type
<1>5. ASSUME Receive PROVE L!Next \/ UNCHANGED L!lvars
  <2>1. register \in Chars
    BY <1>5 DEF Receive, UInv, TypeOK
  <2>2. UNCHANGED <<state, pc, buffer, parsed, reply, reinits, buckets>>
    BY <1>5 DEF Receive
  <2>3. Line' = Line /\ Entered' = Entered /\ Known' = Known
    BY <1>2, <2>2 DEF Line, Entered, In
  <2>4. CASE managed
    <3>1. managed' = FALSE /\ event' = register
      BY <1>5, <2>4 DEF Receive, Trigger
    <3>2. Pending' = register
      BY <1>1, <2>2, <2>4, <3>1 DEF Pending
    <3>3. L!Accept(register)
      BY <1>1, <2>2, <2>3, <2>4, <3>2
         DEF L!Accept, Pending, Line, Entered, Known, NoOrder, L!NoOrder
    <3>4. register \in L!Chars
      BY <2>1 DEF Chars, L!Chars
    <3>5. QED
      BY <3>3, <3>4 DEF L!Next
  <2>5. CASE ~managed
    <3>1. UNCHANGED evt
      BY <1>5, <2>5 DEF Receive, Trigger
    <3>2. Pending' = Pending
      BY <2>2, <3>1 DEF Pending
    <3>3. QED
      BY <2>2, <2>3, <3>2, Stutters
  <2>6. QED
    BY <2>4, <2>5
<1>6. ASSUME EnableReceive PROVE UNCHANGED L!lvars
  <2>1. UNCHANGED <<Pending, Line, Entered>>
    BY <1>6 DEF EnableReceive, Pending, Line, Entered, In
  <2>2. QED
    BY <1>2, <1>6, <2>1, Stutters DEF EnableReceive
<1>7. ASSUME SetManaged PROVE UNCHANGED L!lvars
  <2>1. /\ pc = "manage" /\ managed' = TRUE /\ state' = "idle" /\ pc' = "loop"
        /\ UNCHANGED <<buffer, parsed, reply, reinits, buckets>>
    BY <1>3, <1>7 DEF SetManaged, FinishTo, Flow
  <2>2. Line' = Line
    BY <1>3, <2>1 DEF Flow, Line, UInv, TypeOK, States
  <2>3. Pending' = Pending /\ Entered' = Entered
    BY <1>1, <2>1 DEF Pending, Entered, In
  <2>4. QED
    BY <1>2, <2>1, <2>2, <2>3, Stutters
<1>8. ASSUME DoInit PROVE UNCHANGED L!lvars
  <2>1. /\ state = "init" /\ pc = "loop" /\ state' = "idle" /\ pc' = "loop"
        /\ buffer' = << >> /\ UNCHANGED <<evt, parsed, reply, reinits, buckets>>
    BY <1>8 DEF DoInit, In, FinishTo
  <2>2. UNCHANGED <<Pending, Line, Entered>>
    BY <2>1 DEF Pending, Line, Entered, In
  <2>3. QED
    BY <1>2, <2>1, <2>2, Stutters
<1>9. ASSUME IdleNothing \/ UNCHANGED vars PROVE UNCHANGED L!lvars
  <2>1. UNCHANGED vars
    BY <1>9 DEF IdleNothing
  <2>2. UNCHANGED <<Pending, Line, Entered>>
    BY <2>1 DEF vars, Pending, Line, Entered, In
  <2>3. QED
    BY <1>2, <2>1, <2>2, Stutters DEF vars
<1>10. ASSUME NEW c \in Chars, Take(c), Pending' = Nothing,
              Line' = L!Edited(c), Entered' = IF c \in Enter THEN buffer ELSE << >>,
              UNCHANGED <<parsed, reinits, buckets>>
       PROVE  L!Handle
  <2>1. /\ Pending = c /\ Line = buffer /\ c # Nothing
        /\ reply' = Silence
    BY <1>1, <1>10 DEF Take, In, Pending, Line
  <2>2. L!Handle <=> /\ Pending # Nothing /\ Pending' = Nothing
                     /\ Line' = L!Edited(Pending)
                     /\ Entered' = IF Pending \in Enter THEN Line ELSE << >>
                     /\ reply' = L!Silence
                     /\ UNCHANGED <<parsed, Known, reinits>>
    BY DEF L!Handle, Pending, Line, Entered, Known
  <2>3. QED
    BY <1>2, <1>10, <2>1, <2>2 DEF Silence, L!Silence
<1>11. ASSUME NEW c \in Chars
       PROVE  L!Edited(c) =
                CASE c \in Printable /\ Len(Line) < BufferLen -> Append(Line, c)
                  [] c = Backspace /\ Line # << >> ->
                       SubSeq(Line, 1, Len(Line) - 1)
                  [] OTHER -> << >>
  BY DEF L!Edited, Line
<1>12. ASSUME IdlePrintable PROVE L!Handle
  <2>1. PICK c \in Printable :
          /\ Take(c)
          /\ IF LineFull
             THEN FinishTo("drop", 0) /\ UNCHANGED buffer
             ELSE ResetThen("idle", 0) /\ buffer' = Append(buffer, c)
    BY <1>12 DEF IdlePrintable
  <2>2. /\ state = "idle" /\ pc = "loop" /\ c \in Chars /\ c # Backspace
        /\ c \notin Enter /\ UNCHANGED <<evt, parsed, reinits, buckets>>
    BY <1>12, <2>1, UcliAssumption DEF IdlePrintable, Take, In, Chars
  <2>3. Line = buffer /\ Len(buffer) \in Nat /\ BufferLen \in Nat
    BY <2>2, UcliAssumption DEF Line, UInv, TypeOK
  <2>4. CASE LineFull
    <3>1. state' = "drop" /\ pc' = "loop"
      BY <2>1, <2>4 DEF FinishTo
    <3>2. Line' = << >> /\ Pending' = Nothing /\ Entered' = << >>
      BY <3>1 DEF Line, Pending, Entered, In
    <3>3. ~(Len(Line) < BufferLen)
      BY <2>3, <2>4 DEF LineFull
    <3>4. L!Edited(c) = << >>
      BY <1>11, <2>2, <3>3
    <3>5. QED
      BY <1>10, <2>1, <2>2, <3>2, <3>4
  <2>5. CASE ~LineFull
    <3>1. state' = "idle" /\ pc' = "enable" /\ buffer' = Append(buffer, c)
      BY <2>1, <2>2, <2>5 DEF ResetThen
    <3>2. Line' = Append(buffer, c) /\ Pending' = Nothing /\ Entered' = << >>
      BY <3>1 DEF Line, Pending, Entered, In
    <3>3. Len(Line) < BufferLen
      BY <2>3, <2>5 DEF LineFull
    <3>4. L!Edited(c) = Append(buffer, c)
      BY <1>11, <2>1, <2>2, <2>3, <3>3
    <3>5. QED
      BY <1>10, <2>1, <2>2, <3>2, <3>4
  <2>6. QED
    BY <2>4, <2>5
<1>13. ASSUME IdleBackspace PROVE L!Handle
  <2>1. /\ state = "idle" /\ pc = "loop" /\ Take(Backspace)
        /\ state' = "idle" /\ pc' = "enable"
        /\ UNCHANGED <<evt, parsed, reinits, buckets>>
        /\ buffer' = IF buffer = << >> THEN buffer
                     ELSE SubSeq(buffer, 1, Len(buffer) - 1)
    BY <1>13 DEF IdleBackspace, Take, In, ResetThen
  <2>2. Backspace \in Chars /\ Backspace \notin Printable /\ Backspace \notin Enter
    BY UcliAssumption DEF Chars
  <2>3. /\ Line' = buffer' /\ Pending' = Nothing /\ Entered' = << >>
        /\ Line = buffer
    BY <2>1 DEF Line, Pending, Entered, In
  <2>4. L!Edited(Backspace) = buffer'
    BY <1>11, <2>1, <2>2, <2>3
  <2>5. QED
    BY <1>10, <2>1, <2>2, <2>3, <2>4
<1>14. ASSUME IdleEnter PROVE L!Handle
  <2>1. PICK c \in Enter : Take(c)
    BY <1>14 DEF IdleEnter
  <2>2. /\ state = "idle" /\ pc = "loop" /\ c \in Chars /\ c \notin Printable
        /\ c # Backspace
        /\ UNCHANGED <<evt, buffer, parsed, reinits, buckets>>
    BY <1>14, <2>1, UcliAssumption DEF IdleEnter, Take, In, Chars
  <2>3. IF buffer = << >> THEN state' = "idle" /\ pc' = "enable"
                          ELSE state' = "parse" /\ pc' = "loop"
    BY <1>14, <2>2 DEF IdleEnter, FinishTo, ResetThen
  <2>4. Line' = << >> /\ Pending' = Nothing /\ Entered' = buffer
    BY <2>2, <2>3 DEF Line, Pending, Entered, In
  <2>5. L!Edited(c) = << >>
    BY <1>11, <2>2
  <2>6. QED
    BY <1>10, <2>1, <2>2, <2>4, <2>5
<1>15. ASSUME IdleOther PROVE L!Handle
  <2>1. PICK c \in Other : Take(c)
    BY <1>15 DEF IdleOther
  <2>2. /\ c \in Chars /\ c \notin Printable /\ c # Backspace /\ c \notin Enter
        /\ UNCHANGED <<evt, buffer, parsed, reinits, buckets>>
        /\ state' = "drop" /\ pc' = "loop"
    BY <1>15, <2>1, UcliAssumption DEF IdleOther, FinishTo, Chars
  <2>3. Line' = << >> /\ Pending' = Nothing /\ Entered' = << >>
    BY <2>2 DEF Line, Pending, Entered, In
  <2>4. L!Edited(c) = << >>
    BY <1>11, <2>2
  <2>5. QED
    BY <1>10, <2>1, <2>2, <2>3, <2>4
<1>16. ASSUME DoDrop PROVE UNCHANGED L!lvars
  <2>1. /\ state = "drop" /\ pc = "loop" /\ state' = "drop" /\ pc' = "enable"
        /\ UNCHANGED <<evt, parsed, reply, reinits, buckets>>
    BY <1>16 DEF DoDrop, In, ResetThen
  <2>2. UNCHANGED <<Pending, Line, Entered>>
    BY <2>1 DEF Pending, Line, Entered, In
  <2>3. QED
    BY <1>2, <2>1, <2>2, Stutters
<1>17. ASSUME DoParse PROVE L!Read
  <2>1. /\ state = "parse" /\ pc = "loop" /\ buffer' = << >> /\ buffer # << >>
        /\ UNCHANGED <<evt, reinits, buckets>>
    BY <1>3, <1>17 DEF DoParse, In, Flow
  <2>2. PICK w \in L!Readings(buffer) :
          \/ /\ w # << >> /\ w[1] \in L!Registered /\ w[1] \in Names
             /\ ContainsKey(w[1])
             /\ parsed' = [command |-> w[1], args |-> L!Arguments(w)]
             /\ L!Arguments(w) \in Seq(Texts) /\ Len(L!Arguments(w)) <= TokenN
             /\ FinishTo("exec", 0) /\ UNCHANGED reply
          \/ /\ w = << >> \/ w[1] \notin L!Registered
             /\ ResetThen("idle", 0) /\ reply' = Unknown /\ UNCHANGED parsed
    BY <1>17, ParseWords
  <2>3. /\ Entered = buffer /\ Line = << >> /\ Pending = Nothing
        /\ Entered' = << >> /\ Line' = << >> /\ Pending' = Nothing
    <3>1. (state' = "exec" /\ pc' = "loop") \/ (state' = "parse" /\ pc' = "enable")
      BY <2>1, <2>2 DEF FinishTo, ResetThen
    <3>2. QED
      BY <2>1, <3>1 DEF Entered, Line, Pending, In
  <2>4. IF w = << >> THEN reply' = L!Unknown /\ UNCHANGED parsed
        ELSE L!Understand(w) \/ L!Refuse(w)
    BY <2>2 DEF L!Understand, L!Refuse, Unknown, L!Unknown
  <2>5. L!Read <=> /\ Entered # << >> /\ Entered' = << >>
                   /\ \E words \in L!Readings(Entered) :
                        IF words = << >> THEN reply' = L!Unknown /\ UNCHANGED parsed
                        ELSE L!Understand(words) \/ L!Refuse(words)
                   /\ UNCHANGED <<Pending, Line, Known, reinits>>
    BY DEF L!Read, Pending, Line, Entered, Known
  <2>6. QED
    BY <1>2, <2>1, <2>3, <2>4, <2>5
<1>18. ASSUME DoExec PROVE L!Run
  <2>1. /\ state = "exec" /\ pc = "loop" /\ state' = "exec" /\ pc' = "enable"
        /\ parsed' = NoOrder /\ UNCHANGED <<evt, buffer, reinits, buckets>>
        /\ parsed.command \in Names /\ ContainsKey(parsed.command)
    BY <1>3, <1>18 DEF DoExec, In, ResetThen, Flow
  <2>2. reply' = [kind |-> "run", function |-> Known[parsed.command],
                  args |-> parsed.args]
    BY <1>18, <2>1 DEF DoExec, Known
  <2>3. parsed # NoOrder
    BY <2>1, UcliAssumption DEF NoOrder
  <2>4. UNCHANGED <<Pending, Line, Entered>>
    BY <2>1 DEF Pending, Line, Entered, In
  <2>5. L!Run <=> /\ parsed # L!NoOrder
                  /\ reply' = [kind |-> "run", function |-> Known[parsed.command],
                               args |-> parsed.args]
                  /\ parsed' = L!NoOrder
                  /\ UNCHANGED <<Pending, Line, Entered, Known, reinits>>
    BY DEF L!Run, Pending, Line, Entered, Known
  <2>6. QED
    BY <1>2, <2>1, <2>2, <2>3, <2>4, <2>5 DEF NoOrder, L!NoOrder
<1>19. ASSUME Reinit PROVE L!Restart
  <2>1. /\ reinits < MaxReinits /\ reinits' = reinits + 1
        /\ state' = "init" /\ parsed' = NoOrder /\ buckets' = DictionaryEmpty
        /\ pc = "loop" /\ pc' = "loop" /\ UNCHANGED <<evt, buffer, reply>>
    BY <1>19 DEF Reinit
  <2>2. Line' = << >> /\ Entered' = << >>
    BY <2>1 DEF Line, Entered, In
  <2>3. ASSUME NEW n \in Names PROVE ~ContainsKey(n)'
    <3>1. Hash(n) \in Nat /\ n # << >>
      BY UcliAssumption
    <3>2. BucketOf(n) \in 0 .. (BucketsN - 1)
      BY <3>1, BucketIs
    <3>3. \A i \in 1 .. BucketsSize : buckets'[BucketOf(n)][i].key = << >>
      BY <2>1, <3>2 DEF DictionaryEmpty, EmptySlot
    <3>4. QED
      BY <3>1, <3>3 DEF ContainsKey, SlotsOf
  <2>4. Known' = [n \in Names |-> NoFunction]
    BY <2>3 DEF Known
  <2>5. Pending' = IF managed THEN Nothing ELSE event
    BY <2>1 DEF Pending
  <2>6. Pending' \in IF Pending = Nothing THEN Chars \cup {Nothing} ELSE {Pending}
    BY <1>1, <2>1, <2>5 DEF Pending
  <2>7. L!Restart <=> /\ reinits < MaxReinits /\ reinits' = reinits + 1
                      /\ Line' = << >> /\ Entered' = << >> /\ parsed' = L!NoOrder
                      /\ Known' = [n \in Names |-> NoFunction]
                      /\ Pending' \in IF Pending = Nothing
                                      THEN L!Chars \cup {Nothing} ELSE {Pending}
                      /\ UNCHANGED reply
    BY DEF L!Restart, Pending, Line, Entered, Known
  <2>8. QED
    BY <2>1, <2>2, <2>4, <2>6, <2>7 DEF NoOrder, L!NoOrder, Chars, L!Chars
<1>20. ASSUME NEW offer \in Offers, AddCommand(offer[1], offer[2])
       PROVE  L!Next \/ UNCHANGED L!lvars
  <2> DEFINE n == offer[1]
             f == offer[2]
  <2>1. n \in Names /\ f \in Functions
    BY UcliAssumption
  <2>2. Add(n, f) /\ UNCHANGED <<fsm, uart, evt, buffer, parsed, seen>>
    BY <1>20 DEF AddCommand
  <2> HIDE DEF n, f
  <2>3. UNCHANGED <<Pending, Line, Entered>>
    BY <2>2 DEF Pending, Line, Entered, In
  <2>4. \A m \in Names : \/ Registry(m)' = Registry(m)
                         \/ m = n /\ Registry(n) = NoFunction /\ Registry(n)' = f
    BY <1>1, <2>1, <2>2, AddIs
  <2>5. \A m \in Names : Known[m] = Registry(m) /\ Known'[m] = Registry(m)'
    BY DEF Known, Registry
  <2>6. /\ Known = [m \in Names |-> Known[m]]
        /\ Known' = [m \in Names |-> Known'[m]]
    BY DEF Known
  <2>7. CASE Registry(n)' = Registry(n)
    <3>1. \A m \in Names : Known'[m] = Known[m]
      BY <2>4, <2>5, <2>7
    <3>2. Known' = Known
      BY <2>6, <3>1
    <3>3. QED
      BY <2>2, <2>3, <3>2, Stutters
  <2>8. CASE Registry(n) = NoFunction /\ Registry(n)' = f
    <3>1. \A m \in Names : Known'[m] = IF m = n THEN f ELSE Known[m]
      BY <2>4, <2>5, <2>8
    <3>2. Known' = [Known EXCEPT ![n] = f]
      <4> HIDE DEF Known
      <4>1. QED
        BY <2>6, <3>1
    <3>3. Known[n] = NoFunction
      BY <2>1, <2>5, <2>8
    <3>4. L!Register(n, f) <=>
            /\ Known[n] = NoFunction /\ Known' = [Known EXCEPT ![n] = f]
            /\ UNCHANGED <<Pending, Line, Entered, parsed, reply, reinits>>
      BY DEF L!Register, Pending, Line, Entered, Known
    <3>5. L!Register(n, f)
      BY <2>2, <2>3, <3>2, <3>3, <3>4
    <3>6. QED
      BY <2>1, <3>5 DEF L!Next
  <2>9. QED
    BY <2>1, <2>4, <2>7, <2>8
<1>21. QED
  BY <1>4, <1>5, <1>6, <1>7, <1>8, <1>9, <1>12, <1>13, <1>14, <1>15, <1>16,
     <1>17, <1>18, <1>19, <1>20 DEF Next, Main, L!Next

(* The state machine with its dictionary, its parser and the receive       *)
(* interrupt implements the line editor, for any characters, names, hash   *)
(* function, sizes of the dictionary and length of the line.               *)
THEOREM Implements == Spec => ImplementsLineEditor
<1>1. UInv /\ UInv' /\ [Next]_vars => [L!Next]_(L!lvars)
  BY StepMaps
<1>2. QED
  BY <1>1, InitInv, StepInv, InitMaps, PTL
     DEF Spec, ImplementsLineEditor, L!Spec
=============================================================================
