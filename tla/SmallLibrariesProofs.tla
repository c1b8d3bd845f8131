------------------------ MODULE SmallLibrariesProofs ------------------------
(***************************************************************************)
(* The small libraries for every value of their constants: what each of    *)
(* them keeps, by an inductive invariant of its own, and that it           *)
(* implements its abstract specification.  The sections are about one      *)
(* library each; the last one puts them together.                          *)
(***************************************************************************)
EXTENDS SmallLibraries, SequenceTheorems, FiniteSetTheorems,
        WellFoundedInduction, NaturalsInduction, TLAPS

-----------------------------------------------------------------------------
(* Sequences given by a function of the places.                            *)

LEMMA ListIs ==
  ASSUME NEW n \in Nat, NEW s, s = [i \in 1 .. n |-> s[i]],
         NEW S, \A i \in 1 .. n : s[i] \in S
  PROVE  s \in Seq(S) /\ Len(s) = n
<1>1. s \in [1 .. n -> S]
  OBVIOUS
<1>2. s \in Seq(S)
  BY <1>1, SeqDef, SMT
<1>3. QED
  BY <1>1, <1>2, LenProperties

LEMMA PartIs ==
  ASSUME NEW S, NEW s \in Seq(S), NEW n \in Nat, Len(s) = n,
         NEW j \in Nat, NEW k \in Nat, j <= k, k <= n
  PROVE  /\ SubSeq(s, j + 1, k) \in Seq(S) /\ Len(SubSeq(s, j + 1, k)) = k - j
         /\ \A i \in 1 .. (k - j) : SubSeq(s, j + 1, k)[i] = s[j + i]
<1>1. \A i \in (j + 1) .. k : s[i] \in S
  BY LenProperties
<1>2. j + 1 \in Int /\ k \in Int
  OBVIOUS
<1>3. /\ SubSeq(s, j + 1, k) \in Seq(S)
      /\ Len(SubSeq(s, j + 1, k)) = IF j + 1 <= k THEN k - (j + 1) + 1 ELSE 0
      /\ \A i \in 1 .. k - (j + 1) + 1 : SubSeq(s, j + 1, k)[i] = s[j + 1 + i - 1]
  BY <1>1, <1>2, SubSeqProperties
<1>4. Len(SubSeq(s, j + 1, k)) = k - j
  BY <1>3
<1>5. \A i \in 1 .. (k - j) : i \in 1 .. k - (j + 1) + 1 /\ j + 1 + i - 1 = j + i
  OBVIOUS
<1>6. QED
  BY <1>3, <1>4, <1>5

(* A sequence with one more element behind the first k, or without the one *)
(* at place k.                                                             *)
Put(s, x, n, k) == SubSeq(s, 1, k) \o <<x>> \o SubSeq(s, k + 1, n)

IsPut(r, s, x, n, k) ==
  /\ Len(r) = n + 1
  /\ \A i \in 1 .. (n + 1) :
       r[i] = IF i <= k THEN s[i] ELSE IF i = k + 1 THEN x ELSE s[i - 1]

LEMMA PutIn ==
  ASSUME NEW S, NEW s \in Seq(S), NEW x \in S, NEW n \in Nat, Len(s) = n,
         NEW k \in 0 .. n
  PROVE  Put(s, x, n, k) \in Seq(S) /\ IsPut(Put(s, x, n, k), s, x, n, k)
<1>13. PICK r : r = Put(s, x, n, k)
  OBVIOUS
<1>1. PICK f : f = SubSeq(s, 1, k)
  OBVIOUS
<1>2. PICK e : e = SubSeq(s, k + 1, n)
  OBVIOUS
<1>3. PICK o : o = <<x>>
  OBVIOUS
<1>4. PICK fo : fo = f \o o
  OBVIOUS
<1>5. f \in Seq(S) /\ Len(f) = k /\ \A i \in 1 .. k : f[i] = s[i]
  <2>1. 0 + 1 = 1 /\ k - 0 = k /\ k \in Nat /\ k <= n /\ \A i \in 1 .. k : 0 + i = i
    OBVIOUS
  <2>2. /\ SubSeq(s, 0 + 1, k) \in Seq(S) /\ Len(SubSeq(s, 0 + 1, k)) = k - 0
        /\ \A i \in 1 .. (k - 0) : SubSeq(s, 0 + 1, k)[i] = s[0 + i]
    BY PartIs
  <2>3. QED
    BY <1>1, <2>1, <2>2
<1>6. e \in Seq(S) /\ Len(e) = n - k /\ \A i \in 1 .. (n - k) : e[i] = s[k + i]
  <2>1. k \in Nat /\ k <= n /\ n <= n
    OBVIOUS
  <2>2. /\ SubSeq(s, k + 1, n) \in Seq(S) /\ Len(SubSeq(s, k + 1, n)) = n - k
        /\ \A i \in 1 .. (n - k) : SubSeq(s, k + 1, n)[i] = s[k + i]
    BY <2>1, PartIs
  <2>3. QED
    BY <1>2, <2>2
<1>7. o \in Seq(S) /\ Len(o) = 1 /\ o[1] = x
  BY <1>3
<1>8. /\ fo \in Seq(S) /\ Len(fo) = k + 1
      /\ \A i \in 1 .. (k + 1) : fo[i] = IF i <= k THEN f[i] ELSE o[i - k]
  <2>1. /\ f \o o \in Seq(S) /\ Len(f \o o) = Len(f) + Len(o)
        /\ \A i \in 1 .. Len(f) + Len(o) :
             (f \o o)[i] = IF i <= Len(f) THEN f[i] ELSE o[i - Len(f)]
    BY <1>5, <1>7, ConcatProperties
  <2>2. /\ f \o o \in Seq(S) /\ Len(f \o o) = k + 1
        /\ \A i \in 1 .. k + 1 : (f \o o)[i] = IF i <= k THEN f[i] ELSE o[i - k]
    BY <1>5, <1>7, <2>1
  <2>3. QED
    BY <1>4, <2>2
<1>9. r = fo \o e /\ n - k \in Nat /\ k + 1 \in Nat /\ k + 1 + (n - k) = n + 1
  BY <1>1, <1>2, <1>3, <1>4, <1>13 DEF Put
<1>10. /\ r \in Seq(S) /\ Len(r) = n + 1
       /\ \A i \in 1 .. (n + 1) : r[i] = IF i <= k + 1 THEN fo[i] ELSE e[i - (k + 1)]
  <2>1. /\ fo \o e \in Seq(S) /\ Len(fo \o e) = Len(fo) + Len(e)
        /\ \A i \in 1 .. Len(fo) + Len(e) :
             (fo \o e)[i] = IF i <= Len(fo) THEN fo[i] ELSE e[i - Len(fo)]
    BY <1>6, <1>8, ConcatProperties
  <2>2. QED
    BY <1>6, <1>8, <1>9, <2>1
<1>11. ASSUME NEW i \in 1 .. (n + 1)
       PROVE  r[i] = IF i <= k THEN s[i] ELSE IF i = k + 1 THEN x ELSE s[i - 1]
  <2>1. CASE i <= k
    <3>1. i \in 1 .. k /\ i \in 1 .. (k + 1) /\ i <= k + 1
      BY <2>1
    <3>2. QED
      BY <1>5, <1>8, <1>10, <2>1, <3>1
  <2>2. CASE i = k + 1
    <3>1. i \in 1 .. (k + 1) /\ i - k = 1 /\ ~(i <= k) /\ i <= k + 1
      BY <2>2
    <3>2. r[i] = fo[i] /\ fo[i] = o[i - k] /\ o[i - k] = x
      BY <1>7, <1>8, <1>10, <3>1
    <3>3. QED
      BY <2>2, <3>1, <3>2
  <2>3. CASE i > k + 1
    <3>1. /\ i - (k + 1) \in 1 .. (n - k) /\ k + (i - (k + 1)) = i - 1
          /\ ~(i <= k) /\ i # k + 1 /\ ~(i <= k + 1)
      BY <2>3
    <3>2. QED
      BY <1>6, <1>10, <3>1
  <2>4. i <= k \/ i = k + 1 \/ i > k + 1
    OBVIOUS
  <2>5. QED
    BY <2>1, <2>2, <2>3, <2>4
<1>12. QED
  BY <1>10, <1>11, <1>13 DEF IsPut

Taken(s, n, k) == SubSeq(s, 1, k - 1) \o SubSeq(s, k + 1, n)

IsTaken(r, s, n, k) ==
  /\ Len(r) = n - 1
  /\ \A i \in 1 .. (n - 1) : r[i] = IF i < k THEN s[i] ELSE s[i + 1]

LEMMA TakenOut ==
  ASSUME NEW S, NEW s \in Seq(S), NEW n \in Nat, Len(s) = n, NEW k \in 1 .. n
  PROVE  Taken(s, n, k) \in Seq(S) /\ IsTaken(Taken(s, n, k), s, n, k)
<1>10. PICK r : r = Taken(s, n, k)
  OBVIOUS
<1>1. PICK f : f = SubSeq(s, 1, k - 1)
  OBVIOUS
<1>2. PICK e : e = SubSeq(s, k + 1, n)
  OBVIOUS
<1>3. PICK j \in Nat : j = k - 1
  OBVIOUS
<1>4. f \in Seq(S) /\ Len(f) = j /\ \A i \in 1 .. j : f[i] = s[i]
  <2>1. 0 + 1 = 1 /\ j - 0 = j /\ j <= n /\ 0 <= j /\ \A i \in 1 .. j : 0 + i = i
    BY <1>3
  <2>2. /\ SubSeq(s, 0 + 1, j) \in Seq(S) /\ Len(SubSeq(s, 0 + 1, j)) = j - 0
        /\ \A i \in 1 .. (j - 0) : SubSeq(s, 0 + 1, j)[i] = s[0 + i]
    BY <2>1, PartIs
  <2>3. QED
    BY <1>1, <1>3, <2>1, <2>2
<1>5. e \in Seq(S) /\ Len(e) = n - k /\ \A i \in 1 .. (n - k) : e[i] = s[k + i]
  <2>1. k \in Nat /\ k <= n /\ n <= n
    OBVIOUS
  <2>2. /\ SubSeq(s, k + 1, n) \in Seq(S) /\ Len(SubSeq(s, k + 1, n)) = n - k
        /\ \A i \in 1 .. (n - k) : SubSeq(s, k + 1, n)[i] = s[k + i]
    BY <2>1, PartIs
  <2>3. QED
    BY <1>2, <2>2
<1>6. r = f \o e /\ n - k \in Nat /\ j + (n - k) = n - 1
  BY <1>1, <1>2, <1>3, <1>10 DEF Taken
<1>7. /\ r \in Seq(S) /\ Len(r) = n - 1
      /\ \A i \in 1 .. (n - 1) : r[i] = IF i <= j THEN f[i] ELSE e[i - j]
  <2>1. /\ f \o e \in Seq(S) /\ Len(f \o e) = Len(f) + Len(e)
        /\ \A i \in 1 .. Len(f) + Len(e) :
             (f \o e)[i] = IF i <= Len(f) THEN f[i] ELSE e[i - Len(f)]
    BY <1>4, <1>5, ConcatProperties
  <2>2. QED
    BY <1>4, <1>5, <1>6, <2>1
<1>8. ASSUME NEW i \in 1 .. (n - 1)
      PROVE  r[i] = IF i < k THEN s[i] ELSE s[i + 1]
  <2>1. CASE i < k
    <3>1. i \in 1 .. j /\ i <= j
      BY <1>3, <2>1
    <3>2. QED
      BY <1>4, <1>7, <2>1, <3>1
  <2>2. CASE ~(i < k)
    <3>1. i - j \in 1 .. (n - k) /\ k + (i - j) = i + 1 /\ ~(i <= j)
      BY <1>3, <2>2
    <3>2. QED
      BY <1>5, <1>7, <2>2, <3>1
  <2>3. QED
    BY <2>1, <2>2
<1>9. QED
  BY <1>7, <1>8, <1>10 DEF IsTaken

-----------------------------------------------------------------------------
(* The circular buffer: the slot after another, the number of messages     *)
(* between two indices, and the places of these messages.                  *)

LEMMA CanAdvanceIs ==
  ASSUME Can!CanFifoAssumption, NEW i \in Can!Slots
  PROVE  /\ Can!Advance(i) = IF i = Size - 1 THEN 0 ELSE i + 1
         /\ Can!Advance(i) \in Can!Slots
<1> USE DEF Can!CanFifoAssumption, Can!Slots, Can!Advance
<1>1. CASE i = Size - 1
  <2>1. Size % Size = 0
    OBVIOUS
  <2>2. QED
    BY <1>1, <2>1
<1>2. CASE i # Size - 1
  <2>1. i + 1 \in 0 .. (Size - 1)
    BY <1>2
  <2>2. QED
    BY <1>2, <2>1
<1>3. QED
  BY <1>1, <1>2

LEMMA CanLengthIs ==
  ASSUME Can!CanFifoAssumption, NEW h \in Can!Slots, NEW t \in Can!Slots
  PROVE  /\ Can!Length(h, t) = IF t <= h THEN h - t ELSE h - t + Size
         /\ Can!Length(h, t) \in 0 .. (Size - 1)
<1> USE DEF Can!CanFifoAssumption, Can!Slots
<1>1. CASE t <= h
  <2>1. h - t \in 0 .. (Size - 1)
    BY <1>1
  <2>2. QED
    BY <1>1, <2>1 DEF Can!Length
<1>2. CASE t > h
  <2>1. h - t + Size \in 0 .. (Size - 1)
    BY <1>2
  <2>2. (h - t) % Size = h - t + Size
    BY <2>1
  <2>3. QED
    BY <1>2, <2>1, <2>2 DEF Can!Length
<1>3. QED
  BY <1>1, <1>2

LEMMA CanPlaceIs ==
  ASSUME Can!CanFifoAssumption, NEW t \in Can!Slots, NEW k \in 1 .. Size
  PROVE  /\ Can!Place(t, k) = IF t + k - 1 < Size THEN t + k - 1
                          ELSE t + k - 1 - Size
         /\ Can!Place(t, k) \in Can!Slots
<1> USE DEF Can!CanFifoAssumption, Can!Slots
<1>1. CASE t + k - 1 < Size
  <2>1. t + k - 1 \in 0 .. (Size - 1)
    BY <1>1
  <2>2. QED
    BY <1>1, <2>1 DEF Can!Place
<1>2. CASE t + k - 1 >= Size
  <2>1. t + k - 1 - Size \in 0 .. (Size - 1)
    BY <1>2
  <2>2. (t + k - 1) % Size = t + k - 1 - Size
    BY <2>1
  <2>3. QED
    BY <1>2, <2>1, <2>2 DEF Can!Place
<1>3. QED
  BY <1>1, <1>2

(* What the two tests find, and what moving an index does to the places.   *)
LEMMA CanMoving ==
  ASSUME Can!CanFifoAssumption, NEW h \in Can!Slots, NEW t \in Can!Slots
  PROVE  /\ h = t <=> Can!Length(h, t) = 0
         /\ Can!Advance(h) = t <=> Can!Length(h, t) = Size - 1
         /\ Can!Advance(h) # t => Can!Length(Can!Advance(h), t) = Can!Length(h, t) + 1
         /\ h # t => Can!Length(h, Can!Advance(t)) = Can!Length(h, t) - 1
         /\ Can!Place(t, Can!Length(h, t) + 1) = h
         /\ \A k \in 1 .. Can!Length(h, t) : Can!Place(t, k) # h
         /\ Can!Place(t, 1) = t
         /\ \A k \in 1 .. (Size - 1) : Can!Place(Can!Advance(t), k) = Can!Place(t, k + 1)
<1>1. /\ Can!Advance(h) \in Can!Slots /\ Can!Advance(t) \in Can!Slots
      /\ Can!Advance(h) = IF h = Size - 1 THEN 0 ELSE h + 1
      /\ Can!Advance(t) = IF t = Size - 1 THEN 0 ELSE t + 1
      /\ Can!Length(h, t) = IF t <= h THEN h - t ELSE h - t + Size
      /\ Can!Length(h, t) \in 0 .. (Size - 1)
  BY CanAdvanceIs, CanLengthIs
<1>2. /\ Size \in Nat \ {0} /\ h \in 0 .. (Size - 1) /\ t \in 0 .. (Size - 1)
      /\ Can!Advance(h) \in 0 .. (Size - 1) /\ Can!Advance(t) \in 0 .. (Size - 1)
  BY <1>1 DEF Can!CanFifoAssumption, Can!Slots
<1>3. /\ h = t <=> Can!Length(h, t) = 0
      /\ Can!Advance(h) = t <=> Can!Length(h, t) = Size - 1
  BY <1>1, <1>2
<1>4. Can!Advance(h) # t => Can!Length(Can!Advance(h), t) = Can!Length(h, t) + 1
  <2>1. Can!Length(Can!Advance(h), t) = IF t <= Can!Advance(h) THEN Can!Advance(h) - t
                                ELSE Can!Advance(h) - t + Size
    BY <1>1, CanLengthIs
  <2>2. QED
    BY <2>1, <1>1, <1>2
<1>5. h # t => Can!Length(h, Can!Advance(t)) = Can!Length(h, t) - 1
  <2>1. Can!Length(h, Can!Advance(t)) = IF Can!Advance(t) <= h THEN h - Can!Advance(t)
                                ELSE h - Can!Advance(t) + Size
    BY <1>1, CanLengthIs
  <2>2. QED
    BY <2>1, <1>1, <1>2
<1>6. \A k \in 1 .. Size :
        Can!Place(t, k) = IF t + k - 1 < Size THEN t + k - 1 ELSE t + k - 1 - Size
  BY CanPlaceIs
<1>7. Can!Place(t, Can!Length(h, t) + 1) = h
  <2>1. Can!Length(h, t) + 1 \in 1 .. Size
    BY <1>1, <1>2
  <2>2. QED
    BY <2>1, <1>1, <1>2, <1>6
<1>8. \A k \in 1 .. Can!Length(h, t) : Can!Place(t, k) # h
  <2>1. \A k \in 1 .. Can!Length(h, t) : k \in 1 .. Size
    BY <1>1, <1>2
  <2>2. QED
    BY <2>1, <1>1, <1>2, <1>6
<1>9. Can!Place(t, 1) = t
  BY <1>2, <1>6
<1>10. \A k \in 1 .. (Size - 1) : Can!Place(Can!Advance(t), k) = Can!Place(t, k + 1)
  <2>1. SUFFICES ASSUME NEW k \in 1 .. (Size - 1)
                 PROVE  Can!Place(Can!Advance(t), k) = Can!Place(t, k + 1)
    OBVIOUS
  <2>2. k \in 1 .. Size /\ k + 1 \in 1 .. Size
    BY <1>2
  <2>3. Can!Place(Can!Advance(t), k) = IF Can!Advance(t) + k - 1 < Size
                               THEN Can!Advance(t) + k - 1
                               ELSE Can!Advance(t) + k - 1 - Size
    BY <1>1, <2>2, CanPlaceIs
  <2>4. QED
    BY <1>1, <1>2, <1>6, <2>2, <2>3
<1>11. QED
  BY <1>3, <1>4, <1>5, <1>7, <1>8, <1>9, <1>10

-----------------------------------------------------------------------------
(* The invariant.                                                          *)

LEMMA CanBlankValues ==
  ASSUME Can!CanFifoAssumption
  PROVE  /\ Can!Blank \in Can!FieldValues /\ Can!Idle \in Can!CallStates
         /\ \A m \in Messages : [f \in 1 .. Fields |-> m] \in Can!FieldValues
<1>1. Can!Blank \in Can!FieldValues
  BY DEF Can!Blank, Can!FieldValues
<1>2. 0 \in 0 .. Fields
  BY DEF Can!CanFifoAssumption
<1>3. QED
  BY <1>1, <1>2 DEF Can!Idle, Can!CallStates, Can!FieldValues

LEMMA CanSameValues ==
  ASSUME NEW a \in Can!FieldValues, NEW b \in Can!FieldValues,
         \A f \in 1 .. Fields : a[f] = b[f]
  PROVE  a = b
<1>1. a = [f \in 1 .. Fields |-> a[f]] /\ b = [f \in 1 .. Fields |-> b[f]]
  BY DEF Can!FieldValues
<1>2. QED
  BY <1>1

LEMMA CanInitInv == ASSUME Can!CanFifoAssumption, Can!Init PROVE Can!Inv
<1>1. 0 \in Can!Slots /\ Can!Length(0, 0) = 0
  <2>1. 0 \in Can!Slots
    BY DEF Can!CanFifoAssumption, Can!Slots
  <2>2. QED
    BY <2>1, CanMoving
<1>2. Can!TypeOK
  BY <1>1, CanBlankValues DEF Can!Init, Can!TypeOK
<1>3. Can!Pushing /\ Can!Popping
  BY DEF Can!Init, Can!Pushing, Can!Popping, Can!Idle
<1>4. Can!MessagesWhole
  BY <1>1 DEF Can!Init, Can!MessagesWhole
<1>5. QED
  BY <1>2, <1>3, <1>4 DEF Can!Inv

(* The indices move only when a call ends; a slot in use is never written. *)
LEMMA CanInvPushCall ==
  ASSUME Can!CanFifoAssumption, Can!Inv,
         (\E m \in Messages : Can!CallPush(m)) \/ Can!TestFull \/ Can!ReturnPush
  PROVE  Can!Inv'
<1> USE DEF Can!Inv
<1>1. UNCHANGED <<canHead, canTail, canQueue, canPop>>
  BY DEF Can!CallPush, Can!TestFull, Can!ReturnPush
<1>2. Can!Popping' /\ Can!MessagesWhole'
  BY <1>1 DEF Can!Popping, Can!MessagesWhole, Can!IsEmpty
<1>3. CASE \E m \in Messages : Can!CallPush(m)
  <2>1. PICK m \in Messages : Can!CallPush(m)
    BY <1>3
  <2> DEFINE c == [f \in 1 .. Fields |-> m]
  <2>2. c \in Can!FieldValues /\ Can!Complete(c) /\ Can!Idle \in Can!CallStates
    BY CanBlankValues DEF Can!Complete
  <2> HIDE DEF c
  <2>3. canPush' = [Can!Idle EXCEPT !.at = "test", !.msg = c]
    BY <2>1 DEF Can!CallPush, c
  <2>4. canPush' \in Can!CallStates /\ Can!Pushing'
    BY <2>2, <2>3 DEF Can!Idle, Can!CallStates, Can!Pushing
  <2>5. QED
    BY <1>1, <1>2, <2>4 DEF Can!TypeOK
<1>4. CASE Can!TestFull
  <2>1. canPush' \in Can!CallStates
    BY <1>4 DEF Can!TestFull, Can!TypeOK, Can!CallStates
  <2>2. Can!Pushing'
    BY <1>1, <1>4 DEF Can!TestFull, Can!TypeOK, Can!CallStates, Can!Pushing, Can!IsFull
  <2>3. QED
    BY <1>1, <1>2, <2>1, <2>2 DEF Can!TypeOK
<1>5. CASE Can!ReturnPush
  <2>1. canPush' \in Can!CallStates /\ Can!Pushing'
    BY <1>5, CanBlankValues DEF Can!ReturnPush, Can!Pushing, Can!Idle
  <2>2. QED
    BY <1>1, <1>2, <2>1 DEF Can!TypeOK
<1>6. QED
  BY <1>3, <1>4, <1>5

LEMMA CanInvPopCall ==
  ASSUME Can!CanFifoAssumption, Can!Inv, Can!CallPop \/ Can!TestEmpty \/ Can!ReturnPop
  PROVE  Can!Inv'
<1> USE DEF Can!Inv
<1>1. UNCHANGED <<canHead, canTail, canQueue, canPush>>
  BY DEF Can!CallPop, Can!TestEmpty, Can!ReturnPop
<1>2. Can!Pushing' /\ Can!MessagesWhole'
  BY <1>1 DEF Can!Pushing, Can!MessagesWhole, Can!IsFull
<1>3. CASE Can!CallPop
  <2>1. canPop' = [Can!Idle EXCEPT !.at = "test"] /\ Can!Idle \in Can!CallStates
    BY <1>3, CanBlankValues DEF Can!CallPop
  <2>2. canPop' \in Can!CallStates /\ Can!Popping'
    BY <2>1 DEF Can!Idle, Can!CallStates, Can!Popping
  <2>3. QED
    BY <1>1, <1>2, <2>2 DEF Can!TypeOK
<1>4. CASE Can!TestEmpty
  <2>1. canPop' \in Can!CallStates
    BY <1>4 DEF Can!TestEmpty, Can!TypeOK, Can!CallStates
  <2>2. Can!Popping'
    BY <1>1, <1>4 DEF Can!TestEmpty, Can!TypeOK, Can!CallStates, Can!Popping, Can!IsEmpty
  <2>3. QED
    BY <1>1, <1>2, <2>1, <2>2 DEF Can!TypeOK
<1>5. CASE Can!ReturnPop
  <2>1. canPop' \in Can!CallStates /\ Can!Popping'
    BY <1>5, CanBlankValues DEF Can!ReturnPop, Can!Popping, Can!Idle
  <2>2. QED
    BY <1>1, <1>2, <2>1 DEF Can!TypeOK
<1>6. QED
  BY <1>3, <1>4, <1>5

LEMMA CanInvStore == ASSUME Can!CanFifoAssumption, Can!Inv, Can!Store PROVE Can!Inv'
<1> USE DEF Can!Inv
<1>1. /\ canHead \in Can!Slots /\ canTail \in Can!Slots /\ canQueue \in [Can!Slots -> Can!FieldValues]
      /\ canPush \in Can!CallStates /\ canPush.at = "copy" /\ canPush.copied \in 0 .. Fields
      /\ canPush.copied < Fields /\ canPush.msg \in Can!FieldValues
      /\ UNCHANGED <<canHead, canTail, canPop>>
  BY DEF Can!TypeOK, Can!Store, Can!CallStates
<1> DEFINE f == canPush.copied + 1
<1>2. f \in 1 .. Fields /\ 1 .. canPush.copied \subseteq 1 .. Fields
  BY <1>1 DEF Can!CanFifoAssumption
<1>3. /\ canQueue' = [canQueue EXCEPT ![canHead][f] = canPush.msg[f]]
      /\ canPush' = [canPush EXCEPT !.copied = f]
  BY DEF Can!Store
<1> HIDE DEF f
<1>4. /\ canQueue' \in [Can!Slots -> Can!FieldValues]
      /\ \A s \in Can!Slots : s # canHead => canQueue'[s] = canQueue[s]
      /\ canQueue'[canHead] = [canQueue[canHead] EXCEPT ![f] = canPush.msg[f]]
      /\ canQueue[canHead] \in Can!FieldValues
  BY <1>1, <1>2, <1>3 DEF Can!FieldValues
<1>5. Can!TypeOK'
  <2>1. canPush' \in Can!CallStates
    BY <1>1, <1>2, <1>3 DEF Can!CallStates, f
  <2>2. QED
    BY <1>1, <1>4, <2>1 DEF Can!TypeOK
<1>6. Can!Pushing'
  <2>1. \A g \in 1 .. f : g \in 1 .. Fields /\ (g = f \/ g \in 1 .. canPush.copied)
    BY <1>1, <1>2 DEF f
  <2>2. \A g \in 1 .. f : canQueue'[canHead][g] = canPush.msg[g]
    BY <1>1, <1>2, <1>4, <2>1 DEF Can!Pushing, Can!FieldValues
  <2>3. /\ canPush'.at = "copy" /\ canPush'.ok = canPush.ok /\ canPush'.msg = canPush.msg
        /\ canPush'.copied = f
    BY <1>1, <1>3 DEF Can!CallStates
  <2>4. QED
    BY <1>1, <2>2, <2>3 DEF Can!Pushing, Can!IsFull
<1>7. Can!Popping'
  BY <1>1, <1>4 DEF Can!Popping, Can!IsEmpty
<1>8. Can!MessagesWhole'
  <2>1. \A k \in 1 .. Can!Length(canHead, canTail) : k \in 1 .. Size
    BY <1>1, CanLengthIs DEF Can!CanFifoAssumption
  <2>2. \A k \in 1 .. Can!Length(canHead, canTail) :
          Can!Place(canTail, k) \in Can!Slots /\ Can!Place(canTail, k) # canHead
    BY <1>1, <2>1, CanMoving, CanPlaceIs
  <2>3. QED
    BY <1>1, <1>4, <2>2 DEF Can!MessagesWhole, Can!Length, Can!Place
<1>9. QED
  BY <1>5, <1>6, <1>7, <1>8

LEMMA CanInvLoad == ASSUME Can!CanFifoAssumption, Can!Inv, Can!Load PROVE Can!Inv'
<1> USE DEF Can!Inv
<1>1. /\ canTail \in Can!Slots /\ canQueue[canTail] \in Can!FieldValues
      /\ canPop \in Can!CallStates /\ canPop.at = "copy" /\ canPop.copied \in 0 .. Fields
      /\ canPop.copied < Fields /\ canPop.msg \in Can!FieldValues
      /\ UNCHANGED <<canHead, canTail, canQueue, canPush>>
  BY DEF Can!TypeOK, Can!Load, Can!CallStates
<1> DEFINE f == canPop.copied + 1
<1>2. f \in 1 .. Fields
  BY <1>1 DEF Can!CanFifoAssumption
<1>3. canPop' = [canPop EXCEPT !.msg[f] = canQueue[canTail][f], !.copied = f]
  BY DEF Can!Load
<1> HIDE DEF f
<1>4. /\ canPop'.at = "copy" /\ canPop'.ok = canPop.ok /\ canPop'.copied = f
      /\ canPop'.msg = [canPop.msg EXCEPT ![f] = canQueue[canTail][f]]
      /\ canPop' = [at |-> "copy", copied |-> f, msg |-> canPop'.msg, ok |-> canPop.ok]
  BY <1>1, <1>3 DEF Can!CallStates
<1>5. canPop'.msg \in Can!FieldValues
  BY <1>1, <1>2, <1>4 DEF Can!FieldValues
<1>6. Can!TypeOK'
  <2>1. f \in 0 .. Fields /\ canPop.ok \in BOOLEAN
    BY <1>1, <1>2 DEF Can!CallStates
  <2>2. canPop' \in Can!CallStates
    BY <1>4, <1>5, <2>1 DEF Can!CallStates
  <2>3. QED
    BY <1>1, <2>2 DEF Can!TypeOK
<1>7. Can!Pushing' /\ Can!MessagesWhole'
  BY <1>1 DEF Can!Pushing, Can!MessagesWhole, Can!IsFull
<1>8. Can!Popping'
  <2>1. \A g \in 1 .. f : g \in 1 .. Fields /\ (g = f \/ g \in 1 .. canPop.copied)
    BY <1>1, <1>2 DEF f, Can!CanFifoAssumption
  <2>2. \A g \in 1 .. canPop.copied : canPop.msg[g] = canQueue[canTail][g]
    BY <1>1 DEF Can!Popping
  <2>3. \A g \in 1 .. Fields :
          canPop'.msg[g] = IF g = f THEN canQueue[canTail][f] ELSE canPop.msg[g]
    BY <1>1, <1>4 DEF Can!FieldValues
  <2>4. \A g \in 1 .. f : canPop'.msg[g] = canQueue[canTail][g]
    BY <2>1, <2>2, <2>3
  <2>5. QED
    BY <1>1, <1>4, <2>4 DEF Can!Popping, Can!IsEmpty
<1>9. QED
  BY <1>6, <1>7, <1>8

LEMMA CanInvIncrementHead ==
  ASSUME Can!CanFifoAssumption, Can!Inv, Can!IncrementHead
  PROVE  Can!Inv'
<1> USE DEF Can!Inv
<1>1. /\ canHead \in Can!Slots /\ canTail \in Can!Slots /\ canQueue \in [Can!Slots -> Can!FieldValues]
      /\ canPush \in Can!CallStates /\ canPush.at = "copy" /\ canPush.copied = Fields
      /\ canPush.msg \in Can!FieldValues /\ Can!Complete(canPush.msg)
      /\ canHead' = Can!Advance(canHead) /\ Can!Advance(canHead) # canTail
      /\ canPush' = [canPush EXCEPT !.at = "return"]
      /\ UNCHANGED <<canTail, canQueue, canPop>>
  BY DEF Can!TypeOK, Can!IncrementHead, Can!CallStates, Can!Pushing, Can!IsFull
<1>2. /\ canHead' \in Can!Slots /\ Can!Length(canHead, canTail) \in 0 .. (Size - 1)
      /\ Can!Length(canHead', canTail) = Can!Length(canHead, canTail) + 1
      /\ Can!Place(canTail, Can!Length(canHead, canTail) + 1) = canHead
  BY <1>1, CanAdvanceIs, CanLengthIs, CanMoving
<1>3. Can!TypeOK' /\ Can!Pushing' /\ Can!Popping'
  <2>1. canPush' \in Can!CallStates /\ Can!Pushing'
    BY <1>1 DEF Can!CallStates, Can!Pushing
  <2>2. Can!Popping'
    BY <1>1 DEF Can!Popping, Can!IsEmpty
  <2>3. QED
    BY <1>1, <1>2, <2>1, <2>2 DEF Can!TypeOK
<1>4. Can!MessagesWhole'
  <2>1. canQueue[canHead] = canPush.msg
    <3>1. \A g \in 1 .. Fields : canQueue[canHead][g] = canPush.msg[g]
      BY <1>1 DEF Can!Pushing
    <3>2. canQueue[canHead] \in Can!FieldValues
      BY <1>1
    <3>3. QED
      BY <1>1, <3>1, <3>2, CanSameValues
  <2>2. \A k \in 1 .. Can!Length(canHead', canTail) :
          k \in 1 .. Can!Length(canHead, canTail) \/ k = Can!Length(canHead, canTail) + 1
    BY <1>2
  <2>3. \A k \in 1 .. Can!Length(canHead', canTail) : Can!Complete(canQueue[Can!Place(canTail, k)])
    BY <1>1, <1>2, <2>1, <2>2 DEF Can!MessagesWhole
  <2>4. QED
    BY <1>1, <2>3 DEF Can!MessagesWhole, Can!Place
<1>5. QED
  BY <1>3, <1>4

LEMMA CanInvIncrementTail ==
  ASSUME Can!CanFifoAssumption, Can!Inv, Can!IncrementTail
  PROVE  Can!Inv'
<1> USE DEF Can!Inv
<1>1. /\ canHead \in Can!Slots /\ canTail \in Can!Slots
      /\ canPop \in Can!CallStates /\ canPop.at = "copy" /\ canHead # canTail
      /\ canTail' = Can!Advance(canTail)
      /\ canPop' = [canPop EXCEPT !.at = "return"]
      /\ UNCHANGED <<canHead, canQueue, canPush>>
  BY DEF Can!TypeOK, Can!IncrementTail, Can!CallStates, Can!Popping, Can!IsEmpty
<1>2. /\ canTail' \in Can!Slots /\ Can!Length(canHead, canTail) \in 0 .. (Size - 1)
      /\ Can!Length(canHead, canTail') = Can!Length(canHead, canTail) - 1
      /\ Can!Length(canHead, canTail') \in 0 .. (Size - 1)
      /\ \A k \in 1 .. (Size - 1) : Can!Place(canTail', k) = Can!Place(canTail, k + 1)
  BY <1>1, CanAdvanceIs, CanLengthIs, CanMoving
<1>3. Can!TypeOK' /\ Can!Popping'
  <2>1. canPop' \in Can!CallStates /\ Can!Popping'
    BY <1>1 DEF Can!CallStates, Can!Popping
  <2>2. QED
    BY <1>1, <1>2, <2>1 DEF Can!TypeOK
<1>4. Can!Pushing'
  <2>1. Can!Length(canHead, canTail') # Size - 1
    BY <1>2
  <2>2. Can!Advance(canHead) # canTail'
    BY <1>1, <1>2, <2>1, CanMoving
  <2>3. QED
    BY <1>1, <2>2 DEF Can!Pushing, Can!IsFull
<1>5. Can!MessagesWhole'
  <2>1. \A k \in 1 .. Can!Length(canHead, canTail') :
          k \in 1 .. (Size - 1) /\ k + 1 \in 1 .. Can!Length(canHead, canTail)
    BY <1>2 DEF Can!CanFifoAssumption
  <2>2. \A k \in 1 .. Can!Length(canHead, canTail') : Can!Complete(canQueue[Can!Place(canTail', k)])
    BY <1>2, <2>1 DEF Can!MessagesWhole
  <2>3. QED
    BY <1>1, <2>2 DEF Can!MessagesWhole
<1>6. QED
  BY <1>3, <1>4, <1>5

LEMMA CanInductiveStep ==
  ASSUME Can!CanFifoAssumption, Can!Inv, [Can!Next]_(Can!vars)
  PROVE  Can!Inv'
<1>1. CASE UNCHANGED Can!vars
  BY <1>1
     DEF Can!vars, Can!Inv, Can!TypeOK, Can!Pushing, Can!Popping, Can!MessagesWhole, Can!IsFull, Can!IsEmpty
<1>2. CASE Can!Next
  BY <1>2, CanInvPushCall, CanInvPopCall, CanInvStore, CanInvLoad, CanInvIncrementHead,
     CanInvIncrementTail DEF Can!Next
<1>3. QED
  BY <1>1, <1>2

(* Each side finds its indices where it left them, the slots between tail  *)
(* and head hold whole messages, and what a side has copied so far is the  *)
(* message it copies, whatever the other side did in between.              *)
THEOREM CanInvariance == Can!CanFifoAssumption => (Can!Spec => []Can!Inv)
<1>1. SUFFICES ASSUME Can!CanFifoAssumption PROVE Can!Spec => []Can!Inv
  OBVIOUS
<1>2. Can!Init => Can!Inv
  BY <1>1, CanInitInv
<1>3. Can!Inv /\ [Can!Next]_(Can!vars) => Can!Inv'
  BY <1>1, CanInductiveStep
<1>4. QED
  BY <1>2, <1>3, PTL DEF Can!Spec

-----------------------------------------------------------------------------
(* The queue implements Deque.  Each step is one of a side and leaves the  *)
(* call of the other as it is; an index that moves makes the sequence      *)
(* longer or shorter, and nothing else changes it.                         *)

LEMMA CanWholeIs ==
  ASSUME Can!CanFifoAssumption
  PROVE  /\ \A c : Can!Complete(c) => Can!Whole(c) = c[1] /\ c[1] \in Messages
         /\ \A m \in Messages : Can!Whole([f \in 1 .. Fields |-> m]) = m
         /\ Can!Whole(Can!Blank) = None
<1>1. 1 \in 1 .. Fields
  BY DEF Can!CanFifoAssumption
<1>2. \A m \in Messages : /\ [f \in 1 .. Fields |-> m][1] = m
                          /\ Can!Complete([f \in 1 .. Fields |-> m])
  BY <1>1 DEF Can!Complete
<1>3. \A c : Can!Complete(c) => c[1] \in Messages
  BY <1>1 DEF Can!Complete
<1>4. ~Can!Complete(Can!Blank)
  <2>1. Can!Blank[1] = None
    BY <1>1 DEF Can!Blank
  <2>2. QED
    BY <1>3, <2>1 DEF Can!CanFifoAssumption
<1>5. QED
  BY <1>2, <1>3, <1>4 DEF Can!Whole

(* The messages between two indices, as a sequence.                        *)
CanBetween(h, t, q) == [k \in 1 .. Can!Length(h, t) |-> Can!Whole(q[Can!Place(t, k)])]

LEMMA CanBetweenIs ==
  ASSUME Can!CanFifoAssumption, NEW h \in Can!Slots, NEW t \in Can!Slots, NEW q,
         \A k \in 1 .. Can!Length(h, t) : Can!Complete(q[Can!Place(t, k)])
  PROVE  /\ Can!Length(h, t) \in 0 .. (Size - 1)
         /\ CanBetween(h, t, q) \in Seq(Messages)
         /\ Len(CanBetween(h, t, q)) = Can!Length(h, t)
         /\ \A k \in 1 .. Can!Length(h, t) :
              CanBetween(h, t, q)[k] = Can!Whole(q[Can!Place(t, k)])
<1>1. Can!Length(h, t) \in 0 .. (Size - 1) /\ Can!Length(h, t) \in Nat
  BY CanLengthIs DEF Can!CanFifoAssumption
<1>2. \A k \in 1 .. Can!Length(h, t) : Can!Whole(q[Can!Place(t, k)]) \in Messages
  BY CanWholeIs
<1>3. /\ CanBetween(h, t, q) \in [1 .. Can!Length(h, t) -> Messages]
      /\ \A k \in 1 .. Can!Length(h, t) :
           CanBetween(h, t, q)[k] = Can!Whole(q[Can!Place(t, k)])
  BY <1>2 DEF CanBetween
<1>4. CanBetween(h, t, q) \in Seq(Messages)
  BY <1>1, <1>3, SeqDef, SMT
<1>5. Len(CanBetween(h, t, q)) = Can!Length(h, t)
  BY <1>1, <1>3, <1>4, LenProperties
<1>6. QED
  BY <1>1, <1>3, <1>4, <1>5

LEMMA CanStoredMessages ==
  ASSUME Can!CanFifoAssumption, Can!Inv
  PROVE  /\ Can!Length(canHead, canTail) \in 0 .. (Size - 1)
         /\ Can!Contents \in Seq(Messages) /\ Len(Can!Contents) = Can!Length(canHead, canTail)
         /\ \A k \in 1 .. Can!Length(canHead, canTail) :
              Can!Contents[k] = Can!Whole(canQueue[Can!Place(canTail, k)])
<1>1. Can!Contents = CanBetween(canHead, canTail, canQueue)
  BY DEF Can!Contents, CanBetween
<1>2. QED
  BY <1>1, CanBetweenIs DEF Can!Inv, Can!TypeOK, Can!MessagesWhole

LEMMA CanStoredAfter ==
  ASSUME Can!CanFifoAssumption, Can!Inv', UNCHANGED canQueue
  PROVE  /\ Can!Contents' \in Seq(Messages) /\ Len(Can!Contents') = Can!Length(canHead', canTail')
         /\ \A k \in 1 .. Can!Length(canHead', canTail') :
              Can!Contents'[k] = Can!Whole(canQueue[Can!Place(canTail', k)])
<1>1. Can!Contents' = CanBetween(canHead', canTail', canQueue)
  BY DEF Can!Contents, CanBetween, Can!Length, Can!Place
<1>2. /\ canHead' \in Can!Slots /\ canTail' \in Can!Slots
      /\ \A k \in 1 .. Can!Length(canHead', canTail') : Can!Complete(canQueue[Can!Place(canTail', k)])
  BY DEF Can!Inv, Can!TypeOK, Can!MessagesWhole, Can!Length, Can!Place
<1>3. QED
  BY <1>1, <1>2, CanBetweenIs

(* The call of one side changes.                                           *)
CanSides == {"producer", "consumer"}
CanAlone(s) ==
  /\ s \in CanSides
  /\ Can!Calls' = [Can!Calls EXCEPT ![s] = Can!Calls'[s]]
  /\ Can!Calls = [c \in CanSides |-> Can!Calls[c]]

LEMMA CanSideAlone ==
  /\ UNCHANGED canPop => CanAlone("producer")
  /\ UNCHANGED canPush => CanAlone("consumer")
<1>1. /\ Can!Calls = [c \in CanSides |-> Can!Calls[c]]
      /\ Can!Calls' = [c \in CanSides |-> Can!Calls'[c]]
  BY DEF Can!Calls, CanSides
<1>2. UNCHANGED canPop => Can!Calls'["consumer"] = Can!Calls["consumer"]
  BY DEF Can!Calls
<1>3. UNCHANGED canPush => Can!Calls'["producer"] = Can!Calls["producer"]
  BY DEF Can!Calls
<1>4. QED
  BY <1>1, <1>2, <1>3 DEF CanAlone, CanSides

LEMMA CanSideSteps ==
  ASSUME NEW s, CanAlone(s)
  PROVE  /\ Can!Calls'[s] = Can!Calls[s] /\ Can!Contents' = Can!Contents => UNCHANGED Can!D!dvars
         /\ (/\ Can!Calls[s] = Can!D!Idle
             /\ \E op \in Can!D!Ops, arg \in Messages \cup {None} :
                  Can!Calls'[s] = Can!D!Pending(op, arg)
             /\ Can!Contents' = Can!Contents) => Can!D!Invoke(s)
         /\ (/\ Can!Calls[s].phase = "done" /\ Can!Calls'[s] = Can!D!Idle
             /\ Can!Contents' = Can!Contents) => Can!D!Return(s)
<1>1. /\ Can!Calls' = [Can!Calls EXCEPT ![s] = Can!Calls'[s]]
      /\ Can!Calls = [c \in CanSides |-> Can!Calls[c]] /\ s \in CanSides
  BY DEF CanAlone
<1>2. Can!Calls'[s] = Can!Calls[s] => Can!Calls' = Can!Calls
  BY <1>1
<1>3. Can!Calls'[s] = Can!Calls[s] /\ Can!Contents' = Can!Contents => UNCHANGED Can!D!dvars
  BY <1>2 DEF Can!D!dvars
<1>4. ASSUME Can!Calls[s] = Can!D!Idle, Can!Contents' = Can!Contents,
             NEW op \in Can!D!Ops, NEW arg \in Messages \cup {None},
             Can!Calls'[s] = Can!D!Pending(op, arg)
      PROVE  Can!D!Invoke(s)
  BY <1>1, <1>4 DEF Can!D!Invoke
<1>5. ASSUME Can!Calls[s].phase = "done", Can!Calls'[s] = Can!D!Idle, Can!Contents' = Can!Contents
      PROVE  Can!D!Return(s)
  BY <1>1, <1>5 DEF Can!D!Return
<1>6. QED
  BY <1>3, <1>4, <1>5

LEMMA CanSideEffect ==
  ASSUME NEW s, CanAlone(s), Can!Calls[s].phase = "pending",
         NEW op, op = Can!Calls[s].op, NEW arg, arg = Can!Calls[s].arg,
         NEW code, code = Can!D!CodeOf(op, Len(Can!Contents)),
         Can!Contents' = IF code = "OK" THEN Can!D!Result(op, arg, Can!Contents)
                     ELSE Can!Contents,
         Can!Calls'[s] = Can!D!Done(op, arg, code,
                            IF code = "OK" THEN Can!D!OutOf(op, arg, Can!Contents)
                            ELSE None,
                            IF op = "size" THEN Len(Can!Contents) ELSE 0)
  PROVE  Can!D!Effect(s)
<1>1. Can!Calls' = [Can!Calls EXCEPT ![s] = Can!Calls'[s]]
  BY DEF CanAlone
<1>2. QED
  BY <1>1 DEF Can!D!Effect

LEMMA CanPendingRecord ==
  ASSUME NEW op, NEW arg
  PROVE  Can!D!Pending(op, arg) = [phase |-> "pending", op |-> op, arg |-> arg,
                               code |-> "OK", out |-> None, count |-> 0]
<1> DEFINE p == Can!D!Pending(op, arg)
<1>1. DOMAIN p = {"phase", "op", "arg", "code", "out", "count"}
  BY DEF Can!D!Pending, Can!D!Idle
<1>2. /\ p.phase = "pending" /\ p.op = op /\ p.arg = arg
      /\ p.code = "OK" /\ p.out = None /\ p.count = 0
  BY DEF Can!D!Pending, Can!D!Idle
<1>3. p = [x \in DOMAIN p |-> p[x]]
  BY DEF Can!D!Pending, Can!D!Idle
<1>. HIDE DEF p
<1>4. p = [phase |-> "pending", op |-> op, arg |-> arg,
           code |-> "OK", out |-> None, count |-> 0]
  BY <1>1, <1>2, <1>3
<1>5. QED
  BY <1>4 DEF p

LEMMA CanWords ==
  /\ "push_back" \in Can!D!Pushes /\ "push_back" \in Can!D!Ops
  /\ "push_back" \notin Can!D!Pops \cup Can!D!Reads \cup Can!D!Peeks
  /\ "pop_front" \in Can!D!Pops \cap Can!D!FrontOps /\ "pop_front" \in Can!D!Ops
  /\ "pop_front" \notin Can!D!Pushes \cup Can!D!Reads \cup Can!D!Peeks
  BY DEF Can!D!Pushes, Can!D!Pops, Can!D!Reads, Can!D!Peeks, Can!D!FrontOps, Can!D!Ops

-----------------------------------------------------------------------------
(* The calls of the two sides, read as calls of the deque.                 *)
CanSomeMessage == CHOOSE m \in Messages : TRUE

CanProducer(c) ==
  [phase |-> Can!Phase(c),
   op    |-> IF c.at = "idle" THEN "size" ELSE "push_back",
   arg   |-> Can!Whole(c.msg),
   code  |-> Can!Code(c, "FULL"), out |-> None, count |-> 0]

CanConsumer(c) ==
  [phase |-> Can!Phase(c),
   op    |-> IF c.at = "idle" THEN "size" ELSE "pop_front",
   arg   |-> IF c.at = "idle" THEN None ELSE CanSomeMessage,
   code  |-> Can!Code(c, "EMPTY"),
   out   |-> IF c.at = "return" THEN Can!Whole(c.msg) ELSE None,
   count |-> 0]

LEMMA CanCalls ==
  /\ Can!Calls["producer"] = CanProducer(canPush) /\ Can!Calls'["producer"] = CanProducer(canPush')
  /\ Can!Calls["consumer"] = CanConsumer(canPop) /\ Can!Calls'["consumer"] = CanConsumer(canPop')
  BY DEF Can!Calls, CanProducer, CanConsumer, CanSomeMessage

LEMMA CanSomeMessageIs ==
  ASSUME Can!CanFifoAssumption
  PROVE  CanSomeMessage \in Messages /\ CanSomeMessage # None
  BY DEF Can!CanFifoAssumption, CanSomeMessage

LEMMA CanIdleIs ==
  ASSUME Can!CanFifoAssumption
  PROVE  CanProducer(Can!Idle) = Can!D!Idle /\ CanConsumer(Can!Idle) = Can!D!Idle
<1>1. Can!Idle.at = "idle" /\ Can!Idle.ok = TRUE /\ Can!Idle.msg = Can!Blank
  BY DEF Can!Idle
<1>2. Can!D!Idle = [phase |-> "idle", op |-> "size", arg |-> None,
                code |-> "OK", out |-> None, count |-> 0]
  BY DEF Can!D!Idle
<1>3. Can!Whole(Can!Blank) = None
  BY CanWholeIs
<1>4. QED
  BY <1>1, <1>2, <1>3 DEF CanProducer, CanConsumer, Can!Phase, Can!Code

LEMMA CanContentsKept ==
  ASSUME UNCHANGED <<canHead, canTail, canQueue>>
  PROVE  Can!Contents' = Can!Contents
  BY DEF Can!Contents, Can!Length, Can!Place

LEMMA CanInitRefines == ASSUME Can!CanFifoAssumption, Can!Init PROVE Can!D!Init
<1>1. Can!Contents = << >>
  <2>1. Can!Inv /\ 0 \in Can!Slots
    BY CanInitInv DEF Can!CanFifoAssumption, Can!Slots
  <2>2. Can!Contents \in Seq(Messages) /\ Len(Can!Contents) = 0
    BY <2>1, CanStoredMessages, CanMoving DEF Can!Init
  <2>3. QED
    BY <2>2, EmptySeq
<1>2. Can!Calls = [c \in CanSides |-> Can!D!Idle]
  <2>1. Can!Calls = [c \in CanSides |-> Can!Calls[c]]
    BY DEF Can!Calls, CanSides
  <2>2. \A c \in CanSides : Can!Calls[c] = Can!D!Idle
    BY CanCalls, CanIdleIs DEF Can!Init, CanSides
  <2>3. QED
    BY <2>1, <2>2
<1>3. QED
  BY <1>1, <1>2 DEF Can!D!Init, CanSides

(* A side calls or returns.                                                *)
LEMMA CanCallsRefine ==
  ASSUME Can!CanFifoAssumption, Can!Inv
  PROVE  /\ \A m \in Messages : Can!CallPush(m) => Can!D!Invoke("producer")
         /\ Can!CallPop => Can!D!Invoke("consumer")
         /\ Can!ReturnPush => Can!D!Return("producer")
         /\ Can!ReturnPop => Can!D!Return("consumer")
<1>1. ASSUME NEW m \in Messages, Can!CallPush(m) PROVE Can!D!Invoke("producer")
  <2>1. Can!Contents' = Can!Contents /\ CanAlone("producer")
    BY <1>1, CanContentsKept, CanSideAlone DEF Can!CallPush
  <2>2. Can!Calls["producer"] = Can!D!Idle
    BY <1>1, CanCalls, CanIdleIs DEF Can!CallPush, Can!Inv, Can!Pushing
  <2>3. Can!Calls'["producer"] = Can!D!Pending("push_back", m)
    <3>1. /\ canPush'.at = "test" /\ canPush'.ok = TRUE
          /\ canPush'.msg = [f \in 1 .. Fields |-> m]
      BY <1>1 DEF Can!CallPush, Can!Idle
    <3>2. Can!Whole(canPush'.msg) = m
      BY <3>1, CanWholeIs
    <3>3. QED
      BY <3>1, <3>2, CanCalls, CanPendingRecord DEF CanProducer, Can!Phase, Can!Code
  <2>4. QED
    BY <2>1, <2>2, <2>3, CanSideSteps, CanWords
<1>2. ASSUME Can!CallPop PROVE Can!D!Invoke("consumer")
  <2>1. Can!Contents' = Can!Contents /\ CanAlone("consumer")
    BY <1>2, CanContentsKept, CanSideAlone DEF Can!CallPop
  <2>2. Can!Calls["consumer"] = Can!D!Idle
    BY <1>2, CanCalls, CanIdleIs DEF Can!CallPop, Can!Inv, Can!Popping
  <2>3. Can!Calls'["consumer"] = Can!D!Pending("pop_front", CanSomeMessage)
    <3>1. canPop'.at = "test" /\ canPop'.ok = TRUE
      BY <1>2 DEF Can!CallPop, Can!Idle
    <3>2. QED
      BY <3>1, CanCalls, CanPendingRecord DEF CanConsumer, Can!Phase, Can!Code
  <2>4. QED
    BY <2>1, <2>2, <2>3, CanSideSteps, CanWords, CanSomeMessageIs
<1>3. ASSUME Can!ReturnPush PROVE Can!D!Return("producer")
  <2>1. /\ Can!Contents' = Can!Contents /\ CanAlone("producer")
        /\ canPush.at = "return" /\ canPush' = Can!Idle
    BY <1>3, CanContentsKept, CanSideAlone DEF Can!ReturnPush
  <2>2. Can!Calls["producer"].phase = "done"
    BY <2>1, CanCalls DEF CanProducer, Can!Phase
  <2>3. Can!Calls'["producer"] = Can!D!Idle
    BY <2>1, CanCalls, CanIdleIs
  <2>4. QED
    BY <2>1, <2>2, <2>3, CanSideSteps
<1>4. ASSUME Can!ReturnPop PROVE Can!D!Return("consumer")
  <2>1. /\ Can!Contents' = Can!Contents /\ CanAlone("consumer")
        /\ canPop.at = "return" /\ canPop' = Can!Idle
    BY <1>4, CanContentsKept, CanSideAlone DEF Can!ReturnPop
  <2>2. Can!Calls["consumer"].phase = "done"
    BY <2>1, CanCalls DEF CanConsumer, Can!Phase
  <2>3. Can!Calls'["consumer"] = Can!D!Idle
    BY <2>1, CanCalls, CanIdleIs
  <2>4. QED
    BY <2>1, <2>2, <2>3, CanSideSteps
<1>5. QED
  BY <1>1, <1>2, <1>3, <1>4

(* A test that fails is the effect of the call, another one is not seen.   *)
LEMMA CanTestsRefine ==
  ASSUME Can!CanFifoAssumption, Can!Inv
  PROVE  /\ Can!TestFull => Can!D!Effect("producer") \/ UNCHANGED Can!D!dvars
         /\ Can!TestEmpty => Can!D!Effect("consumer") \/ UNCHANGED Can!D!dvars
<1>1. /\ canHead \in Can!Slots /\ canTail \in Can!Slots /\ canPush \in Can!CallStates
      /\ canPop \in Can!CallStates /\ Size \in Nat \ {0}
  BY DEF Can!Inv, Can!TypeOK, Can!CanFifoAssumption
<1>2. /\ canHead = canTail <=> Len(Can!Contents) = 0
      /\ Can!Advance(canHead) = canTail <=> Len(Can!Contents) = Size - 1
      /\ Len(Can!Contents) \in 0 .. (Size - 1)
  BY <1>1, CanMoving, CanStoredMessages
<1>3. ASSUME Can!TestFull PROVE Can!D!Effect("producer") \/ UNCHANGED Can!D!dvars
  <2>1. /\ Can!Contents' = Can!Contents /\ CanAlone("producer")
        /\ canPush.at = "test" /\ canPush.ok = TRUE
    BY <1>1, <1>3, CanContentsKept, CanSideAlone
       DEF Can!TestFull, Can!Inv, Can!Pushing, Can!CallStates
  <2>2. CASE Can!IsFull
    <3>1. canPush' = [canPush EXCEPT !.at = "return", !.ok = FALSE]
      BY <1>3, <2>2 DEF Can!TestFull
    <3>2. canPush'.at = "return" /\ canPush'.ok = FALSE /\ canPush'.msg = canPush.msg
      BY <1>1, <3>1 DEF Can!CallStates
    <3>3. Can!D!CodeOf("push_back", Len(Can!Contents)) = "FULL"
      BY <1>2, <2>2, CanWords DEF Can!IsFull, Can!D!CodeOf
    <3>4. /\ Can!Calls["producer"].phase = "pending"
          /\ Can!Calls["producer"].op = "push_back"
          /\ Can!Calls["producer"].arg = Can!Whole(canPush.msg)
      BY <2>1, CanCalls DEF CanProducer, Can!Phase
    <3>5. Can!Calls'["producer"] =
            Can!D!Done("push_back", Can!Whole(canPush.msg), "FULL", None, 0)
      BY <3>2, CanCalls DEF CanProducer, Can!Phase, Can!Code, Can!D!Done
    <3>6. QED
      BY <2>1, <3>3, <3>4, <3>5, CanSideEffect
  <2>3. CASE ~Can!IsFull
    <3>1. canPush' = [canPush EXCEPT !.at = "copy"]
      BY <1>3, <2>3 DEF Can!TestFull
    <3>2. canPush'.at = "copy" /\ canPush'.ok = canPush.ok /\ canPush'.msg = canPush.msg
      BY <1>1, <3>1 DEF Can!CallStates
    <3>3. Can!Calls'["producer"] = Can!Calls["producer"]
      BY <2>1, <3>2, CanCalls DEF CanProducer, Can!Phase, Can!Code
    <3>4. QED
      BY <2>1, <3>3, CanSideSteps
  <2>4. QED
    BY <2>2, <2>3
<1>4. ASSUME Can!TestEmpty PROVE Can!D!Effect("consumer") \/ UNCHANGED Can!D!dvars
  <2>1. /\ Can!Contents' = Can!Contents /\ CanAlone("consumer")
        /\ canPop.at = "test" /\ canPop.ok = TRUE /\ canPop.msg = Can!Blank
    BY <1>1, <1>4, CanContentsKept, CanSideAlone
       DEF Can!TestEmpty, Can!Inv, Can!Popping, Can!CallStates
  <2>2. CASE Can!IsEmpty
    <3>1. canPop' = [canPop EXCEPT !.at = "return", !.ok = FALSE]
      BY <1>4, <2>2 DEF Can!TestEmpty
    <3>2. canPop'.at = "return" /\ canPop'.ok = FALSE /\ canPop'.msg = Can!Blank
      BY <1>1, <2>1, <3>1 DEF Can!CallStates
    <3>3. Can!D!CodeOf("pop_front", Len(Can!Contents)) = "EMPTY"
      BY <1>2, <2>2, CanWords DEF Can!IsEmpty, Can!D!CodeOf
    <3>4. /\ Can!Calls["consumer"].phase = "pending"
          /\ Can!Calls["consumer"].op = "pop_front"
          /\ Can!Calls["consumer"].arg = CanSomeMessage
      BY <2>1, CanCalls DEF CanConsumer, Can!Phase
    <3>5. Can!Whole(canPop'.msg) = None
      BY <3>2, CanWholeIs
    <3>6. Can!Calls'["consumer"] =
            Can!D!Done("pop_front", CanSomeMessage, "EMPTY", None, 0)
      BY <3>2, <3>5, CanCalls DEF CanConsumer, Can!Phase, Can!Code, Can!D!Done
    <3>7. QED
      BY <2>1, <3>3, <3>4, <3>6, CanSideEffect
  <2>3. CASE ~Can!IsEmpty
    <3>1. canPop' = [canPop EXCEPT !.at = "copy"]
      BY <1>4, <2>3 DEF Can!TestEmpty
    <3>2. canPop'.at = "copy" /\ canPop'.ok = canPop.ok
      BY <1>1, <3>1 DEF Can!CallStates
    <3>3. Can!Calls'["consumer"] = Can!Calls["consumer"]
      BY <2>1, <3>2, CanCalls DEF CanConsumer, Can!Phase, Can!Code
    <3>4. QED
      BY <2>1, <3>3, CanSideSteps
  <2>4. QED
    BY <2>2, <2>3
<1>5. QED
  BY <1>3, <1>4

(* The copies are not seen: the producer writes the slot behind the stored *)
(* messages, the consumer its own message.                                 *)
LEMMA CanCopiesRefine ==
  ASSUME Can!CanFifoAssumption, Can!Inv, Can!Store \/ Can!Load
  PROVE  UNCHANGED Can!D!dvars
<1>1. CASE Can!Store
  <2>1. /\ canHead \in Can!Slots /\ canTail \in Can!Slots /\ canQueue \in [Can!Slots -> Can!FieldValues]
        /\ canPush \in Can!CallStates /\ UNCHANGED <<canHead, canTail, canPop>>
        /\ canPush.at = "copy"
    BY <1>1 DEF Can!Inv, Can!TypeOK, Can!Store
  <2>2. \A s \in Can!Slots : s # canHead => canQueue'[s] = canQueue[s]
    BY <1>1, <2>1 DEF Can!Store
  <2>3. /\ canPush' = [canPush EXCEPT !.copied = canPush'.copied]
        /\ canPush'.at = canPush.at /\ canPush'.msg = canPush.msg /\ canPush'.ok = canPush.ok
    BY <1>1, <2>1 DEF Can!Store, Can!CallStates
  <2>4. \A k \in 1 .. Can!Length(canHead, canTail) :
          Can!Place(canTail, k) \in Can!Slots /\ Can!Place(canTail, k) # canHead
    <3>1. \A k \in 1 .. Can!Length(canHead, canTail) : k \in 1 .. Size
      BY <2>1, CanLengthIs DEF Can!CanFifoAssumption
    <3>2. QED
      BY <2>1, <3>1, CanMoving, CanPlaceIs
  <2>5. Can!Contents' = Can!Contents
    BY <2>1, <2>2, <2>4 DEF Can!Contents, Can!Length, Can!Place
  <2>6. Can!Calls'["producer"] = Can!Calls["producer"]
    BY <2>1, <2>3, CanCalls DEF CanProducer, Can!Phase, Can!Code
  <2>7. QED
    BY <2>1, <2>5, <2>6, CanSideAlone, CanSideSteps
<1>2. CASE Can!Load
  <2>1. /\ Can!Contents' = Can!Contents /\ CanAlone("consumer") /\ canPop \in Can!CallStates
        /\ canPop.at = "copy"
    BY <1>2, CanContentsKept, CanSideAlone DEF Can!Inv, Can!TypeOK, Can!Load
  <2>2. canPop'.at = canPop.at /\ canPop'.ok = canPop.ok
    BY <1>2, <2>1 DEF Can!Load, Can!CallStates
  <2>3. Can!Calls'["consumer"] = Can!Calls["consumer"]
    BY <2>1, <2>2, CanCalls DEF CanConsumer, Can!Phase, Can!Code
  <2>4. QED
    BY <2>1, <2>3, CanSideSteps
<1>3. QED
  BY <1>1, <1>2

(* A push takes effect when head moves.                                    *)
LEMMA CanHeadRefines ==
  ASSUME Can!CanFifoAssumption, Can!Inv, Can!Inv', Can!IncrementHead
  PROVE  Can!D!Effect("producer")
<1>1. /\ canHead \in Can!Slots /\ canTail \in Can!Slots /\ canPush \in Can!CallStates
      /\ canPush.at = "copy" /\ canPush.copied = Fields /\ canPush.ok = TRUE
      /\ Can!Complete(canPush.msg) /\ Can!Advance(canHead) # canTail
      /\ canHead' = Can!Advance(canHead) /\ UNCHANGED <<canTail, canQueue, canPop>>
      /\ canPush' = [canPush EXCEPT !.at = "return"]
  BY DEF Can!Inv, Can!TypeOK, Can!Pushing, Can!IncrementHead, Can!IsFull, Can!CallStates
<1>2. canQueue[canHead] = canPush.msg
  <2>1. \A f \in 1 .. Fields : canQueue[canHead][f] = canPush.msg[f]
    BY <1>1 DEF Can!Inv, Can!Pushing
  <2>2. canQueue[canHead] \in Can!FieldValues /\ canPush.msg \in Can!FieldValues
    BY <1>1 DEF Can!Inv, Can!TypeOK, Can!CallStates
  <2>3. QED
    BY <2>1, <2>2, CanSameValues
<1> DEFINE n == Can!Length(canHead, canTail)
           x == Can!Whole(canPush.msg)
<1>3. /\ n \in 0 .. (Size - 1) /\ n # Size - 1 /\ Can!Length(canHead', canTail') = n + 1
      /\ Can!Place(canTail, n + 1) = canHead /\ Size \in Nat
  BY <1>1, CanLengthIs, CanMoving DEF Can!CanFifoAssumption
<1>4. x \in Messages
  BY <1>1, CanWholeIs
<1>5. /\ Can!Contents \in Seq(Messages) /\ Len(Can!Contents) = n
      /\ \A k \in 1 .. n : Can!Contents[k] = Can!Whole(canQueue[Can!Place(canTail, k)])
  BY CanStoredMessages
<1>6. /\ Can!Contents' \in Seq(Messages) /\ Len(Can!Contents') = n + 1
      /\ \A k \in 1 .. (n + 1) : Can!Contents'[k] = Can!Whole(canQueue[Can!Place(canTail, k)])
  BY <1>1, <1>3, CanStoredAfter
<1> HIDE DEF n, x
<1>7. Can!Contents' = Append(Can!Contents, x)
  <2>1. /\ Append(Can!Contents, x) \in Seq(Messages)
        /\ Len(Append(Can!Contents, x)) = n + 1
        /\ \A k \in 1 .. n : Append(Can!Contents, x)[k] = Can!Contents[k]
        /\ Append(Can!Contents, x)[n + 1] = x
    BY <1>4, <1>5, AppendProperties
  <2>2. \A k \in 1 .. (n + 1) : k \in 1 .. n \/ k = n + 1
    BY <1>3
  <2>3. Can!Whole(canQueue[Can!Place(canTail, n + 1)]) = x
    BY <1>2, <1>3 DEF x
  <2>4. \A k \in 1 .. Len(Can!Contents') : Can!Contents'[k] = Append(Can!Contents, x)[k]
    BY <1>5, <1>6, <2>1, <2>2, <2>3
  <2>5. QED
    BY <1>6, <2>1, <2>4, SeqEqual
<1>8. Can!D!CodeOf("push_back", Len(Can!Contents)) = "OK"
  BY <1>3, <1>5, CanWords DEF Can!D!CodeOf
<1>9. Can!D!Result("push_back", x, Can!Contents) = Append(Can!Contents, x)
  BY DEF Can!D!Result
<1>10. Can!D!OutOf("push_back", x, Can!Contents) = None
  BY CanWords DEF Can!D!OutOf
<1>11. /\ Can!Calls["producer"].phase = "pending"
       /\ Can!Calls["producer"].op = "push_back" /\ Can!Calls["producer"].arg = x
  BY <1>1, CanCalls DEF CanProducer, Can!Phase, x
<1>12. Can!Calls'["producer"] = Can!D!Done("push_back", x, "OK", None, 0)
  <2>1. canPush'.at = "return" /\ canPush'.ok = TRUE /\ canPush'.msg = canPush.msg
    BY <1>1 DEF Can!CallStates
  <2>2. QED
    BY <2>1, CanCalls DEF CanProducer, Can!Phase, Can!Code, Can!D!Done, x
<1>13. CanAlone("producer")
  BY <1>1, CanSideAlone
<1>14. QED
  BY <1>7, <1>8, <1>9, <1>10, <1>11, <1>12, <1>13, CanSideEffect

(* A pop takes effect when tail moves.                                     *)
LEMMA CanTailRefines ==
  ASSUME Can!CanFifoAssumption, Can!Inv, Can!Inv', Can!IncrementTail
  PROVE  Can!D!Effect("consumer")
<1>1. /\ canHead \in Can!Slots /\ canTail \in Can!Slots /\ canPop \in Can!CallStates
      /\ canPop.at = "copy" /\ canPop.copied = Fields /\ canPop.ok = TRUE
      /\ canHead # canTail
      /\ canTail' = Can!Advance(canTail) /\ UNCHANGED <<canHead, canQueue, canPush>>
      /\ canPop' = [canPop EXCEPT !.at = "return"]
  BY DEF Can!Inv, Can!TypeOK, Can!Popping, Can!IncrementTail, Can!IsEmpty, Can!CallStates
<1>2. canQueue[canTail] = canPop.msg
  <2>1. \A f \in 1 .. Fields : canPop.msg[f] = canQueue[canTail][f]
    BY <1>1 DEF Can!Inv, Can!Popping
  <2>2. canQueue[canTail] \in Can!FieldValues /\ canPop.msg \in Can!FieldValues
    BY <1>1 DEF Can!Inv, Can!TypeOK, Can!CallStates
  <2>3. QED
    BY <2>1, <2>2, CanSameValues
<1> DEFINE n == Can!Length(canHead, canTail)
           x == Can!Whole(canPop.msg)
<1>3. /\ n \in 1 .. (Size - 1) /\ Can!Length(canHead', canTail') = n - 1
      /\ \A k \in 1 .. (Size - 1) : Can!Place(canTail', k) = Can!Place(canTail, k + 1)
      /\ Can!Place(canTail, 1) = canTail /\ Size \in Nat
  BY <1>1, CanLengthIs, CanMoving DEF Can!CanFifoAssumption
<1>4. /\ Can!Contents \in Seq(Messages) /\ Len(Can!Contents) = n
      /\ \A k \in 1 .. n : Can!Contents[k] = Can!Whole(canQueue[Can!Place(canTail, k)])
  BY CanStoredMessages
<1>5. /\ Can!Contents' \in Seq(Messages) /\ Len(Can!Contents') = n - 1
      /\ \A k \in 1 .. (n - 1) : Can!Contents'[k] = Can!Whole(canQueue[Can!Place(canTail', k)])
  BY <1>1, <1>3, CanStoredAfter
<1> HIDE DEF n, x
<1>6. Can!Contents[1] = x /\ Can!Contents # << >>
  BY <1>2, <1>3, <1>4, EmptySeq DEF x
<1>7. Can!Contents' = Tail(Can!Contents)
  <2>1. /\ Tail(Can!Contents) \in Seq(Messages) /\ Len(Tail(Can!Contents)) = n - 1
        /\ \A k \in 1 .. (n - 1) : Tail(Can!Contents)[k] = Can!Contents[k + 1]
    BY <1>4, <1>6, HeadTailProperties
  <2>2. \A k \in 1 .. (n - 1) : k \in 1 .. (Size - 1) /\ k + 1 \in 1 .. n
    BY <1>3
  <2>3. \A k \in 1 .. Len(Can!Contents') : Can!Contents'[k] = Tail(Can!Contents)[k]
    BY <1>3, <1>4, <1>5, <2>1, <2>2
  <2>4. QED
    BY <1>5, <2>1, <2>3, SeqEqual
<1>8. Can!D!CodeOf("pop_front", Len(Can!Contents)) = "OK"
  BY <1>3, <1>4, CanWords DEF Can!D!CodeOf
<1>9. Can!D!Result("pop_front", CanSomeMessage, Can!Contents) = Tail(Can!Contents)
  BY DEF Can!D!Result
<1>10. Can!D!OutOf("pop_front", CanSomeMessage, Can!Contents) = x
  BY <1>6, CanWords, CanSomeMessageIs DEF Can!D!OutOf
<1>11. /\ Can!Calls["consumer"].phase = "pending"
       /\ Can!Calls["consumer"].op = "pop_front"
       /\ Can!Calls["consumer"].arg = CanSomeMessage
  BY <1>1, CanCalls DEF CanConsumer, Can!Phase
<1>12. Can!Calls'["consumer"] = Can!D!Done("pop_front", CanSomeMessage, "OK", x, 0)
  <2>1. canPop'.at = "return" /\ canPop'.ok = TRUE /\ canPop'.msg = canPop.msg
    BY <1>1 DEF Can!CallStates
  <2>2. QED
    BY <2>1, CanCalls DEF CanConsumer, Can!Phase, Can!Code, Can!D!Done, x
<1>13. CanAlone("consumer")
  BY <1>1, CanSideAlone
<1>14. QED
  BY <1>7, <1>8, <1>9, <1>10, <1>11, <1>12, <1>13, CanSideEffect

LEMMA CanStepRefines ==
  ASSUME Can!CanFifoAssumption, Can!Inv, Can!Inv', [Can!Next]_(Can!vars)
  PROVE  [Can!D!Next]_(Can!D!dvars)
<1>1. CASE UNCHANGED Can!vars
  <2>1. Can!Contents' = Can!Contents /\ Can!Calls' = Can!Calls
    BY <1>1, CanContentsKept DEF Can!vars, Can!Calls
  <2>2. QED
    BY <2>1 DEF Can!D!dvars
<1>2. CASE Can!Store \/ Can!Load
  BY <1>2, CanCopiesRefine
<1>3. CASE Can!IncrementHead \/ Can!IncrementTail
  BY <1>3, CanHeadRefines, CanTailRefines DEF Can!D!Next
<1>4. CASE Can!TestFull \/ Can!TestEmpty
  BY <1>4, CanTestsRefine DEF Can!D!Next
<1>5. CASE \/ \E m \in Messages : Can!CallPush(m)
           \/ Can!ReturnPush \/ Can!CallPop \/ Can!ReturnPop
  BY <1>5, CanCallsRefine DEF Can!D!Next
<1>6. QED
  BY <1>1, <1>2, <1>3, <1>4, <1>5 DEF Can!Next

(* Without any lock, and whatever the order of their statements, a push    *)
(* and a pop each take effect at one instant between call and return.      *)
THEOREM CanLinearizable == Can!CanFifoAssumption => (Can!Spec => Can!ImplementsDeque)
<1>1. SUFFICES ASSUME Can!CanFifoAssumption PROVE Can!Spec => Can!ImplementsDeque
  OBVIOUS
<1>2. Can!Init => Can!D!Init
  BY <1>1, CanInitRefines
<1>3. Can!Inv /\ Can!Inv' /\ [Can!Next]_(Can!vars) => [Can!D!Next]_(Can!D!dvars)
  BY <1>1, CanStepRefines
<1>4. Can!Spec => []Can!Inv
  BY <1>1, CanInvariance
<1>5. Can!Spec => Can!D!Init /\ [][Can!D!Next]_(Can!D!dvars)
  BY <1>2, <1>3, <1>4, PTL DEF Can!Spec
<1>6. QED
  BY <1>5 DEF Can!ImplementsDeque, Can!D!Spec

-----------------------------------------------------------------------------
(* generic-queue: the elements from head on, cntElems of them, end at tail *)
(* whatever the way around, and no half element at the end is ever used.   *)

GenKept == Elements \cup {None}

GenInv ==
  /\ Gen!TypeOK
  /\ genQueue \in [0 .. (Gen!MaxElems - 1) -> GenKept]
  /\ Gen!MaxElems > 0 => genTail = (genHead + genCount) % Gen!MaxElems

LEMMA GenMaxIs == ASSUME Gen!GenericQueueAssumption PROVE Gen!MaxElems \in Nat
  BY DEF Gen!GenericQueueAssumption, Gen!MaxElems

LEMMA GenAroundIs ==
  ASSUME NEW M \in Nat \ {0}, NEW h \in 0 .. (M - 1), NEW k \in 0 .. M
  PROVE  /\ (h + k) % M = IF h + k < M THEN h + k ELSE h + k - M
         /\ (h + k) % M \in 0 .. (M - 1)
<1>1. CASE h + k < M
  BY <1>1
<1>2. CASE h + k >= M
  <2>1. h + k - M \in 0 .. (M - 1)
    BY <1>2
  <2>2. (h + k) % M = h + k - M
    BY <2>1
  <2>3. QED
    BY <1>2, <2>1, <2>2
<1>3. QED
  BY <1>1, <1>2

LEMMA GenAdvanceIs ==
  ASSUME Gen!GenericQueueAssumption, NEW i \in 0 .. (Gen!MaxElems - 1)
  PROVE  /\ Gen!Advance(i) = IF i = Gen!MaxElems - 1 THEN 0 ELSE i + 1
         /\ Gen!Advance(i) \in 0 .. (Gen!MaxElems - 1) /\ Gen!MaxElems > 0
<1>1. PICK M : M = Gen!MaxElems
  OBVIOUS
<1>2. M \in Nat \ {0} /\ i \in 0 .. (M - 1) /\ 1 \in 0 .. M
  BY <1>1, GenMaxIs
<1>3. /\ (i + 1) % M = IF i + 1 < M THEN i + 1 ELSE i + 1 - M
      /\ (i + 1) % M \in 0 .. (M - 1)
  BY <1>2, GenAroundIs
<1>4. Gen!Advance(i) = (i + 1) % M
  BY <1>1 DEF Gen!Advance
<1>5. QED
  BY <1>1, <1>2, <1>3, <1>4

LEMMA GenInitInv == ASSUME Gen!GenericQueueAssumption, Gen!Init PROVE GenInv
<1>1. Gen!MaxElems \in Nat
  BY GenMaxIs
<1>2. Gen!TypeOK
  BY <1>1 DEF Gen!Init, Gen!TypeOK
<1>3. genQueue \in [0 .. (Gen!MaxElems - 1) -> GenKept]
  BY DEF Gen!Init, GenKept
<1>4. Gen!MaxElems > 0 => (0 + 0) % Gen!MaxElems = 0
  BY <1>1
<1>5. QED
  BY <1>2, <1>3, <1>4 DEF Gen!Init, GenInv

LEMMA GenInvPush ==
  ASSUME Gen!GenericQueueAssumption, GenInv, NEW e \in Elements, Gen!Push(e) PROVE GenInv'
<1>1. CASE Gen!IsFull
  <2>1. UNCHANGED <<genHead, genTail, genCount, genQueue>>
    BY <1>1 DEF Gen!Push
  <2>2. QED
    BY <2>1 DEF GenInv, Gen!TypeOK
<1>2. CASE ~Gen!IsFull
  <2>1. PICK M : M = Gen!MaxElems
    OBVIOUS
  <2>2. /\ M \in Nat \ {0} /\ genCount \in 0 .. (M - 1)
        /\ genHead \in 0 .. (M - 1) /\ genTail \in 0 .. (M - 1)
        /\ genTail = (genHead + genCount) % M
    BY <1>2, <2>1, GenMaxIs DEF GenInv, Gen!TypeOK, Gen!IsFull
  <2>3. /\ genCount' = genCount + 1 /\ genHead' = genHead
        /\ genQueue' = [genQueue EXCEPT ![genTail] = e] /\ genTail' = Gen!Advance(genTail)
    BY <1>2 DEF Gen!Push
  <2>4. /\ genTail' = IF genTail = M - 1 THEN 0 ELSE genTail + 1
        /\ genTail' \in 0 .. (M - 1)
    BY <2>1, <2>2, <2>3, GenAdvanceIs
  <2>5. genCount \in 0 .. M /\ genCount + 1 \in 0 .. M
    BY <2>2
  <2>6. /\ (genHead + genCount) % M = IF genHead + genCount < M THEN genHead + genCount
                                   ELSE genHead + genCount - M
        /\ (genHead + (genCount + 1)) % M =
             IF genHead + (genCount + 1) < M THEN genHead + (genCount + 1)
             ELSE genHead + (genCount + 1) - M
    BY <2>2, <2>5, GenAroundIs
  <2>7. genTail' = (genHead' + genCount') % M
    BY <2>2, <2>3, <2>4, <2>6
  <2>8. Gen!TypeOK'
    BY <2>1, <2>2, <2>3, <2>4, <2>5 DEF Gen!TypeOK, Gen!MaxElems
  <2>9. genQueue' \in [0 .. (Gen!MaxElems - 1) -> GenKept]
    BY <2>1, <2>2, <2>3 DEF GenInv, GenKept
  <2>10. QED
    BY <2>1, <2>7, <2>8, <2>9 DEF GenInv, Gen!MaxElems
<1>3. QED
  BY <1>1, <1>2

LEMMA GenInvPop == ASSUME Gen!GenericQueueAssumption, GenInv, Gen!Pop PROVE GenInv'
<1>1. CASE Gen!IsEmpty
  <2>1. UNCHANGED <<genHead, genTail, genCount, genQueue>>
    BY <1>1 DEF Gen!Pop
  <2>2. QED
    BY <2>1 DEF GenInv, Gen!TypeOK
<1>2. CASE ~Gen!IsEmpty
  <2>1. PICK M : M = Gen!MaxElems
    OBVIOUS
  <2>2. /\ M \in Nat \ {0} /\ genCount \in 1 .. M
        /\ genHead \in 0 .. (M - 1) /\ genTail \in 0 .. (M - 1)
        /\ genTail = (genHead + genCount) % M
    BY <1>2, <2>1, GenMaxIs DEF GenInv, Gen!TypeOK, Gen!IsEmpty
  <2>3. /\ genCount' = genCount - 1 /\ genHead' = Gen!Advance(genHead)
        /\ genQueue' = genQueue /\ genTail' = genTail
    BY <1>2 DEF Gen!Pop
  <2>4. /\ genHead' = IF genHead = M - 1 THEN 0 ELSE genHead + 1
        /\ genHead' \in 0 .. (M - 1)
    BY <2>1, <2>2, <2>3, GenAdvanceIs
  <2>5. genCount \in 0 .. M /\ genCount - 1 \in 0 .. M
    BY <2>2
  <2>6. /\ (genHead + genCount) % M = IF genHead + genCount < M THEN genHead + genCount
                                   ELSE genHead + genCount - M
        /\ (genHead' + (genCount - 1)) % M =
             IF genHead' + (genCount - 1) < M THEN genHead' + (genCount - 1)
             ELSE genHead' + (genCount - 1) - M
    BY <2>2, <2>4, <2>5, GenAroundIs
  <2>7. genTail' = (genHead' + genCount') % M
    BY <2>2, <2>3, <2>4, <2>6
  <2>8. Gen!TypeOK'
    BY <2>1, <2>2, <2>3, <2>4, <2>5 DEF Gen!TypeOK, Gen!MaxElems
  <2>9. QED
    BY <2>1, <2>3, <2>7, <2>8 DEF GenInv, Gen!MaxElems
<1>3. QED
  BY <1>1, <1>2

LEMMA GenInvRenew == ASSUME Gen!GenericQueueAssumption, GenInv, Gen!Renew PROVE GenInv'
<1>1. Gen!MaxElems \in Nat
  BY GenMaxIs
<1>2. Gen!MaxElems > 0 => (0 + 0) % Gen!MaxElems = 0
  BY <1>1
<1>3. Gen!TypeOK'
  BY <1>1 DEF Gen!Renew, Gen!TypeOK, Gen!MaxElems
<1>4. QED
  BY <1>2, <1>3 DEF Gen!Renew, GenInv, Gen!MaxElems

LEMMA GenInductiveStep ==
  ASSUME Gen!GenericQueueAssumption, GenInv, [Gen!Next]_(Gen!vars) PROVE GenInv'
<1>1. CASE UNCHANGED Gen!vars
  BY <1>1 DEF Gen!vars, GenInv, Gen!TypeOK, Gen!MaxElems
<1>2. CASE Gen!Next
  BY <1>2, GenInvPush, GenInvPop, GenInvRenew DEF Gen!Next
<1>3. QED
  BY <1>1, <1>2

(* What is in a queue that begins at h and holds n elements in q, as       *)
(* RankedQueue has it.                                                     *)
GenWaitingIn(h, n, q) ==
  [i \in 1 .. n |-> [rank |-> 0, item |-> q[(h + i - 1) % Gen!MaxElems]]]

GenEntries == [rank : {0}, item : GenKept]

LEMMA GenWaitingIs ==
  ASSUME Gen!GenericQueueAssumption, NEW n \in 0 .. Gen!MaxElems, NEW h, NEW q,
         Gen!MaxElems > 0 => h \in 0 .. (Gen!MaxElems - 1),
         q \in [0 .. (Gen!MaxElems - 1) -> GenKept]
  PROVE  /\ GenWaitingIn(h, n, q) \in Seq(GenEntries) /\ Len(GenWaitingIn(h, n, q)) = n
         /\ n \in Nat
         /\ \A i \in 1 .. n :
              /\ (h + (i - 1)) % Gen!MaxElems \in 0 .. (Gen!MaxElems - 1)
              /\ GenWaitingIn(h, n, q)[i] =
                   [rank |-> 0, item |-> q[(h + (i - 1)) % Gen!MaxElems]]
<1>2. n \in Nat /\ n \in 0 .. Gen!MaxElems /\ Gen!MaxElems \in Nat
  BY GenMaxIs
<1>3. ASSUME NEW i \in 1 .. n
      PROVE  /\ (h + i - 1) % Gen!MaxElems = (h + (i - 1)) % Gen!MaxElems
             /\ (h + (i - 1)) % Gen!MaxElems \in 0 .. (Gen!MaxElems - 1)
  <2>1. Gen!MaxElems \in Nat \ {0} /\ i - 1 \in 0 .. Gen!MaxElems
    BY <1>2
  <2>2. h \in 0 .. (Gen!MaxElems - 1)
    BY <2>1
  <2>3. (h + (i - 1)) % Gen!MaxElems \in 0 .. (Gen!MaxElems - 1)
    BY <2>1, <2>2, GenAroundIs
  <2>4. h + i - 1 = h + (i - 1)
    BY <2>2
  <2>5. QED
    BY <2>3, <2>4
<1>4. PICK w : w = GenWaitingIn(h, n, q)
  OBVIOUS
<1>5. w = [i \in 1 .. n |-> w[i]]
  BY <1>4 DEF GenWaitingIn
<1>6. \A i \in 1 .. n :
        /\ w[i] = [rank |-> 0, item |-> q[(h + (i - 1)) % Gen!MaxElems]]
        /\ q[(h + (i - 1)) % Gen!MaxElems] \in GenKept
  BY <1>3, <1>4 DEF GenWaitingIn
<1>7. \A i \in 1 .. n : w[i] \in GenEntries
  <2>1. \A z \in GenKept : [rank |-> 0, item |-> z] \in GenEntries
    BY DEF GenEntries
  <2>2. QED
    BY <1>6, <2>1
<1>8. w \in Seq(GenEntries) /\ Len(w) = n
  BY <1>2, <1>5, <1>7, ListIs
<1>9. QED
  BY <1>2, <1>3, <1>4, <1>6, <1>8

GenWaiting == GenWaitingIn(genHead, genCount, genQueue)
GenWaitingNext == GenWaitingIn(genHead', genCount', genQueue')

LEMMA GenInitRefines == ASSUME Gen!GenericQueueAssumption, Gen!Init PROVE Gen!R!Init
<1>1. GenWaitingIn(genHead, 0, genQueue) = << >>
  <2>1. 1 .. 0 = {}
    OBVIOUS
  <2>2. QED
    BY <2>1 DEF GenWaitingIn
<1>2. QED
  BY <1>1 DEF Gen!Init, Gen!R!Init, GenWaitingIn

LEMMA GenPushRefines ==
  ASSUME Gen!GenericQueueAssumption, GenInv, GenInv', NEW e \in Elements, Gen!Push(e)
  PROVE  Gen!R!Insert(0, e)
<1>2. /\ Gen!MaxElems \in Nat /\ genCount \in 0 .. Gen!MaxElems
      /\ Gen!MaxElems > 0 => genHead \in 0 .. (Gen!MaxElems - 1)
      /\ Gen!MaxElems > 0 => genTail = (genHead + genCount) % Gen!MaxElems
      /\ genQueue \in [0 .. (Gen!MaxElems - 1) -> GenKept]
      /\ genCount' \in 0 .. Gen!MaxElems /\ (Gen!MaxElems > 0 => genHead' \in 0 .. (Gen!MaxElems - 1))
      /\ genQueue' \in [0 .. (Gen!MaxElems - 1) -> GenKept]
  BY GenMaxIs DEF GenInv, Gen!TypeOK, Gen!MaxElems
<1>3. PICK w : w = GenWaiting
  OBVIOUS
<1>4. PICK v : v = GenWaitingNext
  OBVIOUS
<1>5. /\ w \in Seq(GenEntries) /\ Len(w) = genCount
      /\ \A i \in 1 .. genCount :
           /\ (genHead + (i - 1)) % Gen!MaxElems \in 0 .. (Gen!MaxElems - 1)
           /\ w[i] = [rank |-> 0, item |-> genQueue[(genHead + (i - 1)) % Gen!MaxElems]]
  BY <1>2, <1>3, GenWaitingIs DEF GenWaiting
<1>6. /\ v \in Seq(GenEntries) /\ Len(v) = genCount'
      /\ \A i \in 1 .. genCount' :
           v[i] = [rank |-> 0, item |-> genQueue'[(genHead' + (i - 1)) % Gen!MaxElems]]
  BY <1>2, <1>4, GenWaitingIs DEF GenWaitingNext
<1>7. Gen!R!Insert(0, e) <=>
        IF Len(w) = Gen!MaxElems
        THEN genAnswer' = FALSE /\ v = w
        ELSE /\ genAnswer' = TRUE
             /\ \E k \in 0 .. Len(w) :
                  /\ \A i \in 1 .. k : w[i].rank <= 0
                  /\ \A i \in (k + 1) .. Len(w) : 0 < w[i].rank
                  /\ v = SubSeq(w, 1, k) \o <<Gen!R!Entry(0, e)>>
                            \o SubSeq(w, k + 1, Len(w))
  BY <1>3, <1>4
     DEF Gen!R!Insert, GenWaiting, GenWaitingNext, GenWaitingIn, Gen!MaxElems
<1>8. CASE Gen!IsFull
  <2>1. genCount = Gen!MaxElems /\ genAnswer' = FALSE /\ UNCHANGED <<genHead, genCount, genQueue>>
    BY <1>2, <1>8 DEF Gen!Push, Gen!IsFull
  <2>2. v = w
    BY <1>3, <1>4, <2>1 DEF GenWaiting, GenWaitingNext
  <2>3. QED
    BY <1>5, <1>7, <2>1, <2>2
<1>9. CASE ~Gen!IsFull
  <2>1. genCount < Gen!MaxElems
    BY <1>2, <1>9 DEF Gen!IsFull
  <2>2. /\ genAnswer' = TRUE /\ genHead' = genHead /\ genCount' = genCount + 1
        /\ genQueue' = [genQueue EXCEPT ![genTail] = e]
    BY <1>9 DEF Gen!Push
  <2>3. genTail = (genHead + genCount) % Gen!MaxElems /\ genTail \in 0 .. (Gen!MaxElems - 1)
    <3>1. genHead \in 0 .. (Gen!MaxElems - 1) /\ Gen!MaxElems \in Nat \ {0} /\ genCount \in 0 .. Gen!MaxElems
      BY <1>2, <2>1
    <3>2. (genHead + genCount) % Gen!MaxElems \in 0 .. (Gen!MaxElems - 1)
      BY <3>1, GenAroundIs
    <3>3. QED
      BY <1>2, <2>1, <3>2
  <2>4. ASSUME NEW i \in 1 .. genCount
        PROVE  v[i] = w[i]
    <3>1. Gen!MaxElems \in Nat \ {0} /\ genHead \in 0 .. (Gen!MaxElems - 1) /\ genCount \in 0 .. Gen!MaxElems
          /\ i - 1 \in 0 .. Gen!MaxElems /\ i \in 1 .. genCount'
      BY <1>2, <2>1, <2>2
    <3>2. /\ (genHead + (i - 1)) % Gen!MaxElems = IF genHead + (i - 1) < Gen!MaxElems THEN genHead + (i - 1)
                                     ELSE genHead + (i - 1) - Gen!MaxElems
          /\ (genHead + genCount) % Gen!MaxElems = IF genHead + genCount < Gen!MaxElems THEN genHead + genCount
                                     ELSE genHead + genCount - Gen!MaxElems
      BY <3>1, GenAroundIs
    <3>3. (genHead + (i - 1)) % Gen!MaxElems # genTail
      BY <2>1, <2>3, <3>1, <3>2
    <3>4. genQueue'[(genHead + (i - 1)) % Gen!MaxElems] = genQueue[(genHead + (i - 1)) % Gen!MaxElems]
      BY <1>2, <1>5, <2>2, <3>3
    <3>5. QED
      BY <1>5, <1>6, <2>2, <3>1, <3>4
  <2>5. v[genCount + 1] = [rank |-> 0, item |-> e]
    <3>1. genCount + 1 \in 1 .. genCount' /\ genHead + (genCount + 1 - 1) = genHead + genCount
      BY <1>2, <2>1, <2>2
    <3>2. genQueue'[genTail] = e
      BY <1>2, <2>2, <2>3
    <3>3. (genHead' + (genCount + 1 - 1)) % Gen!MaxElems = genTail
      BY <2>2, <2>3, <3>1
    <3>4. PICK i \in 1 .. genCount' : i = genCount + 1
      BY <3>1
    <3>6. v[i] = [rank |-> 0, item |-> genQueue'[(genHead' + (i - 1)) % Gen!MaxElems]]
      BY <1>6, <3>4
    <3>7. (genHead' + (i - 1)) % Gen!MaxElems = genTail
      <4>1. genHead \in Nat /\ genCount \in Nat
        BY <1>2, <2>1
      <4>2. genHead' + (i - 1) = genHead + genCount
        BY <2>2, <3>4, <4>1
      <4>3. QED
        BY <2>3, <4>2
    <3>5. QED
      BY <3>2, <3>4, <3>6, <3>7
  <2>6. PICK x : x = [rank |-> 0, item |-> e]
    OBVIOUS
  <2>7. PICK r : r = SubSeq(w, 1, genCount) \o <<x>> \o SubSeq(w, genCount + 1, genCount)
    OBVIOUS
  <2>8. x \in GenEntries /\ genCount \in Nat /\ genCount \in 0 .. genCount
    BY <1>2, <2>6 DEF GenEntries, GenKept
  <2>9. /\ r \in Seq(GenEntries) /\ Len(r) = genCount + 1
        /\ \A i \in 1 .. (genCount + 1) :
             r[i] = IF i <= genCount THEN w[i]
                    ELSE IF i = genCount + 1 THEN x ELSE w[i - 1]
    <3>1. /\ Put(w, x, genCount, genCount) \in Seq(GenEntries)
          /\ IsPut(Put(w, x, genCount, genCount), w, x, genCount, genCount)
      BY <1>5, <2>8, PutIn
    <3>2. r = Put(w, x, genCount, genCount)
      BY <2>7 DEF Put
    <3>3. QED
      BY <3>1, <3>2 DEF IsPut
  <2>10. \A i \in 1 .. Len(v) : v[i] = r[i]
    <3>1. \A i \in 1 .. (genCount + 1) : i \in 1 .. genCount \/ i = genCount + 1
      BY <2>8
    <3>2. QED
      BY <1>6, <2>2, <2>4, <2>5, <2>6, <2>8, <2>9, <3>1
  <2>11. v = r
    BY <1>6, <2>2, <2>9, <2>10, SeqEqual
  <2>12. Gen!R!Entry(0, e) = x
    BY <2>6 DEF Gen!R!Entry
  <2>13. /\ \A i \in 1 .. genCount : w[i].rank <= 0
         /\ \A i \in (genCount + 1) .. genCount : 0 < w[i].rank
    BY <1>5, <2>8
  <2>14. Len(w) # Gen!MaxElems
    BY <1>2, <1>5, <2>1
  <2>15. QED
    BY <1>5, <1>7, <2>2, <2>7, <2>8, <2>11, <2>12, <2>13, <2>14
<1>10. QED
  BY <1>8, <1>9

LEMMA GenPopRefines ==
  ASSUME Gen!GenericQueueAssumption, GenInv, GenInv', Gen!Pop PROVE Gen!R!Pop
<1>1. /\ Gen!MaxElems \in Nat /\ genCount \in 0 .. Gen!MaxElems
      /\ Gen!MaxElems > 0 => genHead \in 0 .. (Gen!MaxElems - 1)
      /\ genQueue \in [0 .. (Gen!MaxElems - 1) -> GenKept]
      /\ genCount' \in 0 .. Gen!MaxElems
      /\ Gen!MaxElems > 0 => genHead' \in 0 .. (Gen!MaxElems - 1)
      /\ genQueue' = genQueue
  BY GenMaxIs DEF GenInv, Gen!TypeOK, Gen!MaxElems, Gen!Pop
<1>2. PICK w : w = GenWaiting
  OBVIOUS
<1>3. PICK v : v = GenWaitingNext
  OBVIOUS
<1>4. /\ w \in Seq(GenEntries) /\ Len(w) = genCount
      /\ \A i \in 1 .. genCount :
           /\ (genHead + (i - 1)) % Gen!MaxElems \in 0 .. (Gen!MaxElems - 1)
           /\ w[i] = [rank |-> 0, item |-> genQueue[(genHead + (i - 1)) % Gen!MaxElems]]
  BY <1>1, <1>2, GenWaitingIs DEF GenWaiting
<1>5. /\ v \in Seq(GenEntries) /\ Len(v) = genCount' /\ genCount' \in Nat
      /\ \A i \in 1 .. genCount' :
           v[i] = [rank |-> 0, item |-> genQueue[(genHead' + (i - 1)) % Gen!MaxElems]]
  BY <1>1, <1>3, GenWaitingIs DEF GenWaitingNext
<1>6. Gen!R!Pop <=>
        /\ genAnswer' = IF w = << >> THEN None ELSE w[1].item
        /\ v = [i \in 1 .. (Len(w) - 1) |->
                  [w[i + 1] EXCEPT !.rank = @ - 0]]
  BY <1>2, <1>3 DEF Gen!R!Pop, Gen!R!Served, GenWaiting, GenWaitingNext, GenWaitingIn, Gen!MaxElems
<1>7. CASE Gen!IsEmpty
  <2>1. genCount = 0 /\ genCount' = 0 /\ genAnswer' = None
    BY <1>7 DEF Gen!Pop, Gen!IsEmpty
  <2>2. w = << >> /\ v = << >>
    BY <1>4, <1>5, <2>1, EmptySeq
  <2>3. Len(w) = 0 /\ 1 .. (0 - 1) = {}
    BY <1>4, <2>1
  <2>4. [i \in 1 .. (Len(w) - 1) |-> [w[i + 1] EXCEPT !.rank = @ - 0]] = << >>
    BY <2>3
  <2>5. QED
    BY <1>6, <2>1, <2>2, <2>4
<1>8. CASE ~Gen!IsEmpty
  <2>1. genCount \in 1 .. Gen!MaxElems /\ Gen!MaxElems \in Nat \ {0}
    BY <1>1, <1>8 DEF Gen!IsEmpty
  <2>2. /\ genCount' = genCount - 1 /\ genHead' = Gen!Advance(genHead)
        /\ genAnswer' = genQueue[genHead]
    BY <1>8 DEF Gen!Pop
  <2>3. genHead' = IF genHead = Gen!MaxElems - 1 THEN 0 ELSE genHead + 1
    BY <1>1, <2>1, <2>2, GenAdvanceIs
  <2>4. w[1].item = genQueue[genHead] /\ w # << >>
    <3>1. 1 \in 1 .. genCount /\ 0 \in 0 .. Gen!MaxElems /\ 1 - 1 = 0
      BY <2>1
    <3>2. (genHead + 0) % Gen!MaxElems = genHead
      BY <1>1, <2>1, <3>1, GenAroundIs
    <3>3. w[1] = [rank |-> 0, item |-> genQueue[genHead]]
      BY <1>4, <3>1, <3>2
    <3>4. QED
      BY <1>4, <2>1, <3>3, EmptySeq
  <2>5. ASSUME NEW i \in 1 .. (genCount - 1)
        PROVE  v[i] = [w[i + 1] EXCEPT !.rank = @ - 0]
    <3>1. /\ i - 1 \in 0 .. Gen!MaxElems /\ i \in 0 .. Gen!MaxElems
          /\ genHead \in 0 .. (Gen!MaxElems - 1) /\ genHead' \in 0 .. (Gen!MaxElems - 1)
          /\ i + 1 \in 1 .. genCount /\ i + 1 - 1 = i /\ i \in 1 .. genCount'
      BY <1>1, <2>1, <2>2
    <3>2. /\ (genHead + i) % Gen!MaxElems = IF genHead + i < Gen!MaxElems THEN genHead + i
                                     ELSE genHead + i - Gen!MaxElems
          /\ (genHead' + (i - 1)) % Gen!MaxElems =
               IF genHead' + (i - 1) < Gen!MaxElems THEN genHead' + (i - 1)
               ELSE genHead' + (i - 1) - Gen!MaxElems
      BY <2>1, <3>1, GenAroundIs
    <3>3. (genHead' + (i - 1)) % Gen!MaxElems = (genHead + i) % Gen!MaxElems
      BY <1>1, <2>1, <2>3, <3>1, <3>2
    <3>4. w[i + 1] = [rank |-> 0, item |-> genQueue[(genHead + i) % Gen!MaxElems]]
      BY <1>4, <3>1
    <3>5. v[i] = [rank |-> 0, item |-> genQueue[(genHead + i) % Gen!MaxElems]]
      BY <1>5, <3>1, <3>3
    <3>6. [w[i + 1] EXCEPT !.rank = @ - 0]
            = [rank |-> 0, item |-> genQueue[(genHead + i) % Gen!MaxElems]]
      BY <3>4
    <3>7. QED
      BY <3>5, <3>6
  <2>6. v = [i \in 1 .. (genCount - 1) |-> v[i]]
    BY <1>5, <2>2, LenProperties
  <2>7. v = [i \in 1 .. (genCount - 1) |-> [w[i + 1] EXCEPT !.rank = @ - 0]]
    BY <2>5, <2>6
  <2>8. QED
    BY <1>4, <1>6, <2>2, <2>4, <2>7
<1>9. QED
  BY <1>7, <1>8

LEMMA GenRenewRefines == ASSUME Gen!Renew PROVE Gen!R!Clear
<1>1. GenWaitingIn(0, 0, genQueue') = << >>
  <2>1. 1 .. 0 = {}
    OBVIOUS
  <2>2. QED
    BY <2>1 DEF GenWaitingIn
<1>2. QED
  BY <1>1 DEF Gen!Renew, Gen!R!Clear, GenWaitingIn, Gen!MaxElems

LEMMA GenStepRefines ==
  ASSUME Gen!GenericQueueAssumption, GenInv, GenInv', [Gen!Next]_(Gen!vars)
  PROVE  [Gen!R!Next]_(Gen!R!qvars)
<1>1. CASE UNCHANGED Gen!vars
  BY <1>1 DEF Gen!vars, Gen!R!qvars, Gen!MaxElems
<1>2. CASE Gen!Next
  <2>1. CASE \E e \in Elements : Gen!Push(e)
    BY <2>1, GenPushRefines DEF Gen!R!Next
  <2>2. CASE Gen!Pop
    BY <2>2, GenPopRefines DEF Gen!R!Next
  <2>3. CASE Gen!Renew
    BY <2>3, GenRenewRefines DEF Gen!R!Next
  <2>4. QED
    BY <1>2, <2>1, <2>2, <2>3 DEF Gen!Next
<1>3. QED
  BY <1>1, <1>2

(* Whatever its size, the buffer stays in its memory, and the elements     *)
(* from head on end at tail.                                               *)
THEOREM GenInvariance == Gen!GenericQueueAssumption => (Gen!Spec => []GenInv)
<1>1. SUFFICES ASSUME Gen!GenericQueueAssumption PROVE Gen!Spec => []GenInv
  OBVIOUS
<1>2. Gen!Init => GenInv
  BY <1>1, GenInitInv
<1>3. GenInv /\ [Gen!Next]_(Gen!vars) => GenInv'
  BY <1>1, GenInductiveStep
<1>4. QED
  BY <1>2, <1>3, PTL DEF Gen!Spec

(* Elements come out in the order they went in, as many as fit whole into  *)
(* the memory, however often head and tail go around.                      *)
THEOREM GenRefines == Gen!GenericQueueAssumption => (Gen!Spec => Gen!ImplementsQueue)
<1>1. SUFFICES ASSUME Gen!GenericQueueAssumption PROVE Gen!Spec => Gen!ImplementsQueue
  OBVIOUS
<1>2. Gen!Init => Gen!R!Init
  BY <1>1, GenInitRefines
<1>3. GenInv /\ GenInv' /\ [Gen!Next]_(Gen!vars) => [Gen!R!Next]_(Gen!R!qvars)
  BY <1>1, GenStepRefines
<1>4. Gen!Spec => []GenInv
  BY <1>1, GenInvariance
<1>5. Gen!Spec => Gen!R!Init /\ [][Gen!R!Next]_(Gen!R!qvars)
  BY <1>2, <1>3, <1>4, PTL DEF Gen!Spec
<1>6. QED
  BY <1>5 DEF Gen!ImplementsQueue, Gen!R!Spec

-----------------------------------------------------------------------------
(* blinky: the led is as its phase has it, and the difference of the two   *)
(* times that the code takes is the time since the last change for as long *)
(* as that can be told.                                                    *)

LedInv ==
  /\ Led!TypeOK
  /\ ledState = Led!S!Lit(ledIndex + 1, ledInitial)
  /\ ledWatch # None => (ledClock - ledTime) % TimeMod = ledWatch

(* The difference of two times, and of one tick later.                     *)
LEMMA LedPassed ==
  ASSUME NEW M \in Nat \ {0}, NEW a \in 0 .. (M - 1), NEW b \in 0 .. (M - 1)
  PROVE  /\ (a - b) % M = IF b <= a THEN a - b ELSE a - b + M
         /\ (a - b) % M \in 0 .. (M - 1)
         /\ (a + 1) % M = IF a = M - 1 THEN 0 ELSE a + 1
         /\ (a + 1) % M \in 0 .. (M - 1)
<1>1. /\ (a - b) % M = IF b <= a THEN a - b ELSE a - b + M
      /\ (a - b) % M \in 0 .. (M - 1)
  <2>1. CASE b <= a
    <3>1. a - b \in 0 .. (M - 1)
      BY <2>1
    <3>2. (a - b) % M = a - b
      BY <3>1
    <3>3. QED
      BY <2>1, <3>1, <3>2
  <2>2. CASE b > a
    <3>1. a - b + M \in 0 .. (M - 1)
      BY <2>2
    <3>2. (a - b) % M = a - b + M
      BY <3>1
    <3>3. QED
      BY <2>2, <3>1, <3>2
  <2>3. QED
    BY <2>1, <2>2
<1>2. /\ (a + 1) % M = IF a = M - 1 THEN 0 ELSE a + 1
      /\ (a + 1) % M \in 0 .. (M - 1)
  <2>1. CASE a = M - 1
    <3>1. M % M = 0
      OBVIOUS
    <3>2. QED
      BY <2>1, <3>1
  <2>2. CASE a # M - 1
    <3>1. a + 1 \in 0 .. (M - 1)
      BY <2>2
    <3>2. QED
      BY <2>2, <3>1
  <2>3. QED
    BY <2>1, <2>2
<1>3. QED
  BY <1>1, <1>2

LEMMA LedTickPasses ==
  ASSUME NEW M \in Nat \ {0}, NEW a \in 0 .. (M - 1), NEW b \in 0 .. (M - 1),
         (a - b) % M # M - 1
  PROVE  (((a + 1) % M) - b) % M = ((a - b) % M) + 1
<1>1. PICK c : c = (a + 1) % M
  OBVIOUS
<1>2. /\ c = IF a = M - 1 THEN 0 ELSE a + 1
      /\ c \in 0 .. (M - 1)
      /\ (a - b) % M = IF b <= a THEN a - b ELSE a - b + M
  BY <1>1, LedPassed
<1>3. (c - b) % M = IF b <= c THEN c - b ELSE c - b + M
  BY <1>2, LedPassed
<1>4. QED
  BY <1>1, <1>2, <1>3

LEMMA LedTurns ==
  ASSUME NEW n \in Nat, NEW f \in BOOLEAN
  PROVE  Led!S!Lit(1, f) = f /\ Led!S!Lit(n + 1 + 1, f) = ~Led!S!Lit(n + 1, f)
<1>1. 1 % 2 = 1 /\ ((n + 1 + 1) % 2 = 1 <=> (n + 1) % 2 # 1)
  OBVIOUS
<1>2. QED
  BY <1>1, Zenon DEF Led!S!Lit

LEMMA LedInitInv == ASSUME Led!BlinkyAssumption, Led!Init PROVE LedInv
<1>1. Led!TypeOK /\ ledWatch = None
  BY DEF Led!Init, Led!TypeOK, Led!BlinkyAssumption
<1>2. ledIndex + 1 = 1 /\ 1 \in Nat /\ ledInitial \in BOOLEAN /\ ledState = ledInitial
  BY DEF Led!Init
<1>3. Led!S!Lit(1, ledInitial) = ledInitial
  <2>1. 0 \in Nat
    OBVIOUS
  <2>2. QED
    BY <1>2, <2>1, LedTurns
<1>4. QED
  BY <1>1, <1>2, <1>3 DEF LedInv

LEMMA LedInvTick == ASSUME Led!BlinkyAssumption, LedInv, Led!Tick PROVE LedInv'
<1>1. /\ TimeMod \in Nat \ {0} /\ ledClock \in 0 .. (TimeMod - 1) /\ ledTime \in 0 .. (TimeMod - 1)
      /\ ledWatch \in 0 .. (TimeMod - 1) \cup {None} /\ None \notin Nat
      /\ ledClock' = (ledClock + 1) % TimeMod
      /\ ledWatch' = IF ledWatch \in {None, TimeMod - 1} THEN None ELSE ledWatch + 1
      /\ UNCHANGED Led!handler
  BY DEF LedInv, Led!TypeOK, Led!Tick, Led!BlinkyAssumption
<1>2. ledClock' \in 0 .. (TimeMod - 1)
  BY <1>1, LedPassed
<1>3. ledWatch' \in 0 .. (TimeMod - 1) \cup {None}
  BY <1>1
<1>4. ASSUME ledWatch' # None PROVE (ledClock' - ledTime') % TimeMod = ledWatch'
  <2>1. /\ ledWatch # None /\ ledWatch # TimeMod - 1 /\ ledWatch' = ledWatch + 1 /\ ledTime' = ledTime
    BY <1>1, <1>4 DEF Led!handler
  <2>2. (ledClock - ledTime) % TimeMod = ledWatch
    BY <2>1 DEF LedInv
  <2>3. (((ledClock + 1) % TimeMod) - ledTime) % TimeMod = ((ledClock - ledTime) % TimeMod) + 1
    BY <1>1, <2>1, <2>2, LedTickPasses
  <2>4. QED
    BY <1>1, <2>1, <2>2, <2>3
<1>5. Led!TypeOK'
  BY <1>1, <1>2, <1>3 DEF LedInv, Led!TypeOK, Led!handler
<1>6. QED
  BY <1>1, <1>4, <1>5 DEF LedInv, Led!handler, Led!S!Lit

LEMMA LedInvRoutine == ASSUME Led!BlinkyAssumption, LedInv, Led!Routine PROVE LedInv'
<1>1. /\ ledTime' = ledClock /\ ledWatch' = 0
      /\ UNCHANGED <<ledPattern, ledInitial, ledRepeat, ledClock>>
      /\ ledIndex \in Nat /\ ledInitial \in BOOLEAN /\ ledRepeat \in BOOLEAN
      /\ ledEnable \in BOOLEAN /\ TimeMod \in Nat \ {0} /\ ledClock \in 0 .. (TimeMod - 1)
      /\ ledState = Led!S!Lit(ledIndex + 1, ledInitial) /\ ledPattern \in Patterns
  BY DEF LedInv, Led!TypeOK, Led!Routine, Led!BlinkyAssumption
<1>2. (ledClock' - ledTime') % TimeMod = ledWatch'
  <2>1. ledClock - ledClock = 0 /\ 0 % TimeMod = 0
    BY <1>1
  <2>2. QED
    BY <1>1, <2>1
<1>3. Led!S!Lit(1, ledInitial) = ledInitial
      /\ Led!S!Lit(ledIndex + 1 + 1, ledInitial) = ~Led!S!Lit(ledIndex + 1, ledInitial)
  BY <1>1, LedTurns
<1>4. \/ ledIndex' = 0 /\ ledState' = ledInitial /\ ledEnable' = ledRepeat
      \/ ledIndex' = ledIndex + 1 /\ ledState' = ~ledState /\ ledEnable' = ledEnable
  BY DEF Led!Routine
<1>5. Led!S!Lit(ledIndex + 1, ledInitial) \in BOOLEAN
  BY <1>1, Zenon DEF Led!S!Lit
<1>6. CASE ledIndex' = 0 /\ ledState' = ledInitial /\ ledEnable' = ledRepeat
  <2>1. ledIndex' + 1 = 1 /\ ledIndex' \in Nat
    BY <1>6
  <2>2. Led!TypeOK'
    BY <1>1, <1>6 DEF Led!TypeOK
  <2>3. ledState' = Led!S!Lit(ledIndex' + 1, ledInitial')
    BY <1>1, <1>3, <1>6, <2>1
  <2>4. QED
    BY <1>2, <2>2, <2>3 DEF LedInv, Led!S!Lit
<1>7. CASE ledIndex' = ledIndex + 1 /\ ledState' = ~ledState /\ ledEnable' = ledEnable
  <2>1. Led!TypeOK'
    BY <1>1, <1>5, <1>7 DEF Led!TypeOK
  <2>2. ledState' = Led!S!Lit(ledIndex' + 1, ledInitial')
    BY <1>1, <1>3, <1>7
  <2>3. QED
    BY <1>2, <2>1, <2>2 DEF LedInv, Led!S!Lit
<1>8. QED
  BY <1>4, <1>6, <1>7

LEMMA LedInvSettings ==
  ASSUME Led!BlinkyAssumption, LedInv, NEW b \in BOOLEAN, NEW p \in Patterns,
         Led!Enable(b) \/ Led!Repeat(b) \/ Led!Reset(b) \/ Led!SetPattern(p)
  PROVE  LedInv'
<1>1. CASE Led!Enable(b) \/ Led!Repeat(b) \/ Led!SetPattern(p)
  <2>1. Led!TypeOK'
    BY <1>1 DEF LedInv, Led!TypeOK, Led!Enable, Led!Repeat, Led!SetPattern
  <2>2. UNCHANGED <<ledState, ledIndex, ledInitial, ledWatch, ledClock, ledTime>>
    BY <1>1 DEF Led!Enable, Led!Repeat, Led!SetPattern
  <2>3. QED
    BY <2>1, <2>2 DEF LedInv, Led!S!Lit
<1>2. CASE Led!Reset(b)
  <2>1. Led!TypeOK' /\ ledWatch' = None
    BY <1>2 DEF LedInv, Led!TypeOK, Led!Reset, Led!BlinkyAssumption
  <2>2. ledIndex' + 1 = 1 /\ ledInitial' = b /\ ledState' = b
    BY <1>2 DEF Led!Reset
  <2>3. Led!S!Lit(1, b) = b
    <3>1. 0 \in Nat
      OBVIOUS
    <3>2. QED
      BY <3>1, LedTurns
  <2>4. ledState' = Led!S!Lit(ledIndex' + 1, ledInitial')
    BY <2>2, <2>3
  <2>5. QED
    BY <2>1, <2>4 DEF LedInv, Led!S!Lit
<1>3. QED
  BY <1>1, <1>2

LEMMA LedInvStep ==
  ASSUME Led!BlinkyAssumption, LedInv, [Led!Next]_(Led!vars) PROVE LedInv'
<1>1. CASE UNCHANGED Led!vars
  BY <1>1 DEF Led!vars, Led!handler, LedInv, Led!TypeOK, Led!S!Lit
<1>2. CASE Led!RoutineIdle
  <2>1. UNCHANGED Led!vars
    BY <1>2 DEF Led!RoutineIdle
  <2>2. QED
    BY <1>1, <2>1
<1>3. CASE \E b \in BOOLEAN : Led!Enable(b) \/ Led!Repeat(b) \/ Led!Reset(b)
  <2>1. ledPattern \in Patterns
    BY DEF LedInv, Led!TypeOK
  <2>2. QED
    BY <1>3, <2>1, LedInvSettings
<1>4. CASE \E p \in Patterns : Led!SetPattern(p)
  BY <1>4, LedInvSettings
<1>5. QED
  BY <1>1, <1>2, <1>3, <1>4, LedInvTick, LedInvRoutine DEF Led!Next

LEMMA LedTickRefines == ASSUME Led!BlinkyAssumption, LedInv, Led!Tick PROVE Led!S!Pass
<1>1. /\ TimeMod \in Nat \ {0} /\ ledWatch \in 0 .. (TimeMod - 1) \cup {None}
      /\ None \notin Nat
  BY DEF LedInv, Led!TypeOK, Led!BlinkyAssumption
<1>2. ledWatch \in {None, TimeMod - 1} <=> ledWatch = None \/ ledWatch + 1 = TimeMod
  BY <1>1
<1>3. QED
  BY <1>2 DEF Led!Tick, Led!S!Pass, Led!handler

(* What the code finds expired may be over, and what it does not may not.  *)
LEMMA LedOverIs ==
  ASSUME Led!BlinkyAssumption, LedInv
  PROVE  /\ Led!Expired \subseteq Led!S!Over /\ Len(ledPattern) \in Nat /\ ledIndex \in Nat
<1>1. /\ ledIndex \in Nat /\ Len(ledPattern) \in Nat
      /\ TimeMod \in Nat \ {0} /\ ledTime \in 0 .. (TimeMod - 1) /\ ledClock \in 0 .. (TimeMod - 1)
      /\ ledWatch # None => (ledClock - ledTime) % TimeMod = ledWatch
  BY LenProperties DEF LedInv, Led!TypeOK, Led!BlinkyAssumption
<1>2. ((ledClock - ledTime) % TimeMod >= ledPattern[ledIndex + 1]) \in BOOLEAN
  OBVIOUS
<1>3. ledIndex + 1 > Len(ledPattern) <=> ~(ledIndex < Len(ledPattern))
  BY <1>1
<1>4. CASE ledIndex < Len(ledPattern) /\ ledWatch # None
  <2>1. Led!S!Over = { ledWatch >= ledPattern[ledIndex + 1] }
    BY <1>3, <1>4 DEF Led!S!Over
  <2>2. Led!Expired = { ledWatch >= ledPattern[ledIndex + 1] }
    BY <1>1, <1>4 DEF Led!Expired
  <2>3. QED
    BY <1>1, <2>1, <2>2
<1>5. CASE ~(ledIndex < Len(ledPattern)) \/ ledWatch = None
  <2>1. Led!S!Over = BOOLEAN
    BY <1>3, <1>5 DEF Led!S!Over
  <2>2. Led!Expired \subseteq BOOLEAN
    BY <1>2 DEF Led!Expired
  <2>3. QED
    BY <1>1, <2>1, <2>2
<1>6. QED
  BY <1>4, <1>5

LEMMA LedRoutineRefines ==
  ASSUME Led!BlinkyAssumption, LedInv, LedInv', Led!Routine PROVE Led!S!Look
<1>1. /\ Led!Expired \subseteq Led!S!Over /\ Len(ledPattern) \in Nat /\ ledIndex \in Nat
  BY LedOverIs
<1>2. ledEnable \in BOOLEAN /\ ledEnable /\ TRUE \in Led!Expired
  BY DEF LedInv, Led!TypeOK, Led!Routine
<1>3. /\ ledWatch' = 0 /\ ledState' = Led!S!Lit(ledIndex' + 1, ledInitial)
      /\ UNCHANGED <<ledPattern, ledInitial, ledRepeat>> /\ ledRepeat \in BOOLEAN
  BY DEF LedInv, Led!TypeOK, Led!Routine, Led!S!Lit
<1>4. ledIndex + 1 >= Len(ledPattern) <=> ~(ledIndex + 1 < Len(ledPattern))
  BY <1>1
<1>5. /\ ledIndex' + 1 = IF ledIndex + 1 < Len(ledPattern) THEN ledIndex + 1 + 1 ELSE 1
      /\ ledEnable' = (ledIndex + 1 < Len(ledPattern) \/ ledRepeat)
  <2>1. CASE ledIndex + 1 < Len(ledPattern)
    <3>1. ledIndex' = ledIndex + 1 /\ ledEnable' = ledEnable
      BY <1>4, <2>1 DEF Led!Routine
    <3>2. ledEnable' = TRUE
      BY <1>2, <3>1
    <3>3. QED
      BY <2>1, <3>1, <3>2
  <2>2. CASE ~(ledIndex + 1 < Len(ledPattern))
    <3>1. ledIndex' = 0 /\ ledEnable' = ledRepeat
      BY <1>4, <2>2 DEF Led!Routine
    <3>2. ledIndex' + 1 = 1
      BY <3>1
    <3>3. ledRepeat = (ledIndex + 1 < Len(ledPattern) \/ ledRepeat)
      BY <1>3, <2>2, Zenon
    <3>4. QED
      BY <2>2, <3>1, <3>2, <3>3
  <2>3. QED
    BY <2>1, <2>2
<1>6. TRUE \in Led!S!Over /\ ledEnable = TRUE
  BY <1>1, <1>2
<1>7. QED
  BY <1>3, <1>5, <1>6 DEF Led!S!Look, Led!S!Lit

LEMMA LedRoutineIdleRefines ==
  ASSUME Led!BlinkyAssumption, LedInv, Led!RoutineIdle PROVE UNCHANGED Led!S!lampVars
  BY DEF Led!RoutineIdle, Led!vars, Led!handler, Led!S!lampVars

LEMMA LedStepRefines ==
  ASSUME Led!BlinkyAssumption, LedInv, LedInv', [Led!Next]_(Led!vars)
  PROVE  [Led!S!Next]_(Led!S!lampVars)
<1>1. CASE UNCHANGED Led!vars
  BY <1>1 DEF Led!vars, Led!handler, Led!S!lampVars
<1>2. CASE Led!Tick
  BY <1>2, LedTickRefines DEF Led!S!Next
<1>3. CASE Led!Routine
  BY <1>3, LedRoutineRefines DEF Led!S!Next
<1>4. CASE Led!RoutineIdle
  BY <1>4, LedRoutineIdleRefines
<1>5. CASE \E b \in BOOLEAN : Led!Enable(b) \/ Led!Repeat(b) \/ Led!Reset(b)
  <2>1. PICK b \in BOOLEAN : Led!Enable(b) \/ Led!Repeat(b) \/ Led!Reset(b)
    BY <1>5
  <2>2. Led!S!Run(b) \/ Led!S!Repeat(b) \/ Led!S!Restart(b)
    <3>1. 0 + 1 = 1
      OBVIOUS
    <3>2. QED
      BY <2>1, <3>1 DEF Led!Enable, Led!Repeat, Led!Reset, Led!S!Run, Led!S!Repeat, Led!S!Restart
  <2>3. QED
    BY <2>2 DEF Led!S!Next
<1>6. CASE \E p \in Patterns : Led!SetPattern(p)
  <2>1. PICK p \in Patterns : Led!SetPattern(p)
    BY <1>6
  <2>2. Led!S!Change(p)
    BY <2>1 DEF Led!SetPattern, Led!S!Change
  <2>3. QED
    BY <2>2 DEF Led!S!Next
<1>7. QED
  BY <1>1, <1>2, <1>3, <1>4, <1>5, <1>6 DEF Led!Next

-----------------------------------------------------------------------------
(* Lists of nodes: a walk along the links is what satisfies its recursion, *)
(* for there is only one function that does.                               *)
LEMMA LeastOf ==
  ASSUME NEW S \in SUBSET Nat, S # {}
  PROVE  \E x \in S : \A y \in S : x <= y
<1>1. IsWellFoundedOn(OpToRel(<, Nat), Nat)
  BY NatLessThanWellFounded, Zenon
<1>2. PICK x \in S : \A y \in S : ~(<<y, x>> \in OpToRel(<, Nat))
  BY <1>1, WFMin, Zenon
<1>3. \A y \in S : ~(y < x)
  BY <1>2 DEF OpToRel
<1>4. QED
  BY <1>3

Walk(link, n, c, null) ==
  LET node[k \in 0 .. c] ==
        IF k = 0 THEN n
        ELSE IF node[k - 1] = null THEN null ELSE link[node[k - 1]]
  IN  node

LEMMA WalkIs ==
  ASSUME NEW link, NEW n, NEW c \in Nat, NEW null, NEW f,
         f = [k \in 0 .. c |->
                IF k = 0 THEN n
                ELSE IF f[k - 1] = null THEN null ELSE link[f[k - 1]]]
  PROVE  Walk(link, n, c, null) = f
<1>1. PICK g : g = Walk(link, n, c, null)
  OBVIOUS
<1>2. g = [k \in 0 .. c |->
             IF k = 0 THEN n
             ELSE IF g[k - 1] = null THEN null ELSE link[g[k - 1]]]
  BY <1>1 DEF Walk
<1>3. PICK S \in SUBSET Nat : S = { k \in 0 .. c : g[k] # f[k] }
  <2>1. { k \in 0 .. c : g[k] # f[k] } \subseteq Nat
    OBVIOUS
  <2>2. QED
    BY <2>1
<1>4. CASE S = {}
  <2>1. \A k \in 0 .. c : g[k] = f[k]
    BY <1>3, <1>4
  <2>2. g = [k \in 0 .. c |-> g[k]] /\ f = [k \in 0 .. c |-> f[k]]
    BY <1>2
  <2>3. QED
    BY <1>1, <2>1, <2>2
<1>5. CASE S # {}
  <2>1. PICK k \in S : \A j \in S : k <= j
    BY <1>5, LeastOf
  <2>2. k \in 0 .. c /\ g[k] # f[k]
    BY <1>3, <2>1
  <2>3. g[0] = n /\ f[0] = n
    <3>1. 0 \in 0 .. c
      OBVIOUS
    <3>2. QED
      BY <1>2, <3>1
  <2>4. k # 0 /\ k - 1 \in 0 .. c /\ ~(k <= k - 1)
    BY <2>2, <2>3
  <2>5. g[k - 1] = f[k - 1]
    BY <1>3, <2>1, <2>4
  <2>6. /\ g[k] = IF g[k - 1] = null THEN null ELSE link[g[k - 1]]
        /\ f[k] = IF f[k - 1] = null THEN null ELSE link[f[k - 1]]
    BY <1>2, <2>2, <2>4
  <2>7. QED
    BY <2>2, <2>5, <2>6
<1>6. QED
  BY <1>4, <1>5

(* From h, the nodes of o from place a + 1 to place b are linked up, and   *)
(* null ends them.                                                         *)
Linked(link, o, a, b, null) ==
  \A i \in (a + 1) .. b : link[o[i]] = IF i = b THEN null ELSE o[i + 1]

LEMMA WalkAlong ==
  ASSUME NEW link, NEW o, NEW a \in Nat, NEW b \in Nat, NEW c \in Nat, NEW null,
         a <= b, b - a <= c,
         \A i \in (a + 1) .. b : o[i] # null,
         Linked(link, o, a, b, null)
  PROVE  Walk(link, IF a = b THEN null ELSE o[a + 1], c, null)
           = [k \in 0 .. c |-> IF k < b - a THEN o[a + k + 1] ELSE null]
<1>1. PICK f : f = [k \in 0 .. c |-> IF k < b - a THEN o[a + k + 1] ELSE null]
  OBVIOUS
<1>2. PICK n : n = IF a = b THEN null ELSE o[a + 1]
  OBVIOUS
<1>3. ASSUME NEW k \in 0 .. c
      PROVE  f[k] = IF k = 0 THEN n
                    ELSE IF f[k - 1] = null THEN null ELSE link[f[k - 1]]
  <2>1. CASE k = 0
    <3>1. f[0] = IF 0 < b - a THEN o[a + 0 + 1] ELSE null
      BY <1>1, <2>1
    <3>2. a + 0 + 1 = a + 1 /\ (0 < b - a <=> a # b)
      OBVIOUS
    <3>3. QED
      BY <1>2, <2>1, <3>1, <3>2
  <2>2. CASE k # 0
    <3>1. k - 1 \in 0 .. c
      BY <2>2
    <3>2. PICK j \in 0 .. c : j = k - 1
      BY <3>1
    <3>3. /\ f[j] = IF j < b - a THEN o[a + j + 1] ELSE null
          /\ f[k] = IF k < b - a THEN o[a + k + 1] ELSE null
      BY <1>1
    <3>4. CASE j < b - a
      <4>1. PICK i \in (a + 1) .. b : i = a + j + 1
        BY <3>4
      <4>2. f[j] = o[i] /\ o[i] # null
        BY <3>3, <3>4, <4>1
      <4>3. link[o[i]] = IF i = b THEN null ELSE o[i + 1]
        BY DEF Linked
      <4>4. (i = b <=> ~(k < b - a)) /\ i + 1 = a + k + 1
        BY <3>2, <4>1
      <4>5. link[f[j]] = f[k]
        BY <3>3, <4>2, <4>3, <4>4
      <4>6. QED
        BY <2>2, <3>2, <4>2, <4>5
    <3>5. CASE ~(j < b - a)
      <4>1. f[j] = null /\ f[k] = null
        BY <3>2, <3>3, <3>5
      <4>2. QED
        BY <2>2, <3>2, <4>1
    <3>6. QED
      BY <3>4, <3>5
  <2>3. QED
    BY <2>1, <2>2
<1>4. f = [k \in 0 .. c |->
             IF k = 0 THEN n
             ELSE IF f[k - 1] = null THEN null ELSE link[f[k - 1]]]
  <2>1. f = [k \in 0 .. c |-> f[k]]
    BY <1>1
  <2>2. QED
    BY <1>3, <2>1
<1>5. Walk(link, n, c, null) = f
  BY <1>4, WalkIs
<1>6. QED
  BY <1>1, <1>2, <1>5

-----------------------------------------------------------------------------
(* priority-queue: priorities that wrap around, taken as signed numbers.   *)

LEMMA PqModIs ==
  ASSUME NEW M \in Nat \ {0}, NEW d \in Int, -M <= d, d < M + M
  PROVE  /\ d % M = IF d < 0 THEN d + M ELSE IF d < M THEN d ELSE d - M
         /\ d % M \in 0 .. (M - 1)
<1>1. CASE d < 0
  <2>1. d + M \in 0 .. (M - 1)
    BY <1>1
  <2>2. d % M = d + M
    BY <2>1
  <2>3. QED
    BY <1>1, <2>1, <2>2
<1>2. CASE d >= 0 /\ d < M
  <2>1. d \in 0 .. (M - 1)
    BY <1>2
  <2>2. d % M = d
    BY <2>1
  <2>3. QED
    BY <1>2, <2>1, <2>2
<1>3. CASE d >= M
  <2>1. d - M \in 0 .. (M - 1)
    BY <1>3
  <2>2. d % M = d - M
    BY <2>1
  <2>3. QED
    BY <1>3, <2>1, <2>2
<1>4. QED
  BY <1>1, <1>2, <1>3

LEMMA PqSignedIs ==
  ASSUME Pq!PriorityQueueAssumption, NEW a \in 0 .. (Pq!Modulus - 1)
  PROVE  /\ Pq!Signed(a) = IF a < Half THEN a ELSE a - Pq!Modulus
         /\ Pq!Signed(a) \in -Half .. (Half - 1)
         /\ Half \in Nat \ {0} /\ Pq!Modulus \in Nat \ {0} /\ Pq!Modulus = Half + Half
<1>1. /\ Half \in Nat \ {0} /\ Pq!Modulus \in Nat \ {0} /\ Pq!Modulus = Half + Half
  BY DEF Pq!PriorityQueueAssumption, Pq!Modulus
<1>2. PICK d \in Int : d = a + Half
  BY <1>1
<1>3. -Pq!Modulus <= d /\ d < Pq!Modulus + Pq!Modulus
  BY <1>1, <1>2
<1>4. d % Pq!Modulus = IF d < 0 THEN d + Pq!Modulus ELSE IF d < Pq!Modulus THEN d ELSE d - Pq!Modulus
  BY <1>1, <1>3, PqModIs
<1>5. Pq!Signed(a) = (d % Pq!Modulus) - Half
  BY <1>2 DEF Pq!Signed
<1>6. QED
  BY <1>1, <1>2, <1>4, <1>5

(* The difference of two priorities has the sign of the difference of the  *)
(* numbers they stand for, unless that is too large.                       *)
LEMMA PqCmpIs ==
  ASSUME Pq!PriorityQueueAssumption,
         NEW a \in 0 .. (Pq!Modulus - 1), NEW b \in 0 .. (Pq!Modulus - 1),
         Pq!Signed(b) - Pq!Signed(a) \in -Half .. (Half - 1)
  PROVE  Pq!Cmp(a, b) = Pq!Signed(b) - Pq!Signed(a)
<1>1. /\ Half \in Nat \ {0} /\ Pq!Modulus \in Nat \ {0} /\ Pq!Modulus = Half + Half
      /\ Pq!Signed(a) = IF a < Half THEN a ELSE a - Pq!Modulus
      /\ Pq!Signed(b) = IF b < Half THEN b ELSE b - Pq!Modulus
  BY PqSignedIs
<1>2. PICK d \in Int : d = b - a + Half
  BY <1>1
<1>3. -Pq!Modulus <= d /\ d < Pq!Modulus + Pq!Modulus
  BY <1>1, <1>2
<1>4. d % Pq!Modulus = IF d < 0 THEN d + Pq!Modulus ELSE IF d < Pq!Modulus THEN d ELSE d - Pq!Modulus
  BY <1>1, <1>3, PqModIs
<1>5. Pq!Cmp(a, b) = (d % Pq!Modulus) - Half
  BY <1>2 DEF Pq!Cmp, Pq!Signed
<1>6. QED
  BY <1>1, <1>2, <1>4, <1>5

LEMMA PqOlderIs ==
  ASSUME Pq!PriorityQueueAssumption, NEW a \in 0 .. (Pq!Modulus - 1)
  PROVE  /\ Pq!Older(a) \in 0 .. (Pq!Modulus - 1)
         /\ Pq!Signed(a) > -Half => Pq!Signed(Pq!Older(a)) = Pq!Signed(a) - 1
<1>1. /\ Half \in Nat \ {0} /\ Pq!Modulus \in Nat \ {0} /\ Pq!Modulus = Half + Half
      /\ Pq!Signed(a) = IF a < Half THEN a ELSE a - Pq!Modulus
  BY PqSignedIs
<1>2. PICK d \in Int : d = a - 1
  BY <1>1
<1>3. -Pq!Modulus <= d /\ d < Pq!Modulus + Pq!Modulus
  BY <1>1, <1>2
<1>4. /\ d % Pq!Modulus = IF d < 0 THEN d + Pq!Modulus ELSE IF d < Pq!Modulus THEN d ELSE d - Pq!Modulus
      /\ d % Pq!Modulus \in 0 .. (Pq!Modulus - 1)
  BY <1>1, <1>3, PqModIs
<1>5. PICK e \in 0 .. (Pq!Modulus - 1) : e = Pq!Older(a)
  BY <1>2, <1>4 DEF Pq!Older
<1>6. Pq!Signed(e) = IF e < Half THEN e ELSE e - Pq!Modulus
  BY PqSignedIs
<1>7. e = IF d < 0 THEN d + Pq!Modulus ELSE IF d < Pq!Modulus THEN d ELSE d - Pq!Modulus
  BY <1>2, <1>4, <1>5 DEF Pq!Older
<1>8. Pq!Signed(a) > -Half => Pq!Signed(e) = Pq!Signed(a) - 1
  BY <1>1, <1>2, <1>6, <1>7
<1>9. QED
  BY <1>5, <1>8

-----------------------------------------------------------------------------
(* The nodes in one order, with those in use before those that are free.   *)

PqOrders ==
  { o \in [Pq!Nodes -> Pq!Nodes] : /\ \A i, j \in Pq!Nodes : o[i] = o[j] => i = j
                                   /\ \A n \in Pq!Nodes : \E i \in Pq!Nodes : o[i] = n }

PqPool(h, fr, nx, o, m) ==
  /\ h = IF m = 0 THEN Pq!Null ELSE o[1]
  /\ fr = IF m = Capacity THEN Pq!Null ELSE o[m + 1]
  /\ \A i \in Pq!Nodes : nx[o[i]] = IF i = m \/ i = Capacity THEN Pq!Null ELSE o[i + 1]

(* The numbers that the priorities in use stand for go up, and they are as *)
(* close to each other as the comparison needs: who is i-th was not        *)
(* decremented below i - Capacity.                                         *)
PqRanked(pr, o, m) ==
  /\ m > 0 => Capacity <= Half
  /\ \A i \in 1 .. m : /\ i - Capacity <= Pq!Signed(pr[o[i]])
                       /\ Pq!Signed(pr[o[i]]) <= Half - Capacity
  /\ \A i, j \in 1 .. m : i <= j => Pq!Signed(pr[o[i]]) <= Pq!Signed(pr[o[j]])

PqInv ==
  /\ Pq!TypeOK
  /\ \E m \in 0 .. Capacity, o \in PqOrders :
       PqPool(pqHead, pqFree, pqNext, o, m) /\ PqRanked(pqPriority, o, m)

LEMMA PqReordered ==
  ASSUME NEW o \in PqOrders, NEW s \in [Pq!Nodes -> Pq!Nodes], NEW r \in [Pq!Nodes -> Pq!Nodes],
         \A i \in Pq!Nodes : s[r[i]] = i /\ r[s[i]] = i
  PROVE  [i \in Pq!Nodes |-> o[s[i]]] \in PqOrders
<1>1. PICK q : q = [i \in Pq!Nodes |-> o[s[i]]]
  OBVIOUS
<1>2. q \in [Pq!Nodes -> Pq!Nodes]
  BY <1>1 DEF PqOrders
<1>3. ASSUME NEW i \in Pq!Nodes, NEW j \in Pq!Nodes, q[i] = q[j] PROVE i = j
  <2>1. o[s[i]] = o[s[j]] /\ s[i] \in Pq!Nodes /\ s[j] \in Pq!Nodes
    BY <1>1, <1>3
  <2>2. s[i] = s[j]
    BY <2>1 DEF PqOrders
  <2>3. QED
    BY <2>2
<1>4. ASSUME NEW n \in Pq!Nodes PROVE \E i \in Pq!Nodes : q[i] = n
  <2>1. PICK k \in Pq!Nodes : o[k] = n
    BY DEF PqOrders
  <2>2. r[k] \in Pq!Nodes /\ s[r[k]] = k
    OBVIOUS
  <2>3. q[r[k]] = n
    BY <1>1, <2>1, <2>2
  <2>4. QED
    BY <2>2, <2>3
<1>5. q \in PqOrders
  BY <1>2, <1>3, <1>4 DEF PqOrders
<1>6. QED
  BY <1>1, <1>5

(* Renewed: the nodes are free from the last one on.                       *)
LEMMA PqFresh ==
  ASSUME Pq!PriorityQueueAssumption,
         NEW h, NEW fr, NEW nx, NEW pr, h = Pq!Null, fr = Capacity,
         nx = [n \in Pq!Nodes |-> n - 1]
  PROVE  \E m \in 0 .. Capacity, o \in PqOrders : PqPool(h, fr, nx, o, m) /\ PqRanked(pr, o, m)
<1>1. Capacity \in Nat \ {0}
  BY DEF Pq!PriorityQueueAssumption
<1>2. PICK o : o = [i \in Pq!Nodes |-> Capacity + 1 - i]
  OBVIOUS
<1>3. o \in [Pq!Nodes -> Pq!Nodes]
  BY <1>1, <1>2 DEF Pq!Nodes
<1>4. \A i, j \in Pq!Nodes : o[i] = o[j] => i = j
  BY <1>1, <1>2 DEF Pq!Nodes
<1>5. ASSUME NEW n \in Pq!Nodes PROVE \E i \in Pq!Nodes : o[i] = n
  <2>1. PICK i \in Pq!Nodes : i = Capacity + 1 - n
    BY <1>1 DEF Pq!Nodes
  <2>2. o[i] = n
    BY <1>1, <1>2, <2>1 DEF Pq!Nodes
  <2>3. QED
    BY <2>2
<1>6. o \in PqOrders
  BY <1>3, <1>4, <1>5 DEF PqOrders
<1>7. PqPool(h, fr, nx, o, 0)
  <2>1. fr = IF 0 = Capacity THEN Pq!Null ELSE o[0 + 1]
    <3>1. 0 + 1 = 1 /\ 1 \in Pq!Nodes /\ Capacity + 1 - 1 = Capacity /\ 0 # Capacity
      BY <1>1 DEF Pq!Nodes
    <3>2. QED
      BY <1>2, <3>1
  <2>2. ASSUME NEW i \in Pq!Nodes
        PROVE  nx[o[i]] = IF i = 0 \/ i = Capacity THEN Pq!Null ELSE o[i + 1]
    <3>1. o[i] = Capacity + 1 - i /\ o[i] \in Pq!Nodes
      BY <1>2, <1>3
    <3>2. nx[o[i]] = Capacity - i /\ i # 0
      BY <1>1, <3>1 DEF Pq!Nodes
    <3>3. CASE i = Capacity
      BY <1>1, <3>2, <3>3 DEF Pq!Null
    <3>4. CASE i # Capacity
      <4>1. PICK j \in Pq!Nodes : j = i + 1
        BY <1>1, <3>4 DEF Pq!Nodes
      <4>2. o[j] = Capacity - i
        BY <1>1, <1>2, <4>1 DEF Pq!Nodes
      <4>3. QED
        BY <3>2, <3>4, <4>1, <4>2
    <3>5. QED
      BY <3>3, <3>4
  <2>3. QED
    BY <2>1, <2>2 DEF PqPool
<1>8. PqRanked(pr, o, 0)
  BY DEF PqRanked
<1>9. 0 \in 0 .. Capacity
  BY <1>1
<1>10. QED
  BY <1>6, <1>7, <1>8, <1>9
(* One node more in use, at place k + 1; and the first one free again.     *)
PqEntered(o, m, k) ==
  [i \in Pq!Nodes |-> o[IF i <= k THEN i ELSE IF i = k + 1 THEN m + 1
                     ELSE IF i <= m + 1 THEN i - 1 ELSE i]]

PqLeft(o, m) ==
  [i \in Pq!Nodes |-> o[IF i < m THEN i + 1 ELSE IF i = m THEN 1 ELSE i]]

LEMMA PqEnteredOrder ==
  ASSUME Pq!PriorityQueueAssumption, NEW o \in PqOrders,
         NEW m \in 0 .. (Capacity - 1), NEW k \in 0 .. m
  PROVE  PqEntered(o, m, k) \in PqOrders
<1>1. PICK s : s = [i \in Pq!Nodes |-> IF i <= k THEN i ELSE IF i = k + 1 THEN m + 1
                                    ELSE IF i <= m + 1 THEN i - 1 ELSE i]
  OBVIOUS
<1>2. PICK r : r = [i \in Pq!Nodes |-> IF i <= k THEN i ELSE IF i <= m THEN i + 1
                                    ELSE IF i = m + 1 THEN k + 1 ELSE i]
  OBVIOUS
<1>3. Capacity \in Nat \ {0} /\ Pq!Nodes = 1 .. Capacity
  BY DEF Pq!PriorityQueueAssumption, Pq!Nodes
<1>4. s \in [Pq!Nodes -> Pq!Nodes] /\ r \in [Pq!Nodes -> Pq!Nodes]
  BY <1>1, <1>2, <1>3
<1>5. ASSUME NEW i \in Pq!Nodes PROVE s[r[i]] = i /\ r[s[i]] = i
  <2>1. /\ r[i] \in Pq!Nodes /\ s[i] \in Pq!Nodes
        /\ r[i] = IF i <= k THEN i ELSE IF i <= m THEN i + 1
                  ELSE IF i = m + 1 THEN k + 1 ELSE i
        /\ s[i] = IF i <= k THEN i ELSE IF i = k + 1 THEN m + 1
                  ELSE IF i <= m + 1 THEN i - 1 ELSE i
    BY <1>1, <1>2, <1>4
  <2>2. /\ s[r[i]] = IF r[i] <= k THEN r[i] ELSE IF r[i] = k + 1 THEN m + 1
                     ELSE IF r[i] <= m + 1 THEN r[i] - 1 ELSE r[i]
        /\ r[s[i]] = IF s[i] <= k THEN s[i] ELSE IF s[i] <= m THEN s[i] + 1
                     ELSE IF s[i] = m + 1 THEN k + 1 ELSE s[i]
    BY <1>1, <1>2, <2>1
  <2>3. QED
    BY <1>3, <2>1, <2>2
<1>6. [i \in Pq!Nodes |-> o[s[i]]] \in PqOrders
  BY <1>4, <1>5, PqReordered
<1>7. [i \in Pq!Nodes |-> o[s[i]]] = PqEntered(o, m, k)
  BY <1>1 DEF PqEntered
<1>8. QED
  BY <1>6, <1>7

LEMMA PqLeftOrder ==
  ASSUME Pq!PriorityQueueAssumption, NEW o \in PqOrders, NEW m \in 1 .. Capacity
  PROVE  PqLeft(o, m) \in PqOrders
<1>1. PICK s : s = [i \in Pq!Nodes |-> IF i < m THEN i + 1 ELSE IF i = m THEN 1 ELSE i]
  OBVIOUS
<1>2. PICK r : r = [i \in Pq!Nodes |-> IF i = 1 THEN m ELSE IF i <= m THEN i - 1 ELSE i]
  OBVIOUS
<1>3. Capacity \in Nat \ {0} /\ Pq!Nodes = 1 .. Capacity
  BY DEF Pq!PriorityQueueAssumption, Pq!Nodes
<1>4. s \in [Pq!Nodes -> Pq!Nodes] /\ r \in [Pq!Nodes -> Pq!Nodes]
  BY <1>1, <1>2, <1>3
<1>5. ASSUME NEW i \in Pq!Nodes PROVE s[r[i]] = i /\ r[s[i]] = i
  <2>1. /\ r[i] \in Pq!Nodes /\ s[i] \in Pq!Nodes
        /\ r[i] = IF i = 1 THEN m ELSE IF i <= m THEN i - 1 ELSE i
        /\ s[i] = IF i < m THEN i + 1 ELSE IF i = m THEN 1 ELSE i
    BY <1>1, <1>2, <1>4
  <2>2. /\ s[r[i]] = IF r[i] < m THEN r[i] + 1 ELSE IF r[i] = m THEN 1 ELSE r[i]
        /\ r[s[i]] = IF s[i] = 1 THEN m ELSE IF s[i] <= m THEN s[i] - 1 ELSE s[i]
    BY <1>1, <1>2, <2>1
  <2>3. QED
    BY <1>3, <2>1, <2>2
<1>6. [i \in Pq!Nodes |-> o[s[i]]] \in PqOrders
  BY <1>4, <1>5, PqReordered
<1>7. [i \in Pq!Nodes |-> o[s[i]]] = PqLeft(o, m)
  BY <1>1 DEF PqLeft
<1>8. QED
  BY <1>6, <1>7

(* The walks over both lists, and over the rest behind the first node.     *)
LEMMA PqWalks ==
  ASSUME Pq!PriorityQueueAssumption, NEW m \in 0 .. Capacity, NEW o \in PqOrders,
         NEW h, NEW fr, NEW nx, PqPool(h, fr, nx, o, m)
  PROVE  /\ Walk(nx, h, Capacity, Pq!Null)
              = [k \in 0 .. Capacity |-> IF k < m THEN o[k + 1] ELSE Pq!Null]
         /\ Walk(nx, fr, Capacity, Pq!Null)
              = [k \in 0 .. Capacity |-> IF k < Capacity - m THEN o[m + k + 1] ELSE Pq!Null]
         /\ m > 0 => Walk(nx, nx[h], Capacity, Pq!Null)
              = [k \in 0 .. Capacity |-> IF k < m - 1 THEN o[1 + k + 1] ELSE Pq!Null]
<1>1. /\ Capacity \in Nat \ {0} /\ Pq!Nodes = 1 .. Capacity /\ 0 \in Nat /\ m \in Nat
      /\ \A i \in 1 .. Capacity : o[i] # Pq!Null
  BY DEF Pq!PriorityQueueAssumption, Pq!Nodes, PqOrders, Pq!Null
<1>2. \A i \in 1 .. Capacity :
        nx[o[i]] = IF i = m \/ i = Capacity THEN Pq!Null ELSE o[i + 1]
  BY <1>1 DEF PqPool
<1>3. Linked(nx, o, 0, m, Pq!Null)
  BY <1>1, <1>2 DEF Linked
<1>4. Linked(nx, o, m, Capacity, Pq!Null)
  BY <1>1, <1>2 DEF Linked
<1>5. h = IF 0 = m THEN Pq!Null ELSE o[0 + 1]
  <2>1. 0 + 1 = 1
    OBVIOUS
  <2>2. QED
    BY <2>1 DEF PqPool
<1>6. Walk(nx, h, Capacity, Pq!Null)
        = [k \in 0 .. Capacity |-> IF k < m THEN o[k + 1] ELSE Pq!Null]
  <2>1. Walk(nx, IF 0 = m THEN Pq!Null ELSE o[0 + 1], Capacity, Pq!Null)
          = [k \in 0 .. Capacity |-> IF k < m - 0 THEN o[0 + k + 1] ELSE Pq!Null]
    <3>1. 0 <= m /\ m - 0 <= Capacity /\ \A i \in (0 + 1) .. m : o[i] # Pq!Null
      BY <1>1
    <3>2. QED
      BY <1>1, <1>3, <3>1, WalkAlong
  <2>2. \A k \in 0 .. Capacity : 0 + k + 1 = k + 1 /\ m - 0 = m
    BY <1>1
  <2>3. QED
    BY <1>5, <2>1, <2>2
<1>7. Walk(nx, fr, Capacity, Pq!Null)
        = [k \in 0 .. Capacity |-> IF k < Capacity - m THEN o[m + k + 1] ELSE Pq!Null]
  <2>1. m <= Capacity /\ Capacity - m <= Capacity
        /\ \A i \in (m + 1) .. Capacity : o[i] # Pq!Null
    BY <1>1
  <2>2. Walk(nx, IF m = Capacity THEN Pq!Null ELSE o[m + 1], Capacity, Pq!Null)
          = [k \in 0 .. Capacity |-> IF k < Capacity - m THEN o[m + k + 1] ELSE Pq!Null]
    BY <1>1, <1>4, <2>1, WalkAlong
  <2>3. QED
    BY <2>2 DEF PqPool
<1>8. ASSUME m > 0
      PROVE  Walk(nx, nx[h], Capacity, Pq!Null)
               = [k \in 0 .. Capacity |-> IF k < m - 1 THEN o[1 + k + 1] ELSE Pq!Null]
  <2>1. nx[h] = IF 1 = m THEN Pq!Null ELSE o[1 + 1]
    <3>1. h = o[1] /\ 1 \in 1 .. Capacity /\ m <= Capacity
      BY <1>1, <1>8 DEF PqPool
    <3>2. nx[o[1]] = IF 1 = m \/ 1 = Capacity THEN Pq!Null ELSE o[1 + 1]
      BY <1>2, <3>1
    <3>3. 1 = Capacity => 1 = m
      BY <1>1, <1>8
    <3>4. QED
      BY <3>1, <3>2, <3>3
  <2>2. Linked(nx, o, 1, m, Pq!Null)
    BY <1>1, <1>2 DEF Linked
  <2>3. 1 \in Nat /\ 1 <= m /\ m - 1 <= Capacity /\ \A i \in (1 + 1) .. m : o[i] # Pq!Null
    BY <1>1, <1>8
  <2>4. Walk(nx, IF 1 = m THEN Pq!Null ELSE o[1 + 1], Capacity, Pq!Null)
          = [k \in 0 .. Capacity |-> IF k < m - 1 THEN o[1 + k + 1] ELSE Pq!Null]
    BY <1>1, <2>2, <2>3, WalkAlong
  <2>5. QED
    BY <2>1, <2>4
<1>9. QED
  BY <1>6, <1>7, <1>8

LEMMA PqFromIs == \A n : Pq!From(n) = Walk(pqNext, n, Capacity, Pq!Null)
  BY DEF Pq!From, Walk

(* What the walks meet.                                                    *)
LEMMA PqListedIs ==
  ASSUME Pq!PriorityQueueAssumption, NEW m \in 0 .. Capacity, NEW o \in PqOrders,
         PqPool(pqHead, pqFree, pqNext, o, m)
  PROVE  /\ Pq!From(pqHead) = [k \in 0 .. Capacity |-> IF k < m THEN o[k + 1] ELSE Pq!Null]
         /\ Pq!From(pqFree)
              = [k \in 0 .. Capacity |-> IF k < Capacity - m THEN o[m + k + 1] ELSE Pq!Null]
         /\ Pq!Listed(pqHead) = { o[i] : i \in 1 .. m }
         /\ Pq!Listed(pqFree) = { o[i] : i \in (m + 1) .. Capacity }
         /\ m > 0 => Pq!Listed(pqNext[pqHead]) = { o[i] : i \in 2 .. m }
<1>1. /\ Capacity \in Nat \ {0} /\ Pq!Nodes = 1 .. Capacity /\ m \in Nat
      /\ \A i \in 1 .. Capacity : o[i] # Pq!Null
  BY DEF Pq!PriorityQueueAssumption, Pq!Nodes, PqOrders, Pq!Null
<1>10. /\ Walk(pqNext, pqHead, Capacity, Pq!Null)
            = [k \in 0 .. Capacity |-> IF k < m THEN o[k + 1] ELSE Pq!Null]
       /\ Walk(pqNext, pqFree, Capacity, Pq!Null)
            = [k \in 0 .. Capacity |-> IF k < Capacity - m THEN o[m + k + 1] ELSE Pq!Null]
       /\ m > 0 => Walk(pqNext, pqNext[pqHead], Capacity, Pq!Null)
            = [k \in 0 .. Capacity |-> IF k < m - 1 THEN o[1 + k + 1] ELSE Pq!Null]
  BY PqWalks
<1>2. Pq!From(pqHead) = [k \in 0 .. Capacity |-> IF k < m THEN o[k + 1] ELSE Pq!Null]
  BY <1>10, PqFromIs
<1>3. Pq!From(pqFree)
        = [k \in 0 .. Capacity |-> IF k < Capacity - m THEN o[m + k + 1] ELSE Pq!Null]
  BY <1>10, PqFromIs
<1>4. m > 0 => Pq!From(pqNext[pqHead])
                 = [k \in 0 .. Capacity |-> IF k < m - 1 THEN o[1 + k + 1] ELSE Pq!Null]
  BY <1>10, PqFromIs
<1>5. ASSUME NEW f, NEW a \in 0 .. Capacity, NEW b \in 0 .. Capacity, a <= b,
             f = [k \in 0 .. Capacity |-> IF k < b - a THEN o[a + k + 1] ELSE Pq!Null]
      PROVE  { f[k] : k \in 0 .. Capacity } \ {Pq!Null} = { o[i] : i \in (a + 1) .. b }
  <2>1. ASSUME NEW k \in 0 .. Capacity, f[k] # Pq!Null
        PROVE  \E i \in (a + 1) .. b : f[k] = o[i]
    <3>1. k < b - a /\ f[k] = o[a + k + 1]
      BY <1>5, <2>1
    <3>2. a + k + 1 \in (a + 1) .. b
      BY <1>1, <3>1
    <3>3. QED
      BY <3>1, <3>2
  <2>2. ASSUME NEW i \in (a + 1) .. b
        PROVE  o[i] # Pq!Null /\ \E k \in 0 .. Capacity : o[i] = f[k]
    <3>1. PICK k \in 0 .. Capacity : k = i - a - 1
      BY <1>1
    <3>2. k < b - a /\ a + k + 1 = i /\ i \in 1 .. Capacity
      BY <1>1, <3>1
    <3>3. f[k] = o[i]
      BY <1>5, <3>2
    <3>4. QED
      BY <1>1, <3>2, <3>3
  <2>3. QED
    BY <2>1, <2>2
<1>6. Pq!Listed(pqHead) = { o[i] : i \in 1 .. m }
  <2>1. PICK a \in 0 .. Capacity : a = 0
    BY <1>1
  <2>2. a <= m /\ a + 1 = 1 /\ \A k \in 0 .. Capacity : a + k + 1 = k + 1 /\ m - a = m
    BY <1>1, <2>1
  <2>3. Pq!From(pqHead) = [k \in 0 .. Capacity |-> IF k < m - a THEN o[a + k + 1] ELSE Pq!Null]
    BY <1>2, <2>2
  <2>4. { Pq!From(pqHead)[k] : k \in 0 .. Capacity } \ {Pq!Null} = { o[i] : i \in (a + 1) .. m }
    <3>1. a <= m /\ m \in 0 .. Capacity
      BY <2>2
    <3>2. QED
      BY <1>5, <2>3, <3>1
  <2>5. QED
    BY <2>2, <2>4 DEF Pq!Listed
<1>7. Pq!Listed(pqFree) = { o[i] : i \in (m + 1) .. Capacity }
  <2>1. Capacity \in 0 .. Capacity /\ m <= Capacity
    BY <1>1
  <2>2. { Pq!From(pqFree)[k] : k \in 0 .. Capacity } \ {Pq!Null}
          = { o[i] : i \in (m + 1) .. Capacity }
    BY <1>3, <1>5, <2>1
  <2>3. QED
    BY <2>2 DEF Pq!Listed
<1>8. ASSUME m > 0 PROVE Pq!Listed(pqNext[pqHead]) = { o[i] : i \in 2 .. m }
  <2>1. 1 \in 0 .. Capacity /\ 1 <= m /\ 1 + 1 = 2
    BY <1>1, <1>8
  <2>2. { Pq!From(pqNext[pqHead])[k] : k \in 0 .. Capacity } \ {Pq!Null}
          = { o[i] : i \in (1 + 1) .. m }
    BY <1>4, <1>5, <1>8, <2>1
  <2>3. QED
    BY <2>1, <2>2 DEF Pq!Listed
<1>9. QED
  BY <1>2, <1>3, <1>6, <1>7, <1>8
LEMMA PqOrderIs ==
  ASSUME Pq!PriorityQueueAssumption, NEW o \in PqOrders
  PROVE  /\ Capacity \in Nat \ {0} /\ Pq!Nodes = 1 .. Capacity
         /\ \A i \in 1 .. Capacity : o[i] \in Pq!Nodes
         /\ \A i, j \in 1 .. Capacity : o[i] = o[j] => i = j
<1>1. Capacity \in Nat \ {0} /\ Pq!Nodes = 1 .. Capacity
  BY DEF Pq!PriorityQueueAssumption, Pq!Nodes
<1>2. o \in [Pq!Nodes -> Pq!Nodes] /\ \A i, j \in Pq!Nodes : o[i] = o[j] => i = j
  BY DEF PqOrders
<1>3. QED
  BY <1>1, <1>2

LEMMA PqEnteredIs ==
  ASSUME Pq!PriorityQueueAssumption, NEW o,
         NEW m \in 0 .. (Capacity - 1), NEW k \in 0 .. m,
         NEW q, q = PqEntered(o, m, k), NEW i \in 1 .. Capacity
  PROVE  /\ i <= k => q[i] = o[i]
         /\ i = k + 1 => q[i] = o[m + 1]
         /\ i > k + 1 /\ i <= m + 1 => q[i] = o[i - 1]
         /\ i > m + 1 => q[i] = o[i]
<1>1. Capacity \in Nat \ {0} /\ i \in Pq!Nodes
  BY DEF Pq!PriorityQueueAssumption, Pq!Nodes
<1>2. q[i] = o[IF i <= k THEN i ELSE IF i = k + 1 THEN m + 1
               ELSE IF i <= m + 1 THEN i - 1 ELSE i]
  BY <1>1 DEF PqEntered
<1>3. CASE i <= k
  BY <1>2, <1>3
<1>4. CASE i = k + 1
  BY <1>2, <1>4
<1>5. CASE i > k + 1 /\ i <= m + 1
  BY <1>2, <1>5
<1>6. CASE i > m + 1
  BY <1>2, <1>6
<1>7. QED
  BY <1>1, <1>3, <1>4, <1>5, <1>6

LEMMA PqLeftIs ==
  ASSUME Pq!PriorityQueueAssumption, NEW o, NEW m \in 1 .. Capacity,
         NEW q, q = PqLeft(o, m), NEW i \in 1 .. Capacity
  PROVE  /\ i < m => q[i] = o[i + 1]
         /\ i = m => q[i] = o[1]
         /\ i > m => q[i] = o[i]
<1>1. Capacity \in Nat \ {0} /\ i \in Pq!Nodes
  BY DEF Pq!PriorityQueueAssumption, Pq!Nodes
<1>2. q[i] = o[IF i < m THEN i + 1 ELSE IF i = m THEN 1 ELSE i]
  BY <1>1 DEF PqLeft
<1>3. CASE i < m
  BY <1>2, <1>3
<1>4. CASE i = m
  BY <1>2, <1>4
<1>5. CASE i > m
  BY <1>2, <1>5
<1>6. QED
  BY <1>1, <1>3, <1>4, <1>5

LEMMA PqEnteredPool ==
  ASSUME Pq!PriorityQueueAssumption, NEW o \in PqOrders,
         NEW m \in 0 .. (Capacity - 1), NEW k \in 0 .. m,
         NEW h, NEW fr, NEW nx, PqPool(h, fr, nx, o, m),
         NEW h2, NEW fr2, NEW nx2,
         h2 = IF k = 0 THEN o[m + 1] ELSE h,
         fr2 = nx[o[m + 1]],
         nx2 = [n \in Pq!Nodes |->
                  IF n = o[m + 1] THEN IF k = m THEN Pq!Null ELSE o[k + 1]
                  ELSE IF k > 0 /\ n = o[k] THEN o[m + 1] ELSE nx[n]]
  PROVE  PqPool(h2, fr2, nx2, PqEntered(o, m, k), m + 1)
<1>1. /\ Capacity \in Nat \ {0} /\ Pq!Nodes = 1 .. Capacity
      /\ \A i \in 1 .. Capacity : o[i] \in Pq!Nodes
      /\ \A i, j \in 1 .. Capacity : o[i] = o[j] => i = j
  BY PqOrderIs
<1>2. PICK q : q = PqEntered(o, m, k)
  OBVIOUS
<1>3. \A i \in 1 .. Capacity :
        /\ i <= k => q[i] = o[i]
        /\ i = k + 1 => q[i] = o[m + 1]
        /\ i > k + 1 /\ i <= m + 1 => q[i] = o[i - 1]
        /\ i > m + 1 => q[i] = o[i]
  BY <1>2, PqEnteredIs
<1>4. /\ h = IF m = 0 THEN Pq!Null ELSE o[1]
      /\ \A i \in 1 .. Capacity : nx[o[i]] = IF i = m \/ i = Capacity THEN Pq!Null ELSE o[i + 1]
  BY <1>1 DEF PqPool
<1>5. h2 = IF m + 1 = 0 THEN Pq!Null ELSE q[1]
  <2>1. 1 \in 1 .. Capacity /\ m + 1 # 0
    BY <1>1
  <2>2. CASE k = 0
    <3>1. q[1] = o[m + 1]
      BY <1>3, <2>1, <2>2
    <3>2. QED
      BY <2>1, <2>2, <3>1
  <2>3. CASE k # 0
    <3>1. q[1] = o[1] /\ m # 0
      BY <1>3, <2>1, <2>3
    <3>2. QED
      BY <1>4, <2>1, <2>3, <3>1
  <2>4. QED
    BY <2>2, <2>3
<1>6. fr2 = IF m + 1 = Capacity THEN Pq!Null ELSE q[m + 1 + 1]
  <2>1. fr2 = IF m + 1 = m \/ m + 1 = Capacity THEN Pq!Null ELSE o[m + 1 + 1]
    BY <1>1, <1>4
  <2>2. CASE m + 1 = Capacity
    BY <2>1, <2>2
  <2>3. CASE m + 1 # Capacity
    <3>1. PICK j \in 1 .. Capacity : j = m + 1 + 1
      BY <1>1, <2>3
    <3>2. q[j] = o[j]
      BY <1>3, <3>1
    <3>3. QED
      BY <2>1, <2>3, <3>1, <3>2
  <2>4. QED
    BY <2>2, <2>3
<1>7. ASSUME NEW i \in 1 .. Capacity
      PROVE  nx2[q[i]] = IF i = m + 1 \/ i = Capacity THEN Pq!Null ELSE q[i + 1]
  <2>1. \A j \in 1 .. Capacity :
          nx2[o[j]] = IF j = m + 1 THEN IF k = m THEN Pq!Null ELSE o[k + 1]
                      ELSE IF k > 0 /\ j = k THEN o[m + 1]
                      ELSE IF j = m \/ j = Capacity THEN Pq!Null ELSE o[j + 1]
    <3>1. ASSUME NEW j \in 1 .. Capacity
          PROVE  /\ o[j] = o[m + 1] <=> j = m + 1
                 /\ k > 0 => (o[j] = o[k] <=> j = k)
      BY <1>1
    <3>2. QED
      BY <1>1, <1>4, <3>1
  <2>2. CASE i < k
    <3>1. q[i] = o[i] /\ i + 1 \in 1 .. Capacity /\ q[i + 1] = o[i + 1]
      BY <1>1, <1>3, <2>2
    <3>2. nx2[o[i]] = o[i + 1]
      BY <1>1, <2>1, <2>2
    <3>3. QED
      BY <1>1, <2>2, <3>1, <3>2
  <2>3. CASE i = k
    <3>1. q[i] = o[i] /\ i + 1 \in 1 .. Capacity /\ q[i + 1] = o[m + 1]
      BY <1>1, <1>3, <2>3
    <3>2. nx2[o[i]] = o[m + 1]
      BY <1>1, <2>1, <2>3
    <3>3. QED
      BY <1>1, <2>3, <3>1, <3>2
  <2>4. CASE i = k + 1
    <3>1. q[i] = o[m + 1] /\ nx2[o[m + 1]] = IF k = m THEN Pq!Null ELSE o[k + 1]
      BY <1>1, <1>3, <2>1, <2>4
    <3>2. CASE k = m
      BY <2>4, <3>1, <3>2
    <3>3. CASE k # m
      <4>1. PICK j \in 1 .. Capacity : j = i + 1
        BY <1>1, <2>4, <3>3
      <4>2. q[j] = o[j - 1] /\ j - 1 = k + 1
        BY <1>1, <1>3, <2>4, <3>3, <4>1
      <4>3. QED
        BY <1>1, <2>4, <3>1, <3>3, <4>1, <4>2
    <3>4. QED
      BY <3>2, <3>3
  <2>5. CASE i > k + 1 /\ i <= m + 1
    <3>1. PICK j \in 1 .. Capacity : j = i - 1
      BY <1>1, <2>5
    <3>2. q[i] = o[j]
      BY <1>3, <2>5, <3>1
    <3>3. nx2[o[j]] = IF j = m \/ j = Capacity THEN Pq!Null ELSE o[j + 1]
      BY <1>1, <2>1, <2>5, <3>1
    <3>4. CASE i = m + 1
      BY <3>1, <3>2, <3>3, <3>4
    <3>5. CASE i # m + 1
      <4>1. PICK l \in 1 .. Capacity : l = i + 1
        BY <1>1, <2>5, <3>5
      <4>2. q[l] = o[l - 1] /\ l - 1 = j + 1
        BY <1>1, <1>3, <2>5, <3>1, <3>5, <4>1
      <4>3. QED
        BY <1>1, <2>5, <3>1, <3>2, <3>3, <3>5, <4>1, <4>2
    <3>6. QED
      BY <3>4, <3>5
  <2>6. CASE i > m + 1
    <3>1. q[i] = o[i] /\ nx2[o[i]] = IF i = Capacity THEN Pq!Null ELSE o[i + 1]
      BY <1>1, <1>3, <2>1, <2>6
    <3>2. CASE i = Capacity
      BY <3>1, <3>2
    <3>3. CASE i # Capacity
      <4>1. PICK l \in 1 .. Capacity : l = i + 1
        BY <1>1, <3>3
      <4>2. q[l] = o[l]
        BY <1>1, <1>3, <2>6, <4>1
      <4>3. QED
        BY <1>1, <2>6, <3>1, <3>3, <4>1, <4>2
    <3>4. QED
      BY <3>2, <3>3
  <2>7. i < k \/ i = k \/ i = k + 1 \/ (i > k + 1 /\ i <= m + 1) \/ i > m + 1
    BY <1>1
  <2>8. QED
    BY <2>2, <2>3, <2>4, <2>5, <2>6, <2>7
<1>8. PqPool(h2, fr2, nx2, q, m + 1)
  BY <1>1, <1>5, <1>6, <1>7 DEF PqPool
<1>9. QED
  BY <1>2, <1>8

PqRanks(pr, pr2, o, q, m, k, p) ==
  \A i \in 1 .. (m + 1) :
    Pq!Signed(pr2[q[i]]) =
      IF i <= k THEN Pq!Signed(pr[o[i]])
      ELSE IF i = k + 1 THEN p ELSE Pq!Signed(pr[o[i - 1]])

LEMMA PqEnteredRanked ==
  ASSUME Pq!PriorityQueueAssumption, NEW o \in PqOrders,
         NEW m \in 0 .. (Capacity - 1), NEW k \in 0 .. m,
         NEW pr \in [Pq!Nodes -> 0 .. (Pq!Modulus - 1)], PqRanked(pr, o, m),
         NEW p \in Priorities,
         \A i \in 1 .. k : Pq!Signed(pr[o[i]]) <= p,
         \A i \in (k + 1) .. m : p < Pq!Signed(pr[o[i]]),
         NEW pr2, pr2 = [pr EXCEPT ![o[m + 1]] = p]
  PROVE  /\ PqRanked(pr2, PqEntered(o, m, k), m + 1)
         /\ PqRanks(pr, pr2, o, PqEntered(o, m, k), m, k, p)
<1>1. /\ Capacity \in Nat \ {0} /\ Pq!Nodes = 1 .. Capacity
      /\ \A i \in 1 .. Capacity : o[i] \in Pq!Nodes
      /\ \A i, j \in 1 .. Capacity : o[i] = o[j] => i = j
      /\ Half \in Nat \ {0} /\ Pq!Modulus = Half + Half
      /\ p \in Nat /\ p + Capacity - 1 < Half
  BY PqOrderIs DEF Pq!PriorityQueueAssumption, Pq!Modulus
<1>2. PICK q : q = PqEntered(o, m, k)
  OBVIOUS
<1>3. \A i \in 1 .. Capacity :
        /\ i <= k => q[i] = o[i]
        /\ i = k + 1 => q[i] = o[m + 1]
        /\ i > k + 1 /\ i <= m + 1 => q[i] = o[i - 1]
        /\ i > m + 1 => q[i] = o[i]
  BY <1>2, PqEnteredIs
<1>4. /\ pr2[o[m + 1]] = p
      /\ \A i \in 1 .. Capacity : i # m + 1 => pr2[o[i]] = pr[o[i]]
  BY <1>1
<1>5. Pq!Signed(p) = p
  <2>1. p \in 0 .. (Pq!Modulus - 1) /\ p < Half
    BY <1>1
  <2>2. QED
    BY <2>1, PqSignedIs
<1>6. ASSUME NEW i \in 1 .. (m + 1)
      PROVE  Pq!Signed(pr2[q[i]]) =
               IF i <= k THEN Pq!Signed(pr[o[i]])
               ELSE IF i = k + 1 THEN p ELSE Pq!Signed(pr[o[i - 1]])
  <2>1. i \in 1 .. Capacity
    BY <1>1
  <2>2. CASE i <= k
    <3>1. q[i] = o[i] /\ i # m + 1
      BY <1>3, <2>1, <2>2
    <3>2. QED
      BY <1>4, <2>1, <2>2, <3>1
  <2>3. CASE i = k + 1
    <3>1. q[i] = o[m + 1] /\ ~(i <= k)
      BY <1>3, <2>1, <2>3
    <3>2. QED
      BY <1>4, <1>5, <2>3, <3>1
  <2>4. CASE i > k + 1
    <3>1. PICK j \in 1 .. Capacity : j = i - 1
      BY <1>1, <2>4
    <3>2. q[i] = o[j] /\ j # m + 1 /\ ~(i <= k) /\ i # k + 1
      BY <1>3, <2>1, <2>4, <3>1
    <3>3. QED
      BY <1>4, <3>1, <3>2
  <2>5. i <= k \/ i = k + 1 \/ i > k + 1
    OBVIOUS
  <2>6. QED
    BY <2>2, <2>3, <2>4, <2>5
<1>7. /\ \A i \in 1 .. m : /\ Pq!Signed(pr[o[i]]) \in Int
                           /\ i - Capacity <= Pq!Signed(pr[o[i]])
                           /\ Pq!Signed(pr[o[i]]) <= Half - Capacity
      /\ \A i, j \in 1 .. m : i <= j => Pq!Signed(pr[o[i]]) <= Pq!Signed(pr[o[j]])
  <2>1. \A i \in 1 .. m : pr[o[i]] \in 0 .. (Pq!Modulus - 1)
    BY <1>1
  <2>2. ASSUME NEW i \in 1 .. m PROVE Pq!Signed(pr[o[i]]) \in Int
    <3>1. PICK a \in 0 .. (Pq!Modulus - 1) : a = pr[o[i]]
      BY <2>1
    <3>2. Pq!Signed(a) \in -Half .. (Half - 1) /\ Half \in Nat \ {0}
      BY PqSignedIs
    <3>3. QED
      BY <3>1, <3>2
  <2>3. QED
    BY <2>2 DEF PqRanked
<1>8. PICK v : v = [i \in 1 .. m |-> Pq!Signed(pr[o[i]])]
  OBVIOUS
<1>9. PICK w : w = [i \in 1 .. (m + 1) |-> Pq!Signed(pr2[q[i]])]
  OBVIOUS
<1>10. /\ \A i \in 1 .. m : v[i] \in Int /\ i - Capacity <= v[i] /\ v[i] <= Half - Capacity
       /\ \A i, j \in 1 .. m : i <= j => v[i] <= v[j]
       /\ \A i \in 1 .. k : v[i] <= p
       /\ \A i \in (k + 1) .. m : p < v[i]
  BY <1>7, <1>8
<1>11. \A i \in 1 .. (m + 1) :
         w[i] = IF i <= k THEN v[i] ELSE IF i = k + 1 THEN p ELSE v[i - 1]
  BY <1>6, <1>8, <1>9
<1>12. ASSUME NEW i \in 1 .. (m + 1)
       PROVE  w[i] \in Int /\ i - Capacity <= w[i] /\ w[i] <= Half - Capacity
  <2>1. CASE i <= k
    BY <1>10, <1>11, <2>1
  <2>2. CASE i = k + 1
    BY <1>1, <1>11, <2>2
  <2>3. CASE i > k + 1
    <3>1. PICK j \in (k + 1) .. m : j = i - 1
      BY <2>3
    <3>2. w[i] = v[j] /\ v[j] \in Int /\ p < v[j] /\ v[j] <= Half - Capacity
      BY <1>10, <1>11, <2>3, <3>1
    <3>3. i <= Capacity
      BY <1>1
    <3>4. QED
      BY <1>1, <3>2, <3>3
  <2>4. i <= k \/ i = k + 1 \/ i > k + 1
    OBVIOUS
  <2>5. QED
    BY <2>1, <2>2, <2>3, <2>4
<1>13. ASSUME NEW i \in 1 .. (m + 1), NEW j \in 1 .. (m + 1), i <= j
       PROVE  w[i] <= w[j]
  <2>1. CASE j <= k
    BY <1>10, <1>11, <1>13, <2>1
  <2>2. CASE i <= k /\ j = k + 1
    BY <1>10, <1>11, <2>2
  <2>3. CASE i <= k /\ j > k + 1
    <3>1. PICK l \in (k + 1) .. m : l = j - 1
      BY <2>3
    <3>2. w[j] = v[l] /\ w[i] = v[i] /\ p < v[l] /\ v[i] <= p /\ v[i] \in Int /\ v[l] \in Int
      BY <1>10, <1>11, <2>3, <3>1
    <3>3. QED
      BY <1>1, <3>2
  <2>4. CASE i = k + 1 /\ j = k + 1
    BY <1>1, <1>11, <2>4
  <2>5. CASE i = k + 1 /\ j > k + 1
    <3>1. PICK l \in (k + 1) .. m : l = j - 1
      BY <2>5
    <3>2. w[j] = v[l] /\ w[i] = p /\ p < v[l] /\ v[l] \in Int
      BY <1>10, <1>11, <2>5, <3>1
    <3>3. QED
      BY <1>1, <3>2
  <2>6. CASE i > k + 1
    <3>1. PICK l \in (k + 1) .. m : l = j - 1
      BY <1>13, <2>6
    <3>2. PICK n \in (k + 1) .. m : n = i - 1
      BY <2>6
    <3>3. w[j] = v[l] /\ w[i] = v[n] /\ n <= l
      BY <1>11, <1>13, <2>6, <3>1, <3>2
    <3>4. n \in 1 .. m /\ l \in 1 .. m
      OBVIOUS
    <3>5. v[n] <= v[l]
      BY <1>10, <3>3, <3>4
    <3>6. QED
      BY <3>3, <3>5
  <2>7. \/ j <= k \/ (i <= k /\ j = k + 1) \/ (i <= k /\ j > k + 1)
        \/ (i = k + 1 /\ j = k + 1) \/ (i = k + 1 /\ j > k + 1) \/ i > k + 1
    BY <1>13
  <2>8. QED
    BY <2>1, <2>2, <2>3, <2>4, <2>5, <2>6, <2>7
<1>14. PqRanked(pr2, q, m + 1)
  BY <1>1, <1>9, <1>12, <1>13 DEF PqRanked
<1>15. QED
  BY <1>2, <1>6, <1>14 DEF PqRanks

LEMMA PqLeftPool ==
  ASSUME Pq!PriorityQueueAssumption, NEW o \in PqOrders, NEW m \in 1 .. Capacity,
         NEW h, NEW fr, NEW nx, PqPool(h, fr, nx, o, m),
         NEW h2, NEW fr2, NEW nx2,
         h2 = nx[h], fr2 = h,
         nx2 = [n \in Pq!Nodes |-> IF n = h THEN fr ELSE nx[n]]
  PROVE  PqPool(h2, fr2, nx2, PqLeft(o, m), m - 1)
<1>1. /\ Capacity \in Nat \ {0} /\ Pq!Nodes = 1 .. Capacity
      /\ \A i \in 1 .. Capacity : o[i] \in Pq!Nodes
      /\ \A i, j \in 1 .. Capacity : o[i] = o[j] => i = j
  BY PqOrderIs
<1>2. PICK q : q = PqLeft(o, m)
  OBVIOUS
<1>3. \A i \in 1 .. Capacity :
        /\ i < m => q[i] = o[i + 1]
        /\ i = m => q[i] = o[1]
        /\ i > m => q[i] = o[i]
  BY <1>2, PqLeftIs
<1>4. /\ h = o[1] /\ fr = IF m = Capacity THEN Pq!Null ELSE o[m + 1]
      /\ \A i \in 1 .. Capacity : nx[o[i]] = IF i = m \/ i = Capacity THEN Pq!Null ELSE o[i + 1]
  BY <1>1 DEF PqPool
<1>5. h2 = IF m - 1 = 0 THEN Pq!Null ELSE q[1]
  <2>1. h2 = IF 1 = m \/ 1 = Capacity THEN Pq!Null ELSE o[1 + 1]
    BY <1>1, <1>4
  <2>2. CASE m = 1
    BY <2>1, <2>2
  <2>3. CASE m # 1
    <3>1. 1 # Capacity /\ 1 < m /\ m - 1 # 0 /\ q[1] = o[1 + 1]
      BY <1>1, <1>3, <2>3
    <3>2. QED
      BY <2>1, <2>3, <3>1
  <2>4. QED
    BY <2>2, <2>3
<1>6. fr2 = IF m - 1 = Capacity THEN Pq!Null ELSE q[m - 1 + 1]
  <2>1. q[m] = o[1] /\ m - 1 # Capacity /\ m - 1 + 1 = m
    BY <1>1, <1>3
  <2>2. QED
    BY <1>4, <2>1
<1>7. ASSUME NEW i \in 1 .. Capacity
      PROVE  nx2[q[i]] = IF i = m - 1 \/ i = Capacity THEN Pq!Null ELSE q[i + 1]
  <2>1. \A j \in 1 .. Capacity :
          nx2[o[j]] = IF j = 1 THEN fr
                      ELSE IF j = m \/ j = Capacity THEN Pq!Null ELSE o[j + 1]
    <3>1. ASSUME NEW j \in 1 .. Capacity PROVE o[j] = o[1] <=> j = 1
      BY <1>1
    <3>2. QED
      BY <1>1, <1>4, <3>1
  <2>2. CASE i < m
    <3>1. PICK j \in 1 .. Capacity : j = i + 1
      BY <1>1, <2>2
    <3>2. q[i] = o[j] /\ j # 1
      BY <1>1, <1>3, <2>2, <3>1
    <3>3. nx2[o[j]] = IF j = m \/ j = Capacity THEN Pq!Null ELSE o[j + 1]
      BY <2>1, <3>2
    <3>4. CASE i = m - 1
      BY <1>1, <3>1, <3>2, <3>3, <3>4
    <3>5. CASE i # m - 1
      <4>1. i + 1 \in 1 .. Capacity /\ q[i + 1] = o[i + 1 + 1] /\ i # Capacity /\ j # m /\ j # Capacity
        BY <1>1, <1>3, <2>2, <3>1, <3>5
      <4>2. QED
        BY <3>1, <3>2, <3>3, <3>5, <4>1
    <3>6. QED
      BY <3>4, <3>5
  <2>3. CASE i = m
    <3>1. q[i] = o[1] /\ nx2[o[1]] = fr
      BY <1>1, <1>3, <2>1, <2>3
    <3>2. CASE i = Capacity
      BY <1>4, <2>3, <3>1, <3>2
    <3>3. CASE i # Capacity
      <4>1. i + 1 \in 1 .. Capacity /\ q[i + 1] = o[i + 1] /\ i # m - 1
        BY <1>1, <1>3, <2>3, <3>3
      <4>2. QED
        BY <1>4, <2>3, <3>1, <3>3, <4>1
    <3>4. QED
      BY <3>2, <3>3
  <2>4. CASE i > m
    <3>1. q[i] = o[i] /\ nx2[o[i]] = (IF i = Capacity THEN Pq!Null ELSE o[i + 1]) /\ i # m - 1
      BY <1>1, <1>3, <2>1, <2>4
    <3>2. CASE i = Capacity
      BY <3>1, <3>2
    <3>3. CASE i # Capacity
      <4>1. i + 1 \in 1 .. Capacity /\ q[i + 1] = o[i + 1]
        BY <1>1, <1>3, <2>4, <3>3
      <4>2. QED
        BY <3>1, <3>3, <4>1
    <3>4. QED
      BY <3>2, <3>3
  <2>5. i < m \/ i = m \/ i > m
    BY <1>1
  <2>6. QED
    BY <2>2, <2>3, <2>4, <2>5
<1>8. PqPool(h2, fr2, nx2, q, m - 1)
  BY <1>1, <1>5, <1>6, <1>7 DEF PqPool
<1>9. QED
  BY <1>2, <1>8

LEMMA PqLeftRanked ==
  ASSUME Pq!PriorityQueueAssumption, NEW o \in PqOrders, NEW m \in 1 .. Capacity,
         NEW pr \in [Pq!Nodes -> 0 .. (Pq!Modulus - 1)], PqRanked(pr, o, m),
         NEW pr2,
         \A i \in 2 .. m : pr2[o[i]] = Pq!Older(pr[o[i]])
  PROVE  /\ PqRanked(pr2, PqLeft(o, m), m - 1)
         /\ \A i \in 1 .. (m - 1) :
              Pq!Signed(pr2[PqLeft(o, m)[i]]) = Pq!Signed(pr[o[i + 1]]) - 1
<1>1. /\ Capacity \in Nat \ {0} /\ Pq!Nodes = 1 .. Capacity
      /\ \A i \in 1 .. Capacity : o[i] \in Pq!Nodes
      /\ \A i, j \in 1 .. Capacity : o[i] = o[j] => i = j
      /\ Half \in Nat \ {0} /\ Capacity <= Half
  BY PqOrderIs DEF Pq!PriorityQueueAssumption, PqRanked
<1>2. PICK q : q = PqLeft(o, m)
  OBVIOUS
<1>3. \A i \in 1 .. Capacity :
        /\ i < m => q[i] = o[i + 1]
        /\ i = m => q[i] = o[1]
        /\ i > m => q[i] = o[i]
  BY <1>2, PqLeftIs
<1>4. PICK v : v = [i \in 1 .. m |-> Pq!Signed(pr[o[i]])]
  OBVIOUS
<1>5. /\ \A i \in 1 .. m : v[i] \in Int /\ i - Capacity <= v[i] /\ v[i] <= Half - Capacity
      /\ \A i, j \in 1 .. m : i <= j => v[i] <= v[j]
  <2>1. \A i \in 1 .. m : pr[o[i]] \in 0 .. (Pq!Modulus - 1)
    BY <1>1
  <2>2. ASSUME NEW i \in 1 .. m PROVE Pq!Signed(pr[o[i]]) \in Int
    <3>1. PICK a \in 0 .. (Pq!Modulus - 1) : a = pr[o[i]]
      BY <2>1
    <3>2. Pq!Signed(a) \in -Half .. (Half - 1) /\ Half \in Nat \ {0}
      BY PqSignedIs
    <3>3. QED
      BY <3>1, <3>2
  <2>3. QED
    BY <1>4, <2>2 DEF PqRanked
<1>6. PICK w : w = [i \in 1 .. (m - 1) |-> Pq!Signed(pr2[q[i]])]
  OBVIOUS
<1>7. ASSUME NEW i \in 1 .. (m - 1)
      PROVE  w[i] = v[i + 1] - 1
  <2>1. PICK j \in 2 .. m : j = i + 1
    OBVIOUS
  <2>2. q[i] = o[j] /\ j \in 1 .. m
    BY <1>1, <1>3, <2>1
  <2>3. pr[o[j]] \in 0 .. (Pq!Modulus - 1) /\ pr2[o[j]] = Pq!Older(pr[o[j]])
    BY <1>1
  <2>4. Pq!Signed(pr[o[j]]) > -Half
    <3>1. v[j] = Pq!Signed(pr[o[j]]) /\ v[j] \in Int /\ j - Capacity <= v[j]
      BY <1>4, <1>5, <2>2
    <3>2. QED
      BY <1>1, <3>1
  <2>5. Pq!Signed(pr2[o[j]]) = Pq!Signed(pr[o[j]]) - 1
    BY <2>3, <2>4, PqOlderIs
  <2>6. QED
    BY <1>4, <1>6, <2>1, <2>2, <2>5
<1>8. ASSUME NEW i \in 1 .. (m - 1)
      PROVE  w[i] \in Int /\ i - Capacity <= w[i] /\ w[i] <= Half - Capacity
  <2>1. PICK j \in 1 .. m : j = i + 1
    OBVIOUS
  <2>2. w[i] = v[j] - 1 /\ v[j] \in Int /\ j - Capacity <= v[j] /\ v[j] <= Half - Capacity
    BY <1>5, <1>7, <2>1
  <2>3. QED
    BY <1>1, <2>1, <2>2
<1>9. ASSUME NEW i \in 1 .. (m - 1), NEW j \in 1 .. (m - 1), i <= j
      PROVE  w[i] <= w[j]
  <2>1. PICK k \in 1 .. m : k = i + 1
    OBVIOUS
  <2>2. PICK l \in 1 .. m : l = j + 1
    OBVIOUS
  <2>3. k <= l /\ v[k] \in Int /\ v[l] \in Int
    BY <1>5, <1>9, <2>1, <2>2
  <2>4. v[k] <= v[l]
    BY <1>5, <2>3
  <2>5. QED
    BY <1>7, <2>1, <2>2, <2>3, <2>4
<1>10. PqRanked(pr2, q, m - 1)
  BY <1>1, <1>6, <1>8, <1>9 DEF PqRanked
<1>11. \A i \in 1 .. (m - 1) : i + 1 \in 1 .. m
  OBVIOUS
<1>12. \A i \in 1 .. (m - 1) : Pq!Signed(pr2[q[i]]) = Pq!Signed(pr[o[i + 1]]) - 1
  BY <1>4, <1>6, <1>7, <1>11
<1>13. QED
  BY <1>2, <1>10, <1>12
LEMMA PqInitInv == ASSUME Pq!PriorityQueueAssumption, Pq!Init PROVE PqInv
<1>1. /\ Capacity \in Nat \ {0} /\ Pq!Nodes = 1 .. Capacity /\ Pq!Null = 0
      /\ Half \in Nat \ {0} /\ Pq!Modulus = Half + Half
  BY DEF Pq!PriorityQueueAssumption, Pq!Nodes, Pq!Null, Pq!Modulus
<1>2. Pq!TypeOK
  BY <1>1 DEF Pq!Init, Pq!TypeOK
<1>3. \E m \in 0 .. Capacity, o \in PqOrders :
        PqPool(pqHead, pqFree, pqNext, o, m) /\ PqRanked(pqPriority, o, m)
  BY PqFresh DEF Pq!Init
<1>4. QED
  BY <1>2, <1>3 DEF PqInv

(* Two priorities in use compare as the numbers they stand for.            *)
LEMMA PqCloseEnough ==
  ASSUME Pq!PriorityQueueAssumption, Capacity <= Half,
         NEW a \in 0 .. (Pq!Modulus - 1), NEW b \in 0 .. (Pq!Modulus - 1),
         1 - Capacity <= Pq!Signed(a), Pq!Signed(a) <= Half - Capacity,
         1 - Capacity <= Pq!Signed(b), Pq!Signed(b) <= Half - Capacity
  PROVE  Pq!Cmp(a, b) = Pq!Signed(b) - Pq!Signed(a)
<1>1. /\ Capacity \in Nat \ {0} /\ Half \in Nat \ {0}
      /\ Pq!Signed(a) \in -Half .. (Half - 1) /\ Pq!Signed(b) \in -Half .. (Half - 1)
  BY PqSignedIs DEF Pq!PriorityQueueAssumption
<1>2. Pq!Signed(b) - Pq!Signed(a) \in -Half .. (Half - 1)
  BY <1>1
<1>3. QED
  BY <1>2, PqCmpIs

LEMMA PqNewRank ==
  ASSUME Pq!PriorityQueueAssumption, NEW p \in Priorities
  PROVE  /\ p \in 0 .. (Pq!Modulus - 1) /\ Pq!Signed(p) = p /\ Capacity <= Half
         /\ p \in Nat /\ p <= Half - Capacity
         /\ Capacity \in Nat \ {0} /\ Half \in Nat \ {0} /\ Pq!Modulus = Half + Half
<1>1. /\ p \in Nat /\ p + Capacity - 1 < Half
      /\ Capacity \in Nat \ {0} /\ Half \in Nat \ {0} /\ Pq!Modulus = Half + Half
  BY DEF Pq!PriorityQueueAssumption, Pq!Modulus
<1>2. p \in 0 .. (Pq!Modulus - 1) /\ p < Half /\ Capacity <= Half /\ p <= Half - Capacity
  BY <1>1
<1>3. Pq!Signed(p) = p
  BY <1>2, PqSignedIs
<1>4. QED
  BY <1>1, <1>2, <1>3

(* The loop of PQ_insert stops behind the last node that comes before a    *)
(* new entry of priority p.                                                *)
LEMMA PqCursorIs ==
  ASSUME Pq!PriorityQueueAssumption, Pq!TypeOK, NEW o \in PqOrders, NEW m \in 1 .. Capacity,
         PqPool(pqHead, pqFree, pqNext, o, m), PqRanked(pqPriority, o, m),
         NEW p \in Priorities, Pq!Signed(pqPriority[o[1]]) <= p
  PROVE  \E c \in 1 .. m :
           /\ Pq!Cursor(p) = o[c]
           /\ \A i \in 1 .. c : Pq!Signed(pqPriority[o[i]]) <= p
           /\ \A i \in (c + 1) .. m : p < Pq!Signed(pqPriority[o[i]])
<1> DEFINE Stops(k) ==
      /\ Pq!From(pqHead)[k] # Pq!Null
      /\ \/ pqNext[Pq!From(pqHead)[k]] = Pq!Null
         \/ Pq!Cmp(pqPriority[pqNext[Pq!From(pqHead)[k]]], p) < 0
<1>1. /\ Capacity \in Nat \ {0} /\ Pq!Nodes = 1 .. Capacity
      /\ \A i \in 1 .. Capacity : o[i] \in Pq!Nodes /\ o[i] # Pq!Null
      /\ \A i \in 1 .. Capacity :
           pqNext[o[i]] = IF i = m \/ i = Capacity THEN Pq!Null ELSE o[i + 1]
      /\ m \in 0 .. Capacity
  <2>1. /\ Capacity \in Nat \ {0} /\ Pq!Nodes = 1 .. Capacity
        /\ \A i \in 1 .. Capacity : o[i] \in Pq!Nodes
        /\ \A i, j \in 1 .. Capacity : o[i] = o[j] => i = j
    BY PqOrderIs
  <2>2. QED
    BY <2>1 DEF Pq!Null, PqPool
<1>2. Pq!From(pqHead) = [k \in 0 .. Capacity |-> IF k < m THEN o[k + 1] ELSE Pq!Null]
  BY <1>1, PqListedIs
<1>3. PICK v : v = [i \in 1 .. m |-> Pq!Signed(pqPriority[o[i]])]
  OBVIOUS
<1>4. ASSUME NEW i \in 1 .. m
      PROVE  /\ v[i] \in Int /\ pqPriority[o[i]] \in 0 .. (Pq!Modulus - 1)
             /\ Pq!Cmp(pqPriority[o[i]], p) = p - v[i]
  <2>8. o[i] \in Pq!Nodes
    BY <1>1
  <2>1. PICK a \in 0 .. (Pq!Modulus - 1) : a = pqPriority[o[i]]
    BY <2>8 DEF Pq!TypeOK
  <2>2. v[i] = Pq!Signed(a) /\ i - Capacity <= Pq!Signed(a) /\ Pq!Signed(a) <= Half - Capacity
    BY <1>3, <2>1 DEF PqRanked
  <2>3. Pq!Signed(a) \in -Half .. (Half - 1) /\ Half \in Nat \ {0}
    BY PqSignedIs
  <2>4. /\ p \in 0 .. (Pq!Modulus - 1) /\ Pq!Signed(p) = p /\ Capacity <= Half
        /\ p \in Nat /\ p <= Half - Capacity
    BY PqNewRank
  <2>5. 1 - Capacity <= Pq!Signed(a) /\ 1 - Capacity <= Pq!Signed(p) /\ Pq!Signed(p) <= Half - Capacity
    BY <1>1, <2>2, <2>3, <2>4
  <2>6. Pq!Cmp(a, p) = Pq!Signed(p) - Pq!Signed(a)
    BY <2>2, <2>4, <2>5, PqCloseEnough
  <2>7. QED
    BY <2>1, <2>2, <2>3, <2>4, <2>6
<1>5. p \in Nat /\ v[1] <= p /\ \A i, j \in 1 .. m : i <= j => v[i] <= v[j]
  <2>1. p \in Nat /\ 1 \in 1 .. m
    BY PqNewRank
  <2>2. QED
    BY <1>3, <2>1 DEF PqRanked
<1>6. ASSUME NEW k \in 0 .. Capacity
      PROVE  Stops(k) <=> k < m /\ (k + 1 = m \/ p < v[k + 2])
  <2>1. CASE k >= m
    <3>1. Pq!From(pqHead)[k] = Pq!Null
      BY <1>2, <2>1
    <3>2. QED
      BY <2>1, <3>1
  <2>2. CASE k < m
    <3>1. PICK i \in 1 .. m : i = k + 1
      BY <2>2
    <3>2. Pq!From(pqHead)[k] = o[i] /\ o[i] # Pq!Null
      BY <1>1, <1>2, <2>2, <3>1
    <3>3. pqNext[o[i]] = IF i = m THEN Pq!Null ELSE o[i + 1]
      BY <1>1
    <3>4. CASE i = m
      BY <2>2, <3>1, <3>2, <3>3, <3>4
    <3>5. CASE i # m
      <4>1. PICK j \in 1 .. m : j = i + 1
        BY <3>5
      <4>2. pqNext[o[i]] = o[j] /\ o[j] # Pq!Null
        BY <1>1, <3>3, <3>5, <4>1
      <4>3. Pq!Cmp(pqPriority[o[j]], p) = p - v[j] /\ v[j] \in Int
        BY <1>4
      <4>4. Stops(k) <=> p - v[j] < 0
        BY <3>2, <4>2, <4>3
      <4>5. j = k + 2 /\ k + 1 # m
        BY <3>1, <3>5, <4>1
      <4>6. QED
        BY <1>5, <2>2, <4>3, <4>4, <4>5
    <3>6. QED
      BY <3>4, <3>5
  <2>3. QED
    BY <1>1, <2>1, <2>2
<1>7. Pq!Cursor(p) = Pq!From(pqHead)[CHOOSE k \in 0 .. Capacity :
                               Stops(k) /\ \A j \in 0 .. (k - 1) : ~Stops(j)]
  BY DEF Pq!Cursor
<1> HIDE DEF Stops
<1>8. PICK K \in 0 .. Capacity :
        /\ Stops(K) /\ \A j \in 0 .. (K - 1) : ~Stops(j)
        /\ Pq!Cursor(p) = Pq!From(pqHead)[K]
  <2>1. PICK S \in SUBSET Nat : S = { k \in 0 .. Capacity : Stops(k) }
    <3>1. { k \in 0 .. Capacity : Stops(k) } \subseteq Nat
      OBVIOUS
    <3>2. QED
      BY <3>1
  <2>2. m - 1 \in S
    <3>1. PICK l \in 0 .. Capacity : l = m - 1
      BY <1>1
    <3>2. l < m /\ l + 1 = m
      BY <3>1
    <3>3. Stops(l)
      BY <1>6, <3>2
    <3>4. QED
      BY <2>1, <3>1, <3>3
  <2>3. PICK k \in S : \A j \in S : k <= j
    BY <2>2, LeastOf
  <2>4. k \in 0 .. Capacity /\ Stops(k) /\ \A j \in 0 .. (k - 1) : ~Stops(j)
    <3>1. k \in 0 .. Capacity /\ Stops(k)
      BY <2>1
    <3>2. ASSUME NEW j \in 0 .. (k - 1) PROVE ~Stops(j)
      <4>1. ~(k <= j) /\ j \in 0 .. Capacity
        BY <1>1, <3>1
      <4>2. j \notin S
        BY <2>3, <4>1
      <4>3. QED
        BY <2>1, <4>1, <4>2
    <3>3. QED
      BY <3>1, <3>2
  <2>5. PICK K : K = CHOOSE j \in 0 .. Capacity :
                       Stops(j) /\ \A l \in 0 .. (j - 1) : ~Stops(l)
    OBVIOUS
  <2>6. K \in 0 .. Capacity /\ Stops(K) /\ \A j \in 0 .. (K - 1) : ~Stops(j)
    BY <2>4, <2>5
  <2>7. Pq!Cursor(p) = Pq!From(pqHead)[K]
    BY <1>7, <2>5
  <2>8. QED
    BY <2>6, <2>7
<1>9. PICK c \in 1 .. m : c = K + 1
  BY <1>6, <1>8
<1>10. Pq!Cursor(p) = o[c]
  BY <1>2, <1>8, <1>9
<1>11. ASSUME NEW i \in 1 .. c PROVE v[i] <= p
  <2>1. CASE i = 1
    BY <1>5, <2>1
  <2>2. CASE i # 1
    <3>1. PICK k \in 0 .. (K - 1) : k = i - 2
      BY <1>9, <2>2
    <3>6. k \in 0 .. Capacity /\ k < m /\ k + 1 # m /\ k + 2 = i
      BY <1>1, <1>9, <2>2, <3>1
    <3>2. ~Stops(k) /\ k \in 0 .. Capacity /\ k < m /\ k + 1 # m /\ k + 2 = i
      BY <1>8, <3>6
    <3>3. ~(p < v[i])
      BY <1>6, <3>2
    <3>4. v[i] \in Int
      BY <1>4
    <3>5. QED
      BY <1>5, <3>3, <3>4
  <2>3. QED
    BY <2>1, <2>2
<1>12. ASSUME NEW i \in (c + 1) .. m PROVE p < v[i]
  <2>1. K + 1 # m /\ K + 2 \in 1 .. m /\ i \in 1 .. m /\ K + 2 <= i
    BY <1>9
  <2>2. PICK j \in 1 .. m : j = K + 2
    BY <2>1
  <2>3. p < v[j]
    BY <1>6, <1>8, <2>1, <2>2
  <2>4. v[j] <= v[i] /\ v[j] \in Int /\ v[i] \in Int
    BY <1>4, <1>5, <2>1, <2>2
  <2>5. QED
    BY <1>5, <2>3, <2>4
<1>13. \A i \in 1 .. c : i \in 1 .. m
  OBVIOUS
<1>14. \A i \in (c + 1) .. m : i \in 1 .. m
  OBVIOUS
<1>15. QED
  BY <1>3, <1>10, <1>11, <1>12, <1>13, <1>14

(* PQ_insert when there is a free node.                                    *)
LEMMA PqInsertIs ==
  ASSUME Pq!PriorityQueueAssumption, Pq!TypeOK, NEW o \in PqOrders, NEW m \in 0 .. Capacity,
         PqPool(pqHead, pqFree, pqNext, o, m), PqRanked(pqPriority, o, m),
         NEW p \in Priorities, NEW x \in Elements, Pq!Insert(p, x), pqFree # Pq!Null
  PROVE  /\ m < Capacity
         /\ \E k \in 0 .. m :
              /\ \A i \in 1 .. k : Pq!Signed(pqPriority[o[i]]) <= p
              /\ \A i \in (k + 1) .. m : p < Pq!Signed(pqPriority[o[i]])
              /\ pqHead' = IF k = 0 THEN o[m + 1] ELSE pqHead
              /\ pqNext' = [n \in Pq!Nodes |->
                   IF n = o[m + 1] THEN IF k = m THEN Pq!Null ELSE o[k + 1]
                   ELSE IF k > 0 /\ n = o[k] THEN o[m + 1] ELSE pqNext[n]]
<1>1. /\ Capacity \in Nat \ {0} /\ Pq!Nodes = 1 .. Capacity
      /\ \A i \in 1 .. Capacity : o[i] \in Pq!Nodes /\ o[i] # Pq!Null
      /\ \A i, j \in 1 .. Capacity : o[i] = o[j] => i = j
      /\ \A i \in 1 .. Capacity :
           pqNext[o[i]] = IF i = m \/ i = Capacity THEN Pq!Null ELSE o[i + 1]
      /\ pqHead = IF m = 0 THEN Pq!Null ELSE o[1]
      /\ pqFree = IF m = Capacity THEN Pq!Null ELSE o[m + 1]
  <2>1. /\ Capacity \in Nat \ {0} /\ Pq!Nodes = 1 .. Capacity
        /\ \A i \in 1 .. Capacity : o[i] \in Pq!Nodes
        /\ \A i, j \in 1 .. Capacity : o[i] = o[j] => i = j
    BY PqOrderIs
  <2>2. QED
    BY <2>1 DEF Pq!Null, PqPool
<1>2. m < Capacity /\ pqFree = o[m + 1] /\ m + 1 \in 1 .. Capacity
  BY <1>1
<1>3. IF Pq!IsEmpty \/ Pq!Cmp(p, pqPriority[pqHead]) > 0
      THEN pqNext' = [pqNext EXCEPT ![o[m + 1]] = pqHead] /\ pqHead' = o[m + 1]
      ELSE /\ pqNext' = [pqNext EXCEPT ![o[m + 1]] = pqNext[Pq!Cursor(p)], ![Pq!Cursor(p)] = o[m + 1]]
           /\ pqHead' = pqHead
  BY <1>2 DEF Pq!Insert
<1>4. p \in Nat /\ pqNext = [n \in Pq!Nodes |-> pqNext[n]]
  BY PqNewRank DEF Pq!TypeOK
<1>5. CASE m = 0
  <2>1. Pq!IsEmpty
    BY <1>1, <1>5 DEF Pq!IsEmpty
  <2>2. pqNext' = [pqNext EXCEPT ![o[m + 1]] = Pq!Null] /\ pqHead' = o[m + 1]
    BY <1>1, <1>3, <1>5, <2>1
  <2>3. pqNext' = [n \in Pq!Nodes |-> IF n = o[m + 1] THEN Pq!Null ELSE pqNext[n]]
    BY <1>4, <2>2
  <2>4. pqNext' = [n \in Pq!Nodes |->
                   IF n = o[m + 1] THEN IF 0 = m THEN Pq!Null ELSE o[0 + 1]
                   ELSE IF 0 > 0 /\ n = o[0] THEN o[m + 1] ELSE pqNext[n]]
    BY <1>5, <2>3
  <2>5. 0 \in 0 .. m /\ 1 .. 0 = {} /\ (0 + 1) .. m = {}
    BY <1>5
  <2>6. QED
    BY <1>2, <2>2, <2>4, <2>5
<1>6. CASE m # 0
  <2>1. m \in 1 .. Capacity /\ pqHead = o[1] /\ ~Pq!IsEmpty /\ 1 \in 1 .. m
    BY <1>1, <1>6 DEF Pq!IsEmpty
  <2>2. PICK a \in 0 .. (Pq!Modulus - 1) : a = pqPriority[o[1]]
    BY <1>1 DEF Pq!TypeOK
  <2>3. Pq!Cmp(p, pqPriority[pqHead]) = Pq!Signed(a) - p /\ Pq!Signed(a) \in Int
    <3>1. 1 - Capacity <= Pq!Signed(a) /\ Pq!Signed(a) <= Half - Capacity /\ Capacity <= Half
      BY <2>1, <2>2 DEF PqRanked
    <3>2. /\ p \in 0 .. (Pq!Modulus - 1) /\ Pq!Signed(p) = p /\ p <= Half - Capacity
      BY PqNewRank
    <3>3. 1 - Capacity <= Pq!Signed(p) /\ Pq!Signed(p) <= Half - Capacity
      BY <1>1, <1>4, <3>2
    <3>4. Pq!Cmp(p, a) = Pq!Signed(a) - Pq!Signed(p)
      BY <3>1, <3>2, <3>3, PqCloseEnough
    <3>5. Pq!Signed(a) \in -Half .. (Half - 1) /\ Half \in Nat \ {0}
      BY PqSignedIs
    <3>6. QED
      BY <2>1, <2>2, <3>2, <3>4, <3>5
  <2>4. CASE p < Pq!Signed(a)
    <3>1. pqNext' = [pqNext EXCEPT ![o[m + 1]] = o[1]] /\ pqHead' = o[m + 1]
      BY <1>3, <1>4, <2>1, <2>3, <2>4
    <3>2. pqNext' = [n \in Pq!Nodes |-> IF n = o[m + 1] THEN o[1] ELSE pqNext[n]]
      BY <1>4, <3>1
    <3>3. 0 + 1 = 1 /\ ~(0 > 0) /\ 0 # m
      BY <1>6
    <3>4. pqNext' = [n \in Pq!Nodes |->
                     IF n = o[m + 1] THEN IF 0 = m THEN Pq!Null ELSE o[0 + 1]
                     ELSE IF 0 > 0 /\ n = o[0] THEN o[m + 1] ELSE pqNext[n]]
      BY <3>2, <3>3
    <3>5. \A i \in (0 + 1) .. m : p < Pq!Signed(pqPriority[o[i]])
      <4>1. ASSUME NEW i \in 1 .. m PROVE p < Pq!Signed(pqPriority[o[i]])
        <5>1. Pq!Signed(a) <= Pq!Signed(pqPriority[o[i]])
          BY <2>1, <2>2 DEF PqRanked
        <5>5. o[i] \in Pq!Nodes
          BY <1>1
        <5>2. PICK b \in 0 .. (Pq!Modulus - 1) : b = pqPriority[o[i]]
          BY <5>5 DEF Pq!TypeOK
        <5>3. Pq!Signed(b) \in -Half .. (Half - 1) /\ Half \in Nat \ {0}
          BY PqSignedIs
        <5>4. QED
          BY <1>4, <2>3, <2>4, <5>1, <5>2, <5>3
      <4>2. QED
        BY <4>1
    <3>6. 0 \in 0 .. m /\ 1 .. 0 = {}
      OBVIOUS
    <3>7. QED
      BY <1>2, <3>1, <3>4, <3>5, <3>6
  <2>5. CASE Pq!Signed(a) <= p
    <3>1. ~(Pq!Cmp(p, pqPriority[pqHead]) > 0)
      BY <1>4, <2>3, <2>5
    <3>2. PICK c \in 1 .. m :
            /\ Pq!Cursor(p) = o[c]
            /\ \A i \in 1 .. c : Pq!Signed(pqPriority[o[i]]) <= p
            /\ \A i \in (c + 1) .. m : p < Pq!Signed(pqPriority[o[i]])
      BY <2>1, <2>2, <2>5, PqCursorIs
    <3>3. /\ pqNext' = [pqNext EXCEPT ![o[m + 1]] = pqNext[o[c]], ![o[c]] = o[m + 1]]
          /\ pqHead' = pqHead
      BY <1>3, <2>1, <3>1, <3>2
    <3>4. pqNext[o[c]] = (IF c = m THEN Pq!Null ELSE o[c + 1]) /\ o[c] # o[m + 1] /\ c > 0
          /\ o[c] \in Pq!Nodes /\ o[m + 1] \in Pq!Nodes
      BY <1>1, <1>2
    <3>5. pqNext' = [n \in Pq!Nodes |->
                     IF n = o[m + 1] THEN IF c = m THEN Pq!Null ELSE o[c + 1]
                     ELSE IF c > 0 /\ n = o[c] THEN o[m + 1] ELSE pqNext[n]]
      BY <1>4, <3>3, <3>4
    <3>6. c \in 0 .. m /\ c # 0
      OBVIOUS
    <3>7. QED
      BY <1>2, <3>2, <3>3, <3>5, <3>6
  <2>6. QED
    BY <1>4, <2>3, <2>4, <2>5
<1>7. QED
  BY <1>5, <1>6
LEMMA PqInvInsert ==
  ASSUME Pq!PriorityQueueAssumption, PqInv, NEW p \in Priorities, NEW x \in Elements, Pq!Insert(p, x)
  PROVE  PqInv'
<1>1. PICK m \in 0 .. Capacity, o \in PqOrders :
        PqPool(pqHead, pqFree, pqNext, o, m) /\ PqRanked(pqPriority, o, m)
  BY DEF PqInv
<1>2. Pq!TypeOK
  BY DEF PqInv
<1>3. CASE pqFree = Pq!Null
  <2>1. UNCHANGED <<pqHead, pqFree, pqNext, pqPriority, pqPayload>>
    BY <1>3 DEF Pq!Insert
  <2>2. QED
    BY <1>1, <1>2, <2>1 DEF PqInv, Pq!TypeOK
<1>4. CASE pqFree # Pq!Null
  <2>1. PICK k \in 0 .. m :
          /\ m < Capacity
          /\ \A i \in 1 .. k : Pq!Signed(pqPriority[o[i]]) <= p
          /\ \A i \in (k + 1) .. m : p < Pq!Signed(pqPriority[o[i]])
          /\ pqHead' = IF k = 0 THEN o[m + 1] ELSE pqHead
          /\ pqNext' = [n \in Pq!Nodes |->
               IF n = o[m + 1] THEN IF k = m THEN Pq!Null ELSE o[k + 1]
               ELSE IF k > 0 /\ n = o[k] THEN o[m + 1] ELSE pqNext[n]]
    BY <1>1, <1>2, <1>4, PqInsertIs
  <2>2. /\ Capacity \in Nat \ {0} /\ m \in 0 .. (Capacity - 1) /\ m + 1 \in 0 .. Capacity
        /\ Pq!Nodes = 1 .. Capacity /\ m + 1 \in Pq!Nodes
        /\ \A i \in 1 .. Capacity : o[i] \in Pq!Nodes
    BY <2>1, PqOrderIs
  <2>3. pqFree = o[m + 1]
    BY <1>1, <2>1, <2>2 DEF PqPool
  <2>4. /\ pqFree' = pqNext[o[m + 1]]
        /\ pqPriority' = [pqPriority EXCEPT ![o[m + 1]] = p]
        /\ pqPayload' = [pqPayload EXCEPT ![o[m + 1]] = x]
    BY <1>4, <2>3 DEF Pq!Insert
  <2>5. PqEntered(o, m, k) \in PqOrders
    BY <2>2, PqEnteredOrder
  <2>6. PqPool(pqHead', pqFree', pqNext', PqEntered(o, m, k), m + 1)
    BY <1>1, <2>1, <2>2, <2>4, PqEnteredPool
  <2>7. pqPriority \in [Pq!Nodes -> 0 .. (Pq!Modulus - 1)]
    BY <1>2 DEF Pq!TypeOK
  <2>8. PqRanked(pqPriority', PqEntered(o, m, k), m + 1)
    BY <1>1, <2>1, <2>2, <2>4, <2>7, PqEnteredRanked
  <2>9. Pq!TypeOK'
    <3>1. p \in 0 .. (Pq!Modulus - 1)
      BY PqNewRank
    <3>2. /\ pqPriority' \in [Pq!Nodes -> 0 .. (Pq!Modulus - 1)]
          /\ pqPayload' \in [Pq!Nodes -> Elements \cup {None}]
      BY <1>2, <2>4, <3>1 DEF Pq!TypeOK
    <3>3. pqNext' \in [Pq!Nodes -> Pq!Nodes \cup {Pq!Null}]
      <4>1. \A n \in Pq!Nodes : pqNext[n] \in Pq!Nodes \cup {Pq!Null}
        BY <1>2 DEF Pq!TypeOK
      <4>2. k # m => k + 1 \in 1 .. Capacity
        BY <2>2
      <4>3. (k # m => o[k + 1] \in Pq!Nodes) /\ o[m + 1] \in Pq!Nodes
        BY <2>2, <4>2
      <4>4. QED
        BY <2>1, <4>1, <4>3
    <3>4. pqHead' \in Pq!Nodes \cup {Pq!Null} /\ pqFree' \in Pq!Nodes \cup {Pq!Null}
      BY <1>2, <2>1, <2>2, <2>4 DEF Pq!TypeOK
    <3>5. QED
      BY <3>2, <3>3, <3>4 DEF Pq!TypeOK, Pq!Nodes, Pq!Modulus, Pq!Null
  <2>10. QED
    <3>1. \E n \in 0 .. Capacity, q \in PqOrders :
            PqPool(pqHead', pqFree', pqNext', q, n) /\ PqRanked(pqPriority', q, n)
      BY <2>2, <2>5, <2>6, <2>8
    <3>2. QED
      BY <2>9, <3>1 DEF PqInv
<1>5. QED
  BY <1>3, <1>4

(* PQ_pop_highest.                                                         *)
LEMMA PqPopIs ==
  ASSUME Pq!PriorityQueueAssumption, Pq!TypeOK, NEW o \in PqOrders, NEW m \in 0 .. Capacity,
         PqPool(pqHead, pqFree, pqNext, o, m), PqRanked(pqPriority, o, m), Pq!PopHighest
  PROVE  /\ m \in 1 .. Capacity /\ pqHead = o[1] /\ pqAnswer' = pqPayload[o[1]]
         /\ PqPool(pqHead', pqFree', pqNext', PqLeft(o, m), m - 1)
         /\ \A i \in 2 .. m : /\ pqPriority'[o[i]] = Pq!Older(pqPriority[o[i]])
                              /\ pqPayload'[o[i]] = pqPayload[o[i]]
<1>1. /\ Capacity \in Nat \ {0} /\ Pq!Nodes = 1 .. Capacity
      /\ \A i \in 1 .. Capacity : o[i] \in Pq!Nodes
      /\ \A i, j \in 1 .. Capacity : o[i] = o[j] => i = j
      /\ pqHead = IF m = 0 THEN Pq!Null ELSE o[1]
  BY PqOrderIs DEF PqPool
<1>2. m \in 1 .. Capacity /\ pqHead = o[1] /\ m > 0
  BY <1>1 DEF Pq!PopHighest, Pq!IsEmpty
<1>3. pqAnswer' = pqPayload[o[1]]
  BY <1>2 DEF Pq!PopHighest
<1>4. pqNext' = [n \in Pq!Nodes |-> IF n = pqHead THEN pqFree ELSE pqNext[n]]
  BY DEF Pq!PopHighest, Pq!TypeOK
<1>5. pqHead' = pqNext[pqHead] /\ pqFree' = pqHead
  BY DEF Pq!PopHighest
<1>6. PqPool(pqHead', pqFree', pqNext', PqLeft(o, m), m - 1)
  BY <1>2, <1>4, <1>5, PqLeftPool
<1>7. Pq!Listed(pqNext[pqHead]) = { o[i] : i \in 2 .. m }
  BY <1>2, PqListedIs
<1>8. ASSUME NEW i \in 2 .. m
      PROVE  /\ pqPriority'[o[i]] = Pq!Older(pqPriority[o[i]])
             /\ pqPayload'[o[i]] = pqPayload[o[i]]
  <2>1. o[i] \in Pq!Nodes /\ o[i] # pqHead
    BY <1>1, <1>2
  <2>2. o[i] \in Pq!Listed(pqNext[pqHead])
    BY <1>7
  <2>3. pqPriority'[o[i]] = Pq!Older(pqPriority[o[i]])
    BY <2>1, <2>2 DEF Pq!PopHighest
  <2>4. pqPayload'[o[i]] = pqPayload[o[i]]
    BY <2>1 DEF Pq!PopHighest, Pq!TypeOK
  <2>5. QED
    BY <2>3, <2>4
<1>9. QED
  BY <1>2, <1>3, <1>6, <1>8

LEMMA PqInvPop ==
  ASSUME Pq!PriorityQueueAssumption, PqInv, Pq!PopHighest
  PROVE  PqInv'
<1>1. PICK m \in 0 .. Capacity, o \in PqOrders :
        PqPool(pqHead, pqFree, pqNext, o, m) /\ PqRanked(pqPriority, o, m)
  BY DEF PqInv
<1>2. Pq!TypeOK
  BY DEF PqInv
<1>3. /\ m \in 1 .. Capacity /\ pqHead = o[1]
      /\ PqPool(pqHead', pqFree', pqNext', PqLeft(o, m), m - 1)
      /\ \A i \in 2 .. m : pqPriority'[o[i]] = Pq!Older(pqPriority[o[i]])
  BY <1>1, <1>2, PqPopIs
<1>4. pqPriority \in [Pq!Nodes -> 0 .. (Pq!Modulus - 1)]
  BY <1>2 DEF Pq!TypeOK
<1>5. PqRanked(pqPriority', PqLeft(o, m), m - 1)
  BY <1>1, <1>3, <1>4, PqLeftRanked
<1>6. PqLeft(o, m) \in PqOrders
  BY <1>3, PqLeftOrder
<1>7. /\ Capacity \in Nat \ {0} /\ Pq!Nodes = 1 .. Capacity /\ m - 1 \in 0 .. Capacity
      /\ \A i \in 1 .. Capacity : o[i] \in Pq!Nodes
      /\ pqHead \in Pq!Nodes /\ Half \in Nat \ {0} /\ Pq!Modulus = Half + Half
  BY <1>3, PqOrderIs DEF Pq!PriorityQueueAssumption, Pq!Modulus
<1>8. Pq!TypeOK'
  <2>1. ASSUME NEW n \in Pq!Nodes PROVE Pq!Older(pqPriority[n]) \in 0 .. (Pq!Modulus - 1)
    <3>1. PICK a \in 0 .. (Pq!Modulus - 1) : a = pqPriority[n]
      BY <1>4
    <3>2. Pq!Older(a) \in 0 .. (Pq!Modulus - 1)
      BY PqOlderIs
    <3>3. QED
      BY <3>1, <3>2
  <2>2. 0 \in 0 .. (Pq!Modulus - 1)
    BY <1>7
  <2>3. pqPriority' \in [Pq!Nodes -> 0 .. (Pq!Modulus - 1)]
    BY <1>4, <2>1, <2>2 DEF Pq!PopHighest
  <2>4. /\ pqNext' \in [Pq!Nodes -> Pq!Nodes \cup {Pq!Null}]
        /\ pqPayload' \in [Pq!Nodes -> Elements \cup {None}]
        /\ pqHead' \in Pq!Nodes \cup {Pq!Null} /\ pqFree' \in Pq!Nodes \cup {Pq!Null}
    BY <1>2, <1>7 DEF Pq!PopHighest, Pq!TypeOK
  <2>5. QED
    BY <2>3, <2>4 DEF Pq!TypeOK, Pq!Nodes, Pq!Modulus, Pq!Null
<1>9. \E n \in 0 .. Capacity, q \in PqOrders :
        PqPool(pqHead', pqFree', pqNext', q, n) /\ PqRanked(pqPriority', q, n)
  BY <1>3, <1>5, <1>6, <1>7
<1>10. QED
  BY <1>8, <1>9 DEF PqInv

LEMMA PqInvStep ==
  ASSUME Pq!PriorityQueueAssumption, PqInv, [Pq!Next]_(Pq!vars) PROVE PqInv'
<1>1. CASE UNCHANGED <<pqHead, pqFree, pqNext, pqPriority, pqPayload>>
  <2>1. Pq!TypeOK'
    BY <1>1 DEF PqInv, Pq!TypeOK
  <2>2. \E n \in 0 .. Capacity, q \in PqOrders :
          PqPool(pqHead', pqFree', pqNext', q, n) /\ PqRanked(pqPriority', q, n)
    BY <1>1 DEF PqInv
  <2>3. QED
    BY <2>1, <2>2 DEF PqInv
<1>2. CASE Pq!Renew
  <2>1. Pq!TypeOK'
    <3>1. /\ Capacity \in Nat \ {0} /\ Pq!Nodes = 1 .. Capacity /\ Pq!Null = 0
          /\ Half \in Nat \ {0} /\ Pq!Modulus = Half + Half
      BY DEF Pq!PriorityQueueAssumption, Pq!Nodes, Pq!Null, Pq!Modulus
    <3>2. /\ pqHead' \in Pq!Nodes \cup {Pq!Null} /\ pqFree' \in Pq!Nodes \cup {Pq!Null}
          /\ pqNext' \in [Pq!Nodes -> Pq!Nodes \cup {Pq!Null}]
          /\ pqPriority' \in [Pq!Nodes -> 0 .. (Pq!Modulus - 1)]
          /\ pqPayload' \in [Pq!Nodes -> Elements \cup {None}]
      BY <1>2, <3>1 DEF Pq!Renew
    <3>3. QED
      BY <3>2 DEF Pq!TypeOK, Pq!Nodes, Pq!Modulus, Pq!Null
  <2>2. \E n \in 0 .. Capacity, q \in PqOrders :
          PqPool(pqHead', pqFree', pqNext', q, n) /\ PqRanked(pqPriority', q, n)
    BY <1>2, PqFresh DEF Pq!Renew
  <2>3. QED
    BY <2>1, <2>2 DEF PqInv
<1>3. CASE Pq!PeekHighest \/ Pq!PopNothing \/ UNCHANGED Pq!vars
  BY <1>1, <1>3 DEF Pq!PeekHighest, Pq!PopNothing, Pq!vars
<1>4. QED
  BY <1>2, <1>3, PqInvInsert, PqInvPop DEF Pq!Next

(* What the invariant says of the pool and of the priorities.              *)
LEMMA PqInvMeans ==
  ASSUME Pq!PriorityQueueAssumption, PqInv
  PROVE  Pq!TypeOK /\ Pq!PoolKept /\ Pq!WaitBounded
<1>1. PICK m \in 0 .. Capacity, o \in PqOrders :
        PqPool(pqHead, pqFree, pqNext, o, m) /\ PqRanked(pqPriority, o, m)
  BY DEF PqInv
<1>2. /\ Pq!From(pqHead) = [k \in 0 .. Capacity |-> IF k < m THEN o[k + 1] ELSE Pq!Null]
      /\ Pq!From(pqFree)
           = [k \in 0 .. Capacity |-> IF k < Capacity - m THEN o[m + k + 1] ELSE Pq!Null]
      /\ Pq!Listed(pqHead) = { o[i] : i \in 1 .. m }
      /\ Pq!Listed(pqFree) = { o[i] : i \in (m + 1) .. Capacity }
  BY <1>1, PqListedIs
<1>3. /\ Capacity \in Nat \ {0} /\ Pq!Nodes = 1 .. Capacity
      /\ \A i \in 1 .. Capacity : o[i] \in Pq!Nodes
      /\ \A i, j \in 1 .. Capacity : o[i] = o[j] => i = j
  BY PqOrderIs
<1>4. \A n \in Pq!Nodes : \E i \in 1 .. Capacity : o[i] = n
  BY <1>3 DEF PqOrders
<1>5. Pq!Listed(pqHead) \cup Pq!Listed(pqFree) = Pq!Nodes
  <2>1. \A i \in 1 .. Capacity : i \in 1 .. m \/ i \in (m + 1) .. Capacity
    BY <1>3
  <2>2. 1 .. m \subseteq 1 .. Capacity /\ (m + 1) .. Capacity \subseteq 1 .. Capacity
    BY <1>3
  <2>3. Pq!Listed(pqHead) \cup Pq!Listed(pqFree) \subseteq 1 .. Capacity
    BY <1>2, <1>3, <2>2
  <2>4. ASSUME NEW n \in 1 .. Capacity PROVE n \in Pq!Listed(pqHead) \cup Pq!Listed(pqFree)
    <3>1. PICK i \in 1 .. Capacity : o[i] = n
      BY <1>3, <1>4
    <3>2. QED
      BY <1>2, <2>1, <3>1
  <2>5. QED
    BY <1>3, <2>3, <2>4
<1>6. Pq!Listed(pqHead) \cap Pq!Listed(pqFree) = {}
  <2>1. ASSUME NEW i \in 1 .. m, NEW j \in (m + 1) .. Capacity PROVE o[i] # o[j]
    <3>1. i \in 1 .. Capacity /\ j \in 1 .. Capacity /\ i # j
      BY <1>3
    <3>2. QED
      BY <1>3, <3>1
  <2>2. QED
    BY <1>2, <2>1
<1>7. Pq!From(pqHead)[Capacity] = Pq!Null /\ Pq!From(pqFree)[Capacity] = Pq!Null
  <2>1. Capacity \in 0 .. Capacity /\ ~(Capacity < m) /\ ~(Capacity < Capacity - m)
    BY <1>3
  <2>2. QED
    BY <1>2, <2>1
<1>8. ASSUME NEW n \in Pq!Listed(pqHead) PROVE Pq!Signed(pqPriority[n]) > -Capacity
  <2>1. PICK i \in 1 .. m : n = o[i]
    BY <1>2
  <2>2. o[i] \in Pq!Nodes
    BY <1>3
  <2>3. PICK a \in 0 .. (Pq!Modulus - 1) : a = pqPriority[o[i]]
    BY <2>2 DEF PqInv, Pq!TypeOK
  <2>4. Pq!Signed(a) \in -Half .. (Half - 1) /\ Half \in Nat \ {0}
    BY PqSignedIs
  <2>5. i - Capacity <= Pq!Signed(a)
    BY <1>1, <2>3 DEF PqRanked
  <2>6. QED
    BY <1>3, <2>1, <2>3, <2>4, <2>5
<1>9. QED
  BY <1>5, <1>6, <1>7, <1>8 DEF PqInv, Pq!PoolKept, Pq!WaitBounded
-----------------------------------------------------------------------------
(* The entries waiting, as RankedQueue has them.                           *)

PqWaiting ==
  [i \in { k + 1 : k \in { j \in 0 .. Capacity : Pq!From(pqHead)[j] # Pq!Null } } |->
     [rank |-> Pq!Signed(pqPriority[Pq!From(pqHead)[i - 1]]),
      item |-> pqPayload[Pq!From(pqHead)[i - 1]]]]

PqRow(o, m, pr, pay) ==
  [i \in 1 .. m |-> [rank |-> Pq!Signed(pr[o[i]]), item |-> pay[o[i]]]]

PqRowFrom(f, pr, pay) ==
  [i \in { k + 1 : k \in { j \in 0 .. Capacity : f[j] # Pq!Null } } |->
     [rank |-> Pq!Signed(pr[f[i - 1]]), item |-> pay[f[i - 1]]]]

PqEntries == [rank : Int, item : Elements \cup {None}]

(* A walk over the nodes in use gives the row of their entries.            *)
LEMMA PqRowOf ==
  ASSUME Pq!PriorityQueueAssumption, NEW o \in PqOrders, NEW m \in 0 .. Capacity,
         NEW f, f = [k \in 0 .. Capacity |-> IF k < m THEN o[k + 1] ELSE Pq!Null],
         NEW pr, NEW pay
  PROVE  PqRowFrom(f, pr, pay) = PqRow(o, m, pr, pay)
<1>1. /\ Capacity \in Nat \ {0}
      /\ \A i \in 1 .. Capacity : o[i] # Pq!Null
  BY PqOrderIs DEF Pq!Null
<1>2. ASSUME NEW j \in 0 .. Capacity PROVE f[j] # Pq!Null <=> j < m
  <2>1. CASE j < m
    <3>1. j + 1 \in 1 .. Capacity /\ f[j] = o[j + 1]
      BY <1>1, <2>1
    <3>2. QED
      BY <1>1, <2>1, <3>1
  <2>2. CASE ~(j < m)
    BY <2>2
  <2>3. QED
    BY <2>1, <2>2
<1>3. { j \in 0 .. Capacity : f[j] # Pq!Null } = 0 .. (m - 1)
  <2>1. { j \in 0 .. Capacity : f[j] # Pq!Null } = { j \in 0 .. Capacity : j < m }
    BY <1>2
  <2>2. { j \in 0 .. Capacity : j < m } = 0 .. (m - 1)
    BY <1>1
  <2>3. QED
    BY <2>1, <2>2
<1>4. { k + 1 : k \in 0 .. (m - 1) } = 1 .. m
  <2>1. ASSUME NEW i \in 1 .. m PROVE \E k \in 0 .. (m - 1) : i = k + 1
    <3>1. i - 1 \in 0 .. (m - 1) /\ i = i - 1 + 1
      OBVIOUS
    <3>2. QED
      BY <3>1
  <2>2. \A k \in 0 .. (m - 1) : k + 1 \in 1 .. m
    OBVIOUS
  <2>3. QED
    BY <2>1, <2>2
<1>5. ASSUME NEW i \in 1 .. m PROVE f[i - 1] = o[i]
  <2>1. PICK k \in 0 .. Capacity : k = i - 1
    BY <1>1
  <2>2. k < m /\ k + 1 = i
    BY <2>1
  <2>3. QED
    BY <2>1, <2>2
<1>6. QED
  BY <1>3, <1>4, <1>5 DEF PqRow, PqRowFrom

LEMMA PqRowIs ==
  ASSUME Pq!PriorityQueueAssumption, NEW o \in PqOrders, NEW m \in 0 .. Capacity,
         NEW pr \in [Pq!Nodes -> 0 .. (Pq!Modulus - 1)],
         NEW pay \in [Pq!Nodes -> Elements \cup {None}],
         NEW w, w = PqRow(o, m, pr, pay)
  PROVE  /\ w \in Seq(PqEntries) /\ Len(w) = m
         /\ \A i \in 1 .. m : w[i] = [rank |-> Pq!Signed(pr[o[i]]), item |-> pay[o[i]]]
<1>1. /\ Pq!Nodes = 1 .. Capacity /\ Capacity \in Nat \ {0}
      /\ \A i \in 1 .. Capacity : o[i] \in Pq!Nodes
  BY PqOrderIs
<1>2. w = [i \in 1 .. m |-> w[i]] /\ m \in Nat
  BY <1>1 DEF PqRow
<1>3. \A i \in 1 .. m : w[i] = [rank |-> Pq!Signed(pr[o[i]]), item |-> pay[o[i]]]
  BY DEF PqRow
<1>4. ASSUME NEW i \in 1 .. m PROVE w[i] \in PqEntries
  <2>1. o[i] \in Pq!Nodes
    BY <1>1
  <2>2. PICK a \in 0 .. (Pq!Modulus - 1) : a = pr[o[i]]
    BY <2>1
  <2>3. Pq!Signed(a) \in -Half .. (Half - 1) /\ Half \in Nat \ {0}
    BY PqSignedIs
  <2>4. Pq!Signed(a) \in Int
    BY <2>3
  <2>5. PICK y \in Elements \cup {None} : y = pay[o[i]]
    BY <2>1
  <2>6. w[i] = [rank |-> Pq!Signed(a), item |-> y]
    BY <1>3, <2>2, <2>5
  <2>7. QED
    BY <2>4, <2>6 DEF PqEntries
<1>5. w \in Seq(PqEntries) /\ Len(w) = m
  BY <1>2, <1>4, ListIs
<1>6. QED
  BY <1>3, <1>5

PqIsRow(w, o, m, pr, pay) ==
  \A i \in 1 .. m : w[i] = [rank |-> Pq!Signed(pr[o[i]]), item |-> pay[o[i]]]

LEMMA PqRowAre ==
  ASSUME Pq!PriorityQueueAssumption, NEW o \in PqOrders, NEW m \in 0 .. Capacity,
         NEW pr \in [Pq!Nodes -> 0 .. (Pq!Modulus - 1)],
         NEW pay \in [Pq!Nodes -> Elements \cup {None}],
         NEW w, w = PqRow(o, m, pr, pay)
  PROVE  w \in Seq(PqEntries) /\ Len(w) = m /\ PqIsRow(w, o, m, pr, pay)
  BY PqRowIs DEF PqIsRow

LEMMA PqWaitingIs ==
  ASSUME Pq!PriorityQueueAssumption, NEW o \in PqOrders, NEW m \in 0 .. Capacity,
         PqPool(pqHead, pqFree, pqNext, o, m)
  PROVE  PqWaiting = PqRow(o, m, pqPriority, pqPayload)
<1>1. Pq!From(pqHead) = [k \in 0 .. Capacity |-> IF k < m THEN o[k + 1] ELSE Pq!Null]
  BY PqListedIs
<1>2. PqWaiting = PqRowFrom(Pq!From(pqHead), pqPriority, pqPayload)
  BY DEF PqWaiting, PqRowFrom
<1>3. QED
  BY <1>1, <1>2, PqRowOf

LEMMA PqWaitingNextIs ==
  ASSUME Pq!PriorityQueueAssumption, NEW o \in PqOrders, NEW m \in 0 .. Capacity,
         PqPool(pqHead', pqFree', pqNext', o, m)
  PROVE  PqWaiting' = PqRow(o, m, pqPriority', pqPayload')
<1>1. /\ Walk(pqNext', pqHead', Capacity, Pq!Null)
           = [k \in 0 .. Capacity |-> IF k < m THEN o[k + 1] ELSE Pq!Null]
      /\ Walk(pqNext', pqFree', Capacity, Pq!Null)
           = [k \in 0 .. Capacity |-> IF k < Capacity - m THEN o[m + k + 1] ELSE Pq!Null]
      /\ m > 0 => Walk(pqNext', pqNext'[pqHead'], Capacity, Pq!Null)
           = [k \in 0 .. Capacity |-> IF k < m - 1 THEN o[1 + k + 1] ELSE Pq!Null]
  BY PqWalks
<1>2. Pq!From(pqHead)' = Walk(pqNext', pqHead', Capacity, Pq!Null)
  BY DEF Pq!From, Walk, Pq!Null
<1>3. PICK f : f = Pq!From(pqHead)'
  OBVIOUS
<1>4. PqWaiting' = PqRowFrom(f, pqPriority', pqPayload')
  BY <1>3 DEF PqWaiting, PqRowFrom, Pq!Signed, Pq!Modulus, Pq!Null
<1>5. f = [k \in 0 .. Capacity |-> IF k < m THEN o[k + 1] ELSE Pq!Null]
  BY <1>1, <1>2, <1>3
<1>6. QED
  BY <1>4, <1>5, PqRowOf

LEMMA PqInsertRefines ==
  ASSUME Pq!PriorityQueueAssumption, PqInv, NEW p \in Priorities, NEW x \in Elements, Pq!Insert(p, x)
  PROVE  Pq!R!Insert(p, x)
<1>1. PICK m \in 0 .. Capacity, o \in PqOrders :
        PqPool(pqHead, pqFree, pqNext, o, m) /\ PqRanked(pqPriority, o, m)
  BY DEF PqInv
<1>2. /\ Pq!TypeOK /\ pqPriority \in [Pq!Nodes -> 0 .. (Pq!Modulus - 1)]
      /\ pqPayload \in [Pq!Nodes -> Elements \cup {None}]
  BY DEF PqInv, Pq!TypeOK
<1>3. PICK w : w = PqWaiting
  OBVIOUS
<1>4. PICK v : v = PqWaiting'
  OBVIOUS
<1>5. Pq!R!Insert(p, x) <=>
        IF Len(w) = Capacity
        THEN pqAnswer' = FALSE /\ v = w
        ELSE /\ pqAnswer' = TRUE
             /\ \E k \in 0 .. Len(w) :
                  /\ \A i \in 1 .. k : w[i].rank <= p
                  /\ \A i \in (k + 1) .. Len(w) : p < w[i].rank
                  /\ v = SubSeq(w, 1, k) \o <<Pq!R!Entry(p, x)>>
                            \o SubSeq(w, k + 1, Len(w))
  BY <1>3, <1>4 DEF Pq!R!Insert, PqWaiting
<1>6. w = PqRow(o, m, pqPriority, pqPayload)
  BY <1>1, <1>3, PqWaitingIs
<1>7. /\ w \in Seq(PqEntries) /\ Len(w) = m
      /\ \A i \in 1 .. m :
           w[i] = [rank |-> Pq!Signed(pqPriority[o[i]]), item |-> pqPayload[o[i]]]
  BY <1>2, <1>6, PqRowIs
<1>8. CASE pqFree = Pq!Null
  <2>1. pqAnswer' = FALSE /\ UNCHANGED <<pqHead, pqFree, pqNext, pqPriority, pqPayload>>
    BY <1>8 DEF Pq!Insert
  <2>2. m = Capacity
    <3>1. m # Capacity => o[m + 1] # Pq!Null
      BY PqOrderIs DEF Pq!Null
    <3>2. QED
      BY <1>1, <1>8, <3>1 DEF PqPool
  <2>3. v = w
    <3>1. PqPool(pqHead', pqFree', pqNext', o, m)
      BY <1>1, <2>1
    <3>2. PqWaiting' = PqRow(o, m, pqPriority', pqPayload')
      BY <3>1, PqWaitingNextIs
    <3>3. QED
      BY <1>4, <1>6, <2>1, <3>2
  <2>4. QED
    BY <1>5, <1>7, <2>1, <2>2, <2>3
<1>9. CASE pqFree # Pq!Null
  <2>1. PICK k \in 0 .. m :
          /\ m < Capacity
          /\ \A i \in 1 .. k : Pq!Signed(pqPriority[o[i]]) <= p
          /\ \A i \in (k + 1) .. m : p < Pq!Signed(pqPriority[o[i]])
          /\ pqHead' = IF k = 0 THEN o[m + 1] ELSE pqHead
          /\ pqNext' = [n \in Pq!Nodes |->
               IF n = o[m + 1] THEN IF k = m THEN Pq!Null ELSE o[k + 1]
               ELSE IF k > 0 /\ n = o[k] THEN o[m + 1] ELSE pqNext[n]]
    BY <1>1, <1>2, <1>9, PqInsertIs
  <2>2. /\ Capacity \in Nat \ {0} /\ m \in 0 .. (Capacity - 1) /\ m + 1 \in 0 .. Capacity
        /\ Pq!Nodes = 1 .. Capacity /\ m \in Nat
        /\ \A i \in 1 .. Capacity : o[i] \in Pq!Nodes
        /\ \A i, j \in 1 .. Capacity : o[i] = o[j] => i = j
    BY <2>1, PqOrderIs
  <2>3. pqFree = o[m + 1]
    BY <1>1, <2>1, <2>2 DEF PqPool
  <2>4. /\ pqFree' = pqNext[o[m + 1]] /\ pqAnswer' = TRUE
        /\ pqPriority' = [pqPriority EXCEPT ![o[m + 1]] = p]
        /\ pqPayload' = [pqPayload EXCEPT ![o[m + 1]] = x]
    BY <1>9, <2>3 DEF Pq!Insert
  <2>5. PICK q \in PqOrders : q = PqEntered(o, m, k)
    BY <2>2, PqEnteredOrder
  <2>6. PqPool(pqHead', pqFree', pqNext', q, m + 1)
    BY <1>1, <2>1, <2>2, <2>4, <2>5, PqEnteredPool
  <2>7. \A i \in 1 .. (m + 1) :
          Pq!Signed(pqPriority'[q[i]]) =
            IF i <= k THEN Pq!Signed(pqPriority[o[i]])
            ELSE IF i = k + 1 THEN p ELSE Pq!Signed(pqPriority[o[i - 1]])
    <3>1. PqRanks(pqPriority, pqPriority', o, PqEntered(o, m, k), m, k, p)
      BY <1>1, <1>2, <2>1, <2>2, <2>4, PqEnteredRanked
    <3>2. QED
      BY <2>5, <3>1 DEF PqRanks
  <2>8. /\ pqPriority' \in [Pq!Nodes -> 0 .. (Pq!Modulus - 1)]
        /\ pqPayload' \in [Pq!Nodes -> Elements \cup {None}]
    <3>1. p \in 0 .. (Pq!Modulus - 1)
      BY PqNewRank
    <3>2. QED
      BY <1>2, <2>4, <3>1
  <2>9. v = PqRow(q, m + 1, pqPriority', pqPayload')
    BY <1>4, <2>2, <2>6, PqWaitingNextIs
  <2>10. /\ v \in Seq(PqEntries) /\ Len(v) = m + 1
         /\ \A i \in 1 .. (m + 1) :
              v[i] = [rank |-> Pq!Signed(pqPriority'[q[i]]), item |-> pqPayload'[q[i]]]
    <3>1. v \in Seq(PqEntries) /\ Len(v) = m + 1 /\ PqIsRow(v, q, m + 1, pqPriority', pqPayload')
      BY <2>2, <2>8, <2>9, PqRowAre
    <3>2. QED
      BY <3>1 DEF PqIsRow
  <2>11. \A i \in 1 .. (m + 1) :
           pqPayload'[q[i]] = IF i <= k THEN pqPayload[o[i]]
                            ELSE IF i = k + 1 THEN x ELSE pqPayload[o[i - 1]]
    <3>1. \A i \in 1 .. Capacity :
            /\ i <= k => q[i] = o[i]
            /\ i = k + 1 => q[i] = o[m + 1]
            /\ i > k + 1 /\ i <= m + 1 => q[i] = o[i - 1]
            /\ i > m + 1 => q[i] = o[i]
      BY <2>2, <2>5, PqEnteredIs
    <3>2. pqPayload'[o[m + 1]] = x
      BY <1>2, <2>2, <2>4
    <3>3. \A i \in 1 .. m : pqPayload'[o[i]] = pqPayload[o[i]]
      BY <1>2, <2>2, <2>4
    <3>4. ASSUME NEW i \in 1 .. (m + 1)
          PROVE  pqPayload'[q[i]] = IF i <= k THEN pqPayload[o[i]]
                                  ELSE IF i = k + 1 THEN x ELSE pqPayload[o[i - 1]]
      <4>1. i \in 1 .. Capacity
        BY <2>2
      <4>2. CASE i <= k
        <5>1. i \in 1 .. m /\ q[i] = o[i]
          BY <3>1, <4>1, <4>2
        <5>2. QED
          BY <3>3, <4>2, <5>1
      <4>3. CASE i = k + 1
        BY <3>1, <3>2, <4>1, <4>3
      <4>4. CASE i > k + 1
        <5>1. i - 1 \in 1 .. m /\ q[i] = o[i - 1] /\ ~(i <= k) /\ i # k + 1
          BY <3>1, <4>1, <4>4
        <5>2. QED
          BY <3>3, <5>1
      <4>5. i <= k \/ i = k + 1 \/ i > k + 1
        OBVIOUS
      <4>6. QED
        BY <4>2, <4>3, <4>4, <4>5
    <3>5. QED
      BY <3>4
  <2>12. PICK e : e = [rank |-> p, item |-> x]
    OBVIOUS
  <2>13. PICK r : r = SubSeq(w, 1, k) \o <<e>> \o SubSeq(w, k + 1, m)
    OBVIOUS
  <2>14. e \in PqEntries
    <3>1. p \in Int /\ x \in Elements \cup {None}
      BY PqNewRank
    <3>2. QED
      BY <2>12, <3>1 DEF PqEntries
  <2>15. /\ r \in Seq(PqEntries) /\ Len(r) = m + 1
         /\ \A i \in 1 .. (m + 1) :
              r[i] = IF i <= k THEN w[i] ELSE IF i = k + 1 THEN e ELSE w[i - 1]
    <3>1. w \in Seq(PqEntries) /\ Len(w) = m /\ m \in Nat /\ k \in 0 .. m
      BY <1>7, <2>2
    <3>2. Put(w, e, m, k) \in Seq(PqEntries) /\ IsPut(Put(w, e, m, k), w, e, m, k)
      BY <2>14, <3>1, PutIn
    <3>3. r = Put(w, e, m, k)
      BY <2>13 DEF Put
    <3>4. QED
      BY <3>2, <3>3 DEF IsPut
  <2>16. ASSUME NEW i \in 1 .. (m + 1) PROVE v[i] = r[i]
    <3>1. CASE i <= k
      <4>1. i \in 1 .. m
        BY <3>1
      <4>2. v[i] = [rank |-> Pq!Signed(pqPriority[o[i]]), item |-> pqPayload[o[i]]]
        BY <2>7, <2>10, <2>11, <3>1
      <4>3. QED
        BY <1>7, <2>15, <3>1, <4>1, <4>2
    <3>2. CASE i = k + 1
      <4>1. ~(i <= k)
        BY <3>2
      <4>2. v[i] = [rank |-> p, item |-> x]
        BY <2>7, <2>10, <2>11, <3>2, <4>1
      <4>3. QED
        BY <2>12, <2>15, <3>2, <4>1, <4>2
    <3>3. CASE i > k + 1
      <4>1. i - 1 \in 1 .. m /\ ~(i <= k) /\ i # k + 1
        BY <3>3
      <4>2. v[i] = [rank |-> Pq!Signed(pqPriority[o[i - 1]]), item |-> pqPayload[o[i - 1]]]
        BY <2>7, <2>10, <2>11, <4>1
      <4>3. QED
        BY <1>7, <2>15, <4>1, <4>2
    <3>4. i <= k \/ i = k + 1 \/ i > k + 1
      OBVIOUS
    <3>5. QED
      BY <3>1, <3>2, <3>3, <3>4
  <2>17. v = r
    BY <2>10, <2>15, <2>16, SeqEqual
  <2>18. Pq!R!Entry(p, x) = e
    BY <2>12 DEF Pq!R!Entry
  <2>19. \A i \in 1 .. k : w[i].rank <= p
    BY <1>7, <2>1
  <2>20. \A i \in (k + 1) .. m : p < w[i].rank
    BY <1>7, <2>1
  <2>21. m # Capacity
    BY <2>1, <2>2
  <2>22. v = SubSeq(w, 1, k) \o <<Pq!R!Entry(p, x)>> \o SubSeq(w, k + 1, Len(w))
    BY <1>7, <2>13, <2>17, <2>18
  <2>23. QED
    BY <1>5, <1>7, <2>4, <2>19, <2>20, <2>21, <2>22
<1>10. QED
  BY <1>8, <1>9

LEMMA PqPeekRefines ==
  ASSUME Pq!PriorityQueueAssumption, PqInv, Pq!PeekHighest PROVE Pq!R!Peek
<1>1. PICK m \in 0 .. Capacity, o \in PqOrders :
        PqPool(pqHead, pqFree, pqNext, o, m) /\ PqRanked(pqPriority, o, m)
  BY DEF PqInv
<1>2. /\ pqPriority \in [Pq!Nodes -> 0 .. (Pq!Modulus - 1)]
      /\ pqPayload \in [Pq!Nodes -> Elements \cup {None}]
  BY DEF PqInv, Pq!TypeOK
<1>3. PICK w : w = PqWaiting
  OBVIOUS
<1>4. /\ w \in Seq(PqEntries) /\ Len(w) = m
      /\ \A i \in 1 .. m :
           w[i] = [rank |-> Pq!Signed(pqPriority[o[i]]), item |-> pqPayload[o[i]]]
  BY <1>1, <1>2, <1>3, PqWaitingIs, PqRowIs
<1>5. PqWaiting' = PqWaiting
  <2>1. PqPool(pqHead', pqFree', pqNext', o, m)
    BY <1>1 DEF Pq!PeekHighest
  <2>2. PqWaiting' = PqRow(o, m, pqPriority', pqPayload')
    BY <2>1, PqWaitingNextIs
  <2>3. QED
    BY <1>1, <2>2, PqWaitingIs DEF Pq!PeekHighest
<1>6. pqAnswer' = IF Pq!IsEmpty THEN None ELSE pqPayload[pqHead]
  BY DEF Pq!PeekHighest
<1>7. pqAnswer' = IF w = << >> THEN None ELSE w[1].item
  <2>1. pqHead = IF m = 0 THEN Pq!Null ELSE o[1]
    BY <1>1 DEF PqPool
  <2>2. CASE m = 0
    <3>1. w = << >> /\ Pq!IsEmpty
      BY <1>4, <2>1, <2>2, EmptySeq DEF Pq!IsEmpty
    <3>2. QED
      BY <1>6, <3>1
  <2>3. CASE m # 0
    <3>1. 1 \in 1 .. m /\ 1 \in 1 .. Capacity
      BY <2>3, PqOrderIs
    <3>2. o[1] # Pq!Null
      BY <3>1, PqOrderIs DEF Pq!Null
    <3>3. w # << >> /\ ~Pq!IsEmpty /\ pqHead = o[1]
      BY <1>4, <2>1, <2>3, <3>2, EmptySeq DEF Pq!IsEmpty
    <3>4. QED
      BY <1>4, <1>6, <3>1, <3>3
  <2>4. QED
    BY <2>2, <2>3
<1>8. Pq!R!Peek <=> (pqAnswer' = (IF w = << >> THEN None ELSE w[1].item) /\ PqWaiting' = PqWaiting)
  BY <1>3 DEF Pq!R!Peek, Pq!R!Served, PqWaiting
<1>9. QED
  BY <1>5, <1>7, <1>8

LEMMA PqPopRefines ==
  ASSUME Pq!PriorityQueueAssumption, PqInv, Pq!PopHighest PROVE Pq!R!Pop
<1>1. PICK m \in 0 .. Capacity, o \in PqOrders :
        PqPool(pqHead, pqFree, pqNext, o, m) /\ PqRanked(pqPriority, o, m)
  BY DEF PqInv
<1>2. /\ Pq!TypeOK /\ pqPriority \in [Pq!Nodes -> 0 .. (Pq!Modulus - 1)]
      /\ pqPayload \in [Pq!Nodes -> Elements \cup {None}]
  BY DEF PqInv, Pq!TypeOK
<1>3. PICK w : w = PqWaiting
  OBVIOUS
<1>4. PICK v : v = PqWaiting'
  OBVIOUS
<1>5. Pq!R!Pop <=>
        /\ pqAnswer' = IF w = << >> THEN None ELSE w[1].item
        /\ v = [i \in 1 .. (Len(w) - 1) |-> [w[i + 1] EXCEPT !.rank = @ - 1]]
  BY <1>3, <1>4 DEF Pq!R!Pop, Pq!R!Served, PqWaiting
<1>6. /\ w \in Seq(PqEntries) /\ Len(w) = m
      /\ \A i \in 1 .. m :
           w[i] = [rank |-> Pq!Signed(pqPriority[o[i]]), item |-> pqPayload[o[i]]]
  BY <1>1, <1>2, <1>3, PqWaitingIs, PqRowIs
<1>7. /\ m \in 1 .. Capacity /\ pqHead = o[1] /\ pqAnswer' = pqPayload[o[1]]
      /\ PqPool(pqHead', pqFree', pqNext', PqLeft(o, m), m - 1)
      /\ \A i \in 2 .. m : /\ pqPriority'[o[i]] = Pq!Older(pqPriority[o[i]])
                           /\ pqPayload'[o[i]] = pqPayload[o[i]]
  BY <1>1, <1>2, PqPopIs
<1>8. PICK q \in PqOrders : q = PqLeft(o, m)
  BY <1>7, PqLeftOrder
<1>9. m - 1 \in 0 .. Capacity /\ m \in Nat /\ 1 \in 1 .. m /\ Capacity \in Nat \ {0}
  BY <1>7, PqOrderIs
<1>10. v = PqRow(q, m - 1, pqPriority', pqPayload')
  BY <1>4, <1>7, <1>8, <1>9, PqWaitingNextIs
<1>11. v = [i \in 1 .. (m - 1) |-> v[i]]
       /\ \A i \in 1 .. (m - 1) :
            v[i] = [rank |-> Pq!Signed(pqPriority'[q[i]]), item |-> pqPayload'[q[i]]]
  BY <1>10 DEF PqRow
<1>12. \A i \in 1 .. (m - 1) : Pq!Signed(pqPriority'[q[i]]) = Pq!Signed(pqPriority[o[i + 1]]) - 1
  BY <1>1, <1>2, <1>7, <1>8, PqLeftRanked
<1>13. ASSUME NEW i \in 1 .. (m - 1)
       PROVE  v[i] = [w[i + 1] EXCEPT !.rank = @ - 1]
  <2>1. i + 1 \in 2 .. m /\ i + 1 \in 1 .. m /\ i \in 1 .. Capacity /\ i < m
    BY <1>9
  <2>2. q[i] = o[i + 1]
    BY <1>7, <1>8, <2>1, PqLeftIs
  <2>3. pqPayload'[q[i]] = pqPayload[o[i + 1]]
    BY <1>7, <2>1, <2>2
  <2>4. v[i] = [rank |-> Pq!Signed(pqPriority[o[i + 1]]) - 1, item |-> pqPayload[o[i + 1]]]
    BY <1>11, <1>12, <2>3
  <2>5. w[i + 1] = [rank |-> Pq!Signed(pqPriority[o[i + 1]]), item |-> pqPayload[o[i + 1]]]
    BY <1>6, <2>1
  <2>6. QED
    BY <2>4, <2>5
<1>14. v = [i \in 1 .. (Len(w) - 1) |-> [w[i + 1] EXCEPT !.rank = @ - 1]]
  BY <1>6, <1>11, <1>13
<1>15. w # << >> /\ w[1].item = pqPayload[o[1]]
  BY <1>6, <1>9, EmptySeq
<1>16. QED
  BY <1>5, <1>7, <1>14, <1>15

LEMMA PqEmptyRow ==
  ASSUME NEW o, NEW pr, NEW pay PROVE PqRow(o, 0, pr, pay) = << >>
<1>1. 1 .. 0 = {}
  OBVIOUS
<1>2. QED
  BY <1>1 DEF PqRow

LEMMA PqPopNothingRefines ==
  ASSUME Pq!PriorityQueueAssumption, PqInv, Pq!PopNothing PROVE Pq!R!Pop
<1>1. PICK m \in 0 .. Capacity, o \in PqOrders :
        PqPool(pqHead, pqFree, pqNext, o, m) /\ PqRanked(pqPriority, o, m)
  BY DEF PqInv
<1>2. m = 0
  <2>1. pqHead = Pq!Null /\ Capacity \in Nat \ {0} /\ (m # 0 => 1 \in 1 .. Capacity)
    BY PqOrderIs DEF Pq!PopNothing, Pq!IsEmpty
  <2>2. m # 0 => o[1] # Pq!Null
    BY <2>1, PqOrderIs DEF Pq!Null
  <2>3. QED
    BY <1>1, <2>1, <2>2 DEF PqPool
<1>3. PqWaiting = << >>
  BY <1>1, <1>2, PqWaitingIs, PqEmptyRow
<1>4. PqWaiting' = << >>
  <2>1. PqPool(pqHead', pqFree', pqNext', o, m)
    BY <1>1 DEF Pq!PopNothing
  <2>2. QED
    BY <1>2, <2>1, PqWaitingNextIs, PqEmptyRow
<1>5. PICK w : w = PqWaiting
  OBVIOUS
<1>6. PICK v : v = PqWaiting'
  OBVIOUS
<1>7. Pq!R!Pop <=>
        /\ pqAnswer' = IF w = << >> THEN None ELSE w[1].item
        /\ v = [i \in 1 .. (Len(w) - 1) |-> [w[i + 1] EXCEPT !.rank = @ - 1]]
  BY <1>5, <1>6 DEF Pq!R!Pop, Pq!R!Served, PqWaiting
<1>8. [i \in 1 .. (Len(w) - 1) |-> [w[i + 1] EXCEPT !.rank = @ - 1]] = << >>
  <2>1. Len(w) = 0 /\ 1 .. (0 - 1) = {}
    BY <1>3, <1>5
  <2>2. QED
    BY <2>1
<1>9. QED
  BY <1>3, <1>4, <1>5, <1>6, <1>7, <1>8 DEF Pq!PopNothing

LEMMA PqRenewRefines ==
  ASSUME Pq!PriorityQueueAssumption, Pq!Renew PROVE Pq!R!Clear
<1>1. PICK m \in 0 .. Capacity, o \in PqOrders :
        PqPool(pqHead', pqFree', pqNext', o, m) /\ PqRanked(pqPriority', o, m)
  BY PqFresh DEF Pq!Renew
<1>2. m = 0
  <2>1. pqHead' = Pq!Null /\ Capacity \in Nat \ {0} /\ (m # 0 => 1 \in 1 .. Capacity)
    BY PqOrderIs DEF Pq!Renew
  <2>2. m # 0 => o[1] # Pq!Null
    BY <2>1, PqOrderIs DEF Pq!Null
  <2>3. QED
    BY <1>1, <2>1, <2>2 DEF PqPool
<1>3. PqWaiting' = << >>
  BY <1>1, <1>2, PqWaitingNextIs, PqEmptyRow
<1>4. QED
  BY <1>3 DEF Pq!Renew, Pq!R!Clear, PqWaiting

LEMMA PqInitRefines ==
  ASSUME Pq!PriorityQueueAssumption, Pq!Init PROVE Pq!R!Init
<1>1. PICK m \in 0 .. Capacity, o \in PqOrders :
        PqPool(pqHead, pqFree, pqNext, o, m) /\ PqRanked(pqPriority, o, m)
  BY PqFresh DEF Pq!Init
<1>2. m = 0
  <2>1. pqHead = Pq!Null /\ Capacity \in Nat \ {0} /\ (m # 0 => 1 \in 1 .. Capacity)
    BY PqOrderIs DEF Pq!Init
  <2>2. m # 0 => o[1] # Pq!Null
    BY <2>1, PqOrderIs DEF Pq!Null
  <2>3. QED
    BY <1>1, <2>1, <2>2 DEF PqPool
<1>3. PqWaiting = << >>
  BY <1>1, <1>2, PqWaitingIs, PqEmptyRow
<1>4. QED
  BY <1>3 DEF Pq!Init, Pq!R!Init, PqWaiting

LEMMA PqStepRefines ==
  ASSUME Pq!PriorityQueueAssumption, PqInv, [Pq!Next]_(Pq!vars)
  PROVE  [Pq!R!Next]_(Pq!R!qvars)
<1>1. CASE UNCHANGED Pq!vars
  <2>1. PICK m \in 0 .. Capacity, o \in PqOrders :
          PqPool(pqHead, pqFree, pqNext, o, m) /\ PqRanked(pqPriority, o, m)
    BY DEF PqInv
  <2>2. PqPool(pqHead', pqFree', pqNext', o, m)
    BY <1>1, <2>1 DEF Pq!vars
  <2>3. PqWaiting' = PqWaiting
    BY <1>1, <2>1, <2>2, PqWaitingIs, PqWaitingNextIs DEF Pq!vars
  <2>4. UNCHANGED Pq!R!qvars <=> (PqWaiting' = PqWaiting /\ pqAnswer' = pqAnswer)
    BY DEF Pq!R!qvars, PqWaiting
  <2>5. QED
    BY <1>1, <2>3, <2>4 DEF Pq!vars
<1>2. CASE \E p \in Priorities, x \in Elements : Pq!Insert(p, x)
  BY <1>2, PqInsertRefines DEF Pq!R!Next
<1>3. CASE Pq!PeekHighest
  BY <1>3, PqPeekRefines DEF Pq!R!Next
<1>4. CASE Pq!PopHighest
  BY <1>4, PqPopRefines DEF Pq!R!Next
<1>5. CASE Pq!PopNothing
  BY <1>5, PqPopNothingRefines DEF Pq!R!Next
<1>6. CASE Pq!Renew
  BY <1>6, PqRenewRefines DEF Pq!R!Next
<1>7. QED
  BY <1>1, <1>2, <1>3, <1>4, <1>5, <1>6 DEF Pq!Next

-----------------------------------------------------------------------------
(* llist-legacy: the nodes in their order, linked up in both directions.   *)

(* FiniteSets as LList knows it.                                           *)
LEMMA LlFinite ==
  /\ Ll!IsFiniteSet(Cells) <=> IsFiniteSet(Cells)
  /\ Ll!Cardinality(Cells) = Cardinality(Cells)
<1>1. Ll!IsFiniteSet(Cells) <=> IsFiniteSet(Cells)
  BY DEF Ll!IsFiniteSet, IsFiniteSet
<1>2. Ll!Cardinality(Cells) = Cardinality(Cells)
  BY DEF Ll!Cardinality, Cardinality
<1>3. QED
  BY <1>1, <1>2

LlOrders(m) ==
  { o \in [1 .. m -> Cells] : \A i, j \in 1 .. m : o[i] = o[j] => i = j }

LlChain(h, t, pv, nx, o, m) ==
  /\ h = IF m = 0 THEN None ELSE o[1]
  /\ t = IF m = 0 THEN None ELSE o[m]
  /\ \A i \in 1 .. m : nx[o[i]] = IF i = m THEN None ELSE o[i + 1]
  /\ \A i \in 1 .. m : pv[o[i]] = IF i = 1 THEN None ELSE o[i - 1]

LlOn(o, m) == { o[i] : i \in 1 .. m }

LlAt(o) ==
  /\ o \in LlOrders(llCount) /\ llAllocated = LlOn(o, llCount)
  /\ LlChain(llHead, llTail, llPrev, llNext, o, llCount)

LlTyped ==
  /\ llCount \in Nat
  /\ llPrev \in [Cells -> Cells \cup {None}] /\ llNext \in [Cells -> Cells \cup {None}]
  /\ llData \in [Cells -> Items \cup {None}]
  /\ \A n \in llAllocated : llData[n] \in Items

LlInv == LlTyped /\ \E o \in LlOrders(llCount) : LlAt(o)

LEMMA LlOrderIs ==
  ASSUME Ll!LListAssumption, NEW m \in Nat, NEW o \in LlOrders(m)
  PROVE  /\ \A i \in 1 .. m : o[i] \in Cells
         /\ \A i \in 1 .. m : o[i] # None
         /\ \A i, j \in 1 .. m : o[i] = o[j] => i = j
  BY DEF LlOrders, Ll!LListAssumption

(* The order with a node behind the first k, or without the k-th.          *)
LlEntered(o, m, k, new) ==
  [i \in 1 .. (m + 1) |-> IF i <= k THEN o[i] ELSE IF i = k + 1 THEN new ELSE o[i - 1]]

LlLeftOut(o, m, k) == [i \in 1 .. (m - 1) |-> IF i < k THEN o[i] ELSE o[i + 1]]

LEMMA LlEnteredIs ==
  ASSUME NEW m \in Nat, NEW o, NEW k \in 0 .. m, NEW new,
         NEW q, q = LlEntered(o, m, k, new), NEW i \in 1 .. (m + 1)
  PROVE  /\ i <= k => q[i] = o[i]
         /\ i = k + 1 => q[i] = new
         /\ i > k + 1 => q[i] = o[i - 1]
<1>1. q[i] = IF i <= k THEN o[i] ELSE IF i = k + 1 THEN new ELSE o[i - 1]
  BY DEF LlEntered
<1>2. QED
  BY <1>1

LEMMA LlLeftIs ==
  ASSUME NEW m \in Nat, NEW o, NEW k \in 1 .. m,
         NEW q, q = LlLeftOut(o, m, k), NEW i \in 1 .. (m - 1)
  PROVE  /\ i < k => q[i] = o[i]
         /\ i >= k => q[i] = o[i + 1]
<1>1. q[i] = IF i < k THEN o[i] ELSE o[i + 1]
  BY DEF LlLeftOut
<1>2. QED
  BY <1>1

LEMMA LlEnteredOrder ==
  ASSUME Ll!LListAssumption, NEW m \in Nat, NEW o \in LlOrders(m), NEW k \in 0 .. m,
         NEW new \in Cells, \A i \in 1 .. m : o[i] # new
  PROVE  /\ LlEntered(o, m, k, new) \in LlOrders(m + 1)
         /\ LlOn(LlEntered(o, m, k, new), m + 1) = LlOn(o, m) \cup {new}
<1>1. PICK q : q = LlEntered(o, m, k, new)
  OBVIOUS
<1>2. /\ \A i \in 1 .. m : o[i] \in Cells
      /\ \A i, j \in 1 .. m : o[i] = o[j] => i = j
  BY LlOrderIs
<1>3. \A i \in 1 .. (m + 1) :
        /\ i <= k => q[i] = o[i]
        /\ i = k + 1 => q[i] = new
        /\ i > k + 1 => q[i] = o[i - 1]
  BY <1>1, LlEnteredIs
<1>4. ASSUME NEW i \in 1 .. (m + 1)
      PROVE  \/ i # k + 1 /\ \E j \in 1 .. m : q[i] = o[j] /\ i = IF j <= k THEN j ELSE j + 1
             \/ i = k + 1 /\ q[i] = new
  <2>1. CASE i <= k
    <3>1. i \in 1 .. m /\ q[i] = o[i]
      BY <1>3, <2>1
    <3>2. QED
      BY <2>1, <3>1
  <2>2. CASE i = k + 1
    BY <1>3, <2>2
  <2>3. CASE i > k + 1
    <3>1. PICK j \in 1 .. m : j = i - 1
      BY <2>3
    <3>2. q[i] = o[j] /\ ~(j <= k) /\ i = j + 1
      BY <1>3, <2>3, <3>1
    <3>3. QED
      BY <2>3, <3>2
  <2>4. i <= k \/ i = k + 1 \/ i > k + 1
    OBVIOUS
  <2>5. QED
    BY <2>1, <2>2, <2>3, <2>4
<1>5. \A i \in 1 .. (m + 1) : q[i] \in Cells
  BY <1>2, <1>4
<1>6. \A i, j \in 1 .. (m + 1) : q[i] = q[j] => i = j
  BY <1>2, <1>4
<1>7. q = [i \in 1 .. (m + 1) |-> q[i]]
  BY <1>1 DEF LlEntered
<1>8. q \in LlOrders(m + 1)
  BY <1>5, <1>6, <1>7 DEF LlOrders
<1>9. ASSUME NEW j \in 1 .. m PROVE \E i \in 1 .. (m + 1) : q[i] = o[j]
  <2>1. CASE j <= k
    <3>1. j \in 1 .. (m + 1) /\ q[j] = o[j]
      BY <1>3, <2>1
    <3>2. QED
      BY <3>1
  <2>2. CASE ~(j <= k)
    <3>1. PICK i \in 1 .. (m + 1) : i = j + 1
      OBVIOUS
    <3>2. i > k + 1 /\ i - 1 = j
      BY <2>2, <3>1
    <3>3. q[i] = o[j]
      BY <1>3, <3>2
    <3>4. QED
      BY <3>3
  <2>3. QED
    BY <2>1, <2>2
<1>10. k + 1 \in 1 .. (m + 1) /\ q[k + 1] = new
  <2>1. PICK i \in 1 .. (m + 1) : i = k + 1
    OBVIOUS
  <2>2. QED
    BY <1>3, <2>1
<1>11. LlOn(q, m + 1) = LlOn(o, m) \cup {new}
  <2>1. LlOn(q, m + 1) \subseteq LlOn(o, m) \cup {new}
    BY <1>4 DEF LlOn
  <2>2. LlOn(o, m) \cup {new} \subseteq LlOn(q, m + 1)
    BY <1>9, <1>10 DEF LlOn
  <2>3. QED
    BY <2>1, <2>2
<1>12. QED
  BY <1>1, <1>8, <1>11

LEMMA LlLeftOrder ==
  ASSUME Ll!LListAssumption, NEW m \in Nat, NEW o \in LlOrders(m), NEW k \in 1 .. m
  PROVE  /\ LlLeftOut(o, m, k) \in LlOrders(m - 1)
         /\ LlOn(LlLeftOut(o, m, k), m - 1) = LlOn(o, m) \ {o[k]}
<1>1. PICK q : q = LlLeftOut(o, m, k)
  OBVIOUS
<1>2. /\ \A i \in 1 .. m : o[i] \in Cells
      /\ \A i, j \in 1 .. m : o[i] = o[j] => i = j
  BY LlOrderIs
<1>3. \A i \in 1 .. (m - 1) : (i < k => q[i] = o[i]) /\ (i >= k => q[i] = o[i + 1])
  BY <1>1, LlLeftIs
<1>4. ASSUME NEW i \in 1 .. (m - 1)
      PROVE  \E j \in 1 .. m : j # k /\ q[i] = o[j] /\ i = IF j < k THEN j ELSE j - 1
  <2>1. CASE i < k
    <3>1. i \in 1 .. m /\ q[i] = o[i]
      BY <1>3, <2>1
    <3>2. QED
      BY <2>1, <3>1
  <2>2. CASE i >= k
    <3>1. PICK j \in 1 .. m : j = i + 1
      OBVIOUS
    <3>2. q[i] = o[j] /\ ~(j < k) /\ j # k /\ i = j - 1
      BY <1>3, <2>2, <3>1
    <3>3. QED
      BY <3>2
  <2>3. QED
    BY <2>1, <2>2
<1>5. \A i \in 1 .. (m - 1) : q[i] \in Cells
  BY <1>2, <1>4
<1>6. \A i, j \in 1 .. (m - 1) : q[i] = q[j] => i = j
  BY <1>2, <1>4
<1>7. q = [i \in 1 .. (m - 1) |-> q[i]]
  BY <1>1 DEF LlLeftOut
<1>8. q \in LlOrders(m - 1)
  BY <1>5, <1>6, <1>7 DEF LlOrders
<1>9. ASSUME NEW j \in 1 .. m, j # k PROVE \E i \in 1 .. (m - 1) : q[i] = o[j]
  <2>1. CASE j < k
    <3>1. j \in 1 .. (m - 1) /\ q[j] = o[j]
      BY <1>3, <2>1
    <3>2. QED
      BY <3>1
  <2>2. CASE j > k
    <3>1. PICK i \in 1 .. (m - 1) : i = j - 1
      BY <2>2
    <3>2. i >= k /\ i + 1 = j
      BY <2>2, <3>1
    <3>3. q[i] = o[j]
      BY <1>3, <3>2
    <3>4. QED
      BY <3>3
  <2>3. j < k \/ j > k
    BY <1>9
  <2>4. QED
    BY <2>1, <2>2, <2>3
<1>10. LlOn(q, m - 1) = LlOn(o, m) \ {o[k]}
  <2>1. LlOn(q, m - 1) \subseteq LlOn(o, m) \ {o[k]}
    BY <1>2, <1>4 DEF LlOn
  <2>2. LlOn(o, m) \ {o[k]} \subseteq LlOn(q, m - 1)
    BY <1>9 DEF LlOn
  <2>3. QED
    BY <2>1, <2>2
<1>11. QED
  BY <1>1, <1>8, <1>10

(* What _list_insert_prev and the pushes do to the links, place by place.  *)
LlLinked(pv, nx, pv2, nx2, o, m, k, new) ==
  /\ \A n \in Cells :
       nx2[n] = IF n = new THEN IF k = m THEN None ELSE o[k + 1]
                ELSE IF k > 0 /\ n = o[k] THEN new ELSE nx[n]
  /\ \A n \in Cells :
       pv2[n] = IF n = new THEN IF k = 0 THEN None ELSE o[k]
                ELSE IF k < m /\ n = o[k + 1] THEN new ELSE pv[n]

LEMMA LlEnteredChain ==
  ASSUME Ll!LListAssumption, NEW m \in Nat, NEW o \in LlOrders(m), NEW k \in 0 .. m,
         NEW new \in Cells, \A i \in 1 .. m : o[i] # new,
         NEW h, NEW t, NEW pv, NEW nx, LlChain(h, t, pv, nx, o, m),
         NEW h2, NEW t2, NEW pv2, NEW nx2,
         h2 = IF k = 0 THEN new ELSE h, t2 = IF k = m THEN new ELSE t,
         LlLinked(pv, nx, pv2, nx2, o, m, k, new)
  PROVE  LlChain(h2, t2, pv2, nx2, LlEntered(o, m, k, new), m + 1)
<1>1. PICK q : q = LlEntered(o, m, k, new)
  OBVIOUS
<1>2. /\ \A i \in 1 .. m : o[i] \in Cells
      /\ \A i, j \in 1 .. m : o[i] = o[j] => i = j
  BY LlOrderIs
<1>3. \A i \in 1 .. (m + 1) :
        /\ i <= k => q[i] = o[i]
        /\ i = k + 1 => q[i] = new
        /\ i > k + 1 => q[i] = o[i - 1]
  BY <1>1, LlEnteredIs
<1>4. nx2[new] = IF k = m THEN None ELSE o[k + 1]
  BY DEF LlLinked
<1>5. pv2[new] = IF k = 0 THEN None ELSE o[k]
  BY DEF LlLinked
<1>6. ASSUME NEW j \in 1 .. m
      PROVE  nx2[o[j]] = IF j = k THEN new ELSE IF j = m THEN None ELSE o[j + 1]
  <2>1. nx[o[j]] = IF j = m THEN None ELSE o[j + 1]
    BY DEF LlChain
  <2>2. k > 0 /\ o[j] = o[k] <=> j = k
    BY <1>2
  <2>3. o[j] \in Cells /\ o[j] # new
    BY <1>2
  <2>4. QED
    BY <2>1, <2>2, <2>3 DEF LlLinked
<1>7. ASSUME NEW j \in 1 .. m
      PROVE  pv2[o[j]] = IF j = k + 1 THEN new ELSE IF j = 1 THEN None ELSE o[j - 1]
  <2>1. pv[o[j]] = IF j = 1 THEN None ELSE o[j - 1]
    BY DEF LlChain
  <2>2. k < m /\ o[j] = o[k + 1] <=> j = k + 1
    <3>1. CASE k < m
      <4>1. PICK i \in 1 .. m : i = k + 1
        BY <3>1
      <4>2. QED
        BY <1>2, <3>1, <4>1
    <3>2. CASE ~(k < m)
      BY <3>2
    <3>3. QED
      BY <3>1, <3>2
  <2>3. o[j] \in Cells /\ o[j] # new
    BY <1>2
  <2>4. QED
    BY <2>1, <2>2, <2>3 DEF LlLinked
<1>8. ASSUME NEW i \in 1 .. (m + 1)
      PROVE  /\ i < k => nx2[q[i]] = q[i + 1] /\ i # m + 1
             /\ i = k => nx2[q[i]] = q[i + 1] /\ i # m + 1
             /\ i = k + 1 => nx2[q[i]] = IF i = m + 1 THEN None ELSE q[i + 1]
             /\ i > k + 1 => nx2[q[i]] = IF i = m + 1 THEN None ELSE q[i + 1]
  <2>1. CASE i < k
    <3>1. PICK j \in 1 .. (m + 1) : j = i + 1
      BY <2>1
    <3>2. q[i] = o[i] /\ q[j] = o[j] /\ i \in 1 .. m
      BY <1>3, <2>1, <3>1
    <3>3. QED
      BY <1>6, <2>1, <3>1, <3>2
  <2>2. CASE i = k
    <3>1. PICK j \in 1 .. (m + 1) : j = i + 1
      BY <2>2
    <3>2. q[i] = o[i] /\ q[j] = new /\ i \in 1 .. m
      BY <1>3, <2>2, <3>1
    <3>3. QED
      BY <1>6, <2>2, <3>1, <3>2
  <2>3. CASE i = k + 1
    <3>1. q[i] = new
      BY <1>3, <2>3
    <3>2. CASE k = m
      BY <1>4, <2>3, <3>1, <3>2
    <3>3. CASE k # m
      <4>1. PICK j \in 1 .. (m + 1) : j = i + 1
        BY <2>3, <3>3
      <4>2. q[j] = o[k + 1]
        BY <1>3, <2>3, <4>1
      <4>3. QED
        BY <1>4, <2>3, <3>1, <3>3, <4>1, <4>2
    <3>4. QED
      BY <3>2, <3>3
  <2>4. CASE i > k + 1
    <3>1. PICK j \in 1 .. m : j = i - 1
      BY <2>4
    <3>2. q[i] = o[j] /\ j # k
      BY <1>3, <2>4, <3>1
    <3>3. nx2[o[j]] = IF j = m THEN None ELSE o[j + 1]
      BY <1>6, <3>2
    <3>4. CASE i = m + 1
      BY <2>4, <3>1, <3>2, <3>3, <3>4
    <3>5. CASE i # m + 1
      <4>1. PICK l \in 1 .. (m + 1) : l = i + 1
        BY <3>5
      <4>2. q[l] = o[i]
        BY <1>3, <2>4, <4>1
      <4>3. QED
        BY <2>4, <3>1, <3>2, <3>3, <3>5, <4>1, <4>2
    <3>6. QED
      BY <3>4, <3>5
  <2>5. i < k \/ i = k \/ i = k + 1 \/ i > k + 1
    OBVIOUS
  <2>6. QED
    BY <2>1, <2>2, <2>3, <2>4, <2>5
<1>9. ASSUME NEW i \in 1 .. (m + 1)
      PROVE  pv2[q[i]] = IF i = 1 THEN None ELSE q[i - 1]
  <2>1. CASE i <= k
    <3>1. q[i] = o[i] /\ i \in 1 .. m /\ i # k + 1
      BY <1>3, <2>1
    <3>2. pv2[o[i]] = IF i = 1 THEN None ELSE o[i - 1]
      BY <1>7, <3>1
    <3>3. CASE i # 1
      <4>1. PICK j \in 1 .. (m + 1) : j = i - 1
        BY <3>3
      <4>2. q[j] = o[j]
        BY <1>3, <2>1, <4>1
      <4>3. QED
        BY <3>1, <3>2, <3>3, <4>1, <4>2
    <3>4. QED
      BY <3>1, <3>2, <3>3
  <2>2. CASE i = k + 1
    <3>1. q[i] = new
      BY <1>3, <2>2
    <3>2. CASE k = 0
      BY <1>5, <2>2, <3>1, <3>2
    <3>3. CASE k # 0
      <4>1. k \in 1 .. (m + 1) /\ i - 1 = k /\ i # 1
        BY <2>2, <3>3
      <4>2. q[k] = o[k]
        BY <1>3, <4>1
      <4>3. QED
        BY <1>5, <3>1, <3>3, <4>1, <4>2
    <3>4. QED
      BY <3>2, <3>3
  <2>3. CASE i = k + 2
    <3>1. PICK j \in 1 .. m : j = i - 1
      BY <2>3
    <3>2. q[i] = o[j] /\ pv2[o[j]] = new /\ j \in 1 .. (m + 1) /\ j = k + 1
      BY <1>3, <1>7, <2>3, <3>1
    <3>3. q[j] = new
      BY <1>3, <3>2
    <3>4. QED
      BY <2>3, <3>1, <3>2, <3>3
  <2>4. CASE i > k + 2
    <3>1. PICK j \in 1 .. m : j = i - 1
      BY <2>4
    <3>2. q[i] = o[j] /\ j # k + 1 /\ j # 1 /\ i # 1 /\ j > k + 1 /\ j \in 1 .. (m + 1)
      BY <1>3, <2>4, <3>1
    <3>3. pv2[o[j]] = o[j - 1] /\ q[j] = o[j - 1]
      BY <1>3, <1>7, <3>2
    <3>4. QED
      BY <3>1, <3>2, <3>3
  <2>5. i <= k \/ i = k + 1 \/ i = k + 2 \/ i > k + 2
    OBVIOUS
  <2>6. QED
    BY <2>1, <2>2, <2>3, <2>4, <2>5
<1>10. h2 = q[1]
  <2>1. PICK i \in 1 .. (m + 1) : i = 1
    OBVIOUS
  <2>2. CASE k = 0
    BY <1>3, <2>1, <2>2
  <2>3. CASE k # 0
    <3>1. q[i] = o[i] /\ m # 0 /\ h = o[1]
      BY <1>3, <2>1, <2>3 DEF LlChain
    <3>2. QED
      BY <2>1, <2>3, <3>1
  <2>4. QED
    BY <2>2, <2>3
<1>11. t2 = q[m + 1]
  <2>1. PICK i \in 1 .. (m + 1) : i = m + 1
    OBVIOUS
  <2>2. CASE k = m
    BY <1>3, <2>1, <2>2
  <2>3. CASE k # m
    <3>1. q[i] = o[m] /\ m # 0 /\ t = o[m]
      BY <1>3, <2>1, <2>3 DEF LlChain
    <3>2. QED
      BY <2>1, <2>3, <3>1
  <2>4. QED
    BY <2>2, <2>3
<1>12. \A i \in 1 .. (m + 1) : nx2[q[i]] = IF i = m + 1 THEN None ELSE q[i + 1]
  <2>1. ASSUME NEW i \in 1 .. (m + 1)
        PROVE  nx2[q[i]] = IF i = m + 1 THEN None ELSE q[i + 1]
    <3>1. i < k \/ i = k \/ i = k + 1 \/ i > k + 1
      OBVIOUS
    <3>2. QED
      BY <1>8, <3>1
  <2>2. QED
    BY <2>1
<1>13. m + 1 # 0
  OBVIOUS
<1>14. QED
  BY <1>1, <1>9, <1>10, <1>11, <1>12, <1>13 DEF LlChain

(* What _list_delete_node does.                                            *)
LlLeftLinks(pv, nx, pv2, nx2, o, k) ==
  /\ \A n \in Cells :
       n # o[k] => nx2[n] = IF n = pv[o[k]] THEN nx[o[k]] ELSE nx[n]
  /\ \A n \in Cells :
       n # o[k] => pv2[n] = IF n = nx[o[k]] THEN pv[o[k]] ELSE pv[n]

LEMMA LlLeftChain ==
  ASSUME Ll!LListAssumption, NEW m \in Nat, NEW o \in LlOrders(m), NEW k \in 1 .. m,
         NEW h, NEW t, NEW pv, NEW nx, LlChain(h, t, pv, nx, o, m),
         NEW h2, NEW t2, NEW pv2, NEW nx2,
         h2 = IF o[k] = h THEN nx[o[k]] ELSE h,
         t2 = IF o[k] = t THEN pv[o[k]] ELSE t,
         LlLeftLinks(pv, nx, pv2, nx2, o, k)
  PROVE  LlChain(h2, t2, pv2, nx2, LlLeftOut(o, m, k), m - 1)
<1>1. PICK q : q = LlLeftOut(o, m, k)
  OBVIOUS
<1>2. /\ \A i \in 1 .. m : o[i] \in Cells
      /\ \A i \in 1 .. m : o[i] # None
      /\ \A i, j \in 1 .. m : o[i] = o[j] => i = j
  BY LlOrderIs
<1>3. \A i \in 1 .. (m - 1) : (i < k => q[i] = o[i]) /\ (i >= k => q[i] = o[i + 1])
  BY <1>1, LlLeftIs
<1>4. /\ m # 0 /\ h = o[1] /\ t = o[m] /\ 1 \in 1 .. m /\ m \in 1 .. m
      /\ nx[o[k]] = IF k = m THEN None ELSE o[k + 1]
      /\ pv[o[k]] = IF k = 1 THEN None ELSE o[k - 1]
  BY DEF LlChain
<1>5. ASSUME NEW j \in 1 .. m, j # k
      PROVE  /\ nx2[o[j]] = IF j = k - 1 THEN nx[o[k]] ELSE IF j = m THEN None ELSE o[j + 1]
             /\ pv2[o[j]] = IF j = k + 1 THEN pv[o[k]] ELSE IF j = 1 THEN None ELSE o[j - 1]
  <2>1. /\ nx[o[j]] = IF j = m THEN None ELSE o[j + 1]
        /\ pv[o[j]] = IF j = 1 THEN None ELSE o[j - 1]
    BY DEF LlChain
  <2>2. o[j] \in Cells /\ o[j] # o[k] /\ o[j] # None
    BY <1>2, <1>5
  <2>3. o[j] = pv[o[k]] <=> j = k - 1
    <3>1. CASE k = 1
      BY <1>4, <2>2, <3>1
    <3>2. CASE k # 1
      <4>1. PICK i \in 1 .. m : i = k - 1
        BY <3>2
      <4>2. QED
        BY <1>2, <1>4, <3>2, <4>1
    <3>3. QED
      BY <3>1, <3>2
  <2>4. o[j] = nx[o[k]] <=> j = k + 1
    <3>1. CASE k = m
      BY <1>4, <2>2, <3>1
    <3>2. CASE k # m
      <4>1. PICK i \in 1 .. m : i = k + 1
        BY <3>2
      <4>2. QED
        BY <1>2, <1>4, <3>2, <4>1
    <3>3. QED
      BY <3>1, <3>2
  <2>5. QED
    BY <2>1, <2>2, <2>3, <2>4 DEF LlLeftLinks
<1>6. ASSUME NEW i \in 1 .. (m - 1)
      PROVE  nx2[q[i]] = IF i = m - 1 THEN None ELSE q[i + 1]
  <2>1. CASE i < k - 1
    <3>1. PICK j \in 1 .. (m - 1) : j = i + 1
      BY <2>1
    <3>2. q[i] = o[i] /\ q[j] = o[j] /\ i \in 1 .. m /\ i # k /\ i # k - 1 /\ i # m - 1 /\ i # m
      BY <1>3, <2>1, <3>1
    <3>3. nx2[o[i]] = o[i + 1]
      BY <1>5, <3>2
    <3>4. QED
      BY <3>1, <3>2, <3>3
  <2>2. CASE i = k - 1
    <3>1. q[i] = o[i] /\ i \in 1 .. m /\ i # k
      BY <1>3, <2>2
    <3>2. nx2[o[i]] = IF k = m THEN None ELSE o[k + 1]
      BY <1>4, <1>5, <2>2, <3>1
    <3>3. CASE k # m
      <4>1. PICK j \in 1 .. (m - 1) : j = i + 1
        BY <2>2, <3>3
      <4>2. q[j] = o[j + 1] /\ j = k
        BY <1>3, <2>2, <4>1
      <4>3. QED
        BY <2>2, <3>1, <3>2, <3>3, <4>1, <4>2
    <3>4. CASE k = m
      BY <2>2, <3>1, <3>2, <3>4
    <3>5. QED
      BY <3>3, <3>4
  <2>3. CASE i >= k
    <3>1. PICK j \in 1 .. m : j = i + 1
      OBVIOUS
    <3>2. q[i] = o[j] /\ j # k /\ j # k - 1
      BY <1>3, <2>3, <3>1
    <3>3. nx2[o[j]] = IF j = m THEN None ELSE o[j + 1]
      BY <1>5, <3>2
    <3>4. CASE i = m - 1
      BY <3>1, <3>2, <3>3, <3>4
    <3>5. CASE i # m - 1
      <4>1. j \in 1 .. (m - 1) /\ j >= k /\ j # m
        BY <2>3, <3>1, <3>5
      <4>2. q[j] = o[j + 1]
        BY <1>3, <4>1
      <4>3. QED
        BY <3>1, <3>2, <3>3, <3>5, <4>1, <4>2
    <3>6. QED
      BY <3>4, <3>5
  <2>4. i < k - 1 \/ i = k - 1 \/ i >= k
    OBVIOUS
  <2>5. QED
    BY <2>1, <2>2, <2>3, <2>4
<1>7. ASSUME NEW i \in 1 .. (m - 1)
      PROVE  pv2[q[i]] = IF i = 1 THEN None ELSE q[i - 1]
  <2>1. CASE i < k
    <3>1. q[i] = o[i] /\ i \in 1 .. m /\ i # k /\ i # k + 1
      BY <1>3, <2>1
    <3>2. pv2[o[i]] = IF i = 1 THEN None ELSE o[i - 1]
      BY <1>5, <3>1
    <3>3. CASE i # 1
      <4>1. PICK j \in 1 .. (m - 1) : j = i - 1
        BY <3>3
      <4>2. q[j] = o[j]
        BY <1>3, <2>1, <4>1
      <4>3. QED
        BY <3>1, <3>2, <3>3, <4>1, <4>2
    <3>4. QED
      BY <3>1, <3>2, <3>3
  <2>2. CASE i = k
    <3>1. PICK j \in 1 .. m : j = i + 1
      OBVIOUS
    <3>2. q[i] = o[j] /\ j # k /\ j = k + 1
      BY <1>3, <2>2, <3>1
    <3>3. pv2[o[j]] = IF k = 1 THEN None ELSE o[k - 1]
      BY <1>4, <1>5, <3>2
    <3>4. CASE k # 1
      <4>1. PICK l \in 1 .. (m - 1) : l = i - 1
        BY <2>2, <3>4
      <4>2. q[l] = o[l]
        BY <1>3, <2>2, <4>1
      <4>3. QED
        BY <2>2, <3>2, <3>3, <3>4, <4>1, <4>2
    <3>5. CASE k = 1
      BY <2>2, <3>2, <3>3, <3>5
    <3>6. QED
      BY <3>4, <3>5
  <2>3. CASE i > k
    <3>1. PICK j \in 1 .. m : j = i + 1
      OBVIOUS
    <3>2. q[i] = o[j] /\ j # k /\ j # k + 1 /\ j # 1 /\ i # 1
      BY <1>3, <2>3, <3>1
    <3>3. pv2[o[j]] = o[j - 1]
      BY <1>5, <3>2
    <3>4. PICK l \in 1 .. (m - 1) : l = i - 1
      BY <2>3
    <3>5. q[l] = o[l + 1] /\ l + 1 = j - 1
      BY <1>3, <2>3, <3>1, <3>4
    <3>6. QED
      BY <3>2, <3>3, <3>4, <3>5
  <2>4. i < k \/ i = k \/ i > k
    OBVIOUS
  <2>5. QED
    BY <2>1, <2>2, <2>3, <2>4
<1>8. h2 = IF m - 1 = 0 THEN None ELSE q[1]
  <2>1. o[k] = h <=> k = 1
    BY <1>2, <1>4
  <2>2. CASE m = 1
    BY <1>4, <2>1, <2>2
  <2>3. CASE m # 1
    <3>1. PICK i \in 1 .. (m - 1) : i = 1
      BY <2>3
    <3>2. CASE k = 1
      <4>1. q[i] = o[i + 1] /\ k # m
        BY <1>3, <2>3, <3>1, <3>2
      <4>2. QED
        BY <1>4, <2>1, <2>3, <3>1, <3>2, <4>1
    <3>3. CASE k # 1
      <4>1. q[i] = o[i]
        BY <1>3, <3>1, <3>3
      <4>2. QED
        BY <1>4, <2>1, <2>3, <3>1, <3>3, <4>1
    <3>4. QED
      BY <3>2, <3>3
  <2>4. QED
    BY <2>2, <2>3
<1>9. t2 = IF m - 1 = 0 THEN None ELSE q[m - 1]
  <2>1. o[k] = t <=> k = m
    BY <1>2, <1>4
  <2>2. CASE m = 1
    BY <1>4, <2>1, <2>2
  <2>3. CASE m # 1
    <3>1. PICK i \in 1 .. (m - 1) : i = m - 1
      BY <2>3
    <3>2. CASE k = m
      <4>1. q[i] = o[i] /\ k # 1 /\ i = k - 1
        BY <1>3, <2>3, <3>1, <3>2
      <4>2. QED
        BY <1>4, <2>1, <2>3, <3>1, <3>2, <4>1
    <3>3. CASE k # m
      <4>1. q[i] = o[i + 1] /\ i + 1 = m
        BY <1>3, <3>1, <3>3
      <4>2. QED
        BY <1>4, <2>1, <2>3, <3>1, <3>3, <4>1
    <3>4. QED
      BY <3>2, <3>3
  <2>4. QED
    BY <2>2, <2>3
<1>10. QED
  BY <1>1, <1>6, <1>7, <1>8, <1>9 DEF LlChain

(* The walks over the list in either direction, and the nodes they find.   *)
LlAhead(o, m) == [k \in 0 .. m |-> IF k < m THEN o[k + 1] ELSE None]
LlBack(o, m)  == [k \in 0 .. m |-> IF k < m THEN o[m - k] ELSE None]

LEMMA LlWalks ==
  ASSUME Ll!LListAssumption, NEW m \in Nat, NEW o \in LlOrders(m),
         NEW h, NEW t, NEW pv, NEW nx, LlChain(h, t, pv, nx, o, m)
  PROVE  Walk(nx, h, m, None) = LlAhead(o, m) /\ Walk(pv, t, m, None) = LlBack(o, m)
<1>1. \A i \in 1 .. m : o[i] # None
  BY LlOrderIs
<1>2. PICK z \in Nat : z = 0
  OBVIOUS
<1>3. z <= m /\ m - z = m /\ z + 1 = 1 /\ (z = m <=> m = 0) /\ m <= m
  BY <1>2
<1>4. Walk(nx, h, m, None) = LlAhead(o, m)
  <2>1. \A i \in (z + 1) .. m : o[i] # None
    BY <1>1, <1>3
  <2>2. Linked(nx, o, z, m, None)
    BY <1>3 DEF Linked, LlChain
  <2>3. Walk(nx, IF z = m THEN None ELSE o[z + 1], m, None)
          = [k \in 0 .. m |-> IF k < m - z THEN o[z + k + 1] ELSE None]
    BY <1>3, <2>1, <2>2, WalkAlong
  <2>4. h = IF z = m THEN None ELSE o[z + 1]
    BY <1>3 DEF LlChain
  <2>5. \A k \in 0 .. m : z + k + 1 = k + 1 /\ (k < m - z <=> k < m)
    BY <1>2
  <2>6. [k \in 0 .. m |-> IF k < m - z THEN o[z + k + 1] ELSE None] = LlAhead(o, m)
    BY <2>5 DEF LlAhead
  <2>7. QED
    BY <2>3, <2>4, <2>6
<1>5. Walk(pv, t, m, None) = LlBack(o, m)
  <2>1. PICK r : r = [i \in 1 .. m |-> o[m + 1 - i]]
    OBVIOUS
  <2>2. \A i \in 1 .. m : m + 1 - i \in 1 .. m /\ r[i] = o[m + 1 - i]
    BY <2>1
  <2>3. \A i \in (z + 1) .. m : r[i] # None
    BY <1>1, <1>3, <2>2
  <2>4. ASSUME NEW i \in 1 .. m PROVE pv[r[i]] = IF i = m THEN None ELSE r[i + 1]
    <3>1. PICK j \in 1 .. m : j = m + 1 - i
      OBVIOUS
    <3>2. r[i] = o[j] /\ pv[o[j]] = IF j = 1 THEN None ELSE o[j - 1]
      BY <2>2, <3>1 DEF LlChain
    <3>3. CASE i = m
      BY <3>1, <3>2, <3>3
    <3>4. CASE i # m
      <4>1. PICK l \in 1 .. m : l = i + 1
        BY <3>4
      <4>2. r[l] = o[m + 1 - l] /\ m + 1 - l = j - 1 /\ j # 1
        BY <2>2, <3>1, <3>4, <4>1
      <4>3. QED
        BY <3>2, <3>4, <4>1, <4>2
    <3>5. QED
      BY <3>3, <3>4
  <2>5. Linked(pv, r, z, m, None)
    BY <1>3, <2>4 DEF Linked
  <2>6. Walk(pv, IF z = m THEN None ELSE r[z + 1], m, None)
          = [k \in 0 .. m |-> IF k < m - z THEN r[z + k + 1] ELSE None]
    BY <1>3, <2>3, <2>5, WalkAlong
  <2>7. t = IF z = m THEN None ELSE r[z + 1]
    <3>1. CASE m = 0
      BY <1>3, <3>1 DEF LlChain
    <3>2. CASE m # 0
      <4>1. PICK i \in 1 .. m : i = 1
        BY <3>2
      <4>2. r[i] = o[m + 1 - i] /\ m + 1 - i = m
        BY <2>2, <4>1
      <4>3. QED
        BY <1>3, <3>2, <4>1, <4>2 DEF LlChain
    <3>3. QED
      BY <3>1, <3>2
  <2>8. ASSUME NEW k \in 0 .. m
        PROVE  (IF k < m - z THEN r[z + k + 1] ELSE None) = (IF k < m THEN o[m - k] ELSE None)
    <3>1. z + k + 1 = k + 1 /\ (k < m - z <=> k < m)
      BY <1>2
    <3>2. CASE k < m
      <4>1. PICK i \in 1 .. m : i = k + 1
        BY <3>2
      <4>2. r[i] = o[m + 1 - i] /\ m + 1 - i = m - k
        BY <2>2, <4>1
      <4>3. QED
        BY <3>1, <3>2, <4>1, <4>2
    <3>3. QED
      BY <3>1, <3>2
  <2>9. [k \in 0 .. m |-> IF k < m - z THEN r[z + k + 1] ELSE None] = LlBack(o, m)
    BY <2>8 DEF LlBack
  <2>10. QED
    BY <2>6, <2>7, <2>9
<1>6. QED
  BY <1>4, <1>5

LEMMA LlFollowIs ==
  ASSUME Ll!LListAssumption, llCount \in Nat, NEW o \in LlOrders(llCount), LlAt(o)
  PROVE  Ll!Forward = LlAhead(o, llCount) /\ Ll!Follow(llPrev, llTail) = LlBack(o, llCount)
<1>1. /\ Walk(llNext, llHead, llCount, None) = LlAhead(o, llCount)
      /\ Walk(llPrev, llTail, llCount, None) = LlBack(o, llCount)
  BY LlWalks DEF LlAt
<1>2. /\ Ll!Forward = Walk(llNext, llHead, llCount, None)
      /\ Ll!Follow(llPrev, llTail) = Walk(llPrev, llTail, llCount, None)
  BY DEF Ll!Forward, Ll!Follow, Walk
<1>3. QED
  BY <1>1, <1>2

LEMMA LlForwardIs ==
  ASSUME Ll!LListAssumption, llCount \in Nat, NEW o \in LlOrders(llCount), LlAt(o)
  PROVE  /\ \A i \in 0 .. (llCount - 1) : Ll!Forward[i] = o[i + 1]
         /\ Ll!Forward[llCount] = None
<1>1. PICK f : f = LlAhead(o, llCount)
  OBVIOUS
<1>2. Ll!Forward = f
  BY <1>1, LlFollowIs
<1>3. \A i \in 0 .. llCount : f[i] = IF i < llCount THEN o[i + 1] ELSE None
  BY <1>1 DEF LlAhead
<1>4. \A i \in 0 .. (llCount - 1) : i \in 0 .. llCount /\ i < llCount
  OBVIOUS
<1>5. llCount \in 0 .. llCount /\ ~(llCount < llCount)
  OBVIOUS
<1>6. QED
  BY <1>2, <1>3, <1>4, <1>5

(* _list_get finds the node from either end.                               *)
LEMMA LlNodeAtIs ==
  ASSUME Ll!LListAssumption, llCount \in Nat, NEW o \in LlOrders(llCount), LlAt(o), NEW i \in Nat
  PROVE  Ll!NodeAt(i) = IF i < llCount THEN o[i + 1] ELSE None
<1>1. Ll!Forward = LlAhead(o, llCount) /\ Ll!Follow(llPrev, llTail) = LlBack(o, llCount)
  BY LlFollowIs
<1>2. CASE ~(i < llCount)
  BY <1>2 DEF Ll!NodeAt
<1>3. CASE i < llCount
  <2>1. Ll!Forward[i] = o[i + 1]
    BY <1>1, <1>3 DEF LlAhead
  <2>2. PICK k \in 0 .. llCount : k = llCount - 1 - i
    BY <1>3
  <2>3. k < llCount /\ llCount - k = i + 1
    BY <1>3, <2>2
  <2>4. Ll!Follow(llPrev, llTail)[k] = o[i + 1]
    BY <1>1, <2>3 DEF LlBack
  <2>5. QED
    BY <1>3, <2>1, <2>2, <2>4 DEF Ll!NodeAt
<1>4. QED
  BY <1>2, <1>3

(* The search finds the first node with a wanted item.                     *)
LEMMA LlFirstAtIs ==
  ASSUME Ll!LListAssumption, llCount \in Nat, NEW o \in LlOrders(llCount), LlAt(o), NEW wanted
  PROVE  /\ Ll!FirstAt(wanted) \in 0 .. llCount
         /\ \A i \in 1 .. Ll!FirstAt(wanted) : llData[o[i]] \notin wanted
         /\ Ll!FirstAt(wanted) < llCount => llData[o[Ll!FirstAt(wanted) + 1]] \in wanted
<1>1. PICK p : p = { k \in 0 .. (llCount - 1) : llData[Ll!Forward[k]] \in wanted }
  OBVIOUS
<1>2. PICK f : f = Ll!FirstAt(wanted)
  OBVIOUS
<1>3. f = IF p = {} THEN llCount ELSE CHOOSE k \in p : \A j \in p : k <= j
  BY <1>1, <1>2 DEF Ll!FirstAt
<1>4. \A k \in 0 .. (llCount - 1) : k \in p <=> llData[o[k + 1]] \in wanted
  BY <1>1, LlForwardIs
<1>5. CASE p = {}
  <2>1. ASSUME NEW i \in 1 .. llCount PROVE llData[o[i]] \notin wanted
    <3>1. PICK k \in 0 .. (llCount - 1) : k = i - 1
      OBVIOUS
    <3>2. k + 1 = i /\ k \notin p
      BY <1>5, <3>1
    <3>3. QED
      BY <1>4, <3>2
  <2>2. f = llCount
    BY <1>3, <1>5
  <2>3. QED
    BY <1>2, <2>1, <2>2
<1>6. CASE p # {}
  <2>1. p \in SUBSET Nat
    BY <1>1
  <2>2. \E k \in p : \A j \in p : k <= j
    BY <1>6, <2>1, LeastOf
  <2>3. f \in p /\ \A j \in p : f <= j
    BY <1>3, <1>6, <2>2
  <2>4. f \in 0 .. (llCount - 1)
    BY <1>1, <2>3
  <2>5. ASSUME NEW i \in 1 .. f PROVE llData[o[i]] \notin wanted
    <3>1. PICK k \in 0 .. (llCount - 1) : k = i - 1
      BY <2>4
    <3>2. k + 1 = i /\ ~(f <= k)
      BY <2>4, <3>1
    <3>3. k \notin p
      BY <2>3, <3>2
    <3>4. QED
      BY <1>4, <3>2, <3>3
  <2>6. llData[o[f + 1]] \in wanted
    BY <1>4, <2>3, <2>4
  <2>7. QED
    BY <1>2, <2>4, <2>5, <2>6
<1>7. QED
  BY <1>5, <1>6

(* Every node of the list is of the heap, so that the count fits size_t,   *)
(* and it equals the size of the heap only when all of it is allocated.    *)
LEMMA LlCountIs ==
  ASSUME Ll!LListAssumption, NEW m \in Nat, NEW o \in LlOrders(m)
  PROVE  /\ m <= Cardinality(Cells) /\ m < Sizes /\ Sizes \in Nat
         /\ Cardinality(Cells) \in Nat
         /\ m = Cardinality(Cells) <=> LlOn(o, m) = Cells
<1>1. /\ IsFiniteSet(Cells) /\ Sizes \in Nat /\ Cardinality(Cells) < Sizes
      /\ Cardinality(Cells) \in Nat
  <2>1. IsFiniteSet(Cells) /\ Sizes \in Nat /\ Cardinality(Cells) < Sizes
    BY LlFinite DEF Ll!LListAssumption
  <2>2. Cardinality(Cells) \in Nat
    BY <2>1, FS_CardinalityType
  <2>3. QED
    BY <2>1, <2>2
<1>2. PICK S : S = LlOn(o, m)
  OBVIOUS
<1>3. /\ \A i \in 1 .. m : o[i] \in Cells
      /\ \A i, j \in 1 .. m : o[i] = o[j] => i = j
  BY LlOrderIs
<1>4. S \subseteq Cells
  BY <1>2, <1>3 DEF LlOn
<1>5. IsFiniteSet(S) /\ Cardinality(S) = m
  <2>1. o \in Bijection(1 .. m, S)
    <3>1. o \in [1 .. m -> S]
      BY <1>2 DEF LlOn, LlOrders
    <3>2. \A y \in S : \E i \in 1 .. m : o[i] = y
      BY <1>2 DEF LlOn
    <3>3. QED
      BY <1>3, <3>1, <3>2 DEF Bijection, Injection, Surjection, IsInjective
  <2>2. IsFiniteSet(1 .. m) /\ Cardinality(1 .. m) = m
    <3>1. PICK one \in Int : one = 1
      OBVIOUS
    <3>2. IsFiniteSet(one .. m)
           /\ Cardinality(one .. m) = IF one > m THEN 0 ELSE m - one + 1
      BY FS_Interval
    <3>3. QED
      BY <3>1, <3>2
  <2>3. ExistsBijection(1 .. m, S)
    BY <2>1 DEF ExistsBijection
  <2>4. QED
    BY <2>2, <2>3, FS_Bijection
<1>6. Cardinality(S) <= Cardinality(Cells)
      /\ (Cardinality(S) = Cardinality(Cells) => S = Cells)
  BY <1>1, <1>4, FS_Subset
<1>7. QED
  BY <1>1, <1>2, <1>5, <1>6

(* A call that puts item x behind the first k nodes, or finds no memory.   *)
LlEnters(o, k, x) ==
  \/ llAllocated = Cells /\ Ll!Answer(Ll!Code("MALLOC_ERROR"))
  \/ \E new \in Cells \ llAllocated :
       /\ Ll!Allocate(new, x)
       /\ LlLinked(llPrev, llNext, llPrev', llNext', o, llCount, k, new)
       /\ llPrev' \in [Cells -> Cells \cup {None}]
       /\ llNext' \in [Cells -> Cells \cup {None}]
       /\ llHead' = IF k = 0 THEN new ELSE llHead
       /\ llTail' = IF k = llCount THEN new ELSE llTail

LEMMA LlInsertPrevEnters ==
  ASSUME Ll!LListAssumption, LlTyped, NEW o \in LlOrders(llCount), LlAt(o),
         NEW k \in 0 .. (llCount - 1), NEW x, Ll!InsertPrev(o[k + 1], x)
  PROVE  LlEnters(o, k, x)
<1>1. /\ llCount \in Nat /\ None \notin Cells
      /\ \A i \in 1 .. llCount : o[i] \in Cells
      /\ \A i, j \in 1 .. llCount : o[i] = o[j] => i = j
      /\ \A i \in 1 .. llCount : o[i] \in llAllocated
  BY LlOrderIs DEF LlTyped, LlAt, LlOn, Ll!LListAssumption
<1>2. PICK i \in 1 .. llCount : i = k + 1
  BY <1>1
<1>3. PICK pos \in Cells : pos = o[i]
  BY <1>1
<1>4. /\ llPrev[pos] = IF k = 0 THEN None ELSE o[k]
      /\ pos = llHead <=> k = 0
      /\ k > 0 => k \in 1 .. llCount
  <2>1. llPrev[o[i]] = IF i = 1 THEN None ELSE o[i - 1]
    BY DEF LlAt, LlChain
  <2>2. llHead = o[1] /\ 1 \in 1 .. llCount
    BY <1>1, <1>2 DEF LlAt, LlChain
  <2>3. i - 1 = k /\ (i = 1 <=> k = 0)
    BY <1>2
  <2>4. QED
    BY <1>1, <1>3, <2>1, <2>2, <2>3
<1>5. CASE llAllocated = Cells
  <2>1. Ll!Malloc = {None}
    BY <1>5 DEF Ll!Malloc
  <2>2. QED
    BY <1>5, <2>1 DEF Ll!InsertPrev, LlEnters
<1>6. CASE llAllocated # Cells
  <2>1. Ll!Malloc = Cells \ llAllocated
    BY <1>6 DEF Ll!Malloc
  <2>2. PICK new \in Cells \ llAllocated :
          /\ Ll!Allocate(new, x)
          /\ llPrev' = [llPrev EXCEPT ![new] = llPrev[pos], ![pos] = new]
          /\ IF pos = llHead
             THEN llHead' = new /\ llNext' = [llNext EXCEPT ![new] = pos]
             ELSE /\ llNext' = [llNext EXCEPT ![new] = pos, ![llPrev[pos]] = new]
                  /\ UNCHANGED llHead
          /\ UNCHANGED llTail
    BY <1>1, <1>2, <1>3, <2>1 DEF Ll!InsertPrev
  <2>3. new # pos /\ (k > 0 => o[k] # new /\ o[k] \in Cells)
    BY <1>1, <1>3, <1>4, <2>2
  <2>4. \A n \in Cells :
          llPrev'[n] = IF n = new THEN IF k = 0 THEN None ELSE o[k]
                     ELSE IF n = pos THEN new ELSE llPrev[n]
    BY <1>4, <2>2, <2>3 DEF LlTyped
  <2>5. \A n \in Cells :
          llNext'[n] = IF n = new THEN pos
                     ELSE IF k > 0 /\ n = o[k] THEN new ELSE llNext[n]
    <3>1. CASE k = 0
      BY <1>4, <2>2, <2>3, <3>1 DEF LlTyped
    <3>2. CASE k > 0
      <4>1. llNext' = [llNext EXCEPT ![new] = pos, ![o[k]] = new]
        BY <1>4, <2>2, <3>2
      <4>2. QED
        BY <2>2, <2>3, <3>2, <4>1 DEF LlTyped
    <3>3. QED
      BY <3>1, <3>2
  <2>6. LlLinked(llPrev, llNext, llPrev', llNext', o, llCount, k, new)
    <3>1. k # llCount /\ k < llCount /\ o[k + 1] = pos
      BY <1>1, <1>2, <1>3
    <3>2. QED
      BY <2>4, <2>5, <3>1 DEF LlLinked
  <2>7. llPrev' \in [Cells -> Cells \cup {None}] /\ llNext' \in [Cells -> Cells \cup {None}]
    <3>1. llPrev' = [n \in Cells |-> llPrev'[n]] /\ llNext' = [n \in Cells |-> llNext'[n]]
      BY <2>2 DEF LlTyped
    <3>2. \A n \in Cells : llPrev'[n] \in Cells \cup {None}
      BY <2>2, <2>3, <2>4 DEF LlTyped
    <3>3. \A n \in Cells : llNext'[n] \in Cells \cup {None}
      BY <2>2, <2>3, <2>5 DEF LlTyped
    <3>4. QED
      BY <3>1, <3>2, <3>3
  <2>8. llHead' = IF k = 0 THEN new ELSE llHead
    BY <1>4, <2>2
  <2>9. llTail' = IF k = llCount THEN new ELSE llTail
    BY <1>1, <2>2
  <2>10. QED
    BY <2>2, <2>6, <2>7, <2>8, <2>9 DEF LlEnters
<1>7. QED
  BY <1>5, <1>6

LEMMA LlPushEmptyEnters ==
  ASSUME Ll!LListAssumption, LlTyped, NEW o \in LlOrders(llCount), LlAt(o), llCount = 0,
         NEW x, Ll!PushEmpty(x)
  PROVE  LlEnters(o, 0, x)
<1>1. CASE llAllocated = Cells
  <2>1. Ll!Malloc = {None}
    BY <1>1 DEF Ll!Malloc
  <2>2. QED
    BY <1>1, <2>1 DEF Ll!PushEmpty, LlEnters
<1>2. CASE llAllocated # Cells
  <2>1. Ll!Malloc = Cells \ llAllocated /\ None \notin Cells
    BY <1>2 DEF Ll!Malloc, Ll!LListAssumption
  <2>2. PICK new \in Cells \ llAllocated :
          /\ Ll!Allocate(new, x)
          /\ llPrev' = [llPrev EXCEPT ![new] = None]
          /\ llNext' = [llNext EXCEPT ![new] = None]
          /\ llHead' = new /\ llTail' = new
    BY <2>1 DEF Ll!PushEmpty
  <2>3. LlLinked(llPrev, llNext, llPrev', llNext', o, llCount, 0, new)
    <3>1. \A n \in Cells : llPrev'[n] = IF n = new THEN None ELSE llPrev[n]
      BY <2>2 DEF LlTyped
    <3>2. \A n \in Cells : llNext'[n] = IF n = new THEN None ELSE llNext[n]
      BY <2>2 DEF LlTyped
    <3>3. ~(0 < llCount)
      BY <1>2
    <3>4. QED
      BY <3>1, <3>2, <3>3 DEF LlLinked
  <2>4. llPrev' \in [Cells -> Cells \cup {None}] /\ llNext' \in [Cells -> Cells \cup {None}]
    BY <2>2 DEF LlTyped
  <2>5. QED
    BY <2>2, <2>3, <2>4 DEF LlEnters
<1>3. QED
  BY <1>1, <1>2

LEMMA LlPushBackEnters ==
  ASSUME Ll!LListAssumption, LlTyped, NEW o \in LlOrders(llCount), LlAt(o), NEW x, Ll!PushBack(x)
  PROVE  LlEnters(o, llCount, x)
<1>1. CASE llCount = 0
  <2>1. Ll!PushEmpty(x)
    BY <1>1 DEF Ll!PushBack
  <2>2. LlEnters(o, 0, x)
    BY <1>1, <2>1, LlPushEmptyEnters
  <2>3. QED
    BY <1>1, <2>2
<1>2. CASE llCount # 0
  <2>1. /\ llCount \in 1 .. llCount /\ llCount \in Nat
        /\ None \notin Cells /\ llTail = o[llCount] /\ llTail \in Cells /\ llTail \in llAllocated
    <3>1. llCount \in Nat /\ llCount \in 1 .. llCount
      BY <1>2 DEF LlTyped
    <3>2. \A i \in 1 .. llCount : o[i] \in Cells /\ o[i] \in llAllocated
      BY <3>1, LlOrderIs DEF LlAt, LlOn
    <3>3. QED
      BY <1>2, <3>1, <3>2 DEF LlAt, LlChain, Ll!LListAssumption
  <2>2. CASE llAllocated = Cells
    <3>1. Ll!Malloc = {None}
      BY <2>2 DEF Ll!Malloc
    <3>2. QED
      BY <1>2, <2>2, <3>1 DEF Ll!PushBack, LlEnters
  <2>3. CASE llAllocated # Cells
    <3>1. Ll!Malloc = Cells \ llAllocated
      BY <2>3 DEF Ll!Malloc
    <3>2. PICK new \in Cells \ llAllocated :
            /\ Ll!Allocate(new, x)
            /\ llPrev' = [llPrev EXCEPT ![new] = llTail]
            /\ llNext' = [llNext EXCEPT ![new] = None, ![llTail] = new]
            /\ llTail' = new
            /\ UNCHANGED llHead
      BY <1>2, <2>1, <3>1 DEF Ll!PushBack
    <3>3. \A n \in Cells : llPrev'[n] = IF n = new THEN llTail ELSE llPrev[n]
      BY <3>2 DEF LlTyped
    <3>4. \A n \in Cells :
            llNext'[n] = IF n = new THEN None ELSE IF n = llTail THEN new ELSE llNext[n]
      BY <2>1, <3>2 DEF LlTyped
    <3>5. LlLinked(llPrev, llNext, llPrev', llNext', o, llCount, llCount, new)
      <4>1. llCount > 0 /\ ~(llCount < llCount) /\ llTail = o[llCount] /\ llCount # 0
        BY <2>1
      <4>2. QED
        BY <3>3, <3>4, <4>1 DEF LlLinked
    <3>6. llPrev' \in [Cells -> Cells \cup {None}] /\ llNext' \in [Cells -> Cells \cup {None}]
      BY <2>1, <3>2 DEF LlTyped
    <3>7. QED
      BY <1>2, <3>2, <3>5, <3>6 DEF LlEnters
  <2>4. QED
    BY <2>2, <2>3
<1>3. QED
  BY <1>1, <1>2

(* The list after such a call.                                             *)
LEMMA LlEntersKeeps ==
  ASSUME Ll!LListAssumption, LlTyped, NEW o \in LlOrders(llCount), LlAt(o),
         NEW k \in 0 .. llCount, NEW x \in Items, NEW new \in Cells \ llAllocated,
         Ll!Allocate(new, x),
         LlLinked(llPrev, llNext, llPrev', llNext', o, llCount, k, new),
         llPrev' \in [Cells -> Cells \cup {None}],
         llNext' \in [Cells -> Cells \cup {None}],
         llHead' = IF k = 0 THEN new ELSE llHead, llTail' = IF k = llCount THEN new ELSE llTail,
         NEW q, q = LlEntered(o, llCount, k, new)
  PROVE  LlTyped' /\ q \in LlOrders(llCount') /\ LlAt(q)'
<1>1. /\ llCount \in Nat /\ llCount' = llCount + 1 /\ llAllocated' = llAllocated \cup {new}
      /\ llData' = [llData EXCEPT ![new] = x]
  BY DEF LlTyped, Ll!Allocate
<1>2. \A i \in 1 .. llCount : o[i] # new
  BY <1>1 DEF LlAt, LlOn
<1>3. /\ q \in LlOrders(llCount + 1) /\ LlOn(q, llCount + 1) = LlOn(o, llCount) \cup {new}
  <2>1. new \in Cells /\ llCount \in Nat
    BY <1>1
  <2>2. /\ LlEntered(o, llCount, k, new) \in LlOrders(llCount + 1)
        /\ LlOn(LlEntered(o, llCount, k, new), llCount + 1) = LlOn(o, llCount) \cup {new}
    BY <1>2, <2>1, LlEnteredOrder
  <2>3. QED
    BY <2>2
<1>4. LlChain(llHead', llTail', llPrev', llNext', q, llCount + 1)
  <2>1. LlChain(llHead, llTail, llPrev, llNext, o, llCount)
    BY DEF LlAt
  <2>2. LlChain(llHead', llTail', llPrev', llNext', LlEntered(o, llCount, k, new), llCount + 1)
    BY <1>1, <1>2, <2>1, LlEnteredChain
  <2>3. QED
    BY <2>2
<1>5. LlTyped'
  <2>1. llData' \in [Cells -> Items \cup {None}]
    BY <1>1 DEF LlTyped
  <2>2. \A n \in llAllocated' : llData'[n] \in Items
    <3>1. llAllocated \subseteq Cells
      <4>1. \A i \in 1 .. llCount : o[i] \in Cells
        BY <1>1, LlOrderIs
      <4>2. QED
        BY <4>1 DEF LlAt, LlOn
    <3>2. QED
      BY <1>1, <3>1 DEF LlTyped
  <2>3. QED
    BY <1>1, <2>1, <2>2 DEF LlTyped
<1>6. LlAt(q)'
  BY <1>1, <1>3, <1>4 DEF LlAt
<1>7. QED
  BY <1>1, <1>3, <1>5, <1>6

(* The list after _list_delete_node of its k-th node.                      *)
LEMMA LlDeleteKeeps ==
  ASSUME Ll!LListAssumption, LlTyped, NEW o \in LlOrders(llCount), LlAt(o),
         NEW k \in 1 .. llCount, Ll!DeleteNode(o[k]),
         NEW q, q = LlLeftOut(o, llCount, k)
  PROVE  LlTyped' /\ q \in LlOrders(llCount') /\ LlAt(q)'
<1>1. /\ llCount \in Nat /\ llCount - 1 \in Nat
      /\ llCount' = llCount - 1 /\ llAllocated' = llAllocated \ {o[k]}
      /\ llData' = [llData EXCEPT ![o[k]] = None]
  BY DEF LlTyped, Ll!DeleteNode, Ll!Free
<1>2. PICK n \in Cells : n = o[k]
  BY <1>1, LlOrderIs
<1>3. /\ llHead' = IF n = llHead THEN llNext[n] ELSE llHead
      /\ llTail' = IF n = llTail THEN llPrev[n] ELSE llTail
  BY <1>2 DEF Ll!DeleteNode
<1>4. PICK after : after = [m \in Cells |-> IF m = llPrev[n] THEN llNext[n] ELSE llNext[m]]
  OBVIOUS
<1>5. PICK before : before = [m \in Cells |-> IF m = llNext[n] THEN llPrev[n] ELSE llPrev[m]]
  OBVIOUS
<1>6. llNext' = [after EXCEPT ![n] = None] /\ llPrev' = [before EXCEPT ![n] = None]
  BY <1>2, <1>4, <1>5 DEF Ll!DeleteNode, Ll!Free
<1>7. \A m \in Cells :
        m # n => llNext'[m] = IF m = llPrev[n] THEN llNext[n] ELSE llNext[m]
  BY <1>4, <1>6
<1>8. \A m \in Cells :
        m # n => llPrev'[m] = IF m = llNext[n] THEN llPrev[n] ELSE llPrev[m]
  BY <1>5, <1>6
<1>9. LlLeftLinks(llPrev, llNext, llPrev', llNext', o, k)
  BY <1>2, <1>7, <1>8 DEF LlLeftLinks
<1>10. q \in LlOrders(llCount - 1) /\ LlOn(q, llCount - 1) = LlOn(o, llCount) \ {o[k]}
  <2>1. /\ LlLeftOut(o, llCount, k) \in LlOrders(llCount - 1)
        /\ LlOn(LlLeftOut(o, llCount, k), llCount - 1) = LlOn(o, llCount) \ {o[k]}
    BY <1>1, LlLeftOrder
  <2>2. QED
    BY <2>1
<1>11. LlChain(llHead', llTail', llPrev', llNext', q, llCount - 1)
  <2>1. LlChain(llHead, llTail, llPrev, llNext, o, llCount)
    BY DEF LlAt
  <2>2. /\ llHead' = IF o[k] = llHead THEN llNext[o[k]] ELSE llHead
        /\ llTail' = IF o[k] = llTail THEN llPrev[o[k]] ELSE llTail
    BY <1>2, <1>3
  <2>3. LlChain(llHead', llTail', llPrev', llNext', LlLeftOut(o, llCount, k), llCount - 1)
    BY <1>1, <1>9, <2>1, <2>2, LlLeftChain
  <2>4. QED
    BY <2>3
<1>12. LlTyped'
  <2>1. after \in [Cells -> Cells \cup {None}] /\ before \in [Cells -> Cells \cup {None}]
    BY <1>4, <1>5 DEF LlTyped
  <2>2. llNext' \in [Cells -> Cells \cup {None}] /\ llPrev' \in [Cells -> Cells \cup {None}]
    BY <1>6, <2>1
  <2>3. llData' \in [Cells -> Items \cup {None}]
    BY <1>1 DEF LlTyped
  <2>4. \A m \in llAllocated' : llData'[m] \in Items
    <3>1. llAllocated \subseteq Cells
      <4>1. \A i \in 1 .. llCount : o[i] \in Cells
        BY <1>1, LlOrderIs
      <4>2. QED
        BY <4>1 DEF LlAt, LlOn
    <3>2. QED
      BY <1>1, <3>1 DEF LlTyped
  <2>5. QED
    BY <1>1, <2>2, <2>3, <2>4 DEF LlTyped
<1>13. LlAt(q)'
  BY <1>1, <1>10, <1>11 DEF LlAt
<1>14. QED
  BY <1>1, <1>10, <1>12, <1>13

(* What each call does to a list in the order o.                           *)
LEMMA LlPushIs ==
  ASSUME Ll!LListAssumption, LlTyped, NEW o \in LlOrders(llCount), LlAt(o), NEW x, Ll!Push(x)
  PROVE  LlEnters(o, 0, x)
<1>1. CASE llCount = 0
  <2>1. Ll!PushEmpty(x)
    BY <1>1 DEF Ll!Push
  <2>2. QED
    BY <1>1, <2>1, LlPushEmptyEnters
<1>2. CASE llCount # 0
  <2>1. PICK z \in 0 .. (llCount - 1) : z = 0
    BY <1>2 DEF LlTyped
  <2>2. z + 1 = 1
    BY <2>1
  <2>3. llHead = o[z + 1]
    BY <1>2, <2>2 DEF LlAt, LlChain
  <2>4. Ll!InsertPrev(o[z + 1], x)
    BY <1>2, <2>3 DEF Ll!Push
  <2>5. LlEnters(o, z, x)
    BY <2>4, LlInsertPrevEnters
  <2>6. QED
    BY <2>1, <2>5
<1>3. QED
  BY <1>1, <1>2

LEMMA LlFoundEnters ==
  ASSUME Ll!LListAssumption, LlTyped, NEW o \in LlOrders(llCount), LlAt(o),
         NEW k \in 0 .. (llCount - 1), NEW x, Ll!InsertPrev(Ll!Forward[k], x)
  PROVE  LlEnters(o, k, x)
<1>1. llCount \in Nat
  BY DEF LlTyped
<1>2. Ll!Forward[k] = o[k + 1]
  BY <1>1, LlForwardIs
<1>3. Ll!InsertPrev(o[k + 1], x)
  BY <1>2
<1>4. QED
  BY <1>3, LlInsertPrevEnters

LEMMA LlMatchIs ==
  ASSUME Ll!LListAssumption, LlTyped, NEW o \in LlOrders(llCount), LlAt(o), NEW y
  PROVE  /\ Ll!Match(y) \in 0 .. llCount
         /\ \A i \in 1 .. Ll!Match(y) : ~Equal(y, llData[o[i]])
         /\ Ll!Match(y) < llCount => Equal(y, llData[o[Ll!Match(y) + 1]])
<1>1. PICK W : W = { x \in Items : Equal(y, x) }
  OBVIOUS
<1>2. PICK f : f = Ll!FirstAt(W)
  OBVIOUS
<1>3. Ll!Match(y) = f /\ llCount \in Nat
  BY <1>1, <1>2 DEF Ll!Match, LlTyped
<1>4. /\ f \in 0 .. llCount
      /\ \A i \in 1 .. f : llData[o[i]] \notin W
      /\ f < llCount => llData[o[f + 1]] \in W
  <2>1. /\ Ll!FirstAt(W) \in 0 .. llCount
        /\ \A i \in 1 .. Ll!FirstAt(W) : llData[o[i]] \notin W
        /\ Ll!FirstAt(W) < llCount => llData[o[Ll!FirstAt(W) + 1]] \in W
    BY <1>3, LlFirstAtIs
  <2>2. QED
    BY <1>2, <2>1
<1>5. \A i \in 1 .. llCount : llData[o[i]] \in Items
  BY DEF LlAt, LlOn, LlTyped
<1>6. \A i \in 1 .. f : ~Equal(y, llData[o[i]])
  <2>1. ASSUME NEW i \in 1 .. f PROVE ~Equal(y, llData[o[i]])
    <3>1. i \in 1 .. llCount
      BY <1>3, <1>4
    <3>2. PICK d \in Items : d = llData[o[i]]
      BY <1>5, <3>1
    <3>3. d \notin W
      BY <1>4, <3>2
    <3>4. ~Equal(y, d)
      BY <1>1, <3>3
    <3>5. QED
      BY <3>2, <3>4
  <2>2. QED
    BY <2>1
<1>7. ASSUME f < llCount PROVE Equal(y, llData[o[f + 1]])
  <2>1. PICK d : d = llData[o[f + 1]]
    OBVIOUS
  <2>2. d \in W
    BY <1>4, <1>7, <2>1
  <2>3. Equal(y, d)
    BY <1>1, <2>2
  <2>4. QED
    BY <2>1, <2>3
<1>8. QED
  BY <1>3, <1>4, <1>6, <1>7

LEMMA LlInsertByNodeIs ==
  ASSUME Ll!LListAssumption, LlTyped, NEW o \in LlOrders(llCount), LlAt(o), NEW y, NEW x,
         Ll!InsertByNode(y, x)
  PROVE  IF Ll!Match(y) = llCount THEN Ll!Answer(Ll!Code("NODE_NOT_FOUND"))
         ELSE Ll!Match(y) \in 0 .. (llCount - 1) /\ LlEnters(o, Ll!Match(y), x)
<1>1. CASE Ll!Match(y) = llCount
  BY <1>1 DEF Ll!InsertByNode
<1>2. CASE Ll!Match(y) # llCount
  <2>1. PICK k : k = Ll!Match(y)
    OBVIOUS
  <2>2. k \in 0 .. llCount /\ llCount \in Nat
    BY <2>1, LlMatchIs DEF LlTyped
  <2>3. k \in 0 .. (llCount - 1)
    BY <1>2, <2>1, <2>2
  <2>4. Ll!InsertPrev(Ll!Forward[k], x)
    BY <1>2, <2>1 DEF Ll!InsertByNode
  <2>5. LlEnters(o, k, x)
    BY <2>3, <2>4, LlFoundEnters
  <2>6. QED
    BY <1>2, <2>1, <2>3, <2>5
<1>3. QED
  BY <1>1, <1>2

LEMMA LlInsertByIndexIs ==
  ASSUME Ll!LListAssumption, LlTyped, NEW o \in LlOrders(llCount), LlAt(o),
         NEW i \in Ll!Indices, NEW x, Ll!InsertByIndex(i, x)
  PROVE  IF i >= llCount THEN Ll!Answer(Ll!Code("NODE_NOT_FOUND"))
         ELSE i \in 0 .. (llCount - 1) /\ LlEnters(o, i, x)
<1>1. llCount \in Nat /\ Sizes \in Nat /\ llCount < Sizes /\ i \in Nat /\ i < Sizes
  BY LlCountIs DEF LlTyped, Ll!Indices
<1>2. Ll!NodeAt(i) = IF i < llCount THEN o[i + 1] ELSE None
  BY <1>1, LlNodeAtIs
<1>3. CASE i >= llCount
  <2>1. Ll!NodeAt(i) = None
    BY <1>1, <1>2, <1>3
  <2>2. QED
    BY <1>3, <2>1 DEF Ll!InsertByIndex
<1>4. CASE ~(i >= llCount)
  <2>1. i \in 0 .. (llCount - 1) /\ i + 1 \in 1 .. llCount
    BY <1>1, <1>4
  <2>2. Ll!NodeAt(i) = o[i + 1] /\ o[i + 1] # None
    BY <1>1, <1>2, <2>1, LlOrderIs
  <2>3. (llCount - 1) % Sizes = llCount - 1
    BY <1>1, <2>1
  <2>4. ~(i > (llCount - 1) % Sizes)
    BY <1>1, <2>1, <2>3
  <2>5. Ll!InsertPrev(o[i + 1], x)
    BY <2>2, <2>4 DEF Ll!InsertByIndex
  <2>6. LlEnters(o, i, x)
    BY <2>1, <2>5, LlInsertPrevEnters
  <2>7. QED
    BY <1>4, <2>1, <2>6
<1>5. QED
  BY <1>3, <1>4

LlLower(x) == { y \in Items : Rank[x] - Rank[y] >= 0 }

LEMMA LlInsertPriorityIs ==
  ASSUME Ll!LListAssumption, LlTyped, NEW o \in LlOrders(llCount), LlAt(o), NEW x,
         Ll!InsertPriority(x)
  PROVE  Ll!FirstAt(LlLower(x)) \in 0 .. llCount /\ LlEnters(o, Ll!FirstAt(LlLower(x)), x)
<1>1. PICK k : k = Ll!FirstAt(LlLower(x))
  OBVIOUS
<1>2. k \in 0 .. llCount /\ llCount \in Nat
  BY <1>1, LlFirstAtIs DEF LlTyped
<1>3. IF k = llCount THEN Ll!PushBack(x) ELSE Ll!InsertPrev(Ll!Forward[k], x)
  BY <1>1 DEF Ll!InsertPriority, LlLower
<1>4. LlEnters(o, k, x)
  <2>1. CASE k = llCount
    <3>1. LlEnters(o, llCount, x)
      BY <1>3, <2>1, LlPushBackEnters
    <3>2. QED
      BY <2>1, <3>1
  <2>2. CASE k # llCount
    <3>1. k \in 0 .. (llCount - 1)
      BY <1>2, <2>2
    <3>2. Ll!InsertPrev(Ll!Forward[k], x)
      BY <1>3, <2>2
    <3>3. QED
      BY <3>1, <3>2, LlFoundEnters
  <2>3. QED
    BY <2>1, <2>2
<1>5. QED
  BY <1>1, <1>2, <1>4

LEMMA LlRemoveByNodeIs ==
  ASSUME Ll!LListAssumption, LlTyped, NEW o \in LlOrders(llCount), LlAt(o), NEW y,
         Ll!RemoveByNode(y)
  PROVE  IF Ll!Match(y) = llCount THEN Ll!Answer(Ll!Code("NODE_NOT_FOUND"))
         ELSE Ll!Match(y) + 1 \in 1 .. llCount /\ Ll!DeleteNode(o[Ll!Match(y) + 1])
<1>1. PICK k : k = Ll!Match(y)
  OBVIOUS
<1>2. k \in 0 .. llCount /\ llCount \in Nat
  BY <1>1, LlMatchIs DEF LlTyped
<1>3. CASE k = llCount
  BY <1>1, <1>3 DEF Ll!RemoveByNode
<1>4. CASE k # llCount
  <2>1. k \in 0 .. (llCount - 1) /\ k + 1 \in 1 .. llCount
    BY <1>2, <1>4
  <2>2. Ll!Forward[k] = o[k + 1]
    BY <1>2, <2>1, LlForwardIs
  <2>3. Ll!DeleteNode(o[k + 1])
    BY <1>1, <1>4, <2>2 DEF Ll!RemoveByNode
  <2>4. QED
    BY <1>1, <1>4, <2>1, <2>3
<1>5. QED
  BY <1>3, <1>4

LEMMA LlRemoveByIndexIs ==
  ASSUME Ll!LListAssumption, LlTyped, NEW o \in LlOrders(llCount), LlAt(o),
         NEW i \in Ll!Indices, Ll!RemoveByIndex(i)
  PROVE  IF i >= llCount THEN Ll!Answer(Ll!Code("NODE_NOT_FOUND"))
         ELSE i + 1 \in 1 .. llCount /\ Ll!DeleteNode(o[i + 1])
<1>1. llCount \in Nat /\ i \in Nat
  BY DEF LlTyped, Ll!Indices, Ll!LListAssumption
<1>2. Ll!NodeAt(i) = IF i < llCount THEN o[i + 1] ELSE None
  BY <1>1, LlNodeAtIs
<1>3. CASE i >= llCount
  BY <1>1, <1>2, <1>3 DEF Ll!RemoveByIndex
<1>4. CASE ~(i >= llCount)
  <2>1. i + 1 \in 1 .. llCount
    BY <1>1, <1>4
  <2>2. Ll!NodeAt(i) = o[i + 1] /\ o[i + 1] # None
    BY <1>1, <1>2, <2>1, LlOrderIs
  <2>3. QED
    BY <1>4, <2>1, <2>2 DEF Ll!RemoveByIndex
<1>5. QED
  BY <1>3, <1>4

(* llist_destroy frees all nodes.                                          *)
LEMMA LlDestroyIs ==
  ASSUME Ll!LListAssumption, LlTyped, NEW o \in LlOrders(llCount), LlAt(o), Ll!Destroy
  PROVE  /\ llAllocated' = {} /\ llCount' = 0 /\ llHead' = None /\ llTail' = None
         /\ llPrev' = [n \in Cells |-> None] /\ llNext' = [n \in Cells |-> None]
         /\ llData' = [n \in Cells |-> None] /\ llAnswer' = Ll!Code("SUCCESS")
<1>1. llCount \in Nat
  BY DEF LlTyped
<1>2. \A k \in 0 .. (llCount - 1) : Ll!Forward[k] = o[k + 1]
  BY <1>1, LlForwardIs
<1>3. llAllocated \subseteq { Ll!Forward[k] : k \in 0 .. llCount }
  <2>1. ASSUME NEW i \in 1 .. llCount PROVE \E k \in 0 .. llCount : o[i] = Ll!Forward[k]
    <3>1. PICK k \in 0 .. (llCount - 1) : k = i - 1
      BY <1>1
    <3>2. k \in 0 .. llCount /\ k + 1 = i
      BY <1>1, <3>1
    <3>3. Ll!Forward[k] = o[k + 1]
      BY <1>2
    <3>4. QED
      BY <3>2, <3>3
  <2>2. QED
    BY <2>1 DEF LlAt, LlOn
<1>4. QED
  BY <1>3 DEF Ll!Destroy

LEMMA LlEmptyInv ==
  ASSUME Ll!LListAssumption, llAllocated = {}, llCount = 0, llHead = None, llTail = None,
         llPrev = [n \in Cells |-> None], llNext = [n \in Cells |-> None],
         llData = [n \in Cells |-> None]
  PROVE  LlInv
<1>1. PICK o : o = [i \in 1 .. 0 |-> None]
  OBVIOUS
<1>2. \A i \in 1 .. 0 : FALSE
  OBVIOUS
<1>3. o \in LlOrders(0) /\ LlOn(o, 0) = {}
  BY <1>1, <1>2 DEF LlOrders, LlOn
<1>4. LlChain(llHead, llTail, llPrev, llNext, o, 0)
  BY <1>2 DEF LlChain
<1>5. LlTyped
  BY DEF LlTyped
<1>6. LlAt(o)
  BY <1>3, <1>4 DEF LlAt
<1>7. QED
  BY <1>3, <1>5, <1>6 DEF LlInv

LEMMA LlInitInv == ASSUME Ll!LListAssumption, Ll!Init PROVE LlInv
  BY LlEmptyInv DEF Ll!Init

LEMMA LlLinksInv == ASSUME LlInv, UNCHANGED Ll!links PROVE LlInv'
<1>1. PICK o \in LlOrders(llCount) : LlAt(o)
  BY DEF LlInv
<1>2. o \in LlOrders(llCount') /\ LlAt(o)'
  BY <1>1 DEF Ll!links, LlAt
<1>3. LlTyped'
  BY DEF LlInv, LlTyped, Ll!links
<1>4. QED
  BY <1>2, <1>3 DEF LlInv

LEMMA LlEntersInv ==
  ASSUME Ll!LListAssumption, LlTyped, NEW o \in LlOrders(llCount), LlAt(o),
         NEW k \in 0 .. llCount, NEW x \in Items, LlEnters(o, k, x)
  PROVE  LlInv'
<1>1. CASE llAllocated = Cells /\ Ll!Answer(Ll!Code("MALLOC_ERROR"))
  <2>1. LlInv /\ UNCHANGED Ll!links
    BY <1>1 DEF LlInv, Ll!Answer
  <2>2. QED
    BY <2>1, LlLinksInv
<1>2. CASE ~(llAllocated = Cells /\ Ll!Answer(Ll!Code("MALLOC_ERROR")))
  <2>1. PICK new \in Cells \ llAllocated :
          /\ Ll!Allocate(new, x)
          /\ LlLinked(llPrev, llNext, llPrev', llNext', o, llCount, k, new)
          /\ llPrev' \in [Cells -> Cells \cup {None}]
          /\ llNext' \in [Cells -> Cells \cup {None}]
          /\ llHead' = IF k = 0 THEN new ELSE llHead
          /\ llTail' = IF k = llCount THEN new ELSE llTail
    BY <1>2 DEF LlEnters
  <2>2. PICK q : q = LlEntered(o, llCount, k, new)
    OBVIOUS
  <2>3. LlTyped' /\ q \in LlOrders(llCount') /\ LlAt(q)'
    BY <2>1, <2>2, LlEntersKeeps
  <2>4. QED
    BY <2>3 DEF LlInv
<1>3. QED
  BY <1>1, <1>2

LEMMA LlDeleteInv ==
  ASSUME Ll!LListAssumption, LlTyped, NEW o \in LlOrders(llCount), LlAt(o),
         NEW k \in 1 .. llCount, Ll!DeleteNode(o[k])
  PROVE  LlInv'
<1>1. PICK q : q = LlLeftOut(o, llCount, k)
  OBVIOUS
<1>2. LlTyped' /\ q \in LlOrders(llCount') /\ LlAt(q)'
  BY <1>1, LlDeleteKeeps
<1>3. QED
  BY <1>2 DEF LlInv

LEMMA LlInvStep == ASSUME Ll!LListAssumption, LlInv, [Ll!Next]_(Ll!vars) PROVE LlInv'
<1>1. PICK o \in LlOrders(llCount) : LlAt(o)
  BY DEF LlInv
<1>2. LlTyped /\ llCount \in Nat /\ 0 \in 0 .. llCount /\ llCount \in 0 .. llCount
  BY DEF LlInv, LlTyped
<1>3. CASE UNCHANGED Ll!links
  BY <1>3, LlLinksInv
<1>4. CASE \E x \in Items : Ll!Push(x)
  BY <1>1, <1>2, <1>4, LlPushIs, LlEntersInv
<1>5. CASE \E x \in Items : Ll!PushBack(x)
  BY <1>1, <1>2, <1>5, LlPushBackEnters, LlEntersInv
<1>6. CASE \E x \in Items : Ll!InsertPriority(x)
  <2>1. PICK x \in Items : Ll!InsertPriority(x)
    BY <1>6
  <2>2. PICK k \in 0 .. llCount : LlEnters(o, k, x)
    BY <1>1, <1>2, <2>1, LlInsertPriorityIs
  <2>3. QED
    BY <1>1, <1>2, <2>2, LlEntersInv
<1>7. CASE \E x, y \in Items : Ll!InsertByNode(y, x)
  <2>1. PICK x \in Items, y \in Items : Ll!InsertByNode(y, x)
    BY <1>7
  <2>2. IF Ll!Match(y) = llCount THEN Ll!Answer(Ll!Code("NODE_NOT_FOUND"))
        ELSE Ll!Match(y) \in 0 .. (llCount - 1) /\ LlEnters(o, Ll!Match(y), x)
    BY <1>1, <1>2, <2>1, LlInsertByNodeIs
  <2>3. CASE Ll!Match(y) = llCount
    BY <2>2, <2>3, LlLinksInv DEF Ll!Answer
  <2>4. CASE Ll!Match(y) # llCount
    <3>1. PICK k : k = Ll!Match(y)
      OBVIOUS
    <3>2. k \in 0 .. llCount /\ LlEnters(o, k, x)
      BY <1>2, <2>2, <2>4, <3>1
    <3>3. QED
      BY <1>1, <1>2, <3>2, LlEntersInv
  <2>5. QED
    BY <2>3, <2>4
<1>8. CASE \E x \in Items, i \in Ll!Indices : Ll!InsertByIndex(i, x)
  <2>1. PICK x \in Items, i \in Ll!Indices : Ll!InsertByIndex(i, x)
    BY <1>8
  <2>2. IF i >= llCount THEN Ll!Answer(Ll!Code("NODE_NOT_FOUND"))
        ELSE i \in 0 .. (llCount - 1) /\ LlEnters(o, i, x)
    BY <1>1, <1>2, <2>1, LlInsertByIndexIs
  <2>3. CASE i >= llCount
    BY <2>2, <2>3, LlLinksInv DEF Ll!Answer
  <2>4. CASE ~(i >= llCount)
    <3>1. i \in 0 .. llCount /\ LlEnters(o, i, x)
      BY <1>2, <2>2, <2>4
    <3>2. QED
      BY <1>1, <1>2, <3>1, LlEntersInv
  <2>5. QED
    BY <2>3, <2>4
<1>9. CASE \E y \in Items : Ll!RemoveByNode(y)
  <2>1. PICK y \in Items : Ll!RemoveByNode(y)
    BY <1>9
  <2>2. IF Ll!Match(y) = llCount THEN Ll!Answer(Ll!Code("NODE_NOT_FOUND"))
        ELSE Ll!Match(y) + 1 \in 1 .. llCount /\ Ll!DeleteNode(o[Ll!Match(y) + 1])
    BY <1>1, <1>2, <2>1, LlRemoveByNodeIs
  <2>3. CASE Ll!Match(y) = llCount
    BY <2>2, <2>3, LlLinksInv DEF Ll!Answer
  <2>4. CASE Ll!Match(y) # llCount
    <3>1. PICK k \in 1 .. llCount : k = Ll!Match(y) + 1
      BY <2>2, <2>4
    <3>2. Ll!DeleteNode(o[k])
      BY <2>2, <2>4, <3>1
    <3>3. QED
      BY <1>1, <1>2, <3>2, LlDeleteInv
  <2>5. QED
    BY <2>3, <2>4
<1>10. CASE \E i \in Ll!Indices : Ll!RemoveByIndex(i)
  <2>1. PICK i \in Ll!Indices : Ll!RemoveByIndex(i)
    BY <1>10
  <2>2. IF i >= llCount THEN Ll!Answer(Ll!Code("NODE_NOT_FOUND"))
        ELSE i + 1 \in 1 .. llCount /\ Ll!DeleteNode(o[i + 1])
    BY <1>1, <1>2, <2>1, LlRemoveByIndexIs
  <2>3. CASE i >= llCount
    BY <2>2, <2>3, LlLinksInv DEF Ll!Answer
  <2>4. CASE ~(i >= llCount)
    <3>1. PICK k \in 1 .. llCount : k = i + 1
      BY <2>2, <2>4
    <3>2. Ll!DeleteNode(o[k])
      BY <2>2, <2>4, <3>1
    <3>3. QED
      BY <1>1, <1>2, <3>2, LlDeleteInv
  <2>5. QED
    BY <2>3, <2>4
<1>11. CASE Ll!Destroy
  <2>1. /\ llAllocated' = {} /\ llCount' = 0 /\ llHead' = None /\ llTail' = None
        /\ llPrev' = [n \in Cells |-> None] /\ llNext' = [n \in Cells |-> None]
        /\ llData' = [n \in Cells |-> None]
    BY <1>1, <1>2, <1>11, LlDestroyIs
  <2>2. \A i \in 1 .. 0 : FALSE
    OBVIOUS
  <2>3. PICK o2 : o2 = [i \in 1 .. 0 |-> None]
    OBVIOUS
  <2>4. o2 \in LlOrders(0) /\ LlOn(o2, 0) = {}
    BY <2>2, <2>3 DEF LlOrders, LlOn
  <2>5. LlAt(o2)'
    BY <2>1, <2>2, <2>4 DEF LlAt, LlChain
  <2>6. LlTyped'
    BY <2>1 DEF LlTyped
  <2>7. QED
    BY <2>1, <2>4, <2>5, <2>6 DEF LlInv
<1>12. CASE \/ \E x \in Items : Ll!Find(x)
            \/ \E i \in Ll!Indices : Ll!Get(i)
            \/ Ll!GetHead \/ Ll!GetTail \/ Ll!Export \/ UNCHANGED Ll!vars
  <2>1. UNCHANGED Ll!links
    BY <1>12 DEF Ll!Find, Ll!Get, Ll!GetHead, Ll!GetTail, Ll!Export, Ll!Answer, Ll!vars
  <2>2. QED
    BY <2>1, LlLinksInv
<1>13. QED
  BY <1>4, <1>5, <1>6, <1>7, <1>8, <1>9, <1>10, <1>11, <1>12 DEF Ll!Next

(* The links lead along all nodes that are allocated, and back.            *)
LEMMA LlInvMeans == ASSUME Ll!LListAssumption, LlInv PROVE Ll!TypeOK /\ Ll!LinksCoherent
<1>1. PICK o \in LlOrders(llCount) : LlAt(o)
  BY DEF LlInv
<1>2. LlTyped /\ llCount \in Nat
  BY DEF LlInv, LlTyped
<1>3. \A i \in 1 .. llCount : o[i] \in Cells
  BY <1>2, LlOrderIs
<1>4. llCount \in 0 .. (Sizes - 1)
  <2>1. llCount < Sizes /\ Sizes \in Nat
    BY <1>2, LlCountIs
  <2>2. QED
    BY <1>2, <2>1
<1>5. Ll!TypeOK
  <2>1. llAllocated \subseteq Cells
    BY <1>1, <1>3 DEF LlAt, LlOn
  <2>2. llHead \in Cells \cup {None} /\ llTail \in Cells \cup {None}
    <3>1. llCount # 0 => 1 \in 1 .. llCount /\ llCount \in 1 .. llCount
      BY <1>2
    <3>2. QED
      BY <1>1, <1>3, <3>1 DEF LlAt, LlChain
  <2>3. QED
    BY <1>2, <1>4, <2>1, <2>2 DEF Ll!TypeOK, LlTyped
<1>6. Ll!Forward = LlAhead(o, llCount) /\ Ll!Follow(llPrev, llTail) = LlBack(o, llCount)
  BY <1>1, <1>2, LlFollowIs
<1>7. Ll!Forward[llCount] = None /\ \A k \in 0 .. (llCount - 1) : Ll!Forward[k] = o[k + 1]
  BY <1>1, <1>2, LlForwardIs
<1>8. \A k \in 0 .. (llCount - 1) : Ll!Follow(llPrev, llTail)[k] = o[llCount - k]
  BY <1>2, <1>6 DEF LlBack
<1>9. { Ll!Forward[k] : k \in 0 .. (llCount - 1) } = llAllocated
  <2>1. ASSUME NEW i \in 1 .. llCount
        PROVE  \E k \in 0 .. (llCount - 1) : o[i] = Ll!Forward[k]
    <3>1. PICK k \in 0 .. (llCount - 1) : k = i - 1
      BY <1>2
    <3>2. k + 1 = i
      BY <3>1
    <3>3. QED
      BY <1>7, <3>2
  <2>2. \A k \in 0 .. (llCount - 1) : k + 1 \in 1 .. llCount
    BY <1>2
  <2>3. QED
    BY <1>1, <1>7, <2>1, <2>2 DEF LlAt, LlOn
<1>10. ASSUME NEW k \in 0 .. (llCount - 1)
       PROVE  Ll!Follow(llPrev, llTail)[k] = Ll!Forward[llCount - 1 - k]
  <2>1. PICK j \in 0 .. (llCount - 1) : j = llCount - 1 - k
    BY <1>2
  <2>2. j + 1 = llCount - k
    BY <1>2, <2>1
  <2>3. Ll!Forward[j] = o[j + 1]
    BY <1>7
  <2>4. QED
    BY <1>8, <2>1, <2>2, <2>3
<1>11. llCount = 0 => llTail = None
  BY <1>1 DEF LlAt, LlChain
<1>12. QED
  BY <1>5, <1>7, <1>9, <1>10, <1>11 DEF Ll!LinksCoherent

-----------------------------------------------------------------------------
(* The items of the list, as ItemList has them.                            *)

LlListed == [k \in 1 .. llCount |-> llData[Ll!Forward[k - 1]]]

LlRow(o, m, d) == [i \in 1 .. m |-> d[o[i]]]

LlRowFrom(f, m, d) == [k \in 1 .. m |-> d[f[k - 1]]]

LlIsRow(w, o, m, d) == Len(w) = m /\ \A i \in 1 .. m : w[i] = d[o[i]]

LEMMA LlRowOf == ASSUME NEW m \in Nat, NEW o, NEW d PROVE LlRowFrom(LlAhead(o, m), m, d) = LlRow(o, m, d)
<1>1. PICK f : f = LlAhead(o, m)
  OBVIOUS
<1>2. ASSUME NEW i \in 1 .. m PROVE f[i - 1] = o[i]
  <2>1. PICK k \in 0 .. m : k = i - 1
    OBVIOUS
  <2>2. k < m /\ k + 1 = i
    BY <2>1
  <2>3. f[k] = o[k + 1]
    BY <1>1, <2>2 DEF LlAhead
  <2>4. QED
    BY <2>1, <2>2, <2>3
<1>3. LlRowFrom(f, m, d) = LlRow(o, m, d)
  BY <1>2 DEF LlRowFrom, LlRow
<1>4. QED
  BY <1>1, <1>3

LEMMA LlRowIs ==
  ASSUME Ll!LListAssumption, NEW m \in Nat, NEW o, NEW d,
         \A i \in 1 .. m : d[o[i]] \in Items
  PROVE  LlRow(o, m, d) \in Seq(Items) /\ LlIsRow(LlRow(o, m, d), o, m, d)
<1>1. PICK w : w = LlRow(o, m, d)
  OBVIOUS
<1>2. w = [i \in 1 .. m |-> w[i]] /\ \A i \in 1 .. m : w[i] = d[o[i]]
  BY <1>1 DEF LlRow
<1>3. \A i \in 1 .. m : w[i] \in Items
  BY <1>2
<1>4. w \in Seq(Items) /\ Len(w) = m
  BY <1>2, <1>3, ListIs
<1>5. QED
  BY <1>1, <1>2, <1>4 DEF LlIsRow

LEMMA LlListedIs ==
  ASSUME Ll!LListAssumption, LlTyped, NEW o \in LlOrders(llCount), LlAt(o)
  PROVE  /\ LlListed \in Seq(Items) /\ LlIsRow(LlListed, o, llCount, llData)
         /\ \A i \in 1 .. llCount : llData[o[i]] \in Items
<1>1. llCount \in Nat /\ Ll!Forward = LlAhead(o, llCount)
  BY LlFollowIs DEF LlTyped
<1>2. LlListed = LlRowFrom(Ll!Forward, llCount, llData)
  BY DEF LlListed, LlRowFrom
<1>3. LlListed = LlRow(o, llCount, llData)
  BY <1>1, <1>2, LlRowOf
<1>4. \A i \in 1 .. llCount : llData[o[i]] \in Items
  BY DEF LlAt, LlOn, LlTyped
<1>5. LlRow(o, llCount, llData) \in Seq(Items) /\ LlIsRow(LlRow(o, llCount, llData), o, llCount, llData)
  BY <1>1, <1>4, LlRowIs
<1>6. QED
  BY <1>3, <1>4, <1>5

LEMMA LlListedNextIs ==
  ASSUME Ll!LListAssumption, LlTyped', NEW o \in LlOrders(llCount'), LlAt(o)'
  PROVE  LlListed' \in Seq(Items) /\ LlIsRow(LlListed', o, llCount', llData')
<1>1. llCount' \in Nat
  BY DEF LlTyped
<1>2. Walk(llNext', llHead', llCount', None) = LlAhead(o, llCount')
  <2>1. LlChain(llHead', llTail', llPrev', llNext', o, llCount')
    BY DEF LlAt
  <2>2. /\ Walk(llNext', llHead', llCount', None) = LlAhead(o, llCount')
        /\ Walk(llPrev', llTail', llCount', None) = LlBack(o, llCount')
    BY <1>1, <2>1, LlWalks
  <2>3. QED
    BY <2>2
<1>3. Ll!Forward' = Walk(llNext', llHead', llCount', None)
  BY DEF Ll!Forward, Ll!Follow, Walk
<1>4. LlListed' = LlRowFrom(Ll!Forward', llCount', llData')
  BY DEF LlListed, LlRowFrom
<1>5. LlListed' = LlRow(o, llCount', llData')
  BY <1>1, <1>2, <1>3, <1>4, LlRowOf
<1>6. \A i \in 1 .. llCount' : llData'[o[i]] \in Items
  BY DEF LlAt, LlOn, LlTyped
<1>7. LlRow(o, llCount', llData') \in Seq(Items) /\ LlIsRow(LlRow(o, llCount', llData'), o, llCount', llData')
  BY <1>1, <1>6, LlRowIs
<1>8. QED
  BY <1>5, <1>7

LEMMA LlListedKept ==
  ASSUME UNCHANGED Ll!links PROVE LlListed' = LlListed
<1>1. Ll!Forward' = Ll!Forward
  BY DEF Ll!links, Ll!Forward, Ll!Follow
<1>2. QED
  BY <1>1 DEF Ll!links, LlListed

(* What the calls of ItemList come to for the items listed: w before the   *)
(* call, v after it, and the answer a.                                     *)
LlPutsIn(w, v, a, x, k) ==
  IF Len(w) = Cardinality(Cells)
  THEN a = Ll!Code("MALLOC_ERROR") /\ v = w
  ELSE v = Put(w, x, Len(w), k) /\ a = Ll!Code("SUCCESS")

LlTakesIn(w, v, a, k) == v = Taken(w, Len(w), k) /\ a = Ll!Code("SUCCESS")

LEMMA LlEntersPuts ==
  ASSUME Ll!LListAssumption, LlTyped, NEW o \in LlOrders(llCount), LlAt(o),
         NEW k \in 0 .. llCount, NEW x \in Items, LlEnters(o, k, x),
         NEW w, w = LlListed, NEW v, v = LlListed'
  PROVE  LlPutsIn(w, v, llAnswer', x, k)
<1>1. w = LlListed
  OBVIOUS
<1>2. v = LlListed'
  OBVIOUS
<1>3. LlPutsIn(w, v, llAnswer', x, k) <=>
        IF Len(w) = Cardinality(Cells)
        THEN llAnswer' = Ll!Code("MALLOC_ERROR") /\ v = w
        ELSE v = Put(w, x, Len(w), k) /\ llAnswer' = Ll!Code("SUCCESS")
  BY DEF LlPutsIn
<1>4. /\ w \in Seq(Items) /\ Len(w) = llCount /\ llCount \in Nat
      /\ \A i \in 1 .. llCount : w[i] = llData[o[i]]
      /\ \A i \in 1 .. llCount : llData[o[i]] \in Items
  BY <1>1, LlListedIs DEF LlIsRow, LlTyped
<1>5. Len(w) = Cardinality(Cells) <=> llAllocated = Cells
  BY <1>4, LlCountIs DEF LlAt
<1>6. CASE llAllocated = Cells /\ Ll!Answer(Ll!Code("MALLOC_ERROR"))
  <2>1. llAnswer' = Ll!Code("MALLOC_ERROR") /\ v = w
    BY <1>1, <1>2, <1>6, LlListedKept DEF Ll!Answer
  <2>2. QED
    BY <1>3, <1>5, <1>6, <2>1
<1>7. CASE ~(llAllocated = Cells /\ Ll!Answer(Ll!Code("MALLOC_ERROR")))
  <2>1. PICK new \in Cells \ llAllocated :
          /\ Ll!Allocate(new, x)
          /\ LlLinked(llPrev, llNext, llPrev', llNext', o, llCount, k, new)
          /\ llPrev' \in [Cells -> Cells \cup {None}]
          /\ llNext' \in [Cells -> Cells \cup {None}]
          /\ llHead' = IF k = 0 THEN new ELSE llHead
          /\ llTail' = IF k = llCount THEN new ELSE llTail
    BY <1>7 DEF LlEnters
  <2>2. PICK q : q = LlEntered(o, llCount, k, new)
    OBVIOUS
  <2>3. LlTyped' /\ q \in LlOrders(llCount') /\ LlAt(q)'
    BY <2>1, <2>2, LlEntersKeeps
  <2>4. /\ llAnswer' = Ll!Code("SUCCESS") /\ llCount' = llCount + 1
        /\ llData' = [llData EXCEPT ![new] = x]
    BY <2>1 DEF Ll!Allocate
  <2>5. v \in Seq(Items) /\ LlIsRow(v, q, llCount', llData')
    BY <1>2, <2>3, LlListedNextIs
  <2>6. Len(v) = llCount + 1 /\ \A i \in 1 .. (llCount + 1) : v[i] = llData'[q[i]]
    BY <2>4, <2>5 DEF LlIsRow
  <2>7. PICK r : r = Put(w, x, llCount, k)
    OBVIOUS
  <2>8. /\ r \in Seq(Items) /\ Len(r) = llCount + 1
        /\ \A i \in 1 .. (llCount + 1) :
             r[i] = IF i <= k THEN w[i] ELSE IF i = k + 1 THEN x ELSE w[i - 1]
    <3>1. Put(w, x, llCount, k) \in Seq(Items) /\ IsPut(Put(w, x, llCount, k), w, x, llCount, k)
      BY <1>4, PutIn
    <3>2. QED
      BY <2>7, <3>1 DEF IsPut
  <2>9. /\ \A i \in 1 .. llCount : llData'[o[i]] = w[i]
        /\ llData'[new] = x
    <3>1. llData'[new] = x
      BY <2>4 DEF LlTyped
    <3>2. \A i \in 1 .. llCount : o[i] # new /\ o[i] \in Cells
      BY <1>4, LlOrderIs DEF LlAt, LlOn
    <3>3. \A i \in 1 .. llCount : llData'[o[i]] = llData[o[i]]
      BY <2>4, <3>2 DEF LlTyped
    <3>4. QED
      BY <1>4, <3>1, <3>3
  <2>10. \A i \in 1 .. (llCount + 1) :
           /\ i <= k => q[i] = o[i]
           /\ i = k + 1 => q[i] = new
           /\ i > k + 1 => q[i] = o[i - 1]
    <3>1. ASSUME NEW i \in 1 .. (llCount + 1)
          PROVE  /\ i <= k => q[i] = o[i]
                 /\ i = k + 1 => q[i] = new
                 /\ i > k + 1 => q[i] = o[i - 1]
      BY <1>4, <2>2, LlEnteredIs
    <3>2. QED
      BY <3>1
  <2>11. ASSUME NEW i \in 1 .. (llCount + 1) PROVE v[i] = r[i]
    <3>1. CASE i <= k
      <4>1. i \in 1 .. llCount
        BY <1>4, <3>1
      <4>2. QED
        BY <2>6, <2>8, <2>9, <2>10, <3>1, <4>1
    <3>2. CASE i = k + 1
      <4>1. ~(i <= k)
        BY <3>2
      <4>2. QED
        BY <2>6, <2>8, <2>9, <2>10, <3>2, <4>1
    <3>3. CASE i > k + 1
      <4>1. PICK j \in 1 .. llCount : j = i - 1
        BY <1>4, <3>3
      <4>2. ~(i <= k) /\ i # k + 1 /\ q[i] = o[j]
        BY <2>10, <3>3, <4>1
      <4>3. QED
        BY <2>6, <2>8, <2>9, <4>1, <4>2
    <3>4. i <= k \/ i = k + 1 \/ i > k + 1
      BY <1>4
    <3>5. QED
      BY <3>1, <3>2, <3>3, <3>4
  <2>12. v = r
    BY <2>5, <2>6, <2>8, <2>11, SeqEqual
  <2>13. llAllocated # Cells
    BY <2>1
  <2>14. QED
    BY <1>3, <1>4, <1>5, <2>4, <2>7, <2>12, <2>13
<1>8. QED
  BY <1>6, <1>7

LEMMA LlDeleteTakes ==
  ASSUME Ll!LListAssumption, LlTyped, NEW o \in LlOrders(llCount), LlAt(o),
         NEW k \in 1 .. llCount, Ll!DeleteNode(o[k]),
         NEW w, w = LlListed, NEW v, v = LlListed'
  PROVE  LlTakesIn(w, v, llAnswer', k)
<1>1. w = LlListed
  OBVIOUS
<1>2. v = LlListed'
  OBVIOUS
<1>3. LlTakesIn(w, v, llAnswer', k) <=> v = Taken(w, Len(w), k) /\ llAnswer' = Ll!Code("SUCCESS")
  BY DEF LlTakesIn
<1>4. /\ w \in Seq(Items) /\ Len(w) = llCount /\ llCount \in Nat
      /\ \A i \in 1 .. llCount : w[i] = llData[o[i]]
  BY <1>1, LlListedIs DEF LlIsRow, LlTyped
<1>5. PICK q : q = LlLeftOut(o, llCount, k)
  OBVIOUS
<1>6. LlTyped' /\ q \in LlOrders(llCount') /\ LlAt(q)'
  BY <1>5, LlDeleteKeeps
<1>7. /\ llAnswer' = Ll!Code("SUCCESS") /\ llCount' = llCount - 1
      /\ llData' = [llData EXCEPT ![o[k]] = None]
  BY DEF Ll!DeleteNode, Ll!Free
<1>8. v \in Seq(Items) /\ LlIsRow(v, q, llCount', llData')
  BY <1>2, <1>6, LlListedNextIs
<1>9. Len(v) = llCount - 1 /\ \A i \in 1 .. (llCount - 1) : v[i] = llData'[q[i]]
  BY <1>7, <1>8 DEF LlIsRow
<1>10. PICK r : r = Taken(w, llCount, k)
  OBVIOUS
<1>11. /\ r \in Seq(Items) /\ Len(r) = llCount - 1
       /\ \A i \in 1 .. (llCount - 1) : r[i] = IF i < k THEN w[i] ELSE w[i + 1]
  <2>1. Taken(w, llCount, k) \in Seq(Items) /\ IsTaken(Taken(w, llCount, k), w, llCount, k)
    BY <1>4, TakenOut
  <2>2. QED
    BY <1>10, <2>1 DEF IsTaken
<1>12. \A i \in 1 .. llCount : i # k => llData'[o[i]] = w[i]
  <2>1. /\ \A i \in 1 .. llCount : o[i] \in Cells
        /\ \A i, j \in 1 .. llCount : o[i] = o[j] => i = j
    BY <1>4, LlOrderIs
  <2>2. \A i \in 1 .. llCount : i # k => llData'[o[i]] = llData[o[i]]
    BY <1>7, <2>1 DEF LlTyped
  <2>3. QED
    BY <1>4, <2>2
<1>13. \A i \in 1 .. (llCount - 1) :
         (i < k => q[i] = o[i]) /\ (i >= k => q[i] = o[i + 1])
  BY <1>4, <1>5, LlLeftIs
<1>14. ASSUME NEW i \in 1 .. (llCount - 1) PROVE v[i] = r[i]
  <2>1. CASE i < k
    <3>1. i \in 1 .. llCount /\ i # k
      BY <1>4, <2>1
    <3>2. QED
      BY <1>9, <1>11, <1>12, <1>13, <2>1, <3>1
  <2>2. CASE i >= k
    <3>1. PICK j \in 1 .. llCount : j = i + 1
      BY <1>4
    <3>2. j # k /\ ~(i < k) /\ q[i] = o[j]
      BY <1>4, <1>13, <2>2, <3>1
    <3>3. QED
      BY <1>9, <1>11, <1>12, <3>1, <3>2
  <2>3. QED
    BY <1>4, <2>1, <2>2
<1>15. v = r
  BY <1>8, <1>9, <1>11, <1>14, SeqEqual
<1>16. QED
  BY <1>3, <1>4, <1>7, <1>10, <1>15

(* The least place of a set, as ItemList and the search of the code have   *)
(* it.                                                                     *)
LEMMA LlLeastIs ==
  ASSUME NEW S \in SUBSET Nat, NEW n \in S, \A j \in S : n <= j
  PROVE  Ll!L!Least(S) = n
<1>1. PICK c : c = Ll!L!Least(S)
  OBVIOUS
<1>2. c \in S /\ \A j \in S : c <= j
  BY <1>1 DEF Ll!L!Least
<1>3. c <= n /\ n <= c /\ c \in Nat /\ n \in Nat
  BY <1>2
<1>4. QED
  BY <1>1, <1>3

LEMMA LlMatchesIs ==
  ASSUME Ll!LListAssumption, LlTyped, NEW o \in LlOrders(llCount), LlAt(o), NEW y
  PROVE  /\ Ll!Match(y) \in 0 .. llCount
         /\ Ll!Match(y) = llCount <=> Ll!L!Matches(y) = {}
         /\ Ll!Match(y) < llCount => Ll!L!Least(Ll!L!Matches(y)) = Ll!Match(y) + 1
<1>1. PICK f : f = Ll!Match(y)
  OBVIOUS
<1>2. PICK w : w = LlListed
  OBVIOUS
<1>3. PICK S : S = Ll!L!Matches(y)
  OBVIOUS
<1>4. S = { i \in 1 .. Len(w) : Equal(y, w[i]) }
  BY <1>2, <1>3 DEF Ll!L!Matches, LlListed
<1>5. Len(w) = llCount /\ llCount \in Nat /\ \A i \in 1 .. llCount : w[i] = llData[o[i]]
  BY <1>2, LlListedIs DEF LlIsRow, LlTyped
<1>6. /\ f \in 0 .. llCount
      /\ \A i \in 1 .. f : ~Equal(y, llData[o[i]])
      /\ f < llCount => Equal(y, llData[o[f + 1]])
  BY <1>1, LlMatchIs
<1>7. \A i \in 1 .. llCount : i \in S <=> Equal(y, llData[o[i]])
  <2>1. ASSUME NEW i \in 1 .. llCount PROVE i \in S <=> Equal(y, llData[o[i]])
    <3>1. i \in S <=> Equal(y, w[i])
      BY <1>4, <1>5
    <3>2. w[i] = llData[o[i]]
      BY <1>5
    <3>3. QED
      BY <3>1, <3>2
  <2>2. QED
    BY <2>1
<1>8. S \subseteq 1 .. llCount
  BY <1>4, <1>5
<1>9. CASE f = llCount
  <2>1. S = {}
    BY <1>6, <1>7, <1>8, <1>9
  <2>2. QED
    BY <1>1, <1>3, <1>5, <1>6, <1>9, <2>1
<1>10. CASE f # llCount
  <2>1. PICK n \in 1 .. llCount : n = f + 1
    BY <1>5, <1>6, <1>10
  <2>2. n \in S
    BY <1>5, <1>6, <1>7, <2>1
  <2>3. ASSUME NEW j \in S PROVE n <= j
    <3>1. j \in 1 .. llCount /\ j \notin 1 .. f
      BY <1>6, <1>7, <1>8
    <3>2. QED
      BY <1>5, <1>6, <2>1, <3>1
  <2>4. S \in SUBSET Nat
    BY <1>5, <1>8
  <2>5. Ll!L!Least(S) = n
    BY <2>2, <2>3, <2>4, LlLeastIs
  <2>6. QED
    BY <1>1, <1>3, <1>5, <1>6, <1>10, <2>1, <2>2, <2>5
<1>11. QED
  BY <1>9, <1>10

LEMMA LlPlaceIs ==
  ASSUME Ll!LListAssumption, LlTyped, NEW o \in LlOrders(llCount), LlAt(o), NEW x \in Items,
         NEW w, w = LlListed
  PROVE  Ll!L!Least({ i \in 1 .. Len(w) : Rank[w[i]] <= Rank[x] } \cup {Len(w) + 1}) - 1
           = Ll!FirstAt(LlLower(x))
<1>1. PICK f : f = Ll!FirstAt(LlLower(x))
  OBVIOUS
<1>2. PICK S : S = { i \in 1 .. Len(w) : Rank[w[i]] <= Rank[x] } \cup {Len(w) + 1}
  OBVIOUS
<1>3. /\ Len(w) = llCount /\ llCount \in Nat /\ \A i \in 1 .. llCount : w[i] = llData[o[i]]
      /\ \A i \in 1 .. llCount : llData[o[i]] \in Items
  BY LlListedIs DEF LlIsRow, LlTyped
<1>4. /\ f \in 0 .. llCount
      /\ \A i \in 1 .. f : llData[o[i]] \notin LlLower(x)
      /\ f < llCount => llData[o[f + 1]] \in LlLower(x)
  <2>1. PICK W : W = LlLower(x)
    OBVIOUS
  <2>2. /\ Ll!FirstAt(W) \in 0 .. llCount
        /\ \A i \in 1 .. Ll!FirstAt(W) : llData[o[i]] \notin W
        /\ Ll!FirstAt(W) < llCount => llData[o[Ll!FirstAt(W) + 1]] \in W
    BY <1>3, LlFirstAtIs
  <2>3. QED
    BY <1>1, <2>1, <2>2
<1>5. ASSUME NEW i \in 1 .. llCount
      PROVE  llData[o[i]] \in LlLower(x) <=> Rank[w[i]] <= Rank[x]
  <2>1. PICK d \in Items : d = llData[o[i]]
    BY <1>3
  <2>2. Rank[d] \in Int /\ Rank[x] \in Int
    BY DEF Ll!LListAssumption
  <2>3. Rank[x] - Rank[d] >= 0 <=> Rank[d] <= Rank[x]
    BY <2>2
  <2>4. d = w[i]
    BY <1>3, <2>1
  <2>5. QED
    BY <2>1, <2>3, <2>4 DEF LlLower
<1>6. \A i \in 1 .. llCount : i \in S <=> llData[o[i]] \in LlLower(x)
  BY <1>2, <1>3, <1>5
<1>7. S \subseteq 1 .. (llCount + 1) /\ llCount + 1 \in S
  BY <1>2, <1>3
<1>8. PICK n \in 1 .. (llCount + 1) : n = f + 1
  BY <1>3, <1>4
<1>9. n \in S
  <2>1. CASE f = llCount
    BY <1>7, <1>8, <2>1
  <2>2. CASE f # llCount
    <3>1. n \in 1 .. llCount /\ f < llCount
      BY <1>3, <1>4, <1>8, <2>2
    <3>2. QED
      BY <1>4, <1>6, <1>8, <3>1
  <2>3. QED
    BY <2>1, <2>2
<1>10. ASSUME NEW j \in S PROVE n <= j
  <2>1. CASE j = llCount + 1
    BY <1>3, <1>8, <2>1
  <2>2. CASE j # llCount + 1
    <3>1. j \in 1 .. llCount
      BY <1>3, <1>7, <2>2
    <3>2. llData[o[j]] \in LlLower(x)
      BY <1>6, <3>1
    <3>3. j \notin 1 .. f
      BY <1>4, <3>2
    <3>4. QED
      BY <1>3, <1>4, <1>8, <3>1, <3>3
  <2>3. QED
    BY <2>1, <2>2
<1>11. Ll!L!Least(S) = n
  <2>1. S \in SUBSET Nat
    BY <1>3, <1>7
  <2>2. QED
    BY <1>9, <1>10, <2>1, LlLeastIs
<1>12. n - 1 = f
  BY <1>3, <1>4, <1>8
<1>13. QED
  BY <1>1, <1>2, <1>11, <1>12

LEMMA LlInsertByNodeRefines ==
  ASSUME Ll!LListAssumption, LlTyped, NEW o \in LlOrders(llCount), LlAt(o),
         NEW y, NEW x \in Items, Ll!InsertByNode(y, x)
  PROVE  Ll!L!InsertByNode(y, x)
<1>1. PICK w : w = LlListed
  OBVIOUS
<1>2. PICK v : v = LlListed'
  OBVIOUS
<1>3. PICK S : S = Ll!L!Matches(y)
  OBVIOUS
<1>4. PICK n : n = Ll!L!Least(S) - 1
  OBVIOUS
<1>5. PICK k : k = Ll!Match(y)
  OBVIOUS
<1>6. Ll!L!InsertByNode(y, x) <=>
        IF S = {} THEN llAnswer' = Ll!Code("NODE_NOT_FOUND") /\ v = w
        ELSE LlPutsIn(w, v, llAnswer', x, n)
  BY <1>1, <1>2, <1>3, <1>4, LlFinite
      DEF Ll!L!InsertByNode, LlPutsIn, Ll!L!Put, Ll!L!Fail, Ll!L!Front, Ll!L!Rest, Ll!L!Code,
         Ll!Code, LlListed, Put
<1>7. IF k = llCount THEN Ll!Answer(Ll!Code("NODE_NOT_FOUND"))
      ELSE k \in 0 .. (llCount - 1) /\ LlEnters(o, k, x)
  BY <1>5, LlInsertByNodeIs
<1>8. k \in 0 .. llCount /\ (k = llCount <=> S = {}) /\ (k < llCount => Ll!L!Least(S) = k + 1)
  BY <1>3, <1>5, LlMatchesIs
<1>9. CASE k = llCount
  <2>1. llAnswer' = Ll!Code("NODE_NOT_FOUND") /\ v = w
    BY <1>1, <1>2, <1>7, <1>9, LlListedKept DEF Ll!Answer
  <2>2. QED
    BY <1>6, <1>8, <1>9, <2>1
<1>10. CASE k # llCount
  <2>1. llCount \in Nat
    BY DEF LlTyped
  <2>2. n = k
    BY <1>4, <1>8, <1>10, <2>1
  <2>3. k \in 0 .. llCount /\ LlEnters(o, k, x)
    BY <1>7, <1>8, <1>10
  <2>4. LlPutsIn(w, v, llAnswer', x, k)
    BY <1>1, <1>2, <2>3, LlEntersPuts
  <2>5. QED
    BY <1>6, <1>8, <1>10, <2>2, <2>4
<1>11. QED
  BY <1>9, <1>10

LEMMA LlInsertByIndexRefines ==
  ASSUME Ll!LListAssumption, LlTyped, NEW o \in LlOrders(llCount), LlAt(o),
         NEW i \in Ll!Indices, NEW x \in Items, Ll!InsertByIndex(i, x)
  PROVE  Ll!L!InsertByIndex(i, x)
<1>1. PICK w : w = LlListed
  OBVIOUS
<1>2. PICK v : v = LlListed'
  OBVIOUS
<1>3. IF i >= llCount THEN Ll!Answer(Ll!Code("NODE_NOT_FOUND"))
      ELSE i \in 0 .. (llCount - 1) /\ LlEnters(o, i, x)
  BY LlInsertByIndexIs
<1>4. Len(w) = llCount /\ llCount \in Nat
  BY <1>1, LlListedIs DEF LlIsRow, LlTyped
<1>5. Ll!L!InsertByIndex(i, x) <=>
        IF i >= Len(w) THEN llAnswer' = Ll!Code("NODE_NOT_FOUND") /\ v = w
        ELSE LlPutsIn(w, v, llAnswer', x, i)
  BY <1>1, <1>2, LlFinite
      DEF Ll!L!InsertByIndex, LlPutsIn, Ll!L!Put, Ll!L!Fail, Ll!L!Front, Ll!L!Rest, Ll!L!Code,
         Ll!Code, LlListed, Put
<1>6. CASE i >= llCount
  <2>1. llAnswer' = Ll!Code("NODE_NOT_FOUND") /\ v = w
    BY <1>1, <1>2, <1>3, <1>6, LlListedKept DEF Ll!Answer
  <2>2. QED
    BY <1>4, <1>5, <1>6, <2>1
<1>7. CASE ~(i >= llCount)
  <2>1. i \in 0 .. llCount /\ LlEnters(o, i, x)
    BY <1>3, <1>4, <1>7
  <2>2. LlPutsIn(w, v, llAnswer', x, i)
    BY <1>1, <1>2, <2>1, LlEntersPuts
  <2>3. QED
    BY <1>4, <1>5, <1>7, <2>2
<1>8. QED
  BY <1>6, <1>7

LEMMA LlInsertPriorityRefines ==
  ASSUME Ll!LListAssumption, LlTyped, NEW o \in LlOrders(llCount), LlAt(o),
         NEW x \in Items, Ll!InsertPriority(x)
  PROVE  Ll!L!InsertPriority(x)
<1>1. PICK w : w = LlListed
  OBVIOUS
<1>2. PICK v : v = LlListed'
  OBVIOUS
<1>3. PICK n : n = Ll!L!Least({ i \in 1 .. Len(w) : Rank[w[i]] <= Rank[x] } \cup {Len(w) + 1}) - 1
  OBVIOUS
<1>4. Ll!L!InsertPriority(x) <=> LlPutsIn(w, v, llAnswer', x, n)
  BY <1>1, <1>2, <1>3, LlFinite
      DEF Ll!L!InsertPriority, LlPutsIn, Ll!L!Put, Ll!L!Fail, Ll!L!Front, Ll!L!Rest, Ll!L!Code,
         Ll!Code, LlListed, Put
<1>5. PICK k : k = Ll!FirstAt(LlLower(x))
  OBVIOUS
<1>6. n = k
  BY <1>1, <1>3, <1>5, LlPlaceIs
<1>7. k \in 0 .. llCount /\ LlEnters(o, k, x)
  BY <1>5, LlInsertPriorityIs
<1>8. LlPutsIn(w, v, llAnswer', x, k)
  BY <1>1, <1>2, <1>7, LlEntersPuts
<1>9. QED
  BY <1>4, <1>6, <1>8

LEMMA LlPushesRefine ==
  ASSUME Ll!LListAssumption, LlTyped, NEW o \in LlOrders(llCount), LlAt(o), NEW x \in Items
  PROVE  (Ll!Push(x) => Ll!L!Push(x)) /\ (Ll!PushBack(x) => Ll!L!PushBack(x))
<1>1. PICK w : w = LlListed
  OBVIOUS
<1>2. PICK v : v = LlListed'
  OBVIOUS
<1>3. Len(w) = llCount /\ llCount \in Nat
  BY <1>1, LlListedIs DEF LlIsRow, LlTyped
<1>4. ASSUME Ll!Push(x) PROVE Ll!L!Push(x)
  <2>1. PICK k : k = 0
    OBVIOUS
  <2>2. k \in 0 .. llCount /\ LlEnters(o, k, x)
    BY <1>3, <1>4, <2>1, LlPushIs
  <2>3. LlPutsIn(w, v, llAnswer', x, k)
    BY <1>1, <1>2, <2>2, LlEntersPuts
  <2>4. Ll!L!Push(x) <=> LlPutsIn(w, v, llAnswer', x, k)
    BY <1>1, <1>2, <2>1, LlFinite
      DEF Ll!L!Push, LlPutsIn, Ll!L!Put, Ll!L!Fail, Ll!L!Front, Ll!L!Rest, Ll!L!Code,
         Ll!Code, LlListed, Put
  <2>5. QED
    BY <2>3, <2>4
<1>5. ASSUME Ll!PushBack(x) PROVE Ll!L!PushBack(x)
  <2>1. PICK k : k = Len(w)
    OBVIOUS
  <2>2. k \in 0 .. llCount /\ LlEnters(o, llCount, x)
    BY <1>3, <1>5, <2>1, LlPushBackEnters
  <2>3. LlEnters(o, k, x)
    BY <1>3, <2>1, <2>2
  <2>4. LlPutsIn(w, v, llAnswer', x, k)
    BY <1>1, <1>2, <2>2, <2>3, LlEntersPuts
  <2>5. Ll!L!PushBack(x) <=> LlPutsIn(w, v, llAnswer', x, k)
    BY <1>1, <1>2, <2>1, LlFinite
      DEF Ll!L!PushBack, LlPutsIn, Ll!L!Put, Ll!L!Fail, Ll!L!Front, Ll!L!Rest, Ll!L!Code,
         Ll!Code, LlListed, Put
  <2>6. QED
    BY <2>4, <2>5
<1>6. QED
  BY <1>4, <1>5

LEMMA LlRemoveByNodeRefines ==
  ASSUME Ll!LListAssumption, LlTyped, NEW o \in LlOrders(llCount), LlAt(o), NEW y,
         Ll!RemoveByNode(y)
  PROVE  Ll!L!RemoveByNode(y)
<1>1. PICK w : w = LlListed
  OBVIOUS
<1>2. PICK v : v = LlListed'
  OBVIOUS
<1>3. PICK S : S = Ll!L!Matches(y)
  OBVIOUS
<1>4. PICK n : n = Ll!L!Least(S)
  OBVIOUS
<1>5. PICK f : f = Ll!Match(y)
  OBVIOUS
<1>6. Ll!L!RemoveByNode(y) <=>
        IF S = {} THEN llAnswer' = Ll!Code("NODE_NOT_FOUND") /\ v = w
        ELSE LlTakesIn(w, v, llAnswer', n)
  BY <1>1, <1>2, <1>3, <1>4 DEF Ll!L!RemoveByNode, LlTakesIn, Ll!L!TakeOut, Ll!L!Fail, Ll!L!Front, Ll!L!Rest,
         Ll!L!Code, Ll!Code, LlListed, Taken
<1>7. IF f = llCount THEN Ll!Answer(Ll!Code("NODE_NOT_FOUND"))
      ELSE f + 1 \in 1 .. llCount /\ Ll!DeleteNode(o[f + 1])
  BY <1>5, LlRemoveByNodeIs
<1>8. f \in 0 .. llCount /\ (f = llCount <=> S = {}) /\ (f < llCount => n = f + 1)
  BY <1>3, <1>4, <1>5, LlMatchesIs
<1>9. CASE f = llCount
  <2>1. llAnswer' = Ll!Code("NODE_NOT_FOUND") /\ v = w
    BY <1>1, <1>2, <1>7, <1>9, LlListedKept DEF Ll!Answer
  <2>2. QED
    BY <1>6, <1>8, <1>9, <2>1
<1>10. CASE f # llCount
  <2>1. llCount \in Nat
    BY DEF LlTyped
  <2>2. n = f + 1
    BY <1>8, <1>10, <2>1
  <2>3. n \in 1 .. llCount /\ Ll!DeleteNode(o[n])
    BY <1>7, <1>10, <2>2
  <2>4. LlTakesIn(w, v, llAnswer', n)
    BY <1>1, <1>2, <2>3, LlDeleteTakes
  <2>5. QED
    BY <1>6, <1>8, <1>10, <2>4
<1>11. QED
  BY <1>9, <1>10

LEMMA LlRemoveByIndexRefines ==
  ASSUME Ll!LListAssumption, LlTyped, NEW o \in LlOrders(llCount), LlAt(o),
         NEW i \in Ll!Indices, Ll!RemoveByIndex(i)
  PROVE  Ll!L!RemoveByIndex(i)
<1>1. PICK w : w = LlListed
  OBVIOUS
<1>2. PICK v : v = LlListed'
  OBVIOUS
<1>3. IF i >= llCount THEN Ll!Answer(Ll!Code("NODE_NOT_FOUND"))
      ELSE i + 1 \in 1 .. llCount /\ Ll!DeleteNode(o[i + 1])
  BY LlRemoveByIndexIs
<1>4. Len(w) = llCount
  BY <1>1, LlListedIs DEF LlIsRow
<1>5. PICK k : k = i + 1
  OBVIOUS
<1>6. Ll!L!RemoveByIndex(i) <=>
        IF i >= Len(w) THEN llAnswer' = Ll!Code("NODE_NOT_FOUND") /\ v = w
        ELSE LlTakesIn(w, v, llAnswer', k)
  BY <1>1, <1>2, <1>5 DEF Ll!L!RemoveByIndex, LlTakesIn, Ll!L!TakeOut, Ll!L!Fail, Ll!L!Front, Ll!L!Rest,
         Ll!L!Code, Ll!Code, LlListed, Taken
<1>7. CASE i >= llCount
  <2>1. llAnswer' = Ll!Code("NODE_NOT_FOUND") /\ v = w
    BY <1>1, <1>2, <1>3, <1>7, LlListedKept DEF Ll!Answer
  <2>2. QED
    BY <1>4, <1>6, <1>7, <2>1
<1>8. CASE ~(i >= llCount)
  <2>1. k \in 1 .. llCount /\ Ll!DeleteNode(o[k])
    BY <1>3, <1>5, <1>8
  <2>2. LlTakesIn(w, v, llAnswer', k)
    BY <1>1, <1>2, <2>1, LlDeleteTakes
  <2>3. QED
    BY <1>4, <1>6, <1>8, <2>2
<1>9. QED
  BY <1>7, <1>8

LEMMA LlFindRefines ==
  ASSUME Ll!LListAssumption, LlTyped, NEW o \in LlOrders(llCount), LlAt(o), NEW y, Ll!Find(y)
  PROVE  Ll!L!Find(y)
<1>1. PICK f : f = Ll!Match(y)
  OBVIOUS
<1>2. PICK S : S = Ll!L!Matches(y)
  OBVIOUS
<1>3. f \in 0 .. llCount /\ (f = llCount <=> S = {}) /\ (f < llCount => Ll!L!Least(S) = f + 1)
  BY <1>1, <1>2, LlMatchesIs
<1>4. /\ llAnswer' = IF f = llCount THEN Ll!Code("NODE_NOT_FOUND") ELSE <<"index", f>>
      /\ LlListed' = LlListed
  BY <1>1, LlListedKept DEF Ll!Find, Ll!Answer
<1>5. Ll!L!Find(y) <=>
        /\ llAnswer' = IF S = {} THEN Ll!Code("NODE_NOT_FOUND") ELSE <<"index", Ll!L!Least(S) - 1>>
        /\ LlListed' = LlListed
  BY <1>2 DEF Ll!L!Find, Ll!L!Code, Ll!Code, LlListed
<1>6. CASE f = llCount
  BY <1>3, <1>4, <1>5, <1>6
<1>7. CASE f # llCount
  <2>1. PICK n : n = Ll!L!Least(S)
    OBVIOUS
  <2>2. llCount \in Nat
    BY DEF LlTyped
  <2>3. n - 1 = f
    BY <1>3, <1>7, <2>1, <2>2
  <2>4. QED
    BY <1>3, <1>4, <1>5, <1>7, <2>1, <2>3
<1>8. QED
  BY <1>6, <1>7

LEMMA LlGetRefines ==
  ASSUME Ll!LListAssumption, LlTyped, NEW o \in LlOrders(llCount), LlAt(o),
         NEW i \in Ll!Indices, Ll!Get(i)
  PROVE  Ll!L!Get(i)
<1>1. PICK w : w = LlListed
  OBVIOUS
<1>2. Len(w) = llCount /\ \A j \in 1 .. llCount : w[j] = llData[o[j]]
  BY <1>1, LlListedIs DEF LlIsRow
<1>3. llCount \in Nat /\ i \in Nat
  BY DEF LlTyped, Ll!Indices, Ll!LListAssumption
<1>4. Ll!NodeAt(i) = IF i < llCount THEN o[i + 1] ELSE None
  BY <1>3, LlNodeAtIs
<1>5. /\ llAnswer' = IF Ll!NodeAt(i) = None THEN Ll!Code("NODE_NOT_FOUND")
                   ELSE <<"item", llData[Ll!NodeAt(i)]>>
      /\ LlListed' = LlListed
  BY LlListedKept DEF Ll!Get, Ll!Answer
<1>6. Ll!L!Get(i) <=>
        /\ llAnswer' = IF i >= Len(w) THEN Ll!Code("NODE_NOT_FOUND") ELSE <<"item", w[i + 1]>>
        /\ LlListed' = LlListed
  BY <1>1 DEF Ll!L!Get, Ll!L!Code, Ll!Code, LlListed
<1>7. CASE i >= llCount
  <2>1. Ll!NodeAt(i) = None
    BY <1>3, <1>4, <1>7
  <2>2. QED
    BY <1>2, <1>5, <1>6, <1>7, <2>1
<1>8. CASE ~(i >= llCount)
  <2>1. PICK j \in 1 .. llCount : j = i + 1
    BY <1>3, <1>8
  <2>2. Ll!NodeAt(i) = o[j] /\ o[j] # None
    BY <1>3, <1>4, <1>8, <2>1, LlOrderIs
  <2>3. llData[Ll!NodeAt(i)] = w[i + 1]
    BY <1>2, <2>1, <2>2
  <2>4. QED
    BY <1>2, <1>5, <1>6, <1>8, <2>2, <2>3
<1>9. QED
  BY <1>7, <1>8

LEMMA LlEndsRefine ==
  ASSUME Ll!LListAssumption, LlTyped, NEW o \in LlOrders(llCount), LlAt(o)
  PROVE  (Ll!GetHead => Ll!L!GetHead) /\ (Ll!GetTail => Ll!L!GetTail)
<1>1. PICK w : w = LlListed
  OBVIOUS
<1>2. /\ w \in Seq(Items) /\ Len(w) = llCount /\ llCount \in Nat
      /\ \A j \in 1 .. llCount : w[j] = llData[o[j]]
  BY <1>1, LlListedIs DEF LlIsRow, LlTyped
<1>3. w = << >> <=> llCount = 0
  BY <1>2, EmptySeq
<1>4. llCount # 0 => llData[llHead] = w[1] /\ llData[llTail] = w[Len(w)]
  <2>1. SUFFICES ASSUME llCount # 0 PROVE llData[llHead] = w[1] /\ llData[llTail] = w[Len(w)]
    OBVIOUS
  <2>2. 1 \in 1 .. llCount /\ llCount \in 1 .. llCount
    BY <1>2, <2>1
  <2>3. llHead = o[1] /\ llTail = o[llCount]
    BY <2>1 DEF LlAt, LlChain
  <2>4. w[1] = llData[o[1]] /\ w[llCount] = llData[o[llCount]]
    BY <1>2, <2>2
  <2>5. QED
    BY <1>2, <2>3, <2>4
<1>5. /\ Ll!L!GetHead <=>
           /\ llAnswer' = IF w = << >> THEN Ll!Code("NULL") ELSE <<"item", w[1]>>
           /\ LlListed' = LlListed
      /\ Ll!L!GetTail <=>
           /\ llAnswer' = IF w = << >> THEN Ll!Code("NULL") ELSE <<"item", w[Len(w)]>>
           /\ LlListed' = LlListed
  BY <1>1 DEF Ll!L!GetHead, Ll!L!GetTail, Ll!L!Code, Ll!Code, LlListed
<1>6. ASSUME Ll!GetHead PROVE Ll!L!GetHead
  <2>1. /\ llAnswer' = IF llCount = 0 THEN Ll!Code("NULL") ELSE <<"item", llData[llHead]>>
        /\ LlListed' = LlListed
    BY <1>6, LlListedKept DEF Ll!GetHead, Ll!Answer
  <2>2. QED
    BY <1>3, <1>4, <1>5, <2>1
<1>7. ASSUME Ll!GetTail PROVE Ll!L!GetTail
  <2>1. /\ llAnswer' = IF llCount = 0 THEN Ll!Code("NULL") ELSE <<"item", llData[llTail]>>
        /\ LlListed' = LlListed
    BY <1>7, LlListedKept DEF Ll!GetTail, Ll!Answer
  <2>2. QED
    BY <1>3, <1>4, <1>5, <2>1
<1>8. QED
  BY <1>6, <1>7

LEMMA LlExportRefines == ASSUME Ll!Export PROVE Ll!L!Export
<1>1. llAnswer' = <<"array", LlListed>> /\ LlListed' = LlListed
  BY LlListedKept DEF Ll!Export, Ll!Answer, LlListed
<1>2. QED
  BY <1>1 DEF Ll!L!Export, LlListed

LEMMA LlDestroyRefines ==
  ASSUME Ll!LListAssumption, LlTyped, NEW o \in LlOrders(llCount), LlAt(o), Ll!Destroy
  PROVE  Ll!L!Clear
<1>1. llCount' = 0 /\ llAnswer' = Ll!Code("SUCCESS")
  BY LlDestroyIs
<1>2. LlListed' = << >>
  <2>1. 1 .. 0 = {}
    OBVIOUS
  <2>2. QED
    BY <1>1, <2>1 DEF LlListed
<1>3. QED
  BY <1>1, <1>2 DEF Ll!L!Clear, Ll!L!Code, Ll!Code, LlListed

LEMMA LlInitRefines == ASSUME Ll!LListAssumption, Ll!Init PROVE Ll!L!Init
<1>1. LlListed = << >>
  <2>1. 1 .. 0 = {} /\ llCount = 0
    BY DEF Ll!Init
  <2>2. QED
    BY <2>1 DEF LlListed
<1>2. QED
  BY <1>1 DEF Ll!Init, Ll!L!Init, Ll!L!Code, Ll!Code, LlListed

LEMMA LlStepRefines == ASSUME Ll!LListAssumption, LlInv, [Ll!Next]_(Ll!vars) PROVE [Ll!L!Next]_(Ll!L!ivars)
<1>1. PICK o \in LlOrders(llCount) : LlAt(o)
  BY DEF LlInv
<1>2. LlTyped
  BY DEF LlInv
<1>3. \A op, arguments : Ll!Ask(op, arguments) => Ll!L!Ask(op, arguments)
  BY DEF Ll!Ask, Ll!L!Ask
<1>4. CASE UNCHANGED Ll!vars
  <2>1. LlListed' = LlListed /\ llAsked' = llAsked /\ llAnswer' = llAnswer
    BY <1>4, LlListedKept DEF Ll!vars
  <2>2. QED
    BY <2>1 DEF Ll!L!ivars, LlListed
<1>5. CASE \E x \in Items :
             \/ Ll!Ask("push", <<x>>) /\ Ll!Push(x)
             \/ Ll!Ask("push_back", <<x>>) /\ Ll!PushBack(x)
             \/ Ll!Ask("insert_priority", <<x>>) /\ Ll!InsertPriority(x)
  <2>1. PICK x \in Items :
             \/ Ll!Ask("push", <<x>>) /\ Ll!Push(x)
             \/ Ll!Ask("push_back", <<x>>) /\ Ll!PushBack(x)
             \/ Ll!Ask("insert_priority", <<x>>) /\ Ll!InsertPriority(x)
    BY <1>5
  <2>2. \/ Ll!L!Ask("push", <<x>>) /\ Ll!L!Push(x)
        \/ Ll!L!Ask("push_back", <<x>>) /\ Ll!L!PushBack(x)
        \/ Ll!L!Ask("insert_priority", <<x>>) /\ Ll!L!InsertPriority(x)
    BY <1>1, <1>2, <1>3, <2>1, LlPushesRefine, LlInsertPriorityRefines
  <2>3. QED
    BY <2>2 DEF Ll!L!Next
<1>6. CASE \E x \in Items :
             \/ Ll!Ask("remove_by_node", <<x>>) /\ Ll!RemoveByNode(x)
             \/ Ll!Ask("find", <<x>>) /\ Ll!Find(x)
             \/ \E y \in Items : Ll!Ask("insert_by_node", <<y, x>>) /\ Ll!InsertByNode(y, x)
  <2>1. PICK x \in Items :
             \/ Ll!Ask("remove_by_node", <<x>>) /\ Ll!RemoveByNode(x)
             \/ Ll!Ask("find", <<x>>) /\ Ll!Find(x)
             \/ \E y \in Items : Ll!Ask("insert_by_node", <<y, x>>) /\ Ll!InsertByNode(y, x)
    BY <1>6
  <2>2. \/ Ll!L!Ask("remove_by_node", <<x>>) /\ Ll!L!RemoveByNode(x)
        \/ Ll!L!Ask("find", <<x>>) /\ Ll!L!Find(x)
        \/ \E y \in Items : Ll!L!Ask("insert_by_node", <<y, x>>) /\ Ll!L!InsertByNode(y, x)
    BY <1>1, <1>2, <1>3, <2>1, LlRemoveByNodeRefines, LlFindRefines, LlInsertByNodeRefines
  <2>3. QED
    BY <2>2 DEF Ll!L!Next
<1>7. CASE \E x \in Items, i \in Ll!Indices :
             Ll!Ask("insert_by_index", <<i, x>>) /\ Ll!InsertByIndex(i, x)
  <2>1. PICK x \in Items, i \in Ll!Indices :
             Ll!Ask("insert_by_index", <<i, x>>) /\ Ll!InsertByIndex(i, x)
    BY <1>7
  <2>2. Ll!L!Ask("insert_by_index", <<i, x>>) /\ Ll!L!InsertByIndex(i, x)
    BY <1>1, <1>2, <1>3, <2>1, LlInsertByIndexRefines
  <2>3. QED
    BY <2>2 DEF Ll!L!Next
<1>8. CASE \E i \in Ll!Indices :
             \/ Ll!Ask("remove_by_index", <<i>>) /\ Ll!RemoveByIndex(i)
             \/ Ll!Ask("get", <<i>>) /\ Ll!Get(i)
  <2>1. PICK i \in Ll!Indices :
             \/ Ll!Ask("remove_by_index", <<i>>) /\ Ll!RemoveByIndex(i)
             \/ Ll!Ask("get", <<i>>) /\ Ll!Get(i)
    BY <1>8
  <2>2. \/ Ll!L!Ask("remove_by_index", <<i>>) /\ Ll!L!RemoveByIndex(i)
        \/ Ll!L!Ask("get", <<i>>) /\ Ll!L!Get(i)
    BY <1>1, <1>2, <1>3, <2>1, LlRemoveByIndexRefines, LlGetRefines
  <2>3. QED
    BY <2>2 DEF Ll!L!Next
<1>9. CASE \/ Ll!Ask("get_head", << >>) /\ Ll!GetHead
           \/ Ll!Ask("get_tail", << >>) /\ Ll!GetTail
           \/ Ll!Ask("export", << >>) /\ Ll!Export
           \/ Ll!Ask("destroy", << >>) /\ Ll!Destroy
  <2>1. \/ Ll!L!Ask("get_head", << >>) /\ Ll!L!GetHead
        \/ Ll!L!Ask("get_tail", << >>) /\ Ll!L!GetTail
        \/ Ll!L!Ask("export", << >>) /\ Ll!L!Export
        \/ Ll!L!Ask("destroy", << >>) /\ Ll!L!Clear
    BY <1>1, <1>2, <1>3, <1>9, LlEndsRefine, LlExportRefines, LlDestroyRefines
  <2>2. QED
    BY <2>1 DEF Ll!L!Next
<1>10. QED
  BY <1>4, <1>5, <1>6, <1>7, <1>8, <1>9 DEF Ll!Next

-----------------------------------------------------------------------------
(* priority-queue, as a heap: between two calls no entry precedes its      *)
(* parent; while an entry moves, only its own place is out of order.       *)

LEMMA HpParentBelow ==
  ASSUME NEW i \in Nat, i # 0
  PROVE  /\ Heap!Parent(i) \in Nat /\ Heap!Parent(i) < i
         /\ i = Heap!Left(Heap!Parent(i)) \/ i = Heap!Right(Heap!Parent(i))
  BY DEF Heap!Parent, Heap!Left, Heap!Right

LEMMA HpChildrenOf ==
  ASSUME NEW i \in Nat, NEW j \in Nat
  PROVE  i # 0 /\ Heap!Parent(i) = j <=> i = Heap!Left(j) \/ i = Heap!Right(j)
  BY DEF Heap!Parent, Heap!Left, Heap!Right

HpKey(i) == Worth(heapPriority[i])

HpOrdered(i) == HpKey(Heap!Parent(i)) <= HpKey(i)

HpInner == 1 .. (heapCount - 1)

HpBridged(c) == \A i \in HpInner : Heap!Parent(i) = c /\ c # 0 => HpKey(Heap!Parent(c)) <= HpKey(i)

HpTyped ==
  /\ heapCount \in 0 .. MaxElem /\ heapCur \in 0 .. MaxElem
  /\ heapPc \in {"idle", "up", "down"}
  /\ heapPriority \in [Heap!Places -> HeapPriorities \cup {0}]
  /\ heapQueue \in [0 .. MaxElem -> Elements \cup {None}]
  /\ \A i \in 0 .. (heapCount - 1) : heapPriority[i] \in HeapPriorities /\ heapQueue[i] \in Elements

HpRisesInOrder ==
  /\ heapCur < heapCount
  /\ \A i \in HpInner : i # heapCur => HpOrdered(i)
  /\ HpBridged(heapCur)

HpInv ==
  /\ HpTyped
  /\ heapPc = "idle" => \A i \in HpInner : HpOrdered(i)
  /\ heapPc = "up" => HpRisesInOrder
  /\ heapPc = "down" => /\ \A i \in HpInner : Heap!Parent(i) # heapCur => HpOrdered(i)
                        /\ HpBridged(heapCur)

LEMMA HpNodeIs ==
  ASSUME Heap!PriorityHeapAssumption, HpTyped, NEW k \in 0 .. (heapCount - 1)
  PROVE  k \in Heap!Places /\ k \in Nat /\ heapPriority[k] \in HeapPriorities /\ HpKey(k) \in Int
<1>1. heapPriority[k] \in HeapPriorities
  BY DEF HpTyped
<1>2. Worth(heapPriority[k]) \in Int
  BY <1>1 DEF Heap!PriorityHeapAssumption
<1>3. QED
  BY <1>1, <1>2 DEF HpKey, HpTyped, Heap!Places, Heap!PriorityHeapAssumption

LEMMA HpInnerIs ==
  ASSUME Heap!PriorityHeapAssumption, HpTyped, NEW k \in HpInner
  PROVE  /\ k \in Nat /\ k # 0 /\ k < heapCount /\ k \in 0 .. (heapCount - 1)
         /\ Heap!Parent(k) \in Nat /\ Heap!Parent(k) < k /\ Heap!Parent(k) \in 0 .. (heapCount - 1)
         /\ k = Heap!Left(Heap!Parent(k)) \/ k = Heap!Right(Heap!Parent(k))
         /\ HpKey(k) \in Int /\ HpKey(Heap!Parent(k)) \in Int
<1>1. k \in Nat /\ k # 0 /\ k < heapCount /\ k \in 0 .. (heapCount - 1) /\ heapCount \in Nat
  BY DEF HpTyped, HpInner, Heap!PriorityHeapAssumption
<1>2. PICK p : p = Heap!Parent(k)
  OBVIOUS
<1>3. p \in Nat /\ p < k /\ (k = Heap!Left(p) \/ k = Heap!Right(p))
  BY <1>1, <1>2, HpParentBelow
<1>4. p \in 0 .. (heapCount - 1)
  BY <1>1, <1>3
<1>5. HpKey(k) \in Int /\ HpKey(p) \in Int
  BY <1>1, <1>4, HpNodeIs
<1>6. QED
  BY <1>1, <1>2, <1>3, <1>4, <1>5

(* What compare says of two nodes.                                         *)
LEMMA HpCompareIs ==
  ASSUME Heap!PriorityHeapAssumption, HpTyped,
         NEW a \in 0 .. (heapCount - 1), NEW b \in 0 .. (heapCount - 1)
  PROVE  /\ Compare(heapPriority[a], heapPriority[b]) => HpKey(b) <= HpKey(a)
         /\ ~Compare(heapPriority[a], heapPriority[b]) => HpKey(a) <= HpKey(b)
<1>1. heapPriority[a] \in HeapPriorities /\ heapPriority[b] \in HeapPriorities
  BY DEF HpTyped
<1>2. PICK p \in HeapPriorities : p = heapPriority[a]
  BY <1>1
<1>3. PICK q \in HeapPriorities : q = heapPriority[b]
  BY <1>1
<1>4. /\ Compare(p, q) => Worth(q) <= Worth(p)
      /\ Worth(q) < Worth(p) => Compare(p, q)
      /\ Worth(p) \in Int /\ Worth(q) \in Int
  BY DEF Heap!PriorityHeapAssumption
<1>5. QED
  BY <1>2, <1>3, <1>4 DEF HpKey

LEMMA HpSwapIs ==
  ASSUME Heap!PriorityHeapAssumption, HpTyped,
         NEW a \in 0 .. (heapCount - 1), NEW b \in 0 .. (heapCount - 1),
         Heap!Swap(heapPriority, heapQueue, a, b)
  PROVE  /\ heapPriority'[a] = heapPriority[b] /\ heapPriority'[b] = heapPriority[a]
         /\ heapQueue'[a] = heapQueue[b] /\ heapQueue'[b] = heapQueue[a]
         /\ \A k \in Heap!Places : k # a /\ k # b =>
              heapPriority'[k] = heapPriority[k] /\ heapQueue'[k] = heapQueue[k]
         /\ heapPriority' \in [Heap!Places -> HeapPriorities \cup {0}]
         /\ heapQueue' \in [0 .. MaxElem -> Elements \cup {None}]
         /\ HpKey(a)' = HpKey(b) /\ HpKey(b)' = HpKey(a)
         /\ \A k \in Heap!Places : k # a /\ k # b => HpKey(k)' = HpKey(k)
<1>1. /\ MaxElem \in Nat /\ a \in Heap!Places /\ b \in Heap!Places
      /\ a \in 0 .. MaxElem /\ b \in 0 .. MaxElem /\ MaxElem \in 0 .. MaxElem
      /\ a # MaxElem /\ b # MaxElem
      /\ \A k \in Heap!Places : k \in 0 .. MaxElem /\ k # MaxElem
  BY DEF HpTyped, Heap!Places, Heap!PriorityHeapAssumption
<1>2. /\ heapPriority \in [Heap!Places -> HeapPriorities \cup {0}]
      /\ heapQueue \in [0 .. MaxElem -> Elements \cup {None}]
  BY DEF HpTyped
<1>3. heapPriority' = [heapPriority EXCEPT ![a] = heapPriority[b], ![b] = heapPriority[a]]
  BY DEF Heap!Swap
<1>4. heapQueue' = [heapQueue EXCEPT ![MaxElem] = heapQueue[a], ![a] = heapQueue[b], ![b] = heapQueue[a]]
  BY DEF Heap!Swap
<1>5. /\ heapPriority'[a] = heapPriority[b] /\ heapPriority'[b] = heapPriority[a]
      /\ \A k \in Heap!Places : k # a /\ k # b => heapPriority'[k] = heapPriority[k]
      /\ heapPriority' \in [Heap!Places -> HeapPriorities \cup {0}]
  BY <1>1, <1>2, <1>3
<1>6. /\ heapQueue'[a] = heapQueue[b] /\ heapQueue'[b] = heapQueue[a]
      /\ \A k \in Heap!Places : k # a /\ k # b => heapQueue'[k] = heapQueue[k]
      /\ heapQueue' \in [0 .. MaxElem -> Elements \cup {None}]
  BY <1>1, <1>2, <1>4
<1>7. /\ HpKey(a)' = HpKey(b) /\ HpKey(b)' = HpKey(a)
      /\ \A k \in Heap!Places : k # a /\ k # b => HpKey(k)' = HpKey(k)
  BY <1>5 DEF HpKey
<1>8. QED
  BY <1>5, <1>6, <1>7

(* A swap of two nodes leaves the types as they are.                       *)
LEMMA HpSwapTyped ==
  ASSUME Heap!PriorityHeapAssumption, HpTyped,
         NEW a \in 0 .. (heapCount - 1), NEW b \in 0 .. (heapCount - 1),
         Heap!Swap(heapPriority, heapQueue, a, b),
         heapCount' \in 0 .. heapCount, heapCur' \in 0 .. MaxElem,
         heapPc' \in {"idle", "up", "down"}
  PROVE  HpTyped'
<1>1. /\ heapPriority'[a] = heapPriority[b] /\ heapPriority'[b] = heapPriority[a]
      /\ heapQueue'[a] = heapQueue[b] /\ heapQueue'[b] = heapQueue[a]
      /\ \A k \in Heap!Places : k # a /\ k # b =>
           heapPriority'[k] = heapPriority[k] /\ heapQueue'[k] = heapQueue[k]
      /\ heapPriority' \in [Heap!Places -> HeapPriorities \cup {0}]
      /\ heapQueue' \in [0 .. MaxElem -> Elements \cup {None}]
  BY HpSwapIs
<1>2. /\ heapCount' \in 0 .. MaxElem /\ heapCount \in Nat /\ MaxElem \in Nat
      /\ heapCount' \in Nat /\ heapCount' <= heapCount
  <2>1. heapCount \in Nat /\ MaxElem \in Nat /\ heapCount <= MaxElem
    BY DEF HpTyped, Heap!PriorityHeapAssumption
  <2>2. QED
    BY <2>1
<1>3. PICK m : m = heapCount'
  OBVIOUS
<1>4. ASSUME NEW i \in 0 .. (m - 1)
      PROVE  heapPriority'[i] \in HeapPriorities /\ heapQueue'[i] \in Elements
  <2>1. i \in 0 .. (heapCount - 1)
    <3>1. m \in Nat /\ m <= heapCount /\ heapCount \in Nat
      BY <1>2, <1>3
    <3>2. i \in Int /\ 0 <= i /\ i <= m - 1
      BY <3>1
    <3>3. QED
      BY <3>1, <3>2
  <2>2. i \in Heap!Places
    BY <2>1, HpNodeIs
  <2>3. \A j \in 0 .. (heapCount - 1) : heapPriority[j] \in HeapPriorities /\ heapQueue[j] \in Elements
    BY DEF HpTyped
  <2>4. QED
    BY <1>1, <2>1, <2>2, <2>3
<1>5. QED
  BY <1>1, <1>2, <1>4, <1>3 DEF HpTyped

LEMMA HpInitInv == ASSUME Heap!PriorityHeapAssumption, Heap!Init PROVE HpInv
<1>1. HpTyped
  BY DEF Heap!Init, HpTyped, Heap!Places, Heap!PriorityHeapAssumption
<1>2. heapCount = 0 /\ heapPc = "idle" /\ 1 .. (0 - 1) = {}
  BY DEF Heap!Init
<1>3. QED
  BY <1>1, <1>2 DEF HpInv, HpInner

LEMMA HpSameInv ==
  ASSUME HpInv, UNCHANGED <<heapPriority, heapQueue, heapCount, heapPc, heapCur>>
  PROVE  HpInv'
<1>1. HpTyped'
  BY DEF HpInv, HpTyped
<1>2. HpInner' = HpInner /\ heapPc' = heapPc /\ heapCur' = heapCur /\ heapCount' = heapCount
  BY DEF HpInner
<1>3. \A i : HpOrdered(i)' <=> HpOrdered(i)
  BY DEF HpOrdered, HpKey
<1>4. HpBridged(heapCur)' <=> HpBridged(heapCur)
  BY <1>2 DEF HpBridged, HpInner, HpKey
<1>5. QED
  BY <1>1, <1>2, <1>3, <1>4 DEF HpInv, HpRisesInOrder

(* The new entry is the last node, which has no children.                  *)
LEMMA HpInsertInv ==
  ASSUME Heap!PriorityHeapAssumption, HpInv, NEW p \in HeapPriorities, NEW x \in Elements,
         Heap!Insert(p, x)
  PROVE  HpInv'
<1>1. CASE Heap!IsFull
  BY <1>1, HpSameInv DEF Heap!Insert
<1>2. CASE ~Heap!IsFull
  <2>1. /\ heapPriority' = [heapPriority EXCEPT ![heapCount] = p]
        /\ heapQueue' = [heapQueue EXCEPT ![heapCount] = x]
        /\ heapCur' = heapCount /\ heapCount' = heapCount + 1 /\ heapPc' = "up" /\ heapPc = "idle"
    BY <1>2 DEF Heap!Insert
  <2>2. /\ heapCount \in Heap!Places /\ heapCount \in Nat /\ heapCount + 1 \in 0 .. MaxElem
        /\ heapCount \in 0 .. MaxElem /\ MaxElem \in Nat
    BY <1>2 DEF Heap!IsFull, HpInv, HpTyped, Heap!Places, Heap!PriorityHeapAssumption
  <2>3. /\ heapPriority \in [Heap!Places -> HeapPriorities \cup {0}]
        /\ heapQueue \in [0 .. MaxElem -> Elements \cup {None}]
        /\ \A i \in 0 .. (heapCount - 1) : heapPriority[i] \in HeapPriorities /\ heapQueue[i] \in Elements
    BY DEF HpInv, HpTyped
  <2>4. \A i \in 0 .. (heapCount - 1) : i \in Heap!Places /\ i \in 0 .. MaxElem /\ i # heapCount
    BY <2>2 DEF Heap!Places
  <2>5. \A i \in 0 .. (heapCount - 1) : heapPriority'[i] = heapPriority[i] /\ heapQueue'[i] = heapQueue[i]
    BY <2>1, <2>3, <2>4
  <2>6. heapPriority'[heapCount] = p /\ heapQueue'[heapCount] = x
    BY <2>1, <2>2, <2>3
  <2>7. HpTyped'
    <3>1. \A i \in 0 .. (heapCount' - 1) : i \in 0 .. (heapCount - 1) \/ i = heapCount
      BY <2>1, <2>2
    <3>2. \A i \in 0 .. (heapCount' - 1) : heapPriority'[i] \in HeapPriorities /\ heapQueue'[i] \in Elements
      BY <2>3, <2>5, <2>6, <3>1
    <3>3. /\ heapPriority' \in [Heap!Places -> HeapPriorities \cup {0}]
          /\ heapQueue' \in [0 .. MaxElem -> Elements \cup {None}]
      BY <2>1, <2>3
    <3>4. QED
      BY <2>1, <2>2, <3>2, <3>3 DEF HpTyped
  <2>8. ASSUME NEW k \in HpInner', k # heapCount PROVE HpOrdered(k)'
    <3>1. k \in HpInner
      BY <2>1, <2>2, <2>8 DEF HpInner
    <3>2. k \in 0 .. (heapCount - 1) /\ Heap!Parent(k) \in 0 .. (heapCount - 1)
      BY <3>1, HpInnerIs DEF HpInv
    <3>3. HpOrdered(k)
      BY <2>1, <3>1 DEF HpInv
    <3>4. QED
      BY <2>5, <3>2, <3>3 DEF HpOrdered, HpKey
  <2>9. ASSUME NEW k \in HpInner' PROVE Heap!Parent(k) # heapCount
    <3>1. k \in Nat /\ k # 0 /\ k <= heapCount
      BY <2>1, <2>2 DEF HpInner
    <3>2. Heap!Parent(k) \in Nat /\ Heap!Parent(k) < k
      BY <3>1, HpParentBelow
    <3>3. QED
      BY <2>2, <3>1, <3>2
  <2>10. HpBridged(heapCur)'
    BY <2>1, <2>9 DEF HpBridged
  <2>11. QED
    BY <2>1, <2>2, <2>7, <2>8, <2>10 DEF HpInv, HpRisesInOrder
<1>3. QED
  BY <1>1, <1>2

(* The entry moves up: it precedes its new children, and so does the       *)
(* parent it passes.                                                       *)
LEMMA HpUpStep ==
  ASSUME Heap!PriorityHeapAssumption, HpInv, Heap!Up
  PROVE  HpInv'
<1>0. PICK m : m = heapCur
  OBVIOUS
<1>1. /\ HpTyped /\ heapPc = "up" /\ m < heapCount /\ HpBridged(m)
      /\ \A i \in HpInner : i # m => HpOrdered(i)
      /\ heapCount' = heapCount
  <2>1. heapPc = "up" /\ heapCount' = heapCount
    BY DEF Heap!Up
  <2>2. HpTyped /\ HpRisesInOrder
    BY <2>1 DEF HpInv
  <2>3. heapCur < heapCount /\ (\A i \in HpInner : i # heapCur => HpOrdered(i)) /\ HpBridged(heapCur)
    BY <2>2 DEF HpRisesInOrder
  <2>4. HpBridged(m)
    BY <1>0, <2>3 DEF HpBridged
  <2>5. QED
    BY <1>0, <2>1, <2>2, <2>3, <2>4
<1>2. m \in 0 .. (heapCount - 1) /\ m \in Nat /\ heapCount \in Nat
      /\ \A k \in 0 .. (heapCount - 1) : k \in Heap!Places /\ HpKey(k) \in Int
  <2>1. heapCount \in Nat /\ m \in Nat
    BY <1>0, <1>1 DEF HpTyped, Heap!PriorityHeapAssumption
  <2>2. QED
    BY <1>1, <2>1, HpNodeIs
<1>3. CASE m > 0 /\ Compare(heapPriority[Heap!Parent(m)], heapPriority[m])
  <2>1. PICK p : p = Heap!Parent(m)
    OBVIOUS
  <2>2. m \in HpInner
    BY <1>1, <1>2, <1>3 DEF HpInner
  <2>3. p \in 0 .. (heapCount - 1) /\ p < m /\ p \in Nat
    BY <1>1, <2>1, <2>2, HpInnerIs
  <2>4. Heap!Swap(heapPriority, heapQueue, p, m) /\ heapCur' = p /\ heapPc' = "up"
    BY <1>0, <1>1, <1>3, <2>1 DEF Heap!Up
  <2>5. /\ HpKey(p)' = HpKey(m) /\ HpKey(m)' = HpKey(p)
        /\ \A k \in Heap!Places : k # p /\ k # m => HpKey(k)' = HpKey(k)
    BY <1>1, <1>2, <2>3, <2>4, HpSwapIs
  <2>6. HpTyped'
    <3>1. heapCount' \in 0 .. heapCount /\ heapCur' \in 0 .. MaxElem /\ heapPc' \in {"idle", "up", "down"}
      <4>1. heapCount <= MaxElem /\ MaxElem \in Nat
        BY <1>1 DEF HpTyped, Heap!PriorityHeapAssumption
      <4>2. QED
        BY <1>1, <1>2, <2>3, <2>4, <4>1
    <3>2. QED
      BY <1>1, <1>2, <2>3, <2>4, <3>1, HpSwapTyped
  <2>7. HpKey(m) <= HpKey(p)
    BY <1>1, <1>2, <1>3, <2>1, <2>3, HpCompareIs
  <2>8. ASSUME NEW k \in HpInner, k # p PROVE HpKey(Heap!Parent(k))' <= HpKey(k)'
    <3>1. /\ k \in 0 .. (heapCount - 1) /\ Heap!Parent(k) \in 0 .. (heapCount - 1)
          /\ HpKey(k) \in Int /\ HpKey(Heap!Parent(k)) \in Int
      BY <1>1, HpInnerIs
    <3>2. k # m => HpKey(Heap!Parent(k)) <= HpKey(k)
      BY <1>1 DEF HpOrdered
    <3>3. Heap!Parent(k) = m => HpKey(p) <= HpKey(k)
      BY <1>1, <1>3, <2>1 DEF HpBridged
    <3>4. k # m => HpKey(k)' = HpKey(k)
      BY <1>2, <2>5, <2>8, <3>1
    <3>5. Heap!Parent(k) \notin {m, p} => HpKey(Heap!Parent(k))' = HpKey(Heap!Parent(k))
      BY <1>2, <2>5, <3>1
    <3>6. HpKey(p) \in Int /\ HpKey(m) \in Int
      BY <1>2, <2>3
    <3>7. PICK u : u = Heap!Parent(k)
      OBVIOUS
    <3>8. CASE k = m
      BY <2>1, <2>5, <2>7, <3>8
    <3>9. CASE k # m /\ u = m
      BY <2>5, <3>3, <3>4, <3>7, <3>9
    <3>10. CASE k # m /\ u = p
      <4>1. HpKey(p)' = HpKey(m) /\ HpKey(k)' = HpKey(k) /\ HpKey(p) <= HpKey(k)
        BY <2>5, <3>2, <3>4, <3>7, <3>10
      <4>2. HpKey(m) <= HpKey(k)
        BY <2>7, <3>1, <3>6, <4>1
      <4>3. QED
        BY <3>7, <3>10, <4>1, <4>2
    <3>11. CASE k # m /\ u \notin {m, p}
      BY <3>2, <3>4, <3>5, <3>7, <3>11
    <3>12. QED
      BY <3>8, <3>9, <3>10, <3>11
  <2>9. ASSUME NEW k \in HpInner, Heap!Parent(k) = p, p # 0
        PROVE  HpKey(Heap!Parent(p))' <= HpKey(k)'
    <3>1. p \in HpInner
      BY <1>2, <2>3, <2>9 DEF HpInner
    <3>2. PICK g : g = Heap!Parent(p)
      OBVIOUS
    <3>3. g < p /\ g \in 0 .. (heapCount - 1) /\ HpKey(g) \in Int /\ HpKey(p) \in Int
      BY <1>1, <3>1, <3>2, HpInnerIs
    <3>4. HpKey(g) <= HpKey(p)
      BY <1>1, <2>3, <3>1, <3>2 DEF HpOrdered
    <3>5. HpKey(g)' = HpKey(g)
      BY <1>2, <2>3, <2>5, <3>3
    <3>6. k \in 0 .. (heapCount - 1) /\ HpKey(k) \in Int /\ p < k
      BY <1>1, <2>9, HpInnerIs
    <3>7. CASE k = m
      BY <2>5, <3>2, <3>4, <3>5, <3>7
    <3>8. CASE k # m
      <4>1. HpKey(k)' = HpKey(k)
        BY <1>2, <2>3, <2>5, <3>6, <3>8
      <4>2. HpKey(p) <= HpKey(k)
        BY <1>1, <2>9, <3>8 DEF HpOrdered
      <4>3. HpKey(g) <= HpKey(k)
        BY <3>3, <3>4, <3>6, <4>2
      <4>4. QED
        BY <3>2, <3>5, <4>1, <4>3
    <3>9. QED
      BY <3>7, <3>8
  <2>10. HpInner' = HpInner
    BY <1>1 DEF HpInner
  <2>11. \A k \in HpInner' : k # heapCur' => HpOrdered(k)'
    BY <2>4, <2>8, <2>10 DEF HpOrdered
  <2>12. HpBridged(heapCur)'
    BY <2>4, <2>9, <2>10 DEF HpBridged
  <2>13. heapCur' < heapCount'
    BY <1>1, <1>2, <2>3, <2>4
  <2>14. QED
    BY <2>4, <2>6, <2>11, <2>12, <2>13 DEF HpInv, HpRisesInOrder
<1>4. CASE ~(m > 0 /\ Compare(heapPriority[Heap!Parent(m)], heapPriority[m]))
  <2>1. heapPc' = "idle" /\ UNCHANGED <<heapPriority, heapQueue, heapCur, heapCount>>
    BY <1>0, <1>1, <1>4 DEF Heap!Up
  <2>2. ASSUME NEW k \in HpInner PROVE HpOrdered(k)
    <3>1. CASE k = m
      <4>1. m > 0 /\ Heap!Parent(m) \in 0 .. (heapCount - 1)
        BY <1>1, <1>2, <3>1, HpInnerIs
      <4>2. ~Compare(heapPriority[Heap!Parent(m)], heapPriority[m])
        BY <1>4, <4>1
      <4>3. HpKey(Heap!Parent(m)) <= HpKey(m)
        BY <1>1, <1>2, <4>1, <4>2, HpCompareIs
      <4>4. QED
        BY <3>1, <4>3 DEF HpOrdered
    <3>2. CASE k # m
      BY <1>1, <3>2
    <3>3. QED
      BY <3>1, <3>2
  <2>3. HpTyped'
    BY <1>1, <2>1 DEF HpTyped
  <2>4. \A k \in HpInner' : HpOrdered(k)'
    BY <2>1, <2>2 DEF HpInner, HpOrdered, HpKey
  <2>5. QED
    BY <2>1, <2>3, <2>4 DEF HpInv, HpRisesInOrder
<1>5. QED
  BY <1>3, <1>4

(* The one that goes up precedes the node and both its children.           *)
LEMMA HpBestIs ==
  ASSUME Heap!PriorityHeapAssumption, HpTyped, NEW i \in 0 .. MaxElem, Heap!Best(i) # i
  PROVE  /\ i \in 0 .. (heapCount - 1)
         /\ Heap!Best(i) \in HpInner /\ Heap!Parent(Heap!Best(i)) = i
         /\ HpKey(Heap!Best(i)) <= HpKey(i)
         /\ \A k \in HpInner : Heap!Parent(k) = i => HpKey(Heap!Best(i)) <= HpKey(k)
<1>1. PICK l : l = Heap!Left(i)
  OBVIOUS
<1>2. PICK r : r = Heap!Right(i)
  OBVIOUS
<1>3. /\ heapCount \in Nat /\ i \in Nat /\ l \in Nat /\ r \in Nat
      /\ i < l /\ l < r
  BY <1>1, <1>2 DEF Heap!Left, Heap!Right, HpTyped, Heap!PriorityHeapAssumption
<1>4. PICK b : b = IF l < heapCount /\ Compare(heapPriority[i], heapPriority[l]) THEN l ELSE i
  OBVIOUS
<1>5. Heap!Best(i) = IF r < heapCount /\ Compare(heapPriority[b], heapPriority[r]) THEN r ELSE b
  BY <1>1, <1>2, <1>4 DEF Heap!Best
<1>6. l < heapCount
  BY <1>3, <1>4, <1>5
<1>7. /\ i \in 0 .. (heapCount - 1) /\ l \in 0 .. (heapCount - 1) /\ l \in HpInner
      /\ r < heapCount => r \in 0 .. (heapCount - 1) /\ r \in HpInner
  BY <1>3, <1>6 DEF HpInner
<1>8. Heap!Parent(l) = i /\ Heap!Parent(r) = i
  BY <1>1, <1>2, <1>3, HpChildrenOf
<1>9. b \in 0 .. (heapCount - 1)
  BY <1>4, <1>7
<1>10. /\ HpKey(i) \in Int /\ HpKey(l) \in Int
       /\ r < heapCount => HpKey(r) \in Int
  BY <1>7, HpNodeIs
<1>11. /\ Compare(heapPriority[i], heapPriority[l]) => HpKey(l) <= HpKey(i)
       /\ ~Compare(heapPriority[i], heapPriority[l]) => HpKey(i) <= HpKey(l)
  BY <1>7, HpCompareIs
<1>12. HpKey(b) <= HpKey(i) /\ HpKey(b) <= HpKey(l) /\ HpKey(b) \in Int
  <2>1. CASE b = l
    BY <1>3, <1>4, <1>10, <1>11, <2>1
  <2>2. CASE b # l
    <3>1. b = i /\ ~Compare(heapPriority[i], heapPriority[l])
      BY <1>4, <1>6, <2>2
    <3>2. QED
      BY <1>10, <1>11, <3>1
  <2>3. QED
    BY <2>1, <2>2
<1>13. r < heapCount =>
         /\ Compare(heapPriority[b], heapPriority[r]) => HpKey(r) <= HpKey(b)
         /\ ~Compare(heapPriority[b], heapPriority[r]) => HpKey(b) <= HpKey(r)
  BY <1>7, <1>9, HpCompareIs
<1>14. PICK c : c = Heap!Best(i)
  OBVIOUS
<1>15. /\ HpKey(c) <= HpKey(i) /\ HpKey(c) <= HpKey(l)
       /\ r < heapCount => HpKey(c) <= HpKey(r)
       /\ c = l \/ (c = r /\ r < heapCount)
  <2>1. CASE r < heapCount /\ Compare(heapPriority[b], heapPriority[r])
    <3>1. c = r /\ HpKey(r) <= HpKey(b) /\ HpKey(r) \in Int
      BY <1>5, <1>10, <1>13, <1>14, <2>1
    <3>2. QED
      BY <1>10, <1>12, <2>1, <3>1
  <2>2. CASE ~(r < heapCount /\ Compare(heapPriority[b], heapPriority[r]))
    <3>1. c = b
      BY <1>5, <1>14, <2>2
    <3>2. c = l
      BY <1>4, <1>14, <3>1
    <3>3. QED
      BY <1>12, <1>13, <2>2, <3>1, <3>2
  <2>3. QED
    BY <2>1, <2>2
<1>16. ASSUME NEW k \in HpInner, Heap!Parent(k) = i PROVE HpKey(c) <= HpKey(k)
  <2>1. k < heapCount /\ (k = l \/ k = r)
    BY <1>1, <1>2, <1>16, HpInnerIs
  <2>2. QED
    BY <1>15, <2>1
<1>17. QED
  BY <1>7, <1>8, <1>14, <1>15, <1>16

LEMMA HpBestStays ==
  ASSUME Heap!PriorityHeapAssumption, HpTyped, NEW i \in 0 .. MaxElem, Heap!Best(i) = i,
         NEW k \in HpInner, Heap!Parent(k) = i
  PROVE  HpKey(i) <= HpKey(k)
<1>1. PICK l : l = Heap!Left(i)
  OBVIOUS
<1>2. PICK r : r = Heap!Right(i)
  OBVIOUS
<1>3. /\ heapCount \in Nat /\ i \in Nat /\ l \in Nat /\ r \in Nat
      /\ i < l /\ l < r
  BY <1>1, <1>2 DEF Heap!Left, Heap!Right, HpTyped, Heap!PriorityHeapAssumption
<1>4. PICK b : b = IF l < heapCount /\ Compare(heapPriority[i], heapPriority[l]) THEN l ELSE i
  OBVIOUS
<1>5. Heap!Best(i) = IF r < heapCount /\ Compare(heapPriority[b], heapPriority[r]) THEN r ELSE b
  BY <1>1, <1>2, <1>4 DEF Heap!Best
<1>6. b = i /\ ~(r < heapCount /\ Compare(heapPriority[i], heapPriority[r]))
  BY <1>3, <1>4, <1>5
<1>7. ~(l < heapCount /\ Compare(heapPriority[i], heapPriority[l]))
  BY <1>3, <1>4, <1>6
<1>8. /\ k < heapCount /\ (k = l \/ k = r) /\ k \in 0 .. (heapCount - 1)
      /\ i \in 0 .. (heapCount - 1)
  BY <1>1, <1>2, HpInnerIs
<1>9. ~Compare(heapPriority[i], heapPriority[k])
  BY <1>6, <1>7, <1>8
<1>10. QED
  BY <1>8, <1>9, HpCompareIs

(* The entry moves down: the child that takes its place precedes the other *)
(* one, and the node above precedes both.                                  *)
LEMMA HpDownStep ==
  ASSUME Heap!PriorityHeapAssumption, HpInv, Heap!Down
  PROVE  HpInv'
<1>0. PICK m : m = heapCur
  OBVIOUS
<1>1. /\ HpTyped /\ heapPc = "down" /\ HpBridged(m) /\ m \in 0 .. MaxElem
      /\ \A i \in HpInner : Heap!Parent(i) # m => HpOrdered(i)
      /\ heapCount' = heapCount
  <2>1. heapPc = "down" /\ heapCount' = heapCount
    BY DEF Heap!Down
  <2>2. HpTyped /\ HpBridged(m) /\ \A i \in HpInner : Heap!Parent(i) # m => HpOrdered(i)
    BY <1>0, <2>1 DEF HpInv
  <2>3. m \in 0 .. MaxElem
    BY <1>0, <2>2 DEF HpTyped
  <2>4. QED
    BY <2>1, <2>2, <2>3
<1>2. heapCount \in Nat /\ \A k \in 0 .. (heapCount - 1) : k \in Heap!Places /\ HpKey(k) \in Int
  BY <1>1, HpNodeIs DEF HpTyped, Heap!PriorityHeapAssumption
<1>3. CASE Heap!Best(m) # m
  <2>1. PICK c : c = Heap!Best(m)
    OBVIOUS
  <2>2. /\ m \in 0 .. (heapCount - 1)
        /\ c \in HpInner /\ Heap!Parent(c) = m
        /\ HpKey(c) <= HpKey(m)
        /\ \A k \in HpInner : Heap!Parent(k) = m => HpKey(c) <= HpKey(k)
    BY <1>1, <1>3, <2>1, HpBestIs
  <2>3. c \in 0 .. (heapCount - 1) /\ m < c /\ c \in Nat
    BY <1>1, <2>2, HpInnerIs
  <2>4. Heap!Swap(heapPriority, heapQueue, m, c) /\ heapCur' = c /\ heapPc' = "down"
    BY <1>0, <1>1, <1>3, <2>1 DEF Heap!Down
  <2>5. /\ HpKey(m)' = HpKey(c) /\ HpKey(c)' = HpKey(m)
        /\ \A k \in Heap!Places : k # m /\ k # c => HpKey(k)' = HpKey(k)
    BY <1>1, <2>2, <2>3, <2>4, HpSwapIs
  <2>6. HpTyped'
    <3>1. heapCount' \in 0 .. heapCount /\ heapCur' \in 0 .. MaxElem /\ heapPc' \in {"idle", "up", "down"}
      <4>1. heapCount <= MaxElem /\ MaxElem \in Nat
        BY <1>1 DEF HpTyped, Heap!PriorityHeapAssumption
      <4>2. QED
        BY <1>1, <1>2, <2>3, <2>4, <4>1
    <3>2. QED
      BY <1>1, <2>2, <2>3, <2>4, <3>1, HpSwapTyped
  <2>7. ASSUME NEW k \in HpInner, Heap!Parent(k) # c PROVE HpKey(Heap!Parent(k))' <= HpKey(k)'
    <3>1. PICK u : u = Heap!Parent(k)
      OBVIOUS
    <3>2. /\ k \in 0 .. (heapCount - 1) /\ u \in 0 .. (heapCount - 1) /\ u < k
          /\ HpKey(k) \in Int /\ HpKey(u) \in Int
      BY <1>1, <3>1, HpInnerIs
    <3>3. u # m => HpKey(u) <= HpKey(k)
      BY <1>1, <3>1 DEF HpOrdered
    <3>4. k \notin {m, c} => HpKey(k)' = HpKey(k)
      BY <1>2, <2>5, <3>2
    <3>5. u # m => HpKey(u)' = HpKey(u)
      BY <1>2, <2>5, <2>7, <3>1, <3>2
    <3>6. CASE k = c
      BY <2>2, <2>5, <3>1, <3>6
    <3>7. CASE k = m
      <4>1. Heap!Parent(c) = m /\ m # 0
        BY <2>2, <3>2, <3>7
      <4>2. HpKey(u) <= HpKey(c)
        BY <1>1, <2>2, <3>1, <3>7, <4>1 DEF HpBridged
      <4>3. u # m
        BY <3>2, <3>7
      <4>4. QED
        BY <2>5, <3>1, <3>5, <3>7, <4>2, <4>3
    <3>8. CASE k \notin {m, c} /\ u = m
      BY <2>2, <2>5, <3>1, <3>4, <3>8
    <3>9. CASE k \notin {m, c} /\ u # m
      BY <3>1, <3>3, <3>4, <3>5, <3>9
    <3>10. QED
      BY <3>6, <3>7, <3>8, <3>9
  <2>8. ASSUME NEW k \in HpInner, Heap!Parent(k) = c PROVE HpKey(Heap!Parent(c))' <= HpKey(k)'
    <3>1. /\ k \in 0 .. (heapCount - 1) /\ c < k /\ HpKey(k) \in Int
      BY <1>1, <2>8, HpInnerIs
    <3>2. HpKey(k)' = HpKey(k)
      BY <1>2, <2>3, <2>5, <3>1
    <3>3. HpKey(c) <= HpKey(k)
      BY <1>1, <2>3, <2>8 DEF HpOrdered
    <3>4. QED
      BY <2>2, <2>5, <3>2, <3>3
  <2>9. HpInner' = HpInner
    BY <1>1 DEF HpInner
  <2>10. \A k \in HpInner' : Heap!Parent(k) # heapCur' => HpOrdered(k)'
    BY <2>4, <2>7, <2>9 DEF HpOrdered
  <2>11. HpBridged(heapCur)'
    BY <2>4, <2>8, <2>9 DEF HpBridged
  <2>12. QED
    BY <2>4, <2>6, <2>10, <2>11 DEF HpInv
<1>4. CASE Heap!Best(m) = m
  <2>1. heapPc' = "idle" /\ UNCHANGED <<heapPriority, heapQueue, heapCur, heapCount>>
    BY <1>0, <1>1, <1>4 DEF Heap!Down
  <2>2. ASSUME NEW k \in HpInner PROVE HpOrdered(k)
    <3>1. CASE Heap!Parent(k) = m
      BY <1>1, <1>4, <3>1, HpBestStays DEF HpOrdered
    <3>2. CASE Heap!Parent(k) # m
      BY <1>1, <3>2
    <3>3. QED
      BY <3>1, <3>2
  <2>3. HpTyped'
    BY <1>1, <2>1 DEF HpTyped
  <2>4. \A k \in HpInner' : HpOrdered(k)'
    BY <2>1, <2>2 DEF HpInner, HpOrdered, HpKey
  <2>5. QED
    BY <2>1, <2>3, <2>4 DEF HpInv
<1>5. QED
  BY <1>3, <1>4

(* The last entry goes to the top, and everything but its children keeps   *)
(* its parent.                                                             *)
LEMMA HpPopInv ==
  ASSUME Heap!PriorityHeapAssumption, HpInv, Heap!Pop
  PROVE  HpInv'
<1>1. CASE heapCount = 0
  BY <1>1, HpSameInv DEF Heap!Pop
<1>2. CASE heapCount # 0
  <2>1. PICK n : n = heapCount - 1
    OBVIOUS
  <2>2. /\ HpTyped /\ heapPc = "idle" /\ heapCount \in Nat /\ n \in Nat /\ heapCount = n + 1
        /\ n \in 0 .. (heapCount - 1) /\ 0 \in 0 .. (heapCount - 1) /\ 0 \in 0 .. MaxElem
        /\ \A i \in HpInner : HpOrdered(i)
    BY <1>2, <2>1 DEF HpInv, HpTyped, Heap!Pop, Heap!PriorityHeapAssumption
  <2>3. Heap!Swap(heapPriority, heapQueue, 0, n) /\ heapCount' = n /\ heapCur' = 0 /\ heapPc' = "down"
    BY <1>2, <2>1 DEF Heap!Pop
  <2>4. \A k \in Heap!Places : k # 0 /\ k # n => HpKey(k)' = HpKey(k)
    BY <2>2, <2>3, HpSwapIs
  <2>5. HpTyped'
    <3>1. heapCount' \in 0 .. heapCount /\ heapCur' \in 0 .. MaxElem /\ heapPc' \in {"idle", "up", "down"}
      BY <2>2, <2>3
    <3>2. QED
      BY <2>2, <2>3, <3>1, HpSwapTyped
  <2>6. ASSUME NEW k \in HpInner', Heap!Parent(k) # 0 PROVE HpOrdered(k)'
    <3>1. k \in HpInner /\ k < n
      BY <2>2, <2>3 DEF HpInner
    <3>2. PICK u : u = Heap!Parent(k)
      OBVIOUS
    <3>3. /\ k \in 0 .. (heapCount - 1) /\ u \in 0 .. (heapCount - 1) /\ u < k /\ k # 0
      BY <2>2, <3>1, <3>2, HpInnerIs
    <3>4. k \in Heap!Places /\ u \in Heap!Places
      BY <2>2, <3>3, HpNodeIs
    <3>5. HpKey(k)' = HpKey(k) /\ HpKey(u)' = HpKey(u)
      BY <2>2, <2>4, <2>6, <3>1, <3>2, <3>3, <3>4
    <3>6. HpKey(u) <= HpKey(k)
      BY <2>2, <3>1, <3>2 DEF HpOrdered
    <3>7. QED
      BY <3>2, <3>5, <3>6 DEF HpOrdered
  <2>7. HpBridged(heapCur)'
    BY <2>3 DEF HpBridged
  <2>8. QED
    BY <2>3, <2>5, <2>6, <2>7 DEF HpInv
<1>3. QED
  BY <1>1, <1>2

LEMMA HpInvStep ==
  ASSUME Heap!PriorityHeapAssumption, HpInv, [Heap!Next]_(Heap!vars)
  PROVE  HpInv'
<1>1. CASE Heap!Top \/ UNCHANGED Heap!vars
  BY <1>1, HpSameInv DEF Heap!Top, Heap!vars
<1>2. QED
  BY <1>1, HpInsertInv, HpUpStep, HpDownStep, HpPopInv DEF Heap!Next

LEMMA HpInvMeans == ASSUME HpInv PROVE Heap!TypeOK
  BY DEF HpInv, HpTyped, Heap!TypeOK
-----------------------------------------------------------------------------
(* No entry precedes the one at the top: the nearest to it that did would  *)
(* precede its parent.                                                     *)
LEMMA HpTopFirst ==
  ASSUME Heap!PriorityHeapAssumption, HpInv, heapPc = "idle", NEW i \in 0 .. (heapCount - 1)
  PROVE  HpKey(0) <= HpKey(i)
<1>1. HpTyped /\ heapCount \in Nat /\ \A k \in HpInner : HpOrdered(k)
  BY DEF HpInv, HpTyped
<1>2. 0 \in 0 .. (heapCount - 1)
  BY <1>1
<1>3. \A k \in 0 .. (heapCount - 1) : HpKey(k) \in Int
  BY <1>1, HpNodeIs
<1>4. PICK S : S = { k \in 0 .. (heapCount - 1) : HpKey(k) < HpKey(0) }
  OBVIOUS
<1>5. CASE S # {}
  <2>1. PICK k \in S : \A m \in S : k <= m
    BY <1>4, <1>5, S \subseteq Nat, LeastOf
  <2>2. k \in 0 .. (heapCount - 1) /\ HpKey(k) < HpKey(0)
    BY <1>4, <2>1
  <2>3. k \in HpInner
    <3>1. k # 0
      BY <1>2, <1>3, <2>2
    <3>2. QED
      BY <1>1, <2>2, <3>1 DEF HpInner
  <2>4. PICK p : p = Heap!Parent(k)
    OBVIOUS
  <2>5. p \in 0 .. (heapCount - 1) /\ p < k /\ HpKey(p) <= HpKey(k)
    BY <1>1, <2>3, <2>4, HpInnerIs DEF HpOrdered
  <2>6. p \in S
    BY <1>2, <1>3, <1>4, <2>2, <2>5
  <2>7. QED
    BY <1>1, <2>1, <2>2, <2>5, <2>6
<1>6. CASE S = {}
  BY <1>2, <1>3, <1>4, <1>6
<1>7. QED
  BY <1>5, <1>6

(* How often an entry is in the first n places of an array.                *)
HpCopies(d, n, e) == { i \in 0 .. (n - 1) : d[i] = e }
HpCount(d, n, e) == Cardinality(HpCopies(d, n, e))

LEMMA HpCopiesFinite ==
  ASSUME NEW d, NEW n \in Nat, NEW e
  PROVE  /\ IsFiniteSet(HpCopies(d, n, e)) /\ HpCount(d, n, e) \in Nat
         /\ HpCount(d, n, e) > 0 <=> \E i \in 0 .. (n - 1) : d[i] = e
<1>1. PICK z \in Int : z = 0
  OBVIOUS
<1>2. IsFiniteSet(z .. (n - 1))
  BY <1>1, FS_Interval
<1>3. HpCopies(d, n, e) \subseteq z .. (n - 1)
  BY <1>1 DEF HpCopies
<1>4. IsFiniteSet(HpCopies(d, n, e))
  BY <1>2, <1>3, FS_Subset
<1>5. HpCount(d, n, e) \in Nat /\ (HpCount(d, n, e) = 0 <=> HpCopies(d, n, e) = {})
  BY <1>4, FS_CardinalityType, FS_EmptySet DEF HpCount
<1>6. QED
  BY <1>4, <1>5 DEF HpCopies

LEMMA HpCountGrows ==
  ASSUME NEW d, NEW n \in Nat, NEW f, \A i \in 0 .. (n - 1) : f[i] = d[i],
         NEW e
  PROVE  HpCount(f, n + 1, e) = IF e = f[n] THEN HpCount(d, n, e) + 1
                                ELSE HpCount(d, n, e)
<1>1. HpCopies(f, n + 1, e) = IF e = f[n] THEN HpCopies(d, n, e) \cup {n}
                            ELSE HpCopies(d, n, e)
  <2>1. 0 .. (n + 1 - 1) = (0 .. (n - 1)) \cup {n}
    OBVIOUS
  <2>2. QED
    BY <2>1 DEF HpCopies
<1>2. n \notin HpCopies(d, n, e)
  BY DEF HpCopies
<1>3. IsFiniteSet(HpCopies(d, n, e))
  BY HpCopiesFinite
<1>4. Cardinality(HpCopies(d, n, e) \cup {n}) = Cardinality(HpCopies(d, n, e)) + 1
  BY <1>2, <1>3, FS_AddElement
<1>5. QED
  BY <1>1, <1>4 DEF HpCount

(* Exchanging two entries changes no count.                                *)
LEMMA HpCountSwapped ==
  ASSUME NEW d, NEW n \in Nat, NEW f, NEW i \in 0 .. (n - 1),
         NEW j \in 0 .. (n - 1), f[i] = d[j], f[j] = d[i],
         \A k \in 0 .. (n - 1) : k # i /\ k # j => f[k] = d[k],
         NEW e
  PROVE  HpCount(f, n, e) = HpCount(d, n, e)
<1>1. PICK P : P = HpCopies(d, n, e)
  OBVIOUS
<1>2. IsFiniteSet(P) /\ Cardinality(P) \in Nat
  BY <1>1, HpCopiesFinite DEF HpCount
<1>3. CASE d[i] = e <=> d[j] = e
  <2>1. HpCopies(f, n, e) = P
    BY <1>1, <1>3 DEF HpCopies
  <2>2. QED
    BY <1>1, <2>1 DEF HpCount
<1>4. ASSUME NEW a \in {i, j}, NEW b \in {i, j}, a # b, a \in P, b \notin P
      PROVE  Cardinality((P \ {a}) \cup {b}) = Cardinality(P)
  <2>1. IsFiniteSet(P \ {a}) /\ Cardinality(P \ {a}) = Cardinality(P) - 1
    BY <1>2, <1>4, FS_RemoveElement
  <2>2. Cardinality((P \ {a}) \cup {b}) = Cardinality(P \ {a}) + 1
    BY <1>4, <2>1, FS_AddElement
  <2>3. QED
    BY <1>2, <2>1, <2>2
<1>5. CASE d[i] = e /\ d[j] # e
  <2>1. HpCopies(f, n, e) = (P \ {i}) \cup {j}
    BY <1>1, <1>5 DEF HpCopies
  <2>2. i # j /\ i \in P /\ j \notin P
    BY <1>1, <1>5 DEF HpCopies
  <2>3. QED
    BY <1>1, <1>4, <2>1, <2>2 DEF HpCount
<1>6. CASE d[i] # e /\ d[j] = e
  <2>1. HpCopies(f, n, e) = (P \ {j}) \cup {i}
    BY <1>1, <1>6 DEF HpCopies
  <2>2. i # j /\ j \in P /\ i \notin P
    BY <1>1, <1>6 DEF HpCopies
  <2>3. QED
    BY <1>1, <1>4, <2>1, <2>2 DEF HpCount
<1>7. QED
  BY <1>3, <1>5, <1>6

(* The entries in the arrays, and how often each of them is there.         *)
HpHeld == [i \in Heap!Places |-> Heap!Entry(i)]

HpContents == [e \in Heap!Entries |-> HpCount(HpHeld, heapCount, e)]

HpBag ==
  [e \in Heap!Entries |->
     Heap!Cardinality({ i \in 0 .. (heapCount - 1) : Heap!Entry(i) = e })]

LEMMA HpCard == ASSUME NEW S PROVE Heap!Cardinality(S) = Cardinality(S)
  BY DEF Heap!Cardinality, Cardinality

LEMMA HpBagIs == ASSUME Heap!PriorityHeapAssumption, HpTyped PROVE HpBag = HpContents
<1>1. \A i \in 0 .. (heapCount - 1) : i \in Heap!Places
  BY HpNodeIs
<1>2. \A e : { i \in 0 .. (heapCount - 1) : Heap!Entry(i) = e } = HpCopies(HpHeld, heapCount, e)
  BY <1>1 DEF HpCopies, HpHeld
<1>3. \A e : Heap!Cardinality(HpCopies(HpHeld, heapCount, e)) = HpCount(HpHeld, heapCount, e)
  BY HpCard DEF HpCount
<1>4. QED
  BY <1>2, <1>3 DEF HpBag, HpContents

LEMMA HpBagNextIs == ASSUME Heap!PriorityHeapAssumption, HpTyped' PROVE HpBag' = HpContents'
<1>1. PICK n : n = heapCount'
  OBVIOUS
<1>2. \A i \in 0 .. (n - 1) : i \in Heap!Places
  <2>1. n \in 0 .. MaxElem /\ MaxElem \in Nat
    BY <1>1 DEF HpTyped, Heap!PriorityHeapAssumption
  <2>2. QED
    BY <2>1 DEF Heap!Places
<1>3. \A e : { i \in 0 .. (n - 1) : Heap!Entry(i)' = e } = HpCopies(HpHeld', n, e)
  BY <1>2 DEF HpCopies, HpHeld
<1>4. \A e : Heap!Cardinality(HpCopies(HpHeld', n, e)) = HpCount(HpHeld', n, e)
  BY HpCard DEF HpCount
<1>5. QED
  BY <1>1, <1>3, <1>4 DEF HpBag, HpContents

LEMMA HpEntryIs ==
  ASSUME Heap!PriorityHeapAssumption, HpTyped, NEW i \in 0 .. (heapCount - 1)
  PROVE  /\ Heap!Entry(i) \in Heap!Entries
         /\ Heap!Entry(i).priority = heapPriority[i]
         /\ HpHeld[i] = Heap!Entry(i)
<1>1. i \in Heap!Places /\ heapPriority[i] \in HeapPriorities /\ heapQueue[i] \in Elements
  BY HpNodeIs DEF HpTyped
<1>2. QED
  BY <1>1 DEF Heap!Entry, Heap!Entries, HpHeld

LEMMA HpHeldSwap ==
  ASSUME Heap!PriorityHeapAssumption, HpTyped,
         NEW a \in 0 .. (heapCount - 1), NEW b \in 0 .. (heapCount - 1),
         Heap!Swap(heapPriority, heapQueue, a, b)
  PROVE  \A e : HpCount(HpHeld', heapCount, e) = HpCount(HpHeld, heapCount, e)
<1>1. /\ heapPriority'[a] = heapPriority[b] /\ heapPriority'[b] = heapPriority[a]
      /\ heapQueue'[a] = heapQueue[b] /\ heapQueue'[b] = heapQueue[a]
      /\ \A k \in Heap!Places : k # a /\ k # b =>
           heapPriority'[k] = heapPriority[k] /\ heapQueue'[k] = heapQueue[k]
  BY HpSwapIs
<1>2. heapCount \in Nat /\ \A k \in 0 .. (heapCount - 1) : k \in Heap!Places
  BY HpNodeIs DEF HpTyped
<1>3. PICK f : f = HpHeld'
  OBVIOUS
<1>4. \A k \in Heap!Places : f[k] = [priority |-> heapPriority'[k], element |-> heapQueue'[k]]
  BY <1>3 DEF HpHeld, Heap!Entry
<1>5. \A k \in Heap!Places : HpHeld[k] = [priority |-> heapPriority[k], element |-> heapQueue[k]]
  BY DEF HpHeld, Heap!Entry
<1>6. /\ f[a] = HpHeld[b] /\ f[b] = HpHeld[a]
      /\ \A k \in 0 .. (heapCount - 1) : k # a /\ k # b => f[k] = HpHeld[k]
  BY <1>1, <1>2, <1>4, <1>5
<1>7. PICK d : d = HpHeld
  OBVIOUS
<1>8. ASSUME NEW e PROVE HpCount(f, heapCount, e) = HpCount(d, heapCount, e)
  BY <1>2, <1>6, <1>7, HpCountSwapped
<1>9. QED
  BY <1>3, <1>7, <1>8
LEMMA HpInitRefines == ASSUME Heap!PriorityHeapAssumption, Heap!Init PROVE Heap!B!Init
<1>1. heapCount = 0 /\ heapAnswer = Heap!Code("OK") /\ HpTyped
  BY HpInitInv DEF Heap!Init, HpInv
<1>2. 0 .. (heapCount - 1) = {}
  BY <1>1
<1>3. \A e : HpCopies(HpHeld, heapCount, e) = {}
  BY <1>2 DEF HpCopies
<1>4. HpContents = [e \in Heap!Entries |-> 0]
  BY <1>3, FS_EmptySet DEF HpContents, HpCount
<1>5. HpBag = [e \in Heap!Entries |-> 0]
  BY <1>1, <1>4, HpBagIs
<1>6. QED
  BY <1>1, <1>5 DEF Heap!B!Init, Heap!B!Code, Heap!Code, HpBag

(* The contents in the words of PriorityBag.                               *)
LEMMA HpStoredIs ==
  ASSUME Heap!PriorityHeapAssumption, HpTyped
  PROVE  /\ Heap!B!Stored \subseteq Heap!Entries
         /\ \A e \in Heap!Entries : e \in Heap!B!Stored <=> \E i \in 0 .. (heapCount - 1) : Heap!Entry(i) = e
<1>1. PICK b : b = HpBag
  OBVIOUS
<1>2. Heap!B!Stored = { e \in Heap!Entries : b[e] > 0 }
  BY <1>1 DEF Heap!B!Stored, HpBag
<1>3. b = HpContents /\ heapCount \in Nat
  BY <1>1, HpBagIs DEF HpTyped
<1>4. ASSUME NEW e \in Heap!Entries
      PROVE  b[e] > 0 <=> \E i \in 0 .. (heapCount - 1) : Heap!Entry(i) = e
  <2>1. b[e] = HpCount(HpHeld, heapCount, e)
    BY <1>3 DEF HpContents
  <2>2. HpCount(HpHeld, heapCount, e) > 0 <=> \E i \in 0 .. (heapCount - 1) : HpHeld[i] = e
    BY <1>3, HpCopiesFinite
  <2>3. \A i \in 0 .. (heapCount - 1) : HpHeld[i] = Heap!Entry(i)
    BY HpEntryIs
  <2>4. QED
    BY <2>1, <2>2, <2>3
<1>5. QED
  BY <1>2, <1>4

LEMMA HpTopIsLeast ==
  ASSUME Heap!PriorityHeapAssumption, HpInv, heapPc = "idle", heapCount # 0
  PROVE  /\ Heap!Entry(0) \in Heap!Entries /\ Heap!Entry(0) \in Heap!B!Least
         /\ Heap!B!Stored # {}
<1>1. HpTyped /\ heapCount \in Nat /\ 0 \in 0 .. (heapCount - 1)
  BY DEF HpInv, HpTyped
<1>2. PICK e : e = Heap!Entry(0)
  OBVIOUS
<1>3. e \in Heap!Entries /\ e.priority = heapPriority[0]
  BY <1>1, <1>2, HpEntryIs
<1>4. PICK S : S = Heap!B!Stored
  OBVIOUS
<1>5. /\ S \subseteq Heap!Entries
      /\ \A y \in Heap!Entries : y \in S <=> \E i \in 0 .. (heapCount - 1) : Heap!Entry(i) = y
  BY <1>1, <1>4, HpStoredIs
<1>6. e \in S
  BY <1>1, <1>2, <1>3, <1>5
<1>7. PICK w : w = [x \in Heap!Entries |-> Worth(x.priority)]
  OBVIOUS
<1>8. Heap!B!Least = { x \in S : \A y \in S : w[x] <= w[y] }
  BY <1>4, <1>7 DEF Heap!B!Least
<1>9. ASSUME NEW y \in S PROVE w[e] <= w[y]
  <2>1. PICK i \in 0 .. (heapCount - 1) : Heap!Entry(i) = y
    BY <1>5
  <2>2. y \in Heap!Entries /\ y.priority = heapPriority[i]
    BY <1>1, <2>1, HpEntryIs
  <2>3. w[e] = HpKey(0) /\ w[y] = HpKey(i)
    BY <1>3, <1>7, <2>2 DEF HpKey
  <2>4. HpKey(0) <= HpKey(i)
    BY HpTopFirst
  <2>5. QED
    BY <2>3, <2>4
<1>10. e \in Heap!B!Least
  BY <1>6, <1>8, <1>9
<1>11. QED
  BY <1>2, <1>3, <1>4, <1>6, <1>10

LEMMA HpInsertRefines ==
  ASSUME Heap!PriorityHeapAssumption, HpInv, HpInv', NEW p \in HeapPriorities, NEW x \in Elements,
         Heap!Insert(p, x)
  PROVE  \E e \in Heap!Entries : Heap!B!Insert(e)
<1>1. PICK e \in Heap!Entries : e = [priority |-> p, element |-> x]
  BY DEF Heap!Entries
<1>2. PICK b : b = HpBag
  OBVIOUS
<1>3. PICK b2 : b2 = HpBag'
  OBVIOUS
<1>4. HpTyped /\ HpTyped' /\ heapCount \in Nat
  <2>1. HpTyped /\ HpTyped'
    BY DEF HpInv
  <2>2. heapCount \in Nat
    BY <2>1 DEF HpTyped
  <2>3. QED
    BY <2>1, <2>2
<1>5. b = HpContents /\ b2 = HpContents'
  BY <1>2, <1>3, <1>4, HpBagIs, HpBagNextIs
<1>6. Heap!B!Insert(e) <=>
        IF heapCount = MaxElem
        THEN heapAnswer' = Heap!Code("FULL") /\ b2 = b /\ heapCount' = heapCount
        ELSE b2 = [b EXCEPT ![e] = @ + 1] /\ heapCount' = heapCount + 1 /\ heapAnswer' = Heap!Code("OK")
  BY <1>2, <1>3 DEF Heap!B!Insert, Heap!B!Refuse, Heap!B!Code, Heap!Code, HpBag
<1>7. CASE Heap!IsFull
  <2>1. heapAnswer' = Heap!Code("FULL") /\ UNCHANGED <<heapPriority, heapQueue, heapCount>>
    BY <1>7 DEF Heap!Insert
  <2>2. b2 = b
    BY <1>5, <2>1 DEF HpContents, HpHeld, Heap!Entry
  <2>3. QED
    BY <1>6, <1>7, <2>1, <2>2 DEF Heap!IsFull
<1>8. CASE ~Heap!IsFull
  <2>1. /\ heapPriority' = [heapPriority EXCEPT ![heapCount] = p]
        /\ heapQueue' = [heapQueue EXCEPT ![heapCount] = x]
        /\ heapCount' = heapCount + 1 /\ heapAnswer' = Heap!Code("OK")
    BY <1>8 DEF Heap!Insert
  <2>2. PICK n \in Nat : n = heapCount
    BY <1>4
  <2>3. n \in Heap!Places /\ n \in 0 .. MaxElem /\ n # MaxElem
    BY <1>4, <1>8, <2>2 DEF Heap!IsFull, HpTyped, Heap!Places, Heap!PriorityHeapAssumption
  <2>4. PICK f : f = HpHeld'
    OBVIOUS
  <2>5. PICK d : d = HpHeld
    OBVIOUS
  <2>6. \A i \in Heap!Places : f[i] = [priority |-> heapPriority'[i], element |-> heapQueue'[i]]
    BY <2>4 DEF HpHeld, Heap!Entry
  <2>7. \A i \in Heap!Places : d[i] = [priority |-> heapPriority[i], element |-> heapQueue[i]]
    BY <2>5 DEF HpHeld, Heap!Entry
  <2>8. heapPriority'[n] = p /\ heapQueue'[n] = x
    BY <1>4, <2>1, <2>2, <2>3 DEF HpTyped
  <2>9. ASSUME NEW i \in 0 .. (n - 1) PROVE f[i] = d[i]
    <3>1. i \in Heap!Places /\ i # n /\ i \in 0 .. MaxElem
      <4>1. i \in Nat /\ i < n /\ n <= MaxElem - 1 /\ MaxElem \in Nat
        BY <2>3 DEF Heap!Places, Heap!PriorityHeapAssumption
      <4>2. QED
        BY <4>1 DEF Heap!Places
    <3>2. heapPriority'[i] = heapPriority[i] /\ heapQueue'[i] = heapQueue[i]
      BY <1>4, <2>1, <2>2, <3>1 DEF HpTyped
    <3>3. QED
      BY <2>6, <2>7, <3>1, <3>2
  <2>10. f[n] = e
    BY <1>1, <2>3, <2>6, <2>8
  <2>11. ASSUME NEW y
         PROVE  HpCount(f, n + 1, y) = IF y = f[n] THEN HpCount(d, n, y) + 1
                                       ELSE HpCount(d, n, y)
    BY <2>9, HpCountGrows
  <2>12. b = [y \in Heap!Entries |-> HpCount(d, n, y)]
    BY <1>5, <2>2, <2>5 DEF HpContents
  <2>13. b2 = [y \in Heap!Entries |-> HpCount(f, n + 1, y)]
    BY <1>5, <2>1, <2>2, <2>4 DEF HpContents
  <2>14. b2 = [b EXCEPT ![e] = @ + 1]
    BY <2>10, <2>11, <2>12, <2>13
  <2>15. QED
    BY <1>6, <1>8, <2>1, <2>14 DEF Heap!IsFull
<1>9. QED
  BY <1>7, <1>8

LEMMA HpPopRefines ==
  ASSUME Heap!PriorityHeapAssumption, HpInv, HpInv', Heap!Pop
  PROVE  Heap!B!Remove(0)
<1>1. PICK b : b = HpBag
  OBVIOUS
<1>2. PICK b2 : b2 = HpBag'
  OBVIOUS
<1>3. PICK least : least = Heap!B!Least
  OBVIOUS
<1>4. HpTyped /\ HpTyped' /\ heapCount \in Nat /\ heapPc = "idle"
  <2>1. HpTyped /\ HpTyped' /\ heapPc = "idle"
    BY DEF HpInv, Heap!Pop
  <2>2. heapCount \in Nat
    BY <2>1 DEF HpTyped
  <2>3. QED
    BY <2>1, <2>2
<1>5. b = HpContents /\ b2 = HpContents'
  BY <1>1, <1>2, <1>4, HpBagIs, HpBagNextIs
<1>6. Heap!B!Remove(0) <=>
        CASE heapCount = 0 -> heapAnswer' = Heap!Code("EMPTY") /\ b2 = b /\ heapCount' = heapCount
          [] heapCount # 0 /\ 0 >= heapCount ->
               heapAnswer' = Heap!Code("OUT_OF_BOUNDS") /\ b2 = b /\ heapCount' = heapCount
          [] OTHER ->
               \E e \in least :
                 /\ b2 = [b EXCEPT ![e] = @ - 1] /\ heapCount' = heapCount - 1
                 /\ heapAnswer' = <<"removed", 0, e>>
  BY <1>1, <1>2, <1>3 DEF Heap!B!Remove, Heap!B!Refuse, Heap!B!Code, Heap!Code, HpBag
<1>7. CASE heapCount = 0
  <2>1. heapAnswer' = Heap!Code("EMPTY") /\ UNCHANGED <<heapPriority, heapQueue, heapCount>>
    BY <1>7 DEF Heap!Pop
  <2>2. b2 = b
    BY <1>5, <2>1 DEF HpContents, HpHeld, Heap!Entry
  <2>3. QED
    BY <1>6, <1>7, <2>1, <2>2
<1>8. CASE heapCount # 0
  <2>1. PICK n \in Nat : heapCount = n + 1
    <3>1. heapCount - 1 \in Nat /\ heapCount = (heapCount - 1) + 1
      BY <1>4, <1>8
    <3>2. QED
      BY <3>1
  <2>2. PICK e : e = Heap!Entry(0)
    OBVIOUS
  <2>3. e \in Heap!Entries /\ e \in least
    BY <1>3, <1>4, <1>8, <2>2, HpTopIsLeast
  <2>4. n = heapCount - 1
    BY <2>1
  <2>5. /\ heapAnswer' = <<"removed", 0, e>> /\ Heap!Swap(heapPriority, heapQueue, 0, n) /\ heapCount' = n
    BY <1>8, <2>2, <2>4 DEF Heap!Pop
  <2>6. PICK f : f = HpHeld'
    OBVIOUS
  <2>7. PICK d : d = HpHeld
    OBVIOUS
  <2>8. 0 \in 0 .. (heapCount - 1) /\ n \in 0 .. (heapCount - 1)
    BY <2>1
  <2>9. \A y : HpCount(f, n + 1, y) = HpCount(d, n + 1, y)
    BY <1>4, <2>1, <2>5, <2>6, <2>7, <2>8, HpHeldSwap
  <2>10. f[n] = e
    <3>1. heapPriority'[n] = heapPriority[0] /\ heapQueue'[n] = heapQueue[0]
      BY <1>4, <2>5, <2>8, HpSwapIs
    <3>2. n \in Heap!Places
      BY <1>4, <2>8, HpNodeIs
    <3>3. f[n] = [priority |-> heapPriority'[n], element |-> heapQueue'[n]]
      BY <2>6, <3>2 DEF HpHeld, Heap!Entry
    <3>4. QED
      BY <2>2, <3>1, <3>3 DEF Heap!Entry
  <2>11. ASSUME NEW y
         PROVE  HpCount(f, n + 1, y) = IF y = f[n] THEN HpCount(f, n, y) + 1
                                       ELSE HpCount(f, n, y)
    BY HpCountGrows
  <2>12. \A y : HpCount(f, n, y) \in Nat
    BY HpCopiesFinite
  <2>13. b = [y \in Heap!Entries |-> HpCount(d, n + 1, y)]
    BY <1>5, <2>1, <2>7 DEF HpContents
  <2>14. b2 = [y \in Heap!Entries |-> HpCount(f, n, y)]
    BY <1>5, <2>5, <2>6 DEF HpContents
  <2>15. \A y : HpCount(f, n, y) = IF y = e THEN HpCount(d, n + 1, y) - 1
                                    ELSE HpCount(d, n + 1, y)
    BY <2>9, <2>10, <2>11, <2>12
  <2>16. b2 = [b EXCEPT ![e] = @ - 1]
    BY <2>13, <2>14, <2>15
  <2>17. /\ b2 = [b EXCEPT ![e] = @ - 1] /\ heapCount' = heapCount - 1
         /\ heapAnswer' = <<"removed", 0, e>>
    BY <2>4, <2>5, <2>16
  <2>18. heapCount # 0 /\ ~(0 >= heapCount)
    BY <1>4, <1>8
  <2>19. QED
    BY <1>6, <2>3, <2>17, <2>18
<1>9. QED
  BY <1>7, <1>8

LEMMA HpTopRefines ==
  ASSUME Heap!PriorityHeapAssumption, HpInv, HpInv', Heap!Top
  PROVE  Heap!B!Top
<1>1. PICK b : b = HpBag
  OBVIOUS
<1>2. PICK b2 : b2 = HpBag'
  OBVIOUS
<1>3. PICK least : least = Heap!B!Least
  OBVIOUS
<1>4. PICK S : S = Heap!B!Stored
  OBVIOUS
<1>5. HpTyped /\ HpTyped' /\ heapCount \in Nat /\ heapPc = "idle"
  <2>1. HpTyped /\ HpTyped' /\ heapPc = "idle"
    BY DEF HpInv, Heap!Top
  <2>2. heapCount \in Nat
    BY <2>1 DEF HpTyped
  <2>3. QED
    BY <2>1, <2>2
<1>6. b = HpContents /\ b2 = HpContents'
  BY <1>1, <1>2, <1>5, HpBagIs, HpBagNextIs
<1>7. /\ heapAnswer' = IF heapCount = 0 THEN Heap!Code("EMPTY") ELSE <<"top", Heap!Entry(0)>>
      /\ UNCHANGED <<heapPriority, heapQueue, heapCount>>
  BY DEF Heap!Top
<1>8. b2 = b /\ heapCount' = heapCount
  BY <1>6, <1>7 DEF HpContents, HpHeld, Heap!Entry
<1>9. Heap!B!Top <=>
        /\ IF S = {} THEN heapAnswer' = Heap!Code("EMPTY") ELSE \E e \in least : heapAnswer' = <<"top", e>>
        /\ b2 = b /\ heapCount' = heapCount
  BY <1>1, <1>2, <1>3, <1>4 DEF Heap!B!Top, Heap!B!Code, Heap!Code, HpBag
<1>10. CASE heapCount = 0
  <2>1. S = {}
    <3>1. /\ S \subseteq Heap!Entries
          /\ \A y \in Heap!Entries : y \in S <=> \E i \in 0 .. (heapCount - 1) : Heap!Entry(i) = y
      BY <1>4, <1>5, HpStoredIs
    <3>2. \A i \in 0 .. (heapCount - 1) : FALSE
      BY <1>10
    <3>3. QED
      BY <3>1, <3>2
  <2>2. QED
    BY <1>7, <1>8, <1>9, <1>10, <2>1
<1>11. CASE heapCount # 0
  <2>1. Heap!Entry(0) \in least /\ S # {}
    BY <1>3, <1>4, <1>5, <1>11, HpTopIsLeast
  <2>2. QED
    BY <1>7, <1>8, <1>9, <1>11, <2>1
<1>12. QED
  BY <1>10, <1>11

LEMMA HpMovesStutter ==
  ASSUME Heap!PriorityHeapAssumption, HpInv, HpInv', Heap!Up \/ Heap!Down \/ UNCHANGED Heap!vars
  PROVE  UNCHANGED Heap!B!bvars
<1>1. PICK b : b = HpBag
  OBVIOUS
<1>2. PICK b2 : b2 = HpBag'
  OBVIOUS
<1>3. HpTyped /\ HpTyped' /\ heapCount \in Nat /\ heapCur \in 0 .. MaxElem
  <2>1. HpTyped /\ HpTyped'
    BY DEF HpInv
  <2>2. heapCount \in Nat /\ heapCur \in 0 .. MaxElem
    BY <2>1 DEF HpTyped
  <2>3. QED
    BY <2>1, <2>2
<1>4. b = HpContents /\ b2 = HpContents'
  BY <1>1, <1>2, <1>3, HpBagIs, HpBagNextIs
<1>5. heapCount' = heapCount /\ heapAnswer' = heapAnswer
  BY DEF Heap!Up, Heap!Down, Heap!vars
<1>6. b2 = b
  <2>1. CASE UNCHANGED <<heapPriority, heapQueue>>
    BY <1>4, <1>5, <2>1 DEF HpContents, HpHeld, Heap!Entry
  <2>2. ASSUME NEW i \in 0 .. (heapCount - 1), NEW j \in 0 .. (heapCount - 1),
               Heap!Swap(heapPriority, heapQueue, i, j)
        PROVE  b2 = b
    <3>1. \A e : HpCount(HpHeld', heapCount, e) = HpCount(HpHeld, heapCount, e)
      BY <1>3, <2>2, HpHeldSwap
    <3>2. QED
      BY <1>4, <1>5, <3>1 DEF HpContents
  <2>3. CASE Heap!Up /\ ~UNCHANGED <<heapPriority, heapQueue>>
    <3>1. /\ heapCur > 0
          /\ heapCur < heapCount
          /\ Heap!Swap(heapPriority, heapQueue, Heap!Parent(heapCur), heapCur)
      BY <2>3 DEF Heap!Up, HpInv, HpRisesInOrder
    <3>2. heapCur \in HpInner
      BY <1>3, <3>1 DEF HpInner
    <3>3. heapCur \in 0 .. (heapCount - 1) /\ Heap!Parent(heapCur) \in 0 .. (heapCount - 1)
      BY <1>3, <3>2, HpInnerIs
    <3>4. QED
      BY <2>2, <3>1, <3>3
  <2>4. CASE Heap!Down /\ ~UNCHANGED <<heapPriority, heapQueue>>
    <3>1. Heap!Best(heapCur) # heapCur /\ Heap!Swap(heapPriority, heapQueue, heapCur, Heap!Best(heapCur))
      BY <2>4 DEF Heap!Down
    <3>2. heapCur \in 0 .. (heapCount - 1) /\ Heap!Best(heapCur) \in HpInner
      BY <1>3, <3>1, HpBestIs
    <3>3. Heap!Best(heapCur) \in 0 .. (heapCount - 1)
      BY <1>3, <3>2, HpInnerIs
    <3>4. QED
      BY <2>2, <3>1, <3>2, <3>3
  <2>5. QED
    BY <2>1, <2>3, <2>4 DEF Heap!vars
<1>7. QED
  BY <1>1, <1>2, <1>5, <1>6 DEF Heap!B!bvars, HpBag

LEMMA HpStepRefines ==
  ASSUME Heap!PriorityHeapAssumption, HpInv, [Heap!Next]_(Heap!vars)
  PROVE  [Heap!B!Next]_(Heap!B!bvars)
<1>1. HpInv'
  BY HpInvStep
<1>2. CASE Heap!Up \/ Heap!Down \/ UNCHANGED Heap!vars
  BY <1>1, <1>2, HpMovesStutter
<1>3. CASE \E p \in HeapPriorities, x \in Elements : Heap!Insert(p, x)
  <2>1. \E e \in Heap!Entries : Heap!B!Insert(e)
    BY <1>1, <1>3, HpInsertRefines
  <2>2. QED
    BY <2>1 DEF Heap!B!Next
<1>4. CASE Heap!Pop
  <2>1. Heap!B!Remove(0)
    BY <1>1, <1>4, HpPopRefines
  <2>2. 0 \in 0 .. MaxElem
    BY DEF Heap!PriorityHeapAssumption
  <2>3. QED
    BY <2>1, <2>2 DEF Heap!B!Next
<1>5. CASE Heap!Top
  <2>1. Heap!B!Top
    BY <1>1, <1>5, HpTopRefines
  <2>2. QED
    BY <2>1 DEF Heap!B!Next
<1>6. QED
  BY <1>2, <1>3, <1>4, <1>5 DEF Heap!Next

-----------------------------------------------------------------------------
(* cli-legacy: whatever an array keeps behind its terminator, the line in  *)
(* it ends two places before its end, and the cursor is on the line.       *)

ClWhole(text, n) ==
  /\ text \in [Cl!Places -> Cl!Stored]
  /\ n \in 0 .. (BufSize - 2) /\ text[n] = Cl!Nul
  /\ \A m \in 0 .. (n - 1) : text[m] # Cl!Nul

ClLined(buf) ==
  /\ buf \in Cl!Buffers
  /\ ClWhole(buf.text, Cl!Length(buf.text))
  /\ buf.index \in 0 .. Cl!Length(buf.text)

ClKept(buf) == ClLined(buf) /\ buf.index = Cl!Length(buf.text) /\ buf.mode # "received"

LEMMA ClLengthIs ==
  ASSUME Cl!CliAssumption, NEW text, NEW n, ClWhole(text, n)
  PROVE  Cl!Length(text) = n
<1>1. n \in Cl!Places /\ text[n] = Cl!Nul /\ \A m \in 0 .. (n - 1) : text[m] # Cl!Nul
  BY DEF ClWhole, Cl!Places, Cl!CliAssumption
<1>2. ASSUME NEW k \in Cl!Places, text[k] = Cl!Nul, \A m \in 0 .. (k - 1) : text[m] # Cl!Nul
      PROVE  k = n
  <2>1. k \in Nat /\ n \in Nat
    BY <1>1 DEF Cl!Places, Cl!CliAssumption
  <2>2. CASE k < n
    BY <1>1, <1>2, <2>1, <2>2
  <2>3. CASE n < k
    BY <1>1, <1>2, <2>1, <2>3
  <2>4. QED
    BY <2>1, <2>2, <2>3
<1>3. QED
  BY <1>1, <1>2 DEF Cl!Length

(* The first terminator behind a place is one.                             *)
LEMMA ClNextEnd ==
  ASSUME Cl!CliAssumption, NEW text \in [Cl!Places -> Cl!Stored],
         NEW i \in 0 .. (BufSize - 2), Cl!Closes(text, i)
  PROVE  \E e \in (i + 1) .. (BufSize - 1) :
           /\ text[e] = Cl!Nul /\ \A m \in (i + 1) .. (e - 1) : text[m] # Cl!Nul
           /\ Cl!CloseUp(text, i) =
                [j \in Cl!Places |-> IF j \in i .. (e - 1) THEN text[j + 1] ELSE text[j]]
<1>1. BufSize \in Nat /\ BufSize > 2
  BY DEF Cl!CliAssumption
<1>2. PICK S : S = {n \in (i + 1) .. (BufSize - 1) : text[n] = Cl!Nul}
  OBVIOUS
<1>3. S \in SUBSET Nat /\ S # {}
  BY <1>1, <1>2 DEF Cl!Closes
<1>4. PICK x \in S : \A y \in S : x <= y
  BY <1>3, LeastOf
<1>5. x \in (i + 1) .. (BufSize - 1) /\ text[x] = Cl!Nul
  BY <1>2
<1>6. \A m \in (i + 1) .. (x - 1) : text[m] # Cl!Nul
  <2>1. SUFFICES ASSUME NEW m \in (i + 1) .. (x - 1), text[m] = Cl!Nul PROVE FALSE
    OBVIOUS
  <2>2. m \in (i + 1) .. (BufSize - 1) /\ m < x /\ m \in Int /\ x \in Int
    BY <1>1, <1>5
  <2>3. m \in S
    BY <1>2, <2>1, <2>2
  <2>4. QED
    BY <1>4, <2>2, <2>3
<1>7. PICK e : e = CHOOSE n \in (i + 1) .. (BufSize - 1) :
                     text[n] = Cl!Nul /\ \A m \in (i + 1) .. (n - 1) : text[m] # Cl!Nul
  OBVIOUS
<1>8. /\ e \in (i + 1) .. (BufSize - 1) /\ text[e] = Cl!Nul
      /\ \A m \in (i + 1) .. (e - 1) : text[m] # Cl!Nul
  BY <1>5, <1>6, <1>7
<1>9. Cl!CloseUp(text, i) =
        [j \in Cl!Places |-> IF j \in i .. (e - 1) THEN text[j + 1] ELSE text[j]]
  BY <1>7 DEF Cl!CloseUp
<1>10. QED
  BY <1>8, <1>9

ClClosed(text, i, n, u, k) ==
  /\ ClWhole(u, k) /\ u[BufSize - 1] = text[BufSize - 1]
  /\ i < n => k = n - 1
  /\ i = n => n <= k
  /\ \A j \in 0 .. (i - 1) : u[j] = text[j]
  /\ i < n => \A j \in i .. (n - 2) : u[j] = text[j + 1]

(* A deletion at the end brings back what is behind it.                    *)
LEMMA ClCloseUpIs ==
  ASSUME Cl!CliAssumption, NEW text, NEW n, ClWhole(text, n), NEW i \in 0 .. n, Cl!Closes(text, i)
  PROVE  \E k : ClClosed(text, i, n, Cl!CloseUp(text, i), k)
<1>1. /\ text \in [Cl!Places -> Cl!Stored]
      /\ n \in 0 .. (BufSize - 2) /\ text[n] = Cl!Nul
      /\ \A m \in 0 .. (n - 1) : text[m] # Cl!Nul
      /\ BufSize \in Nat /\ BufSize > 2 /\ n \in Nat /\ i \in Nat
      /\ i \in 0 .. (BufSize - 2)
  BY DEF ClWhole, Cl!CliAssumption
<1>2. PICK u : u = Cl!CloseUp(text, i)
  OBVIOUS
<1>3. PICK e \in (i + 1) .. (BufSize - 1) :
        /\ text[e] = Cl!Nul /\ \A m \in (i + 1) .. (e - 1) : text[m] # Cl!Nul
        /\ u = [j \in Cl!Places |-> IF j \in i .. (e - 1) THEN text[j + 1] ELSE text[j]]
  BY <1>1, <1>2, ClNextEnd
<1>4. e \in Nat /\ i < e /\ e <= BufSize - 1
  BY <1>1
<1>5. \A j \in Cl!Places : /\ i <= j /\ j < e => u[j] = text[j + 1]
                           /\ j < i \/ e <= j => u[j] = text[j]
  <2>1. SUFFICES ASSUME NEW j \in Cl!Places
                 PROVE  /\ i <= j /\ j < e => u[j] = text[j + 1]
                        /\ j < i \/ e <= j => u[j] = text[j]
    OBVIOUS
  <2>2. j \in Nat /\ u[j] = IF j \in i .. (e - 1) THEN text[j + 1] ELSE text[j]
    BY <1>1, <1>3 DEF Cl!Places
  <2>3. QED
    BY <1>1, <1>4, <2>2
<1>6. u \in [Cl!Places -> Cl!Stored]
  <2>1. \A j \in Cl!Places : j \in i .. (e - 1) => j + 1 \in Cl!Places
    BY <1>1, <1>4 DEF Cl!Places
  <2>2. \A j \in Cl!Places : (IF j \in i .. (e - 1) THEN text[j + 1] ELSE text[j]) \in Cl!Stored
    BY <1>1, <2>1
  <2>3. QED
    BY <1>3, <2>2
<1>7. u[BufSize - 1] = text[BufSize - 1]
  BY <1>1, <1>4, <1>5 DEF Cl!Places
<1>8. CASE i < n
  <2>1. e = n
    <3>1. CASE e < n
      BY <1>1, <1>3, <1>4, <3>1
    <3>2. CASE n < e
      BY <1>1, <1>3, <1>4, <1>8, <3>2
    <3>3. QED
      BY <1>1, <1>4, <3>1, <3>2
  <2>2. PICK k : k = n - 1
    OBVIOUS
  <2>3. k \in 0 .. (BufSize - 2) /\ k \in Cl!Places /\ k + 1 = n
    BY <1>1, <1>8, <2>2 DEF Cl!Places
  <2>4. u[k] = Cl!Nul
    BY <1>1, <1>5, <1>8, <2>1, <2>2, <2>3
  <2>5. ASSUME NEW m \in 0 .. (k - 1) PROVE u[m] # Cl!Nul
    <3>1. m \in Cl!Places /\ m \in Nat /\ m + 1 < n /\ m < n
      BY <1>1, <2>2, <2>3 DEF Cl!Places
    <3>2. CASE m < i
      BY <1>1, <1>5, <3>1, <3>2
    <3>3. CASE i <= m
      <4>1. u[m] = text[m + 1] /\ m + 1 \in 0 .. (n - 1)
        BY <1>1, <1>5, <2>1, <3>1, <3>3
      <4>2. QED
        BY <1>1, <4>1
    <3>4. QED
      BY <1>1, <3>1, <3>2, <3>3
  <2>6. ClWhole(u, k)
    BY <1>6, <2>3, <2>4, <2>5 DEF ClWhole
  <2>7. \A j \in i .. (n - 2) : u[j] = text[j + 1]
    BY <1>1, <1>5, <1>8, <2>1 DEF Cl!Places
  <2>8. \A j \in 0 .. (i - 1) : u[j] = text[j]
    BY <1>1, <1>5 DEF Cl!Places
  <2>9. ClClosed(text, i, n, u, k)
    BY <1>1, <1>7, <1>8, <2>2, <2>6, <2>7, <2>8 DEF ClClosed
  <2>10. QED
    BY <1>2, <2>9
<1>9. CASE i = n
  <2>1. PICK k : k = e - 1
    OBVIOUS
  <2>2. k \in 0 .. (BufSize - 2) /\ k \in Cl!Places /\ k + 1 = e /\ n <= k
    BY <1>1, <1>4, <1>9, <2>1 DEF Cl!Places
  <2>3. u[k] = Cl!Nul
    BY <1>1, <1>3, <1>4, <1>5, <1>9, <2>1, <2>2
  <2>4. ASSUME NEW m \in 0 .. (k - 1) PROVE u[m] # Cl!Nul
    <3>1. m \in Cl!Places /\ m \in Nat /\ m + 1 < e /\ m < e
      BY <1>1, <1>4, <2>1, <2>2 DEF Cl!Places
    <3>2. CASE m < i
      BY <1>1, <1>5, <1>9, <3>1, <3>2
    <3>3. CASE i <= m
      <4>1. u[m] = text[m + 1] /\ m + 1 \in (i + 1) .. (e - 1)
        BY <1>1, <1>4, <1>5, <3>1, <3>3
      <4>2. QED
        BY <1>3, <4>1
    <3>4. QED
      BY <1>1, <3>1, <3>2, <3>3
  <2>5. ClWhole(u, k)
    BY <1>6, <2>2, <2>3, <2>4 DEF ClWhole
  <2>6. \A j \in 0 .. (i - 1) : u[j] = text[j]
    BY <1>1, <1>5 DEF Cl!Places
  <2>7. ClClosed(text, i, n, u, k)
    BY <1>1, <1>7, <1>9, <2>2, <2>5, <2>6 DEF ClClosed
  <2>8. QED
    BY <1>2, <2>7
<1>10. QED
  BY <1>1, <1>8, <1>9

ClOpened(text, i, n, c, u) ==
  /\ ClWhole(u, n + 1) /\ u[BufSize - 1] = text[BufSize - 1] /\ u[i] = c
  /\ \A j \in 0 .. (i - 1) : u[j] = text[j]
  /\ \A j \in (i + 1) .. n : u[j] = text[j - 1]

LEMMA ClOpenUpIs ==
  ASSUME Cl!CliAssumption, NEW text, NEW n, ClWhole(text, n), n < BufSize - 2,
         NEW i \in 0 .. n, NEW c \in Cl!Stored, c # Cl!Nul
  PROVE  ClOpened(text, i, n, c, [Cl!OpenUp(text, i) EXCEPT ![i] = c])
<1>1. /\ text \in [Cl!Places -> Cl!Stored]
      /\ n \in 0 .. (BufSize - 2) /\ text[n] = Cl!Nul
      /\ \A m \in 0 .. (n - 1) : text[m] # Cl!Nul
      /\ BufSize \in Nat /\ BufSize > 2 /\ n \in Nat /\ i \in Nat
      /\ i <= n /\ i \in Cl!Places
  BY DEF ClWhole, Cl!CliAssumption, Cl!Places
<1>2. PICK v : v = Cl!OpenUp(text, i)
  OBVIOUS
<1>3. PICK u : u = [v EXCEPT ![i] = c]
  OBVIOUS
<1>4. v = [j \in Cl!Places |-> IF j \in (i + 1) .. (n + 1) THEN text[j - 1] ELSE text[j]]
  BY <1>2, ClLengthIs DEF Cl!OpenUp
<1>5. v \in [Cl!Places -> Cl!Stored]
  <2>1. \A j \in Cl!Places : j \in (i + 1) .. (n + 1) => j - 1 \in Cl!Places
    BY <1>1 DEF Cl!Places
  <2>2. \A j \in Cl!Places : (IF j \in (i + 1) .. (n + 1) THEN text[j - 1] ELSE text[j]) \in Cl!Stored
    BY <1>1, <2>1
  <2>3. QED
    BY <1>4, <2>2
<1>6. u \in [Cl!Places -> Cl!Stored] /\ u[i] = c /\ \A j \in Cl!Places : j # i => u[j] = v[j]
  BY <1>1, <1>3, <1>5
<1>7. \A j \in Cl!Places : /\ i < j /\ j <= n + 1 => u[j] = text[j - 1]
                           /\ j < i \/ n + 1 < j => u[j] = text[j]
  <2>1. SUFFICES ASSUME NEW j \in Cl!Places
                 PROVE  /\ i < j /\ j <= n + 1 => u[j] = text[j - 1]
                        /\ j < i \/ n + 1 < j => u[j] = text[j]
    OBVIOUS
  <2>2. j \in Nat /\ v[j] = IF j \in (i + 1) .. (n + 1) THEN text[j - 1] ELSE text[j]
    BY <1>1, <1>4 DEF Cl!Places
  <2>3. j < i \/ i < j => u[j] = v[j]
    BY <1>1, <1>6, <2>2
  <2>4. i < j /\ j <= n + 1 => u[j] = text[j - 1]
    BY <1>1, <2>2, <2>3
  <2>5. j < i \/ n + 1 < j => u[j] = text[j]
    <3>1. CASE j < i
      BY <1>1, <2>2, <2>3, <3>1
    <3>2. CASE n + 1 < j
      BY <1>1, <2>2, <2>3, <3>2
    <3>3. QED
      BY <3>1, <3>2
  <2>6. QED
    BY <2>4, <2>5
<1>8. n + 1 \in 0 .. (BufSize - 2) /\ n + 1 \in Cl!Places /\ BufSize - 1 \in Cl!Places
      /\ n + 1 < BufSize - 1
  BY <1>1 DEF Cl!Places
<1>9. u[BufSize - 1] = text[BufSize - 1]
  BY <1>1, <1>7, <1>8
<1>10. u[n + 1] = Cl!Nul
  <2>1. u[n + 1] = text[(n + 1) - 1]
    BY <1>1, <1>7, <1>8
  <2>2. QED
    BY <1>1, <2>1
<1>11. \A j \in 0 .. (i - 1) : u[j] = text[j]
  BY <1>1, <1>7 DEF Cl!Places
<1>12. \A j \in (i + 1) .. n : u[j] = text[j - 1]
  BY <1>1, <1>7 DEF Cl!Places
<1>13. ASSUME NEW m \in 0 .. ((n + 1) - 1) PROVE u[m] # Cl!Nul
  <2>1. m \in Nat /\ m <= n
    BY <1>1
  <2>2. CASE m < i
    BY <1>1, <1>11, <2>1, <2>2
  <2>3. CASE m = i
    BY <1>6, <2>3
  <2>4. CASE i < m
    <3>1. u[m] = text[m - 1] /\ m - 1 \in 0 .. (n - 1)
      BY <1>1, <1>12, <2>1, <2>4
    <3>2. QED
      BY <1>1, <3>1
  <2>5. QED
    BY <1>1, <2>1, <2>2, <2>3, <2>4
<1>14. ClWhole(u, n + 1)
  BY <1>6, <1>8, <1>10, <1>13 DEF ClWhole
<1>15. ClOpened(text, i, n, c, u)
  BY <1>6, <1>9, <1>11, <1>12, <1>14 DEF ClOpened
<1>16. QED
  BY <1>2, <1>3, <1>15
ClChars == Plain \cup Cl!Letters \cup {Cl!Bracket, Cl!Esc, Cl!Enter, Cl!Erase, Cl!Break, Cl!Ignored, Cl!Nul}

ClInputOk ==
  /\ cliInput \in ClChars
  /\ ~cliReceive => cliInput = Cl!Nul
  /\ cliPc = "rest" => ~cliReceive
  /\ cliInput \in Cl!Letters \cup {Cl!Bracket} => cliCmd.mode = "waiting"
  /\ cliInput \in Plain /\ cliCmd.mode # "waiting" => Cl!Length(cliCmd.text) < BufSize - 2

ClPastOk ==
  /\ cliHistory \in Seq(Cl!Buffers) /\ Len(cliHistory) >= 1 /\ cliHistory[1] = Cl!Empty
  /\ \A i \in 2 .. Len(cliHistory) : ClKept(cliHistory[i])
  /\ cliIndex \in 0 .. (Len(cliHistory) - 1)

ClInv ==
  /\ ClLined(cliCmd) /\ ClPastOk /\ ClInputOk
  /\ cliReceive \in BOOLEAN /\ cliComplete \in BOOLEAN /\ cliPc \in {"receive", "rest", "lost"}

LEMMA ClEmptyLined == ASSUME Cl!CliAssumption PROVE ClLined(Cl!Empty) /\ Cl!Length(Cl!Empty.text) = 0
<1>1. BufSize \in Nat /\ BufSize > 2 /\ 0 \in 0 .. (BufSize - 2) /\ 0 \in Cl!Places
      /\ BufSize - 1 \in Cl!Places /\ 0 .. (0 - 1) = {}
  BY DEF Cl!CliAssumption, Cl!Places
<1>2. Cl!Empty \in Cl!Buffers
  BY DEF Cl!Empty, Cl!Buffers, Cl!Keys, Cl!Modes, Cl!Stored
<1>3. ClWhole(Cl!Empty.text, 0)
  BY <1>1, <1>2 DEF ClWhole, Cl!Empty, Cl!Buffers
<1>4. Cl!Length(Cl!Empty.text) = 0
  BY <1>3, ClLengthIs
<1>5. QED
  BY <1>2, <1>3, <1>4 DEF ClLined, Cl!Empty

LEMMA ClInitInv == ASSUME Cl!CliAssumption, Cl!Init PROVE ClInv
<1>1. ClLined(cliCmd) /\ Cl!Length(cliCmd.text) = 0
  BY ClEmptyLined DEF Cl!Init
<1>2. ClPastOk
  <2>1. Cl!Empty \in Cl!Buffers
    BY ClEmptyLined DEF ClLined
  <2>2. cliHistory = << Cl!Empty >> /\ cliIndex = 0
    BY DEF Cl!Init
  <2>3. QED
    BY <2>1, <2>2 DEF ClPastOk
<1>3. ClInputOk
  BY DEF Cl!Init, ClInputOk, ClChars, Cl!Letters, Cl!Bracket, Cl!CliAssumption, Cl!Up,
         Cl!Down, Cl!Right, Cl!Left, Cl!Delete, Cl!Nul
<1>4. QED
  BY <1>1, <1>2, <1>3 DEF ClInv, Cl!Init

LEMMA ClInterruptStep ==
  ASSUME Cl!CliAssumption, ClInv,
         NEW c \in ClChars, Cl!HandleInterrupt(c)
  PROVE  ClInv'
<1>1. ClLined(cliCmd) /\ ClPastOk /\ cliComplete \in BOOLEAN
  BY DEF ClInv
<1>2. /\ cliCmd' = cliCmd /\ cliHistory' = cliHistory /\ cliIndex' = cliIndex
      /\ cliComplete' = cliComplete /\ cliPc' = cliPc /\ cliPc = "receive"
      /\ cliReceive' = TRUE /\ cliInput' = c
      /\ c \in Plain /\ cliCmd.mode # "waiting" => Cl!Length(cliCmd.text) < BufSize - 2
      /\ c \in Cl!Letters \cup {Cl!Bracket} => cliCmd.mode = "waiting"
  BY DEF Cl!HandleInterrupt
<1>3. ClLined(cliCmd') /\ ClPastOk'
  BY <1>1, <1>2 DEF ClPastOk
<1>4. ClInputOk'
  BY <1>2 DEF ClInputOk
<1>5. QED
  BY <1>1, <1>2, <1>3, <1>4 DEF ClInv

ClErased(b) == [b EXCEPT !.index = b.index - 1, !.text = Cl!CloseUp(b.text, b.index - 1)]

ClAdded(b, c) ==
  [b EXCEPT !.index = b.index + 1,
            !.text = [Cl!OpenUp(b.text, b.index) EXCEPT ![b.index] = c]]

ClBroken(b) == [b EXCEPT !.index = 1, !.text = [b.text EXCEPT ![0] = Cl!Break, ![1] = Cl!Nul]]

ClCut(b) == [b EXCEPT !.mode = "none", !.escape = Cl!Nul, !.text = Cl!CloseUp(b.text, b.index)]

(* The parts of a buffer.                                                  *)
LEMMA ClPartsOf ==
  ASSUME NEW b, ClLined(b)
  PROVE  /\ b \in Cl!Buffers /\ b.index \in Nat /\ b.mode \in Cl!Modes /\ b.escape \in Cl!Keys
         /\ b.text \in [Cl!Places -> Cl!Stored] /\ ClWhole(b.text, Cl!Length(b.text))
         /\ b.index \in 0 .. Cl!Length(b.text) /\ Cl!Length(b.text) \in 0 .. (BufSize - 2)
<1>1. b \in Cl!Buffers /\ ClWhole(b.text, Cl!Length(b.text)) /\ b.index \in 0 .. Cl!Length(b.text)
  BY DEF ClLined
<1>2. QED
  BY <1>1 DEF Cl!Buffers, ClWhole

LEMMA ClLinedFrom ==
  ASSUME Cl!CliAssumption, NEW b \in Cl!Buffers, NEW n, ClWhole(b.text, n), b.index \in 0 .. n
  PROVE  ClLined(b) /\ Cl!Length(b.text) = n
  BY ClLengthIs DEF ClLined

LEMMA ClErasedIs ==
  ASSUME Cl!CliAssumption, NEW b, ClLined(b), b.index # 0
  PROVE  /\ ClLined(ClErased(b)) /\ ClErased(b).index = b.index - 1
         /\ ClErased(b).mode = b.mode /\ ClErased(b).escape = b.escape
         /\ ClClosed(b.text, b.index - 1, Cl!Length(b.text), ClErased(b).text, Cl!Length(ClErased(b).text))
<1>1. PICK n : n = Cl!Length(b.text)
  OBVIOUS
<1>2. PICK i : i = b.index - 1
  OBVIOUS
<1>3. /\ b \in Cl!Buffers /\ ClWhole(b.text, n) /\ n \in 0 .. (BufSize - 2) /\ b.index \in 0 .. n
  BY <1>1, ClPartsOf
<1>4. i \in 0 .. n /\ i < n /\ i \in Nat /\ n \in Nat
  BY <1>2, <1>3
<1>5. Cl!Closes(b.text, i)
  BY <1>3, <1>4 DEF Cl!Closes, ClWhole, Cl!CliAssumption
<1>6. PICK k : ClClosed(b.text, i, n, Cl!CloseUp(b.text, i), k)
  BY <1>3, <1>4, <1>5, ClCloseUpIs
<1>7. PICK u : u = Cl!CloseUp(b.text, i)
  OBVIOUS
<1>8. ClWhole(u, k) /\ k = n - 1 /\ u \in [Cl!Places -> Cl!Stored]
  BY <1>4, <1>6, <1>7 DEF ClClosed, ClWhole
<1>9. PICK e : e = ClErased(b)
  OBVIOUS
<1>10. e = [b EXCEPT !.index = i, !.text = u]
  BY <1>2, <1>7, <1>9 DEF ClErased
<1>11. e \in Cl!Buffers /\ e.index = i /\ e.text = u /\ e.mode = b.mode /\ e.escape = b.escape
  BY <1>3, <1>4, <1>8, <1>10 DEF Cl!Buffers
<1>12. ClLined(e) /\ Cl!Length(e.text) = k
  <2>1. ClWhole(e.text, k) /\ e.index \in 0 .. k
    BY <1>4, <1>8, <1>11
  <2>2. QED
    BY <1>11, <2>1, ClLinedFrom
<1>13. ClClosed(b.text, i, n, e.text, Cl!Length(e.text))
  BY <1>6, <1>7, <1>11, <1>12
<1>14. QED
  BY <1>1, <1>2, <1>9, <1>11, <1>12, <1>13

LEMMA ClAddedIs ==
  ASSUME Cl!CliAssumption, NEW b, ClLined(b), Cl!Length(b.text) < BufSize - 2,
         NEW c \in Cl!Stored, c # Cl!Nul
  PROVE  /\ ClLined(ClAdded(b, c)) /\ ClAdded(b, c).index = b.index + 1
         /\ ClAdded(b, c).mode = b.mode /\ ClAdded(b, c).escape = b.escape
         /\ Cl!Length(ClAdded(b, c).text) = Cl!Length(b.text) + 1
         /\ ClOpened(b.text, b.index, Cl!Length(b.text), c, ClAdded(b, c).text)
<1>1. PICK n : n = Cl!Length(b.text)
  OBVIOUS
<1>2. PICK i : i = b.index
  OBVIOUS
<1>3. /\ b \in Cl!Buffers /\ ClWhole(b.text, n) /\ n \in 0 .. (BufSize - 2) /\ i \in 0 .. n
      /\ n < BufSize - 2 /\ i \in Nat
  BY <1>1, <1>2, ClPartsOf
<1>4. PICK u : u = [Cl!OpenUp(b.text, i) EXCEPT ![i] = c]
  OBVIOUS
<1>5. ClOpened(b.text, i, n, c, u)
  BY <1>3, <1>4, ClOpenUpIs
<1>6. ClWhole(u, n + 1) /\ u \in [Cl!Places -> Cl!Stored]
  BY <1>5 DEF ClOpened, ClWhole
<1>7. PICK e : e = ClAdded(b, c)
  OBVIOUS
<1>8. e = [b EXCEPT !.index = i + 1, !.text = u]
  BY <1>2, <1>4, <1>7 DEF ClAdded
<1>9. e \in Cl!Buffers /\ e.index = i + 1 /\ e.text = u /\ e.mode = b.mode /\ e.escape = b.escape
  <2>1. PICK k \in Nat : k = i + 1
    BY <1>3
  <2>2. e = [b EXCEPT !.index = k, !.text = u]
    BY <1>8, <2>1
  <2>3. e \in Cl!Buffers /\ e.index = k /\ e.text = u /\ e.mode = b.mode /\ e.escape = b.escape
    BY <1>3, <1>6, <2>2 DEF Cl!Buffers
  <2>4. QED
    BY <2>1, <2>3
<1>10. ClLined(e) /\ Cl!Length(e.text) = n + 1
  <2>1. ClWhole(e.text, n + 1) /\ e.index \in 0 .. (n + 1)
    BY <1>3, <1>6, <1>9
  <2>2. QED
    BY <1>9, <2>1, ClLinedFrom
<1>11. ClOpened(b.text, i, n, c, e.text)
  BY <1>5, <1>9
<1>12. QED
  BY <1>1, <1>2, <1>7, <1>9, <1>10, <1>11

LEMMA ClBrokenIs ==
  ASSUME Cl!CliAssumption, NEW b, ClLined(b)
  PROVE  /\ ClLined(ClBroken(b)) /\ ClBroken(b).index = 1
         /\ ClBroken(b).mode = b.mode /\ ClBroken(b).escape = b.escape
         /\ Cl!Length(ClBroken(b).text) = 1 /\ ClBroken(b).text[0] = Cl!Break
         /\ ClBroken(b).text[BufSize - 1] = b.text[BufSize - 1]
<1>1. BufSize \in Nat /\ BufSize > 2 /\ 0 \in Cl!Places /\ 1 \in Cl!Places /\ BufSize - 1 \in Cl!Places
      /\ BufSize - 1 # 0 /\ BufSize - 1 # 1 /\ 1 \in 0 .. (BufSize - 2)
      /\ 0 .. (1 - 1) = {0}
  BY DEF Cl!CliAssumption, Cl!Places
<1>2. /\ b \in Cl!Buffers /\ b.text \in [Cl!Places -> Cl!Stored]
  BY ClPartsOf
<1>3. PICK u : u = [b.text EXCEPT ![0] = Cl!Break, ![1] = Cl!Nul]
  OBVIOUS
<1>4. u \in [Cl!Places -> Cl!Stored] /\ u[0] = Cl!Break /\ u[1] = Cl!Nul
      /\ u[BufSize - 1] = b.text[BufSize - 1]
  BY <1>1, <1>2, <1>3 DEF Cl!Stored
<1>5. ClWhole(u, 1)
  BY <1>1, <1>4 DEF ClWhole, Cl!Break, Cl!Nul
<1>6. PICK e : e = ClBroken(b)
  OBVIOUS
<1>7. e = [b EXCEPT !.index = 1, !.text = u]
  BY <1>3, <1>6 DEF ClBroken
<1>8. e \in Cl!Buffers /\ e.index = 1 /\ e.text = u /\ e.mode = b.mode /\ e.escape = b.escape
  BY <1>2, <1>4, <1>7 DEF Cl!Buffers
<1>9. ClLined(e) /\ Cl!Length(e.text) = 1
  <2>1. ClWhole(e.text, 1) /\ e.index \in 0 .. 1
    BY <1>5, <1>8
  <2>2. QED
    BY <1>8, <2>1, ClLinedFrom
<1>10. QED
  BY <1>4, <1>6, <1>8, <1>9

LEMMA ClCutIs ==
  ASSUME Cl!CliAssumption, NEW b, ClLined(b), Cl!Closes(b.text, b.index)
  PROVE  /\ ClLined(ClCut(b)) /\ ClCut(b).index = b.index
         /\ ClCut(b).mode = "none" /\ ClCut(b).escape = Cl!Nul
         /\ ClClosed(b.text, b.index, Cl!Length(b.text), ClCut(b).text, Cl!Length(ClCut(b).text))
<1>1. PICK n : n = Cl!Length(b.text)
  OBVIOUS
<1>2. PICK i : i = b.index
  OBVIOUS
<1>3. /\ b \in Cl!Buffers /\ ClWhole(b.text, n) /\ n \in 0 .. (BufSize - 2) /\ i \in 0 .. n
  BY <1>1, <1>2, ClPartsOf
<1>4. PICK u : u = Cl!CloseUp(b.text, i)
  OBVIOUS
<1>5. PICK k : ClClosed(b.text, i, n, u, k)
  BY <1>2, <1>3, <1>4, ClCloseUpIs
<1>6. ClWhole(u, k) /\ i \in 0 .. k /\ u \in [Cl!Places -> Cl!Stored]
  <2>1. ClWhole(u, k) /\ (i < n => k = n - 1) /\ (i = n => n <= k)
    BY <1>5 DEF ClClosed
  <2>2. k \in Nat /\ u \in [Cl!Places -> Cl!Stored]
    BY <2>1 DEF ClWhole
  <2>3. i \in 0 .. k
    BY <1>3, <2>1, <2>2
  <2>4. QED
    BY <2>1, <2>2, <2>3
<1>7. PICK e : e = ClCut(b)
  OBVIOUS
<1>8. e = [b EXCEPT !.mode = "none", !.escape = Cl!Nul, !.text = u]
  BY <1>2, <1>4, <1>7 DEF ClCut
<1>9. e \in Cl!Buffers /\ e.index = i /\ e.text = u /\ e.mode = "none" /\ e.escape = Cl!Nul
  BY <1>2, <1>3, <1>6, <1>8 DEF Cl!Buffers, Cl!Modes, Cl!Keys
<1>10. ClLined(e) /\ Cl!Length(e.text) = k
  BY <1>6, <1>9, ClLinedFrom
<1>11. ClClosed(b.text, i, n, e.text, Cl!Length(e.text))
  BY <1>5, <1>9, <1>10
<1>12. QED
  BY <1>1, <1>2, <1>7, <1>9, <1>10, <1>11

LEMMA ClEmptiedIs ==
  ASSUME Cl!CliAssumption, NEW b \in Cl!Buffers
  PROVE  /\ ClLined(Cl!Emptied(b)) /\ Cl!Emptied(b).index = 0
         /\ Cl!Emptied(b).mode = b.mode /\ Cl!Emptied(b).escape = b.escape
         /\ Cl!Length(Cl!Emptied(b).text) = 0
         /\ Cl!Emptied(b).text[BufSize - 1] = b.text[BufSize - 1]
<1>1. BufSize \in Nat /\ BufSize > 2 /\ 0 \in Cl!Places /\ BufSize - 1 \in Cl!Places
      /\ BufSize - 1 # 0 /\ 0 \in 0 .. (BufSize - 2) /\ 0 .. (0 - 1) = {}
  BY DEF Cl!CliAssumption, Cl!Places
<1>2. b.text \in [Cl!Places -> Cl!Stored]
  BY DEF Cl!Buffers
<1>3. PICK u : u = [b.text EXCEPT ![0] = Cl!Nul]
  OBVIOUS
<1>4. u \in [Cl!Places -> Cl!Stored] /\ u[0] = Cl!Nul /\ u[BufSize - 1] = b.text[BufSize - 1]
  BY <1>1, <1>2, <1>3 DEF Cl!Stored
<1>5. ClWhole(u, 0)
  BY <1>1, <1>4 DEF ClWhole
<1>6. PICK e : e = Cl!Emptied(b)
  OBVIOUS
<1>7. e = [b EXCEPT !.index = 0, !.text = u]
  BY <1>2, <1>3, <1>6 DEF Cl!Emptied, Cl!Buffers
<1>8. e \in Cl!Buffers /\ e.index = 0 /\ e.text = u /\ e.mode = b.mode /\ e.escape = b.escape
  BY <1>4, <1>7 DEF Cl!Buffers
<1>9. ClLined(e) /\ Cl!Length(e.text) = 0
  <2>1. ClWhole(e.text, 0) /\ e.index \in 0 .. 0
    BY <1>5, <1>8
  <2>2. QED
    BY <1>8, <2>1, ClLinedFrom
<1>10. QED
  BY <1>4, <1>6, <1>8, <1>9
LEMMA ClPlainIs ==
  ASSUME Cl!CliAssumption, NEW c \in Plain
  PROVE  /\ c \notin Cl!Letters \cup {Cl!Bracket, Cl!Nul, Cl!Esc, Cl!Enter, Cl!Erase, Cl!Break, Cl!Ignored}
         /\ c \in Cl!Stored /\ c # Cl!Nul
  BY DEF Cl!CliAssumption, Cl!Stored

ClAccepted(b, c, d, done, done1) ==
  \/ c \in {Cl!Nul, Cl!Ignored} /\ d = b /\ done1 = done
  \/ c = Cl!Esc /\ d = [b EXCEPT !.mode = "waiting"] /\ done1 = done
  \/ c = Cl!Enter /\ d = b /\ done1 = TRUE
  \/ c = Cl!Erase /\ d = (IF b.index = 0 THEN b ELSE ClErased(b)) /\ done1 = done
  \/ c = Cl!Break /\ d = ClBroken(b) /\ done1 = TRUE
  \/ /\ c \in Plain \cup Cl!Letters \cup {Cl!Bracket} /\ done1 = done
     /\ d = IF b.mode = "waiting"
            THEN IF c = Cl!Bracket THEN b ELSE [b EXCEPT !.mode = "received", !.escape = c]
            ELSE ClAdded(b, c)

LEMMA ClCharReceiveIs ==
  ASSUME Cl!CharReceive, cliCmd \in Cl!Buffers
  PROVE  ClAccepted(cliCmd, cliInput, cliCmd', cliComplete, cliComplete')
<1>1. CASE cliInput = Cl!Erase /\ UNCHANGED cliComplete
           /\ cliCmd' = IF cliCmd.index = 0 THEN cliCmd
                     ELSE [cliCmd EXCEPT !.index = @ - 1, !.text = Cl!CloseUp(@, cliCmd.index - 1)]
  BY <1>1 DEF ClAccepted, ClErased
<1>2. CASE cliInput = Cl!Break /\ cliComplete' = TRUE
           /\ cliCmd' = [cliCmd EXCEPT !.index = 1, !.text = [@ EXCEPT ![0] = Cl!Break, ![1] = Cl!Nul]]
  BY <1>2 DEF ClAccepted, ClBroken
<1>3. CASE /\ cliInput \in Plain \cup Cl!Letters \cup {Cl!Bracket} /\ UNCHANGED cliComplete
           /\ cliCmd' = IF cliCmd.mode = "waiting"
                     THEN IF cliInput = Cl!Bracket THEN cliCmd
                          ELSE [cliCmd EXCEPT !.mode = "received", !.escape = cliInput]
                     ELSE [cliCmd EXCEPT !.index = @ + 1,
                             !.text = [Cl!OpenUp(@, cliCmd.index) EXCEPT ![cliCmd.index] = cliInput]]
  BY <1>3 DEF ClAccepted, ClAdded
<1>4. QED
  BY <1>1, <1>2, <1>3 DEF Cl!CharReceive, ClAccepted

LEMMA ClAcceptedLined ==
  ASSUME Cl!CliAssumption, NEW b, ClLined(b), NEW c, NEW d, NEW done, NEW done1,
         ClAccepted(b, c, d, done, done1),
         c \in Cl!Letters \cup {Cl!Bracket} => b.mode = "waiting",
         c \in Plain /\ b.mode # "waiting" => Cl!Length(b.text) < BufSize - 2
  PROVE  ClLined(d)
<1>1. CASE c = Cl!Esc /\ d = [b EXCEPT !.mode = "waiting"]
  <2>1. /\ d \in Cl!Buffers /\ d.text = b.text /\ d.index = b.index
    BY <1>1, ClPartsOf DEF Cl!Buffers, Cl!Modes
  <2>2. QED
    BY <2>1 DEF ClLined
<1>2. CASE c = Cl!Erase /\ d = IF b.index = 0 THEN b ELSE ClErased(b)
  BY <1>2, ClErasedIs
<1>3. CASE c = Cl!Break /\ d = ClBroken(b)
  BY <1>3, ClBrokenIs
<1>4. CASE c \in Plain \cup Cl!Letters /\ c # Cl!Bracket /\ b.mode = "waiting"
           /\ d = [b EXCEPT !.mode = "received", !.escape = c]
  <2>1. /\ d \in Cl!Buffers /\ d.text = b.text /\ d.index = b.index
    BY <1>4, ClPartsOf DEF Cl!Buffers, Cl!Modes, Cl!Keys
  <2>2. QED
    BY <2>1 DEF ClLined
<1>5. CASE c \in Plain /\ b.mode # "waiting" /\ d = ClAdded(b, c)
  <2>1. c \in Cl!Stored /\ c # Cl!Nul
    BY <1>5, ClPlainIs
  <2>2. QED
    BY <1>5, <2>1, ClAddedIs
<1>6. QED
  BY <1>1, <1>2, <1>3, <1>4, <1>5 DEF ClAccepted

LEMMA ClNulIsNone ==
  ASSUME Cl!CliAssumption
  PROVE  Cl!Nul \notin Cl!Letters \cup {Cl!Bracket} \cup Plain
  BY DEF Cl!CliAssumption, Cl!Letters, Cl!Bracket, Cl!Up, Cl!Down, Cl!Right, Cl!Left, Cl!Delete, Cl!Nul

LEMMA ClReceiveStep ==
  ASSUME Cl!CliAssumption, ClInv, Cl!LoopReceive
  PROVE  ClInv'
<1>1. ClLined(cliCmd) /\ ClPastOk /\ ClInputOk /\ cliComplete \in BOOLEAN /\ cliReceive \in BOOLEAN
  BY DEF ClInv
<1>2. cliHistory' = cliHistory /\ cliIndex' = cliIndex /\ cliPc' = "rest"
  BY DEF Cl!LoopReceive
<1>3. ClPastOk'
  BY <1>1, <1>2 DEF ClPastOk
<1>4. CASE cliReceive
  <2>1. Cl!CharReceive /\ cliReceive' = FALSE /\ cliInput' = Cl!Nul
    BY <1>4 DEF Cl!LoopReceive
  <2>2. ClAccepted(cliCmd, cliInput, cliCmd', cliComplete, cliComplete')
    BY <1>1, <2>1, ClCharReceiveIs DEF ClLined
  <2>3. /\ cliInput \in Cl!Letters \cup {Cl!Bracket} => cliCmd.mode = "waiting"
        /\ cliInput \in Plain /\ cliCmd.mode # "waiting" => Cl!Length(cliCmd.text) < BufSize - 2
    BY <1>1 DEF ClInputOk
  <2>4. ClLined(cliCmd')
    BY <1>1, <2>2, <2>3, ClAcceptedLined
  <2>5. ClInputOk'
    BY <1>2, <2>1, ClNulIsNone DEF ClInputOk, ClChars
  <2>6. cliComplete' \in BOOLEAN
    BY <1>1, <2>1 DEF Cl!CharReceive
  <2>7. QED
    BY <1>2, <1>3, <2>1, <2>4, <2>5, <2>6 DEF ClInv
<1>5. CASE ~cliReceive
  <2>1. UNCHANGED <<cliCmd, cliComplete, cliReceive, cliInput>>
    BY <1>5 DEF Cl!LoopReceive
  <2>2. ClInputOk'
    BY <1>1, <1>2, <1>5, <2>1 DEF ClInputOk
  <2>3. QED
    BY <1>1, <1>2, <1>3, <2>1, <2>2 DEF ClInv
<1>6. QED
  BY <1>1, <1>4, <1>5

ClPlainer(b) == [b EXCEPT !.mode = "none", !.escape = Cl!Nul]

LEMMA ClPlainerIs ==
  ASSUME NEW b, ClLined(b)
  PROVE  /\ ClLined(ClPlainer(b)) /\ ClPlainer(b).index = b.index /\ ClPlainer(b).text = b.text
         /\ ClPlainer(b).mode = "none" /\ ClPlainer(b).escape = Cl!Nul
<1>1. PICK e : e = ClPlainer(b)
  OBVIOUS
<1>2. e \in Cl!Buffers /\ e.index = b.index /\ e.text = b.text /\ e.mode = "none" /\ e.escape = Cl!Nul
  BY <1>1, ClPartsOf DEF ClPlainer, Cl!Buffers, Cl!Modes, Cl!Keys
<1>3. QED
  BY <1>1, <1>2 DEF ClLined

LEMMA ClLeftwardsIs ==
  ASSUME Cl!CliAssumption, NEW b, ClLined(b)
  PROVE  /\ ClLined(Cl!Leftwards(b)) /\ Cl!Leftwards(b).text = b.text
         /\ Cl!Leftwards(b).mode = b.mode /\ Cl!Leftwards(b).escape = b.escape
         /\ Cl!Leftwards(b).index = IF b.index = 0 THEN 0 ELSE b.index - 1
<1>1. PICK i : i = IF b.index = 0 THEN 0 ELSE b.index - 1
  OBVIOUS
<1>2. PICK e : e = Cl!Leftwards(b)
  OBVIOUS
<1>3. e = [b EXCEPT !.index = i]
  BY <1>1, <1>2, ClPartsOf DEF Cl!Leftwards, Cl!Buffers
<1>4. b \in Cl!Buffers /\ ClWhole(b.text, Cl!Length(b.text))
      /\ b.index \in 0 .. Cl!Length(b.text) /\ Cl!Length(b.text) \in 0 .. (BufSize - 2)
  BY ClPartsOf
<1>5. i \in 0 .. Cl!Length(b.text) /\ i \in Nat
  BY <1>1, <1>4 DEF Cl!CliAssumption
<1>6. e \in Cl!Buffers /\ e.index = i /\ e.text = b.text /\ e.mode = b.mode /\ e.escape = b.escape
  BY <1>3, <1>4, <1>5 DEF Cl!Buffers
<1>7. ClLined(e)
  BY <1>4, <1>5, <1>6 DEF ClLined
<1>8. QED
  BY <1>1, <1>2, <1>6, <1>7

(* What is on the line goes up to its terminator.                          *)
LEMMA ClRightwardsIs ==
  ASSUME Cl!CliAssumption, NEW b, ClLined(b)
  PROVE  /\ ClLined(Cl!Rightwards(b)) /\ Cl!Rightwards(b).text = b.text
         /\ Cl!Rightwards(b).mode = b.mode /\ Cl!Rightwards(b).escape = b.escape
         /\ Cl!Rightwards(b).index =
              IF b.index = Cl!Length(b.text) THEN b.index ELSE b.index + 1
<1>1. PICK i : i = IF b.index = Cl!Length(b.text) THEN b.index ELSE b.index + 1
  OBVIOUS
<1>2. PICK e : e = Cl!Rightwards(b)
  OBVIOUS
<1>4. b \in Cl!Buffers /\ ClWhole(b.text, Cl!Length(b.text))
      /\ b.index \in 0 .. Cl!Length(b.text) /\ Cl!Length(b.text) \in 0 .. (BufSize - 2)
  BY ClPartsOf
<1>5. i \in 0 .. Cl!Length(b.text) /\ i \in Nat
  BY <1>1, <1>4 DEF Cl!CliAssumption
<1>6. b.text[b.index] = Cl!Nul <=> b.index = Cl!Length(b.text)
  <2>1. PICK n : n = Cl!Length(b.text)
    OBVIOUS
  <2>2. b.text[n] = Cl!Nul /\ \A m \in 0 .. (n - 1) : b.text[m] # Cl!Nul
    BY <1>4, <2>1 DEF ClWhole
  <2>3. b.index # n => b.index \in 0 .. (n - 1)
    BY <1>4, <2>1 DEF Cl!CliAssumption
  <2>4. QED
    BY <2>1, <2>2, <2>3
<1>7. e = [b EXCEPT !.index = i]
  BY <1>1, <1>2, <1>4, <1>6 DEF Cl!Rightwards, Cl!Buffers
<1>8. e \in Cl!Buffers /\ e.index = i /\ e.text = b.text /\ e.mode = b.mode /\ e.escape = b.escape
  BY <1>4, <1>5, <1>7 DEF Cl!Buffers
<1>9. ClLined(e)
  BY <1>4, <1>5, <1>8 DEF ClLined
<1>10. QED
  BY <1>1, <1>2, <1>8, <1>9

(* What an escape makes of the line and of the entry recalled.             *)
ClRecalled(i, b, h, x, d, x1) ==
  \/ i \notin 0 .. (Len(h) - 1) /\ d = ClPlainer(b) /\ x1 = x
  \/ i = 0 /\ x1 = 0 /\ \E junk \in Junk : d = Cl!Emptied(junk)
  \/ i \in 1 .. (Len(h) - 1) /\ x1 = i /\ d = h[i + 1]

ClHandled(b, h, x, d, x1) ==
  \/ b.escape = Cl!Up /\ ClRecalled(x + 1, b, h, x, d, x1)
  \/ b.escape = Cl!Down /\ ClRecalled(x - 1, b, h, x, d, x1)
  \/ b.escape = Cl!Right /\ d = Cl!Rightwards(ClPlainer(b)) /\ x1 = x
  \/ b.escape = Cl!Left /\ d = Cl!Leftwards(ClPlainer(b)) /\ x1 = x
  \/ b.escape = Cl!Delete /\ Cl!Closes(b.text, b.index) /\ d = ClCut(b) /\ x1 = x
  \/ b.escape \notin Cl!Letters /\ d = ClPlainer(b) /\ x1 = x

LEMMA ClRecallIs ==
  ASSUME NEW i \in Int, Cl!Recall(i), Len(cliHistory) \in Nat
  PROVE  ClRecalled(i, cliCmd, cliHistory, cliIndex, cliCmd', cliIndex')
<1>1. Cl!Plainly = ClPlainer(cliCmd)
  BY DEF Cl!Plainly, ClPlainer
<1>2. CASE i \notin 0 .. (Len(cliHistory) - 1)
  BY <1>1, <1>2 DEF Cl!Recall, ClRecalled
<1>3. CASE i \in 0 .. (Len(cliHistory) - 1) /\ i = 0
  BY <1>3 DEF Cl!Recall, ClRecalled
<1>4. CASE i \in 0 .. (Len(cliHistory) - 1) /\ i # 0
  <2>1. i \in 1 .. (Len(cliHistory) - 1)
    BY <1>4
  <2>2. cliIndex' = i /\ cliCmd' = cliHistory[i + 1]
    BY <1>4 DEF Cl!Recall
  <2>3. QED
    BY <2>1, <2>2 DEF ClRecalled
<1>5. QED
  BY <1>2, <1>3, <1>4

LEMMA ClHandleEscapeIs ==
  ASSUME Cl!CliAssumption, cliCmd \in Cl!Buffers, Cl!HandleEscape, Len(cliHistory) \in Nat, cliIndex \in Nat
  PROVE  ClHandled(cliCmd, cliHistory, cliIndex, cliCmd', cliIndex')
<1>1. Cl!Plainly = ClPlainer(cliCmd)
  BY DEF Cl!Plainly, ClPlainer
<1>2. /\ Cl!Up # Cl!Down /\ Cl!Up # Cl!Right /\ Cl!Up # Cl!Left /\ Cl!Up # Cl!Delete /\ Cl!Down # Cl!Right
      /\ Cl!Down # Cl!Left
      /\ Cl!Down # Cl!Delete
      /\ Cl!Right # Cl!Left
      /\ Cl!Right # Cl!Delete
      /\ Cl!Left # Cl!Delete
  BY DEF Cl!Up, Cl!Down, Cl!Right, Cl!Left, Cl!Delete
<1>3. CASE cliCmd.escape = Cl!Up
  <2>1. Cl!Recall(cliIndex + 1)
    BY <1>2, <1>3 DEF Cl!HandleEscape
  <2>2. QED
    BY <1>3, <2>1, ClRecallIs DEF ClHandled
<1>4. CASE cliCmd.escape = Cl!Down
  <2>1. Cl!Recall(cliIndex - 1)
    BY <1>2, <1>4 DEF Cl!HandleEscape
  <2>2. QED
    BY <1>4, <2>1, ClRecallIs DEF ClHandled
<1>5. CASE cliCmd.escape = Cl!Right
  BY <1>1, <1>2, <1>5 DEF Cl!HandleEscape, ClHandled
<1>6. CASE cliCmd.escape = Cl!Left
  BY <1>1, <1>2, <1>6 DEF Cl!HandleEscape, ClHandled
<1>7. CASE cliCmd.escape = Cl!Delete
  <2>1. cliCmd' = [Cl!Plainly EXCEPT !.text = Cl!CloseUp(@, cliCmd.index)] /\ cliIndex' = cliIndex
        /\ Cl!Closes(cliCmd.text, cliCmd.index)
    BY <1>2, <1>7 DEF Cl!HandleEscape
  <2>2. cliCmd' = ClCut(cliCmd)
    BY <2>1 DEF Cl!Plainly, ClCut, Cl!Buffers
  <2>3. QED
    BY <1>7, <2>1, <2>2 DEF ClHandled
<1>8. CASE cliCmd.escape \notin Cl!Letters
  <2>1. cliCmd.escape # Cl!Up /\ cliCmd.escape # Cl!Down /\ cliCmd.escape # Cl!Right
        /\ cliCmd.escape # Cl!Left /\ cliCmd.escape # Cl!Delete
    BY <1>8 DEF Cl!Letters
  <2>2. cliCmd' = Cl!Plainly /\ cliIndex' = cliIndex
    BY <2>1 DEF Cl!HandleEscape
  <2>3. QED
    BY <1>1, <1>8, <2>2 DEF ClHandled
<1>9. QED
  BY <1>3, <1>4, <1>5, <1>6, <1>7, <1>8 DEF Cl!Letters

ClPast(h, x) ==
  /\ h \in Seq(Cl!Buffers) /\ Len(h) >= 1 /\ h[1] = Cl!Empty
  /\ \A i \in 2 .. Len(h) : ClKept(h[i])
  /\ x \in 0 .. (Len(h) - 1)

LEMMA ClRecalledLined ==
  ASSUME Cl!CliAssumption, NEW b, ClLined(b), NEW h, NEW x, ClPast(h, x),
         NEW i \in Int, NEW d, NEW x1, ClRecalled(i, b, h, x, d, x1)
  PROVE  ClLined(d) /\ ClPast(h, x1)
<1>1. Len(h) \in Nat /\ Len(h) >= 1
  BY DEF ClPast
<1>2. CASE d = ClPlainer(b) /\ x1 = x
  BY <1>2, ClPlainerIs
<1>3. CASE i = 0 /\ x1 = 0 /\ \E junk \in Junk : d = Cl!Emptied(junk)
  <2>1. ClLined(d)
    <3>1. PICK j \in Junk : d = Cl!Emptied(j)
      BY <1>3
    <3>2. j \in Cl!Buffers
      BY DEF Cl!CliAssumption
    <3>3. QED
      BY <3>1, <3>2, ClEmptiedIs
  <2>2. x1 \in 0 .. (Len(h) - 1)
    BY <1>1, <1>3
  <2>3. QED
    BY <2>1, <2>2 DEF ClPast
<1>4. CASE i \in 1 .. (Len(h) - 1) /\ x1 = i /\ d = h[i + 1]
  <2>1. PICK k : k = i + 1
    OBVIOUS
  <2>2. k \in 2 .. Len(h) /\ x1 \in 0 .. (Len(h) - 1)
    BY <1>1, <1>4, <2>1
  <2>3. ClKept(h[k])
    BY <2>2 DEF ClPast
  <2>4. ClLined(d)
    BY <1>4, <2>1, <2>3 DEF ClKept
  <2>5. QED
    BY <2>2, <2>4 DEF ClPast
<1>5. QED
  BY <1>2, <1>3, <1>4 DEF ClRecalled

LEMMA ClHandledLined ==
  ASSUME Cl!CliAssumption, NEW b, ClLined(b), NEW h, NEW x, ClPast(h, x),
         NEW d, NEW x1, ClHandled(b, h, x, d, x1)
  PROVE  ClLined(d) /\ ClPast(h, x1)
<1>1. x + 1 \in Int /\ x - 1 \in Int
  BY DEF ClPast
<1>2. CASE ClRecalled(x + 1, b, h, x, d, x1)
  BY <1>1, <1>2, ClRecalledLined
<1>3. CASE ClRecalled(x - 1, b, h, x, d, x1)
  BY <1>1, <1>3, ClRecalledLined
<1>4. CASE d = Cl!Rightwards(ClPlainer(b)) /\ x1 = x
  BY <1>4, ClPlainerIs, ClRightwardsIs
<1>5. CASE d = Cl!Leftwards(ClPlainer(b)) /\ x1 = x
  BY <1>5, ClPlainerIs, ClLeftwardsIs
<1>6. CASE Cl!Closes(b.text, b.index) /\ d = ClCut(b) /\ x1 = x
  BY <1>6, ClCutIs
<1>7. CASE d = ClPlainer(b) /\ x1 = x
  BY <1>7, ClPlainerIs
<1>8. QED
  BY <1>2, <1>3, <1>4, <1>5, <1>6, <1>7 DEF ClHandled
ClCleaned(b) == [b EXCEPT !.index = Cl!Length(b.text)]

ClEntered(b, h) ==
  IF /\ Cl!Length(b.text) > 0
     /\ Len(h) > 1 => Cl!Line(h[2].text) # Cl!Line(b.text)
  THEN << Cl!Empty, ClCleaned(b) >> \o Tail(h) ELSE h

ClAsked(b) ==
  IF Cl!Length(b.text) = 0
  THEN [ClCleaned(b) EXCEPT !.text = [b.text EXCEPT ![0] = "?", ![1] = Cl!Nul]]
  ELSE ClCleaned(b)

LEMMA ClCleanedIs ==
  ASSUME Cl!CliAssumption, NEW b, ClLined(b)
  PROVE  /\ ClLined(ClCleaned(b)) /\ ClCleaned(b).index = Cl!Length(b.text)
         /\ ClCleaned(b).text = b.text /\ ClCleaned(b).mode = b.mode
<1>1. PICK n : n = Cl!Length(b.text)
  OBVIOUS
<1>2. b \in Cl!Buffers /\ ClWhole(b.text, n) /\ n \in 0 .. n /\ n \in Nat
  BY <1>1, ClPartsOf DEF Cl!CliAssumption
<1>3. PICK e : e = ClCleaned(b)
  OBVIOUS
<1>4. e \in Cl!Buffers /\ e.index = n /\ e.text = b.text /\ e.mode = b.mode
  BY <1>1, <1>2, <1>3 DEF ClCleaned, Cl!Buffers
<1>5. ClLined(e)
  BY <1>1, <1>2, <1>4 DEF ClLined
<1>6. QED
  BY <1>1, <1>3, <1>4, <1>5

LEMMA ClAskedIs ==
  ASSUME Cl!CliAssumption, NEW b, ClLined(b)
  PROVE  /\ ClAsked(b) \in Cl!Buffers /\ ClAsked(b).text[BufSize - 1] = b.text[BufSize - 1]
         /\ ClAsked(b).mode = b.mode /\ ClAsked(b).escape = b.escape
         /\ Cl!Length(b.text) # 0 => ClAsked(b).text = b.text
         /\ Cl!Length(b.text) = 0 => ClWhole(ClAsked(b).text, 1) /\ ClAsked(b).text[0] = "?"
<1>1. BufSize \in Nat /\ BufSize > 2 /\ 0 \in Cl!Places /\ 1 \in Cl!Places /\ BufSize - 1 \in Cl!Places
      /\ BufSize - 1 # 0 /\ BufSize - 1 # 1 /\ 1 \in 0 .. (BufSize - 2)
      /\ 0 .. (1 - 1) = {0}
  BY DEF Cl!CliAssumption, Cl!Places
<1>2. PICK c : c = ClCleaned(b)
  OBVIOUS
<1>3. /\ c \in Cl!Buffers /\ c.text = b.text /\ c.mode = b.mode /\ c.escape = b.escape
      /\ b.text \in [Cl!Places -> Cl!Stored]
  BY <1>2, ClCleanedIs, ClPartsOf DEF ClLined, ClWhole, ClCleaned, Cl!Buffers
<1>4. CASE Cl!Length(b.text) # 0
  BY <1>2, <1>3, <1>4 DEF ClAsked
<1>5. CASE Cl!Length(b.text) = 0
  <2>1. PICK u : u = [b.text EXCEPT ![0] = "?", ![1] = Cl!Nul]
    OBVIOUS
  <2>2. u \in [Cl!Places -> Cl!Stored] /\ u[0] = "?" /\ u[1] = Cl!Nul /\ u[BufSize - 1] = b.text[BufSize - 1]
    BY <1>1, <1>3, <2>1 DEF Cl!Stored
  <2>3. ClWhole(u, 1)
    BY <1>1, <2>2 DEF ClWhole, Cl!Nul
  <2>4. PICK e : e = ClAsked(b)
    OBVIOUS
  <2>5. e = [c EXCEPT !.text = u]
    BY <1>2, <1>5, <2>1, <2>4 DEF ClAsked
  <2>6. e \in Cl!Buffers /\ e.text = u /\ e.mode = b.mode /\ e.escape = b.escape
    BY <1>3, <2>2, <2>5 DEF Cl!Buffers
  <2>7. QED
    BY <1>5, <2>2, <2>3, <2>4, <2>6
<1>6. QED
  BY <1>4, <1>5

LEMMA ClCompletedIs ==
  ASSUME Cl!CliAssumption, ClLined(cliCmd), Cl!Completed
  PROVE  /\ cliCmd' = Cl!Emptied(ClAsked(cliCmd)) /\ cliComplete' = FALSE /\ cliIndex' = 0
         /\ cliRan' = Cl!Line(ClAsked(cliCmd).text)
         /\ cliHistory' = ClEntered(cliCmd, cliHistory)
<1>1. PICK c : c = ClCleaned(cliCmd)
  OBVIOUS
<1>2. c.index = Cl!Length(cliCmd.text) /\ c.text = cliCmd.text /\ c \in Cl!Buffers
  BY <1>1, ClCleanedIs DEF ClLined
<1>3. PICK a : a = IF c.index = 0 THEN [c EXCEPT !.text = [@ EXCEPT ![0] = "?", ![1] = Cl!Nul]]
                   ELSE c
  OBVIOUS
<1>4. a = ClAsked(cliCmd)
  <2>1. CASE Cl!Length(cliCmd.text) = 0
    BY <1>1, <1>2, <1>3, <2>1 DEF ClAsked, Cl!Buffers
  <2>2. CASE Cl!Length(cliCmd.text) # 0
    BY <1>1, <1>2, <1>3, <2>2 DEF ClAsked
  <2>3. QED
    BY <2>1, <2>2
<1>5. /\ cliComplete' = FALSE /\ cliHistory' = Cl!Saved(c) /\ cliRan' = Cl!Line(a.text)
      /\ cliCmd' = Cl!Emptied(a) /\ cliIndex' = 0
  BY <1>1, <1>3 DEF Cl!Completed, ClCleaned
<1>6. Cl!Saved(c) = IF /\ Cl!Length(cliCmd.text) > 0
                       /\ Len(cliHistory) > 1 => Cl!Line(cliHistory[2].text) # Cl!Line(cliCmd.text)
                 THEN << Cl!Empty, c >> \o Tail(cliHistory) ELSE cliHistory
  BY <1>2 DEF Cl!Saved
<1>7. QED
  BY <1>1, <1>4, <1>5, <1>6 DEF ClEntered

(* A line goes behind the empty entry, in front of the others.             *)
LEMMA ClPutIs ==
  ASSUME NEW S, NEW h \in Seq(S), Len(h) >= 1, NEW e \in S, NEW c \in S,
         NEW g, g = << e, c >> \o Tail(h)
  PROVE  /\ g \in Seq(S) /\ Len(g) = Len(h) + 1 /\ g[1] = e /\ g[2] = c
         /\ \A i \in 3 .. Len(g) : g[i] = h[i - 1]
<1>1. Tail(h) \in Seq(S) /\ Len(Tail(h)) = Len(h) - 1
      /\ \A i \in 1 .. (Len(h) - 1) : Tail(h)[i] = h[i + 1]
  BY HeadTailProperties, EmptySeq
<1>2. << e, c >> \in Seq(S) /\ Len(<< e, c >>) = 2 /\ << e, c >>[1] = e /\ << e, c >>[2] = c
  OBVIOUS
<1>3. PICK t : t = Tail(h)
  OBVIOUS
<1>4. PICK f : f = << e, c >>
  OBVIOUS
<1>5. /\ g \in Seq(S) /\ Len(g) = Len(f) + Len(t)
      /\ \A i \in 1 .. (Len(f) + Len(t)) : g[i] = IF i <= Len(f) THEN f[i] ELSE t[i - Len(f)]
  BY <1>1, <1>2, <1>3, <1>4, ConcatProperties
<1>6. Len(h) \in Nat
  OBVIOUS
<1>7. Len(g) = Len(h) + 1 /\ g[1] = e /\ g[2] = c
  BY <1>1, <1>2, <1>3, <1>4, <1>5, <1>6
<1>8. ASSUME NEW i \in 3 .. Len(g) PROVE g[i] = h[i - 1]
  <2>1. i \in 1 .. (Len(f) + Len(t)) /\ ~(i <= Len(f)) /\ Len(f) = 2
    BY <1>2, <1>4, <1>5, <1>6, <1>7
  <2>2. g[i] = t[i - 2] /\ i - 2 \in 1 .. (Len(h) - 1)
    BY <1>5, <1>6, <1>7, <2>1
  <2>3. t[i - 2] = h[(i - 2) + 1]
    BY <1>1, <1>3, <2>2
  <2>4. QED
    BY <2>1, <2>2, <2>3
<1>9. QED
  BY <1>5, <1>7, <1>8

LEMMA ClSavedPast ==
  ASSUME Cl!CliAssumption, NEW b, ClLined(b), b.mode # "received", NEW h, NEW x, ClPast(h, x), NEW g,
         g = h \/ g = << Cl!Empty, ClCleaned(b) >> \o Tail(h)
  PROVE  ClPast(g, 0)
<1>1. h \in Seq(Cl!Buffers) /\ Len(h) \in Nat /\ Len(h) >= 1 /\ 0 \in 0 .. (Len(h) - 1)
      /\ h[1] = Cl!Empty /\ \A i \in 2 .. Len(h) : ClKept(h[i])
  BY DEF ClPast
<1>2. CASE g = h
  BY <1>1, <1>2 DEF ClPast
<1>3. CASE g = << Cl!Empty, ClCleaned(b) >> \o Tail(h)
  <2>1. Cl!Empty \in Cl!Buffers /\ ClCleaned(b) \in Cl!Buffers
    BY ClEmptyLined, ClCleanedIs DEF ClLined
  <2>2. /\ g \in Seq(Cl!Buffers) /\ Len(g) = Len(h) + 1 /\ g[1] = Cl!Empty /\ g[2] = ClCleaned(b)
        /\ \A i \in 3 .. Len(g) : g[i] = h[i - 1]
    BY <1>1, <1>3, <2>1, ClPutIs
  <2>3. ClKept(ClCleaned(b))
    <3>1. PICK c : c = ClCleaned(b)
      OBVIOUS
    <3>2. ClLined(c) /\ c.index = Cl!Length(b.text) /\ c.text = b.text /\ c.mode = b.mode
      BY <3>1, ClCleanedIs
    <3>3. QED
      BY <3>1, <3>2 DEF ClKept
  <2>4. ASSUME NEW i \in 2 .. Len(g) PROVE ClKept(g[i])
    <3>1. CASE i = 2
      BY <2>2, <2>3, <3>1
    <3>2. CASE i # 2
      <4>1. i \in 3 .. Len(g) /\ i - 1 \in 2 .. Len(h)
        BY <1>1, <2>2, <3>2
      <4>2. PICK j \in 2 .. Len(h) : j = i - 1
        BY <4>1
      <4>3. ClKept(h[j]) /\ g[i] = h[j]
        BY <1>1, <2>2, <4>1, <4>2
      <4>4. QED
        BY <4>3
    <3>3. QED
      BY <3>1, <3>2
  <2>5. QED
    BY <1>1, <2>2, <2>4 DEF ClPast
<1>4. QED
  BY <1>2, <1>3

LEMMA ClRestStep ==
  ASSUME Cl!CliAssumption, ClInv, Cl!LoopRest
  PROVE  ClInv'
<1>1. /\ ClLined(cliCmd) /\ ClPastOk /\ ClInputOk /\ cliComplete \in BOOLEAN /\ cliReceive \in BOOLEAN
      /\ cliPc = "rest" /\ cliPc' = "receive" /\ cliReceive' = cliReceive /\ cliInput' = cliInput
  BY DEF ClInv, Cl!LoopRest
<1>2. ClPast(cliHistory, cliIndex) /\ Len(cliHistory) \in Nat /\ cliIndex \in Nat
  BY <1>1 DEF ClPastOk, ClPast
<1>3. cliInput = Cl!Nul /\ ~cliReceive
  BY <1>1 DEF ClInputOk
<1>4. ClInputOk'
  BY <1>1, <1>3, ClNulIsNone DEF ClInputOk, ClChars
<1>5. CASE cliCmd.mode = "received"
  <2>1. Cl!HandleEscape /\ cliHistory' = cliHistory /\ cliComplete' = cliComplete
    BY <1>5 DEF Cl!LoopRest, Cl!HandleEscape
  <2>2. ClHandled(cliCmd, cliHistory, cliIndex, cliCmd', cliIndex')
    BY <1>1, <1>2, <2>1, ClHandleEscapeIs DEF ClLined
  <2>3. ClLined(cliCmd') /\ ClPast(cliHistory, cliIndex')
    BY <1>1, <1>2, <2>2, ClHandledLined
  <2>4. ClLined(cliCmd') /\ ClPastOk'
    BY <2>1, <2>3 DEF ClPast, ClPastOk
  <2>5. QED
    BY <1>1, <1>4, <2>1, <2>4 DEF ClInv
<1>6. CASE cliCmd.mode # "received" /\ cliComplete
  <2>1. Cl!Completed
    BY <1>6 DEF Cl!LoopRest
  <2>2. /\ cliCmd' = Cl!Emptied(ClAsked(cliCmd)) /\ cliComplete' = FALSE /\ cliIndex' = 0
        /\ cliRan' = Cl!Line(ClAsked(cliCmd).text)
        /\ cliHistory' = ClEntered(cliCmd, cliHistory)
    BY <1>1, <2>1, ClCompletedIs
  <2>3. ClLined(cliCmd')
    <3>1. ClAsked(cliCmd) \in Cl!Buffers
      BY <1>1, ClAskedIs
    <3>2. QED
      BY <2>2, <3>1, ClEmptiedIs
  <2>4. cliHistory' = cliHistory \/ cliHistory' = << Cl!Empty, ClCleaned(cliCmd) >> \o Tail(cliHistory)
    BY <2>2 DEF ClEntered
  <2>5. ClPast(cliHistory', 0)
    BY <1>1, <1>2, <1>6, <2>4, ClSavedPast
  <2>6. ClPastOk'
    BY <2>2, <2>5 DEF ClPast, ClPastOk
  <2>7. QED
    BY <1>1, <1>4, <2>2, <2>3, <2>6 DEF ClInv
<1>7. CASE cliCmd.mode # "received" /\ ~cliComplete
  <2>1. UNCHANGED <<cliCmd, cliHistory, cliIndex, cliComplete, cliRan>>
    BY <1>7 DEF Cl!LoopRest
  <2>2. ClPastOk'
    BY <1>1, <2>1 DEF ClPastOk
  <2>3. QED
    BY <1>1, <1>4, <2>1, <2>2 DEF ClInv
<1>8. QED
  BY <1>1, <1>5, <1>6, <1>7

LEMMA ClInvStep ==
  ASSUME Cl!CliAssumption, ClInv, [Cl!Next]_(Cl!vars)
  PROVE  ClInv'
<1>1. CASE UNCHANGED Cl!vars
  BY <1>1 DEF Cl!vars, ClInv, ClPastOk, ClInputOk
<1>2. CASE Cl!LoopLost
  BY <1>2 DEF Cl!LoopLost, ClInv, ClPastOk, ClInputOk
<1>3. QED
  BY <1>1, <1>2, ClInterruptStep, ClReceiveStep, ClRestStep DEF ClChars, Cl!Next, Cl!Lost

LEMMA ClInvMeans == ASSUME Cl!CliAssumption, ClInv PROVE Cl!TypeOK
<1>1. /\ cliCmd \in Cl!Buffers /\ ClWhole(cliCmd.text, Cl!Length(cliCmd.text))
      /\ cliCmd.index \in 0 .. Cl!Length(cliCmd.text)
      /\ cliIndex \in 0 .. (Len(cliHistory) - 1) /\ cliHistory[1] = Cl!Empty
  BY DEF ClInv, ClLined, ClPastOk
<1>2. QED
  BY <1>1 DEF Cl!TypeOK, Cl!Buffers, ClWhole, Cl!Empty
-----------------------------------------------------------------------------
(* The lines in the arrays are what CommandHistory has.                    *)

LEMMA ClLineIs ==
  ASSUME Cl!CliAssumption, NEW text, NEW n, ClWhole(text, n)
  PROVE  /\ Cl!Line(text) \in Seq(Cl!Stored) /\ Len(Cl!Line(text)) = n
         /\ \A i \in 1 .. n : Cl!Line(text)[i] = text[i - 1]
<1>1. text \in [Cl!Places -> Cl!Stored] /\ n \in 0 .. (BufSize - 2) /\ n \in Nat /\ BufSize \in Nat
  BY DEF ClWhole, Cl!CliAssumption
<1>2. Cl!Line(text) = [i \in 1 .. n |-> text[i - 1]]
  BY ClLengthIs DEF Cl!Line
<1>3. \A i \in 1 .. n : text[i - 1] \in Cl!Stored
  BY <1>1 DEF Cl!Places
<1>4. QED
  BY <1>1, <1>2, <1>3

LEMMA ClPartIs ==
  ASSUME NEW S, NEW s \in Seq(S), NEW i \in Nat, NEW m \in Nat, m >= 1, m <= i + 1,
         i <= Len(s)
  PROVE  /\ SubSeq(s, m, i) \in Seq(S) /\ Len(SubSeq(s, m, i)) = i - m + 1
         /\ \A k \in 1 .. (i - m + 1) : SubSeq(s, m, i)[k] = s[m + k - 1]
<1>1. \A k \in m .. i : s[k] \in S
  OBVIOUS
<1>2. QED
  BY <1>1, SubSeqProperties

LEMMA ClLineErased ==
  ASSUME Cl!CliAssumption, NEW text, NEW n, ClWhole(text, n), NEW i \in 0 .. n, i < n,
         NEW u, NEW k, ClClosed(text, i, n, u, k)
  PROVE  Cl!Line(u) = SubSeq(Cl!Line(text), 1, i) \o SubSeq(Cl!Line(text), i + 2, n)
<1>1. n \in Nat /\ i \in Nat /\ k = n - 1 /\ ClWhole(u, k)
      /\ (\A j \in 0 .. (i - 1) : u[j] = text[j]) /\ (\A j \in i .. (n - 2) : u[j] = text[j + 1])
  BY DEF ClWhole, ClClosed, Cl!CliAssumption
<1>2. PICK s : s = Cl!Line(text)
  OBVIOUS
<1>3. PICK t : t = Cl!Line(u)
  OBVIOUS
<1>4. s \in Seq(Cl!Stored) /\ Len(s) = n /\ \A j \in 1 .. n : s[j] = text[j - 1]
  BY <1>2, ClLineIs
<1>5. t \in Seq(Cl!Stored) /\ Len(t) = n - 1 /\ \A j \in 1 .. (n - 1) : t[j] = u[j - 1]
  BY <1>1, <1>3, ClLineIs
<1>6. PICK a : a = SubSeq(s, 1, i)
  OBVIOUS
<1>7. PICK e : e = SubSeq(s, i + 2, n)
  OBVIOUS
<1>8. a \in Seq(Cl!Stored) /\ Len(a) = i /\ \A j \in 1 .. i : a[j] = s[j]
  BY <1>1, <1>4, <1>6, ClPartIs
<1>9. e \in Seq(Cl!Stored) /\ Len(e) = n - i - 1
      /\ \A j \in 1 .. (n - i - 1) : e[j] = s[i + j + 1]
  <2>1. PICK m \in Nat : m = i + 2
    BY <1>1
  <2>2. m >= 1 /\ m <= n + 1 /\ n <= Len(s) /\ n - m + 1 = n - i - 1
    BY <1>1, <1>4, <2>1
  <2>3. /\ SubSeq(s, m, n) \in Seq(Cl!Stored) /\ Len(SubSeq(s, m, n)) = n - m + 1
        /\ \A j \in 1 .. (n - m + 1) : SubSeq(s, m, n)[j] = s[m + j - 1]
    BY <1>1, <1>4, <2>2, ClPartIs
  <2>4. e = SubSeq(s, m, n)
    BY <1>7, <2>1
  <2>5. \A j \in 1 .. (n - i - 1) : m + j - 1 = i + j + 1
    BY <1>1, <2>1
  <2>6. QED
    BY <2>2, <2>3, <2>4, <2>5
<1>10. PICK w : w = a \o e
  OBVIOUS
<1>11. /\ w \in Seq(Cl!Stored) /\ Len(w) = n - 1
       /\ \A j \in 1 .. (n - 1) : w[j] = IF j <= i THEN a[j] ELSE e[j - i]
  <2>1. /\ w \in Seq(Cl!Stored) /\ Len(w) = Len(a) + Len(e)
        /\ \A j \in 1 .. (Len(a) + Len(e)) : w[j] = IF j <= Len(a) THEN a[j] ELSE e[j - Len(a)]
    BY <1>8, <1>9, <1>10, ConcatProperties
  <2>2. Len(a) + Len(e) = n - 1 /\ Len(a) = i
    BY <1>1, <1>8, <1>9
  <2>3. QED
    BY <2>1, <2>2
<1>12. ASSUME NEW j \in 1 .. (n - 1) PROVE t[j] = w[j]
  <2>1. t[j] = u[j - 1]
    BY <1>5
  <2>2. CASE j <= i
    <3>1. j - 1 \in 0 .. (i - 1) /\ j \in 1 .. n /\ j \in 1 .. i
      BY <1>1, <2>2
    <3>2. QED
      BY <1>1, <1>4, <1>8, <1>11, <2>1, <2>2, <3>1
  <2>3. CASE ~(j <= i)
    <3>1. PICK p : p = j - i
      OBVIOUS
    <3>2. j - 1 \in i .. (n - 2) /\ p \in 1 .. (n - i - 1) /\ (j - 1) + 1 = j
          /\ i + p + 1 = j + 1 /\ j + 1 \in 1 .. n /\ (j + 1) - 1 = j
      BY <1>1, <2>3, <3>1
    <3>3. u[j - 1] = text[j]
      BY <1>1, <3>2
    <3>4. w[j] = e[p] /\ e[p] = s[j + 1]
      BY <1>9, <1>11, <2>3, <3>1, <3>2
    <3>5. s[j + 1] = text[j]
      BY <1>4, <3>2
    <3>6. QED
      BY <2>1, <3>3, <3>4, <3>5
  <2>4. QED
    BY <2>2, <2>3
<1>13. t = w
  BY <1>5, <1>11, <1>12, SeqEqual
<1>14. QED
  BY <1>2, <1>3, <1>6, <1>7, <1>10, <1>13

LEMMA ClLineLeft ==
  ASSUME Cl!CliAssumption, NEW text, NEW n, ClWhole(text, n), NEW u, NEW k, ClClosed(text, n, n, u, k)
  PROVE  SubSeq(Cl!Line(u), 1, n) = Cl!Line(text)
<1>1. n \in Nat /\ n <= k /\ ClWhole(u, k) /\ k \in Nat
      /\ (\A j \in 0 .. (n - 1) : u[j] = text[j])
  BY DEF ClWhole, ClClosed, Cl!CliAssumption
<1>2. PICK s : s = Cl!Line(text)
  OBVIOUS
<1>3. PICK t : t = Cl!Line(u)
  OBVIOUS
<1>4. s \in Seq(Cl!Stored) /\ Len(s) = n /\ \A j \in 1 .. n : s[j] = text[j - 1]
  BY <1>2, ClLineIs
<1>5. t \in Seq(Cl!Stored) /\ Len(t) = k /\ \A j \in 1 .. k : t[j] = u[j - 1]
  BY <1>1, <1>3, ClLineIs
<1>6. PICK a : a = SubSeq(t, 1, n)
  OBVIOUS
<1>7. a \in Seq(Cl!Stored) /\ Len(a) = n /\ \A j \in 1 .. n : a[j] = t[j]
  BY <1>1, <1>5, <1>6, ClPartIs
<1>8. ASSUME NEW j \in 1 .. n PROVE a[j] = s[j]
  <2>1. j \in 1 .. k /\ j - 1 \in 0 .. (n - 1)
    BY <1>1
  <2>2. QED
    BY <1>1, <1>4, <1>5, <1>7, <2>1
<1>9. a = s
  BY <1>4, <1>7, <1>8, SeqEqual
<1>10. QED
  BY <1>2, <1>3, <1>6, <1>9

LEMMA ClLineOpened ==
  ASSUME Cl!CliAssumption, NEW text, NEW n, ClWhole(text, n), NEW i \in 0 .. n,
         NEW c \in Cl!Stored, NEW u, ClOpened(text, i, n, c, u)
  PROVE  Cl!Line(u) = SubSeq(Cl!Line(text), 1, i) \o << c >> \o SubSeq(Cl!Line(text), i + 1, n)
<1>1. n \in Nat /\ i \in Nat /\ i <= n /\ ClWhole(u, n + 1) /\ u[i] = c
      /\ (\A j \in 0 .. (i - 1) : u[j] = text[j])
      /\ (\A j \in (i + 1) .. n : u[j] = text[j - 1])
  BY DEF ClWhole, ClOpened, Cl!CliAssumption
<1>2. PICK s : s = Cl!Line(text)
  OBVIOUS
<1>3. PICK t : t = Cl!Line(u)
  OBVIOUS
<1>4. s \in Seq(Cl!Stored) /\ Len(s) = n /\ \A j \in 1 .. n : s[j] = text[j - 1]
  BY <1>2, ClLineIs
<1>5. t \in Seq(Cl!Stored) /\ Len(t) = n + 1 /\ \A j \in 1 .. (n + 1) : t[j] = u[j - 1]
  BY <1>1, <1>3, ClLineIs
<1>6. PICK a : a = SubSeq(s, 1, i)
  OBVIOUS
<1>7. PICK e : e = SubSeq(s, i + 1, n)
  OBVIOUS
<1>8. a \in Seq(Cl!Stored) /\ Len(a) = i /\ \A j \in 1 .. i : a[j] = s[j]
  BY <1>1, <1>4, <1>6, ClPartIs
<1>9. e \in Seq(Cl!Stored) /\ Len(e) = n - i
      /\ \A j \in 1 .. (n - i) : e[j] = s[i + j]
  <2>1. PICK m \in Nat : m = i + 1
    BY <1>1
  <2>2. m >= 1 /\ m <= n + 1 /\ n <= Len(s) /\ n - m + 1 = n - i
    BY <1>1, <1>4, <2>1
  <2>3. /\ SubSeq(s, m, n) \in Seq(Cl!Stored) /\ Len(SubSeq(s, m, n)) = n - m + 1
        /\ \A j \in 1 .. (n - m + 1) : SubSeq(s, m, n)[j] = s[m + j - 1]
    BY <1>1, <1>4, <2>2, ClPartIs
  <2>4. e = SubSeq(s, m, n)
    BY <1>7, <2>1
  <2>5. \A j \in 1 .. (n - i) : m + j - 1 = i + j
    BY <1>1, <2>1
  <2>6. QED
    BY <2>2, <2>3, <2>4, <2>5
<1>10. PICK v : v = a \o << c >>
  OBVIOUS
<1>11. /\ v \in Seq(Cl!Stored) /\ Len(v) = i + 1
       /\ \A j \in 1 .. i : v[j] = a[j]
       /\ v[i + 1] = c
  <2>1. << c >> \in Seq(Cl!Stored) /\ Len(<< c >>) = 1 /\ << c >>[1] = c
    OBVIOUS
  <2>2. PICK o : o = << c >>
    OBVIOUS
  <2>3. /\ v \in Seq(Cl!Stored) /\ Len(v) = Len(a) + Len(o)
        /\ \A j \in 1 .. (Len(a) + Len(o)) : v[j] = IF j <= Len(a) THEN a[j] ELSE o[j - Len(a)]
    BY <1>8, <1>10, <2>1, <2>2, ConcatProperties
  <2>4. Len(v) = i + 1 /\ \A j \in 1 .. (i + 1) : v[j] = IF j <= i THEN a[j] ELSE o[j - i]
    BY <1>8, <2>1, <2>2, <2>3
  <2>5. (i + 1) - i = 1 /\ i + 1 \in 1 .. (i + 1) /\ ~(i + 1 <= i)
    BY <1>1
  <2>6. v[i + 1] = c
    BY <2>1, <2>2, <2>4, <2>5
  <2>7. \A j \in 1 .. i : v[j] = a[j]
    BY <1>1, <2>4
  <2>8. QED
    BY <2>3, <2>4, <2>6, <2>7
<1>12. PICK w : w = v \o e
  OBVIOUS
<1>13. /\ w \in Seq(Cl!Stored) /\ Len(w) = n + 1
       /\ \A j \in 1 .. (n + 1) : w[j] = IF j <= i + 1 THEN v[j] ELSE e[j - (i + 1)]
  <2>1. /\ w \in Seq(Cl!Stored) /\ Len(w) = Len(v) + Len(e)
        /\ \A j \in 1 .. (Len(v) + Len(e)) : w[j] = IF j <= Len(v) THEN v[j] ELSE e[j - Len(v)]
    BY <1>9, <1>11, <1>12, ConcatProperties
  <2>2. Len(v) + Len(e) = n + 1 /\ Len(v) = i + 1
    BY <1>1, <1>9, <1>11
  <2>3. QED
    BY <2>1, <2>2
<1>14. ASSUME NEW j \in 1 .. (n + 1) PROVE t[j] = w[j]
  <2>1. t[j] = u[j - 1] /\ j \in Nat
    BY <1>1, <1>5
  <2>2. CASE j <= i
    <3>1. j - 1 \in 0 .. (i - 1) /\ j \in 1 .. n /\ j \in 1 .. i /\ j <= i + 1
      BY <1>1, <2>2
    <3>2. u[j - 1] = text[j - 1] /\ w[j] = v[j] /\ v[j] = a[j] /\ a[j] = s[j]
      BY <1>1, <1>8, <1>11, <1>13, <3>1
    <3>3. QED
      BY <1>4, <2>1, <3>1, <3>2
  <2>3. CASE j = i + 1
    <3>1. j - 1 = i /\ j <= i + 1
      BY <1>1, <2>3
    <3>2. w[j] = v[j] /\ v[j] = c /\ u[j - 1] = c
      BY <1>1, <1>11, <1>13, <2>3, <3>1
    <3>3. QED
      BY <2>1, <3>2
  <2>4. CASE i + 1 < j
    <3>1. PICK p : p = j - (i + 1)
      OBVIOUS
    <3>2. j - 1 \in (i + 1) .. n /\ p \in 1 .. (n - i) /\ i + p = j - 1 /\ j - 1 \in 1 .. n
          /\ ~(j <= i + 1)
      BY <1>1, <2>1, <2>4, <3>1
    <3>3. PICK q : q = j - 1
      OBVIOUS
    <3>4. u[q] = text[q - 1] /\ s[q] = text[q - 1]
      BY <1>1, <1>4, <3>2, <3>3
    <3>5. w[j] = e[p] /\ e[p] = s[q]
      BY <1>9, <1>13, <3>1, <3>2, <3>3
    <3>6. QED
      BY <2>1, <3>3, <3>4, <3>5
  <2>5. QED
    BY <1>1, <2>1, <2>2, <2>3, <2>4
<1>15. t = w
  BY <1>5, <1>13, <1>14, SeqEqual
<1>16. QED
  BY <1>2, <1>3, <1>6, <1>7, <1>10, <1>12, <1>15
LEMMA ClErasedView ==
  ASSUME Cl!CliAssumption, NEW b, ClLined(b), b.index # 0
  PROVE  /\ Cl!Line(ClErased(b).text) =
              SubSeq(Cl!Line(b.text), 1, b.index - 1)
                \o SubSeq(Cl!Line(b.text), b.index + 1, Len(Cl!Line(b.text)))
         /\ Cl!Origin(ClErased(b).text) = Cl!Origin(b.text)
<1>1. PICK n : n = Cl!Length(b.text)
  OBVIOUS
<1>2. PICK i : i = b.index - 1
  OBVIOUS
<1>3. /\ ClWhole(b.text, n) /\ n \in 0 .. (BufSize - 2) /\ b.index \in 0 .. n
  BY <1>1, ClPartsOf
<1>4. i \in 0 .. n /\ i < n /\ i + 2 = b.index + 1
  BY <1>2, <1>3 DEF Cl!CliAssumption
<1>5. ClClosed(b.text, i, n, ClErased(b).text, Cl!Length(ClErased(b).text))
  BY <1>1, <1>2, ClErasedIs
<1>6. Cl!Line(ClErased(b).text) = SubSeq(Cl!Line(b.text), 1, i) \o SubSeq(Cl!Line(b.text), i + 2, n)
  BY <1>3, <1>4, <1>5, ClLineErased
<1>7. Len(Cl!Line(b.text)) = n
  BY <1>3, ClLineIs
<1>8. QED
  BY <1>2, <1>4, <1>5, <1>6, <1>7 DEF ClClosed, Cl!Origin

LEMMA ClAddedView ==
  ASSUME Cl!CliAssumption, NEW b, ClLined(b), Cl!Length(b.text) < BufSize - 2,
         NEW c \in Cl!Stored, c # Cl!Nul
  PROVE  /\ Cl!Line(ClAdded(b, c).text) =
              SubSeq(Cl!Line(b.text), 1, b.index) \o << c >>
                \o SubSeq(Cl!Line(b.text), b.index + 1, Len(Cl!Line(b.text)))
         /\ Cl!Origin(ClAdded(b, c).text) = Cl!Origin(b.text)
<1>1. PICK n : n = Cl!Length(b.text)
  OBVIOUS
<1>2. PICK i : i = b.index
  OBVIOUS
<1>3. ClWhole(b.text, n) /\ i \in 0 .. n
  BY <1>1, <1>2, ClPartsOf
<1>4. ClOpened(b.text, i, n, c, ClAdded(b, c).text)
  BY <1>1, <1>2, ClAddedIs
<1>5. Cl!Line(ClAdded(b, c).text) =
        SubSeq(Cl!Line(b.text), 1, i) \o << c >> \o SubSeq(Cl!Line(b.text), i + 1, n)
  BY <1>3, <1>4, ClLineOpened
<1>6. Len(Cl!Line(b.text)) = n
  BY <1>3, ClLineIs
<1>7. QED
  BY <1>2, <1>4, <1>5, <1>6 DEF ClOpened, Cl!Origin

LEMMA ClBrokenView ==
  ASSUME Cl!CliAssumption, NEW b, ClLined(b)
  PROVE  Cl!Line(ClBroken(b).text) = << Cl!Break >> /\ Cl!Origin(ClBroken(b).text) = Cl!Origin(b.text)
<1>1. PICK u : u = ClBroken(b).text
  OBVIOUS
<1>2. ClWhole(u, 1) /\ u[0] = Cl!Break
  BY <1>1, ClBrokenIs, ClPartsOf
<1>3. PICK s : s = Cl!Line(u)
  OBVIOUS
<1>4. s \in Seq(Cl!Stored) /\ Len(s) = 1 /\ \A i \in 1 .. 1 : s[i] = u[i - 1]
  BY <1>2, <1>3, ClLineIs
<1>5. s[1] = Cl!Break
  BY <1>2, <1>4
<1>6. << Cl!Break >> \in Seq(Cl!Stored) /\ Len(<< Cl!Break >>) = 1 /\ << Cl!Break >>[1] = Cl!Break
  BY DEF Cl!Stored
<1>7. \A i \in 1 .. Len(s) : s[i] = << Cl!Break >>[i]
  BY <1>4, <1>5, <1>6
<1>8. s = << Cl!Break >>
  BY <1>4, <1>6, <1>7, SeqEqual
<1>9. QED
  BY <1>1, <1>3, <1>8, ClBrokenIs DEF Cl!Origin

LEMMA ClTailOfPart ==
  ASSUME NEW S, NEW s \in Seq(S), NEW i \in Nat, i < Len(s)
  PROVE  Tail(SubSeq(s, i + 1, Len(s))) = SubSeq(s, i + 2, Len(s))
<1>1. PICK n \in Nat : n = Len(s)
  OBVIOUS
<1>2. PICK m \in Nat : m = i + 1
  OBVIOUS
<1>3. PICK p \in Nat : p = i + 2
  OBVIOUS
<1>4. m >= 1 /\ m <= n /\ p >= 1 /\ p <= n + 1 /\ n <= Len(s) /\ p = m + 1
  BY <1>1, <1>2, <1>3
<1>5. PICK e : e = SubSeq(s, m, n)
  OBVIOUS
<1>6. /\ e \in Seq(S) /\ Len(e) = n - m + 1
      /\ \A k \in 1 .. (n - m + 1) : e[k] = s[m + k - 1]
  <2>1. m <= n + 1
    BY <1>4
  <2>2. QED
    BY <1>4, <1>5, <2>1, ClPartIs
<1>7. PICK f : f = SubSeq(s, p, n)
  OBVIOUS
<1>8. /\ f \in Seq(S) /\ Len(f) = n - p + 1
      /\ \A k \in 1 .. (n - p + 1) : f[k] = s[p + k - 1]
  BY <1>4, <1>7, ClPartIs
<1>9. PICK t : t = Tail(e)
  OBVIOUS
<1>10. e # << >>
  BY <1>4, <1>6
<1>11. t \in Seq(S) /\ Len(t) = Len(e) - 1 /\ \A k \in 1 .. Len(t) : t[k] = e[k + 1]
  <2>1. /\ Tail(e) \in Seq(S) /\ Len(Tail(e)) = Len(e) - 1
        /\ \A k \in 1 .. Len(Tail(e)) : Tail(e)[k] = e[k + 1]
    BY <1>6, <1>10, HeadTailProperties
  <2>2. QED
    BY <1>9, <2>1
<1>12. Len(t) = Len(f) /\ Len(t) = n - m
  BY <1>4, <1>6, <1>8, <1>11
<1>13. ASSUME NEW k \in 1 .. Len(t) PROVE t[k] = f[k]
  <2>1. k + 1 \in 1 .. (n - m + 1) /\ k \in 1 .. (n - p + 1) /\ m + (k + 1) - 1 = p + k - 1
    BY <1>4, <1>12
  <2>2. QED
    BY <1>6, <1>8, <1>11, <2>1
<1>14. t = f
  BY <1>8, <1>11, <1>12, <1>13, SeqEqual
<1>15. QED
  BY <1>1, <1>2, <1>3, <1>5, <1>7, <1>9, <1>14

LEMMA ClCutView ==
  ASSUME Cl!CliAssumption, NEW b, ClLined(b), Cl!Closes(b.text, b.index)
  PROVE  /\ b.index < Len(Cl!Line(b.text)) =>
              Cl!Line(ClCut(b).text) =
                SubSeq(Cl!Line(b.text), 1, b.index)
                  \o Tail(SubSeq(Cl!Line(b.text), b.index + 1, Len(Cl!Line(b.text))))
         /\ ~(b.index < Len(Cl!Line(b.text))) =>
              SubSeq(Cl!Line(ClCut(b).text), 1, b.index) = Cl!Line(b.text)
         /\ Cl!Origin(ClCut(b).text) = Cl!Origin(b.text)
<1>1. PICK n : n = Cl!Length(b.text)
  OBVIOUS
<1>2. PICK i : i = b.index
  OBVIOUS
<1>3. ClWhole(b.text, n) /\ i \in 0 .. n /\ n \in Nat /\ i \in Nat
  BY <1>1, <1>2, ClPartsOf DEF Cl!CliAssumption
<1>4. PICK u : u = ClCut(b).text
  OBVIOUS
<1>5. PICK k : ClClosed(b.text, i, n, u, k)
  <2>1. ClClosed(b.text, b.index, Cl!Length(b.text), ClCut(b).text, Cl!Length(ClCut(b).text))
    BY ClCutIs
  <2>2. QED
    BY <1>1, <1>2, <1>4, <2>1
<1>6. PICK s : s = Cl!Line(b.text)
  OBVIOUS
<1>7. s \in Seq(Cl!Stored) /\ Len(s) = n
  BY <1>3, <1>6, ClLineIs
<1>8. Cl!Origin(ClCut(b).text) = Cl!Origin(b.text)
  BY <1>4, <1>5 DEF ClClosed, Cl!Origin
<1>9. CASE i < n
  <2>1. Cl!Line(u) = SubSeq(Cl!Line(b.text), 1, i) \o SubSeq(Cl!Line(b.text), i + 2, n)
    BY <1>3, <1>5, <1>9, ClLineErased
  <2>2. Tail(SubSeq(s, i + 1, Len(s))) = SubSeq(s, i + 2, Len(s))
    BY <1>3, <1>7, <1>9, ClTailOfPart
  <2>3. Cl!Line(u) = SubSeq(s, 1, i) \o Tail(SubSeq(s, i + 1, Len(s)))
    BY <1>6, <1>7, <2>1, <2>2
  <2>4. i < Len(s)
    BY <1>7, <1>9
  <2>5. QED
    BY <1>2, <1>4, <1>6, <1>8, <2>3, <2>4
<1>10. CASE i = n
  <2>1. SubSeq(Cl!Line(u), 1, n) = Cl!Line(b.text)
    <3>1. ClClosed(b.text, n, n, u, k)
      BY <1>5, <1>10
    <3>2. QED
      BY <1>3, <3>1, ClLineLeft
  <2>2. SubSeq(Cl!Line(u), 1, i) = s
    BY <1>6, <1>10, <2>1
  <2>3. ~(i < Len(s))
    BY <1>3, <1>7, <1>10
  <2>4. QED
    BY <1>2, <1>4, <1>6, <1>8, <2>2, <2>3
<1>11. i < n \/ i = n
  BY <1>3
<1>12. QED
  BY <1>9, <1>10, <1>11

LEMMA ClLinedView ==
  ASSUME Cl!CliAssumption, NEW b, ClLined(b)
  PROVE  /\ Cl!Line(b.text) \in Seq(Cl!Stored) /\ Len(Cl!Line(b.text)) = Cl!Length(b.text)
         /\ Cl!Line(b.text) = << >> <=> Cl!Length(b.text) = 0
<1>1. ClWhole(b.text, Cl!Length(b.text))
  BY ClPartsOf
<1>2. Cl!Line(b.text) \in Seq(Cl!Stored) /\ Len(Cl!Line(b.text)) = Cl!Length(b.text)
  BY <1>1, ClLineIs
<1>3. QED
  BY <1>2, EmptySeq

ClKeyOf(b) == IF b.mode = "received" THEN b.escape ELSE Cl!Nul

ClPastOf(h) ==
  [i \in 1 .. (Len(h) - 1) |->
     [line |-> Cl!Line(h[i + 1].text), origin |-> Cl!Origin(h[i + 1].text),
      mode |-> Cl!Mode(h[i + 1].mode)]]

LEMMA ClModeIs ==
  /\ Cl!Mode("received") = "key" /\ Cl!Mode("waiting") = "escape" /\ Cl!Mode("none") = "text"
  /\ \A m \in Cl!Modes : /\ Cl!Mode(m) \in {"text", "escape", "key"}
                         /\ Cl!Mode(m) = "key" <=> m = "received"
                         /\ Cl!Mode(m) = "escape" <=> m = "waiting"
  BY DEF Cl!Mode, Cl!Modes

ClPrintable == Plain \cup Cl!Letters \cup {Cl!Bracket}

LEMMA ClCharsApart ==
  ASSUME Cl!CliAssumption
  PROVE  /\ Cl!Nul \notin ClPrintable /\ Cl!Esc \notin ClPrintable /\ Cl!Enter \notin ClPrintable
         /\ Cl!Erase \notin ClPrintable /\ Cl!Break \notin ClPrintable /\ Cl!Ignored \notin ClPrintable
         /\ Cl!Nul \notin {Cl!Esc, Cl!Enter, Cl!Erase, Cl!Break}
         /\ Cl!Ignored \notin {Cl!Esc, Cl!Enter, Cl!Erase, Cl!Break}
         /\ Cl!Bracket \notin Cl!Letters \cup Plain
  BY DEF Cl!CliAssumption, ClPrintable, Cl!Letters, Cl!Bracket, Cl!Up, Cl!Down, Cl!Right,
         Cl!Left, Cl!Delete, Cl!Nul, Cl!Esc,
         Cl!Enter, Cl!Erase, Cl!Break, Cl!Ignored

ClRecords == [line : Seq(Cl!Stored), origin : {"cleared", "junk"}, mode : {"text", "escape", "key"}]

ClRec(b) ==
  [line |-> Cl!Line(b.text), origin |-> Cl!Origin(b.text), mode |-> Cl!Mode(b.mode)]

LEMMA ClRecordIs ==
  ASSUME Cl!CliAssumption, NEW b, ClLined(b)
  PROVE  /\ ClRec(b) \in ClRecords
         /\ ClRec(b).line = Cl!Line(b.text) /\ ClRec(b).mode = Cl!Mode(b.mode)
         /\ ClRec(b).origin = Cl!Origin(b.text)
<1>1. Cl!Line(b.text) \in Seq(Cl!Stored) /\ Cl!Mode(b.mode) \in {"text", "escape", "key"}
  BY ClLinedView, ClPartsOf, ClModeIs
<1>2. QED
  BY <1>1 DEF ClRec, ClRecords, Cl!Origin

LEMMA ClPastOfIs ==
  ASSUME Cl!CliAssumption, NEW h, NEW x, ClPast(h, x)
  PROVE  /\ ClPastOf(h) \in Seq(ClRecords) /\ Len(ClPastOf(h)) = Len(h) - 1
         /\ \A i \in 1 .. (Len(h) - 1) : ClPastOf(h)[i] = ClRec(h[i + 1])
<1>1. PICK n \in Nat : n = Len(h) - 1
  BY DEF ClPast
<1>2. ASSUME NEW i \in 1 .. n PROVE ClRec(h[i + 1]) \in ClRecords
  <2>1. PICK j \in 2 .. Len(h) : j = i + 1
    BY <1>1
  <2>2. ClLined(h[j])
    BY DEF ClPast, ClKept
  <2>3. QED
    BY <2>1, <2>2, ClRecordIs
<1>3. ClPastOf(h) = [i \in 1 .. n |-> ClRec(h[i + 1])]
  BY <1>1 DEF ClPastOf, ClRec
<1>4. PICK p : p = ClPastOf(h)
  OBVIOUS
<1>5. p \in Seq(ClRecords) /\ Len(p) = n /\ \A i \in 1 .. n : p[i] = ClRec(h[i + 1])
  BY <1>2, <1>3, <1>4
<1>6. QED
  BY <1>1, <1>4, <1>5

LEMMA ClInitRefines == ASSUME Cl!CliAssumption, Cl!Init PROVE Cl!H!Init
<1>1. cliCmd = Cl!Empty /\ cliHistory = << Cl!Empty >>
  BY DEF Cl!Init
<1>2. Cl!Line(Cl!Empty.text) = << >>
  BY ClEmptyLined, ClLinedView
<1>3. Cl!Empty.index = 0 /\ Cl!Empty.mode = "none" /\ Cl!Origin(Cl!Empty.text) = "cleared"
  BY DEF Cl!Empty, Cl!Origin, Cl!Places, Cl!CliAssumption
<1>4. ClPast(cliHistory, 0)
  BY <1>1, ClInitInv DEF ClInv, ClPastOk, ClPast, Cl!Init
<1>5. ClPastOf(cliHistory) = << >>
  <2>1. Len(cliHistory) = 1
    BY <1>1
  <2>2. ClPastOf(cliHistory) \in Seq(ClRecords) /\ Len(ClPastOf(cliHistory)) = 0
    BY <1>4, <2>1, ClPastOfIs
  <2>3. QED
    BY <2>2, EmptySeq
<1>6. QED
  BY <1>1, <1>2, <1>3, <1>5, ClModeIs DEF Cl!H!Init, ClPastOf, Cl!Init

LEMMA ClInterruptRefines ==
  ASSUME Cl!CliAssumption, ClInv,
         NEW c, Cl!HandleInterrupt(c)
  PROVE  Cl!H!Type(c)
<1>1. cliInput = Cl!Nul
  BY DEF Cl!HandleInterrupt, ClInv, ClInputOk
<1>2. QED
  BY <1>1 DEF Cl!H!Type, Cl!HandleInterrupt

(* What the last part of cli_loop and the next interrupt do not touch.     *)
LEMMA ClReceiveRefines ==
  ASSUME Cl!CliAssumption, ClInv, Cl!LoopReceive
  PROVE  Cl!H!Accept \/ UNCHANGED Cl!H!hvars
<1>1. ClLined(cliCmd) /\ ClInputOk
  BY DEF ClInv
<1>2. cliHistory' = cliHistory /\ cliIndex' = cliIndex /\ cliRan' = cliRan
  BY DEF Cl!LoopReceive
<1>3. CASE ~cliReceive
  BY <1>2, <1>3 DEF Cl!LoopReceive, Cl!H!hvars
<1>4. CASE cliReceive
  <2>1. Cl!CharReceive /\ cliInput' = Cl!Nul
    BY <1>4 DEF Cl!LoopReceive
  <2>2. ClAccepted(cliCmd, cliInput, cliCmd', cliComplete, cliComplete')
    BY <1>1, <2>1, ClCharReceiveIs DEF ClLined
  <2>3. cliCmd \in Cl!Buffers /\ cliCmd.mode \in Cl!Modes
    BY <1>1, ClPartsOf
  <2>4. CASE cliCmd' = cliCmd /\ cliComplete' = cliComplete
             /\ (cliInput \in {Cl!Nul, Cl!Ignored} \/ (cliInput = Cl!Bracket /\ cliCmd.mode = "waiting"))
    <3>1. cliInput \notin ClPrintable \cup {Cl!Esc, Cl!Enter, Cl!Break, Cl!Erase}
          \/ (cliInput = Cl!Bracket /\ Cl!Mode(cliCmd.mode) = "escape")
      BY <2>4, ClCharsApart, ClModeIs
    <3>2. QED
      BY <1>2, <2>1, <2>4, <3>1 DEF Cl!H!Accept, ClPrintable
  <2>5. CASE cliInput = Cl!Esc /\ cliCmd' = [cliCmd EXCEPT !.mode = "waiting"] /\ cliComplete' = cliComplete
    <3>1. cliCmd'.mode = "waiting" /\ cliCmd'.text = cliCmd.text /\ cliCmd'.index = cliCmd.index
      BY <2>3, <2>5 DEF Cl!Buffers
    <3>2. QED
      BY <1>2, <2>1, <2>5, <3>1, ClModeIs DEF Cl!H!Accept
  <2>6. CASE cliInput = Cl!Enter /\ cliCmd' = cliCmd /\ cliComplete' = TRUE
    BY <1>2, <2>1, <2>6 DEF Cl!H!Accept
  <2>7. CASE cliInput = Cl!Erase /\ cliCmd' = (IF cliCmd.index = 0 THEN cliCmd ELSE ClErased(cliCmd))
             /\ cliComplete' = cliComplete
    <3>1. CASE cliCmd.index = 0
      BY <1>2, <2>1, <2>7, <3>1 DEF Cl!H!Accept
    <3>2. CASE cliCmd.index # 0
      <4>1. cliCmd' = ClErased(cliCmd)
        BY <2>7, <3>2
      <4>2. ClErased(cliCmd).index = cliCmd.index - 1 /\ ClErased(cliCmd).mode = cliCmd.mode
            /\ ClErased(cliCmd).escape = cliCmd.escape
        BY <1>1, <3>2, ClErasedIs
      <4>3. /\ Cl!Origin(cliCmd'.text) = Cl!Origin(cliCmd.text)
            /\ Cl!Line(cliCmd'.text) = SubSeq(Cl!Line(cliCmd.text), 1, cliCmd.index - 1)
                                   \o SubSeq(Cl!Line(cliCmd.text), cliCmd.index + 1, Len(Cl!Line(cliCmd.text)))
        BY <1>1, <3>2, <4>1, ClErasedView
      <4>4. cliCmd'.index = cliCmd.index - 1 /\ cliCmd'.mode = cliCmd.mode /\ cliCmd'.escape = cliCmd.escape
        BY <4>1, <4>2
      <4>5. QED
        BY <1>2, <2>1, <2>7, <3>2, <4>3, <4>4 DEF Cl!H!Accept, Cl!H!After
    <3>3. QED
      BY <3>1, <3>2
  <2>8. CASE cliInput = Cl!Break /\ cliCmd' = ClBroken(cliCmd) /\ cliComplete' = TRUE
    <3>1. cliCmd'.index = 1 /\ cliCmd'.mode = cliCmd.mode /\ cliCmd'.escape = cliCmd.escape
      BY <1>1, <2>8, ClBrokenIs
    <3>2. Cl!Line(cliCmd'.text) = << Cl!Break >> /\ Cl!Origin(cliCmd'.text) = Cl!Origin(cliCmd.text)
      BY <1>1, <2>8, ClBrokenView
    <3>3. QED
      BY <1>2, <2>1, <2>8, <3>1, <3>2 DEF Cl!H!Accept
  <2>9. CASE cliInput \in ClPrintable \ {Cl!Bracket} /\ cliCmd.mode = "waiting" /\ cliComplete' = cliComplete
             /\ cliCmd' = [cliCmd EXCEPT !.mode = "received", !.escape = cliInput]
    <3>1. cliCmd'.mode = "received" /\ cliCmd'.escape = cliInput /\ cliCmd'.text = cliCmd.text
          /\ cliCmd'.index = cliCmd.index
      BY <2>3, <2>9 DEF Cl!Buffers
    <3>2. QED
      BY <1>2, <2>1, <2>9, <3>1, ClModeIs DEF Cl!H!Accept, ClPrintable
  <2>10. CASE cliInput \in ClPrintable /\ cliCmd.mode # "waiting" /\ cliComplete' = cliComplete
              /\ cliCmd' = ClAdded(cliCmd, cliInput)
    <3>1. cliInput \in Plain /\ Cl!Length(cliCmd.text) < BufSize - 2
      BY <1>1, <2>10 DEF ClInputOk, ClPrintable
    <3>2. cliInput \in Cl!Stored /\ cliInput # Cl!Nul
      BY <3>1, ClPlainIs
    <3>3. cliCmd'.index = cliCmd.index + 1 /\ cliCmd'.mode = cliCmd.mode /\ cliCmd'.escape = cliCmd.escape
      BY <1>1, <2>10, <3>1, <3>2, ClAddedIs
    <3>4. /\ Cl!Origin(cliCmd'.text) = Cl!Origin(cliCmd.text)
          /\ Cl!Line(cliCmd'.text) = SubSeq(Cl!Line(cliCmd.text), 1, cliCmd.index) \o << cliInput >>
                                 \o SubSeq(Cl!Line(cliCmd.text), cliCmd.index + 1, Len(Cl!Line(cliCmd.text)))
      BY <1>1, <2>10, <3>1, <3>2, ClAddedView
    <3>5. Cl!Mode(cliCmd.mode) # "escape"
      BY <2>3, <2>10, ClModeIs
    <3>6. QED
      BY <1>2, <2>1, <2>10, <3>3, <3>4, <3>5 DEF Cl!H!Accept, Cl!H!Before, Cl!H!After, ClPrintable
  <2>11. QED
    BY <2>2, <2>4, <2>5, <2>6, <2>7, <2>8, <2>9, <2>10 DEF ClAccepted, ClPrintable
<1>5. QED
  BY <1>3, <1>4
(* The entry before the others is not one that was entered.                *)
LEMMA ClRecallRefines ==
  ASSUME Cl!CliAssumption, ClPast(cliHistory, cliIndex), ClLined(cliCmd),
         NEW i \in 0 .. (Len(cliHistory) - 1),
         ClRecalled(i, cliCmd, cliHistory, cliIndex, cliCmd', cliIndex'), cliHistory' = cliHistory
  PROVE  Cl!H!Recall(i)
<1>1. Len(cliHistory) \in Nat /\ Len(cliHistory) >= 1
  BY DEF ClPast
<1>2. ClPast(cliHistory, cliIndex') /\ ClLined(cliCmd')
  <2>1. i \in Int
    OBVIOUS
  <2>2. QED
    BY <2>1, ClRecalledLined
<1>3. cliIndex' = i
  BY DEF ClRecalled
<1>4. cliCmd'.index = Len(Cl!Line(cliCmd'.text))
      /\ (i = 0 => Cl!Line(cliCmd'.text) = << >> /\ Cl!Mode(cliCmd'.mode) \in {"text", "escape", "key"})
      /\ (i # 0 => /\ Cl!Line(cliCmd'.text) = ClPastOf(cliHistory)[i].line
                   /\ Cl!Origin(cliCmd'.text) = ClPastOf(cliHistory)[i].origin
                   /\ Cl!Mode(cliCmd'.mode) = ClPastOf(cliHistory)[i].mode
                   /\ ClKeyOf(cliCmd') = Cl!Nul)
  <2>1. CASE i = 0
    <3>1. PICK j \in Junk : cliCmd' = Cl!Emptied(j)
      BY <2>1 DEF ClRecalled
    <3>2. j \in Cl!Buffers
      BY DEF Cl!CliAssumption
    <3>3. cliCmd'.index = 0 /\ Cl!Length(cliCmd'.text) = 0
      BY <3>1, <3>2, ClEmptiedIs
    <3>4. Cl!Line(cliCmd'.text) = << >> /\ Len(Cl!Line(cliCmd'.text)) = 0
      BY <1>2, <3>3, ClLinedView
    <3>5. Cl!Mode(cliCmd'.mode) \in {"text", "escape", "key"}
      BY <1>2, ClPartsOf, ClModeIs
    <3>6. QED
      BY <2>1, <3>3, <3>4, <3>5
  <2>2. CASE i # 0
    <3>1. i \in 1 .. (Len(cliHistory) - 1) /\ cliCmd' = cliHistory[i + 1]
      BY <1>1, <2>2 DEF ClRecalled
    <3>2. PICK b : b = cliHistory[i + 1]
      OBVIOUS
    <3>3. ClKept(b)
      <4>1. PICK k \in 2 .. Len(cliHistory) : k = i + 1
        BY <1>1, <3>1
      <4>2. QED
        BY <3>2, <4>1 DEF ClPast
    <3>4. ClLined(b) /\ b.index = Cl!Length(b.text) /\ b.mode # "received"
      BY <3>3 DEF ClKept
    <3>5. Len(Cl!Line(b.text)) = Cl!Length(b.text)
      BY <3>4, ClLinedView
    <3>6. ClPastOf(cliHistory)[i] = ClRec(b)
      BY <3>1, <3>2, ClPastOfIs
    <3>7. ClRec(b).line = Cl!Line(b.text) /\ ClRec(b).mode = Cl!Mode(b.mode)
          /\ ClRec(b).origin = Cl!Origin(b.text)
      BY <3>4, ClRecordIs
    <3>8. ClKeyOf(b) = Cl!Nul
      BY <3>4 DEF ClKeyOf
    <3>9. QED
      BY <2>2, <3>1, <3>2, <3>4, <3>5, <3>6, <3>7, <3>8
  <2>3. QED
    BY <2>1, <2>2
<1>5. Cl!Origin(cliCmd'.text) \in {"cleared", "junk"}
  BY DEF Cl!Origin
<1>6. QED
  BY <1>3, <1>4, <1>5 DEF Cl!H!Recall, ClPastOf, ClKeyOf

LEMMA ClEscapeRefines ==
  ASSUME Cl!CliAssumption, ClInv, cliCmd.mode = "received", Cl!LoopRest
  PROVE  Cl!H!Act
<1>1. ClLined(cliCmd) /\ ClPastOk
  BY DEF ClInv
<1>2. ClPast(cliHistory, cliIndex) /\ Len(cliHistory) \in Nat /\ Len(cliHistory) >= 1
      /\ cliIndex \in 0 .. (Len(cliHistory) - 1) /\ cliIndex \in Nat
  BY <1>1 DEF ClPastOk, ClPast
<1>3. /\ Cl!HandleEscape /\ cliInput' = cliInput /\ cliComplete' = cliComplete /\ cliHistory' = cliHistory
      /\ cliRan' = cliRan
  BY DEF Cl!LoopRest, Cl!HandleEscape
<1>4. ClHandled(cliCmd, cliHistory, cliIndex, cliCmd', cliIndex')
  BY <1>1, <1>2, <1>3, ClHandleEscapeIs DEF ClLined
<1>5. Cl!Mode(cliCmd.mode) = "key" /\ ClKeyOf(cliCmd) = cliCmd.escape
  BY ClModeIs DEF ClKeyOf
<1>6. Len(ClPastOf(cliHistory)) = Len(cliHistory) - 1
  BY <1>2, ClPastOfIs
<1>7. PICK p : p = ClPlainer(cliCmd)
  OBVIOUS
<1>8. ClLined(p) /\ p.index = cliCmd.index /\ p.text = cliCmd.text /\ p.mode = "none" /\ p.escape = Cl!Nul
  BY <1>1, <1>7, ClPlainerIs
<1>9. CASE cliCmd.escape = Cl!Up /\ ClRecalled(cliIndex + 1, cliCmd, cliHistory, cliIndex, cliCmd', cliIndex')
  <2>1. PICK i : i = cliIndex + 1
    OBVIOUS
  <2>2. CASE i \in 0 .. (Len(cliHistory) - 1)
    <3>1. Cl!H!Recall(i)
      BY <1>1, <1>2, <1>3, <1>9, <2>1, <2>2, ClRecallRefines
    <3>2. cliIndex < Len(cliHistory) - 1
      BY <1>2, <2>1, <2>2
    <3>3. QED
      BY <1>3, <1>5, <1>6, <1>9, <2>1, <3>1, <3>2 DEF Cl!H!Act, ClKeyOf, ClPastOf
  <2>3. CASE i \notin 0 .. (Len(cliHistory) - 1)
    <3>1. cliCmd' = p /\ cliIndex' = cliIndex
      BY <1>2, <1>7, <1>9, <2>1, <2>3 DEF ClRecalled
    <3>2. cliIndex = Len(cliHistory) - 1
      BY <1>2, <2>1, <2>3
    <3>3. /\ Cl!Line(cliCmd'.text) = Cl!Line(cliCmd.text) /\ cliCmd'.index = cliCmd.index
          /\ Cl!Mode(cliCmd'.mode) = "text" /\ ClKeyOf(cliCmd') = Cl!Nul
          /\ Cl!Origin(cliCmd'.text) = Cl!Origin(cliCmd.text)
      BY <1>8, <3>1, ClModeIs DEF ClKeyOf
    <3>4. QED
      BY <1>3, <1>5, <1>6, <1>9, <3>1, <3>2, <3>3 DEF Cl!H!Act, ClKeyOf, ClPastOf
  <2>4. QED
    BY <2>2, <2>3
<1>10. CASE /\ cliCmd.escape = Cl!Down
            /\ ClRecalled(cliIndex - 1, cliCmd, cliHistory, cliIndex, cliCmd', cliIndex')
  <2>1. PICK i : i = cliIndex - 1
    OBVIOUS
  <2>2. CASE i \in 0 .. (Len(cliHistory) - 1)
    <3>1. Cl!H!Recall(i)
      BY <1>1, <1>2, <1>3, <1>10, <2>1, <2>2, ClRecallRefines
    <3>2. cliIndex > 0
      BY <1>2, <2>1, <2>2
    <3>3. QED
      BY <1>3, <1>5, <1>6, <1>10, <2>1, <3>1, <3>2 DEF Cl!H!Act, ClKeyOf, ClPastOf
  <2>3. CASE i \notin 0 .. (Len(cliHistory) - 1)
    <3>1. cliCmd' = p /\ cliIndex' = cliIndex
      BY <1>2, <1>7, <1>10, <2>1, <2>3 DEF ClRecalled
    <3>2. cliIndex = 0
      BY <1>2, <2>1, <2>3
    <3>3. /\ Cl!Line(cliCmd'.text) = Cl!Line(cliCmd.text) /\ cliCmd'.index = cliCmd.index
          /\ Cl!Mode(cliCmd'.mode) = "text" /\ ClKeyOf(cliCmd') = Cl!Nul
          /\ Cl!Origin(cliCmd'.text) = Cl!Origin(cliCmd.text)
      BY <1>8, <3>1, ClModeIs DEF ClKeyOf
    <3>4. QED
      BY <1>3, <1>5, <1>6, <1>10, <3>1, <3>2, <3>3 DEF Cl!H!Act, ClKeyOf, ClPastOf
  <2>4. QED
    BY <2>2, <2>3
<1>11. CASE cliCmd.escape = Cl!Right /\ cliCmd' = Cl!Rightwards(p) /\ cliIndex' = cliIndex
  <2>1. /\ Cl!Line(cliCmd'.text) = Cl!Line(cliCmd.text)
        /\ cliCmd'.index = IF cliCmd.index = Len(Cl!Line(cliCmd.text)) THEN cliCmd.index ELSE cliCmd.index + 1
        /\ Cl!Mode(cliCmd'.mode) = "text" /\ ClKeyOf(cliCmd') = Cl!Nul
        /\ Cl!Origin(cliCmd'.text) = Cl!Origin(cliCmd.text)
    <3>1. /\ Cl!Rightwards(p).text = p.text /\ Cl!Rightwards(p).mode = p.mode
          /\ Cl!Rightwards(p).escape = p.escape
          /\ Cl!Rightwards(p).index = IF p.index = Cl!Length(p.text) THEN p.index ELSE p.index + 1
      BY <1>8, ClRightwardsIs
    <3>2. Len(Cl!Line(cliCmd.text)) = Cl!Length(cliCmd.text)
      BY <1>1, ClLinedView
    <3>3. QED
      BY <1>8, <1>11, <3>1, <3>2, ClModeIs DEF ClKeyOf
  <2>2. QED
    BY <1>3, <1>5, <1>11, <2>1 DEF Cl!H!Act, ClKeyOf, ClPastOf
<1>12. CASE cliCmd.escape = Cl!Left /\ cliCmd' = Cl!Leftwards(p) /\ cliIndex' = cliIndex
  <2>1. /\ Cl!Line(cliCmd'.text) = Cl!Line(cliCmd.text)
        /\ cliCmd'.index = IF cliCmd.index = 0 THEN 0 ELSE cliCmd.index - 1
        /\ Cl!Mode(cliCmd'.mode) = "text" /\ ClKeyOf(cliCmd') = Cl!Nul
        /\ Cl!Origin(cliCmd'.text) = Cl!Origin(cliCmd.text)
    <3>1. /\ Cl!Leftwards(p).text = p.text /\ Cl!Leftwards(p).mode = p.mode
          /\ Cl!Leftwards(p).escape = p.escape
          /\ Cl!Leftwards(p).index = IF p.index = 0 THEN 0 ELSE p.index - 1
      BY <1>8, ClLeftwardsIs
    <3>2. QED
      BY <1>8, <1>12, <3>1, ClModeIs DEF ClKeyOf
  <2>2. QED
    BY <1>3, <1>5, <1>12, <2>1 DEF Cl!H!Act, ClKeyOf, ClPastOf
<1>13. CASE /\ cliCmd.escape = Cl!Delete /\ Cl!Closes(cliCmd.text, cliCmd.index)
            /\ cliCmd' = ClCut(cliCmd) /\ cliIndex' = cliIndex
  <2>1. cliCmd'.index = cliCmd.index /\ Cl!Mode(cliCmd'.mode) = "text" /\ ClKeyOf(cliCmd') = Cl!Nul
    BY <1>1, <1>13, ClCutIs, ClModeIs DEF ClKeyOf
  <2>2. /\ cliCmd.index < Len(Cl!Line(cliCmd.text)) =>
             Cl!Line(cliCmd'.text) =
               SubSeq(Cl!Line(cliCmd.text), 1, cliCmd.index)
                 \o Tail(SubSeq(Cl!Line(cliCmd.text), cliCmd.index + 1, Len(Cl!Line(cliCmd.text))))
        /\ ~(cliCmd.index < Len(Cl!Line(cliCmd.text))) =>
             SubSeq(Cl!Line(cliCmd'.text), 1, cliCmd.index) = Cl!Line(cliCmd.text)
        /\ Cl!Origin(cliCmd'.text) = Cl!Origin(cliCmd.text)
    BY <1>1, <1>13, ClCutView
  <2>3. QED
    BY <1>3, <1>5, <1>13, <2>1, <2>2 DEF Cl!H!Act, Cl!H!Before, Cl!H!After, ClKeyOf, ClPastOf
<1>14. CASE cliCmd.escape \notin Cl!Letters /\ cliCmd' = p /\ cliIndex' = cliIndex
  <2>1. /\ Cl!Line(cliCmd'.text) = Cl!Line(cliCmd.text) /\ cliCmd'.index = cliCmd.index
        /\ Cl!Mode(cliCmd'.mode) = "text" /\ ClKeyOf(cliCmd') = Cl!Nul
        /\ Cl!Origin(cliCmd'.text) = Cl!Origin(cliCmd.text)
    BY <1>8, <1>14, ClModeIs DEF ClKeyOf
  <2>2. QED
    BY <1>3, <1>5, <1>14, <2>1 DEF Cl!H!Act, ClKeyOf, ClPastOf, Cl!Letters
<1>15. QED
  BY <1>4, <1>7, <1>9, <1>10, <1>11, <1>12, <1>13, <1>14 DEF ClHandled

LEMMA ClPastOfPut ==
  ASSUME Cl!CliAssumption, NEW b, ClLined(b), b.mode # "received", NEW h, NEW x, ClPast(h, x), NEW g,
         g = << Cl!Empty, ClCleaned(b) >> \o Tail(h)
  PROVE  ClPastOf(g) = << ClRec(b) >> \o ClPastOf(h)
<1>0. Len(h) \in Nat /\ Len(h) >= 1
  BY DEF ClPast
<1>1. PICK n \in Nat : n = Len(h) - 1
  <2>1. Len(h) - 1 \in Nat
    BY <1>0
  <2>2. QED
    BY <2>1
<1>2. ClPast(g, 0)
  BY ClSavedPast
<1>3. h \in Seq(Cl!Buffers) /\ Len(h) >= 1 /\ Cl!Empty \in Cl!Buffers
  BY ClEmptyLined DEF ClPast, ClLined
<1>4. PICK c : c = ClCleaned(b)
  OBVIOUS
<1>5. ClLined(c) /\ c \in Cl!Buffers /\ c.text = b.text /\ c.mode = b.mode
  BY <1>4, ClCleanedIs DEF ClLined
<1>6. Len(g) = n + 2 /\ g[2] = c /\ \A i \in 3 .. (n + 2) : g[i] = h[i - 1]
  <2>1. /\ Len(g) = Len(h) + 1 /\ g[2] = c
        /\ \A i \in 3 .. Len(g) : g[i] = h[i - 1]
    BY <1>3, <1>4, <1>5, ClPutIs
  <2>2. Len(h) + 1 = n + 2
    BY <1>1, <1>3
  <2>3. QED
    BY <2>1, <2>2
<1>7. PICK r : r = ClRec(b)
  OBVIOUS
<1>8. PICK o : o = << r >>
  OBVIOUS
<1>9. o \in Seq(ClRecords) /\ Len(o) = 1 /\ o[1] = r
  BY <1>7, <1>8, ClRecordIs
<1>10. PICK p : p = ClPastOf(h)
  OBVIOUS
<1>11. p \in Seq(ClRecords) /\ Len(p) = n /\ \A i \in 1 .. n : p[i] = ClRec(h[i + 1])
  BY <1>1, <1>10, ClPastOfIs
<1>12. PICK q : q = ClPastOf(g)
  OBVIOUS
<1>13. q \in Seq(ClRecords) /\ Len(q) = n + 1
       /\ \A i \in 1 .. (n + 1) : q[i] = ClRec(g[i + 1])
  <2>1. Len(g) - 1 = n + 1
    BY <1>6
  <2>2. QED
    BY <1>2, <1>12, <2>1, ClPastOfIs
<1>14. PICK w : w = o \o p
  OBVIOUS
<1>15. /\ w \in Seq(ClRecords) /\ Len(w) = n + 1
       /\ \A i \in 1 .. (n + 1) : w[i] = IF i <= 1 THEN o[i] ELSE p[i - 1]
  <2>1. /\ w \in Seq(ClRecords) /\ Len(w) = Len(o) + Len(p)
        /\ \A i \in 1 .. (Len(o) + Len(p)) : w[i] = IF i <= Len(o) THEN o[i] ELSE p[i - Len(o)]
    BY <1>9, <1>11, <1>14, ConcatProperties
  <2>2. Len(o) + Len(p) = n + 1 /\ Len(o) = 1
    BY <1>9, <1>11
  <2>3. QED
    BY <2>1, <2>2
<1>16. ASSUME NEW i \in 1 .. (n + 1) PROVE q[i] = w[i]
  <2>1. CASE i = 1
    <3>1. q[i] = ClRec(c)
      <4>1. i + 1 = 2
        BY <2>1
      <4>2. QED
        BY <1>6, <1>13, <4>1
    <3>2. ClRec(c) = r
      BY <1>5, <1>7 DEF ClRec
    <3>3. w[i] = r
      BY <1>9, <1>15, <2>1
    <3>4. QED
      BY <3>1, <3>2, <3>3
  <2>2. CASE i # 1
    <3>1. PICK k : k = i + 1
      OBVIOUS
    <3>2. k \in 3 .. (n + 2) /\ k - 1 = i /\ i - 1 \in 1 .. n /\ ~(i <= 1) /\ (i - 1) + 1 = i
      BY <2>2, <3>1
    <3>3. q[i] = ClRec(h[i])
      BY <1>6, <1>13, <3>1, <3>2
    <3>4. w[i] = ClRec(h[i])
      BY <1>11, <1>15, <3>2
    <3>5. QED
      BY <3>3, <3>4
  <2>3. QED
    BY <2>1, <2>2
<1>17. q = w
  BY <1>13, <1>15, <1>16, SeqEqual
<1>18. QED
  BY <1>7, <1>8, <1>10, <1>12, <1>14, <1>17

LEMMA ClRunRefines ==
  ASSUME Cl!CliAssumption, ClInv, cliCmd.mode # "received", cliComplete, Cl!LoopRest
  PROVE  Cl!H!Run
<1>1. ClLined(cliCmd) /\ ClPastOk /\ cliComplete = TRUE
  BY DEF ClInv
<1>2. ClPast(cliHistory, cliIndex) /\ Len(cliHistory) \in Nat /\ Len(cliHistory) >= 1
  BY <1>1 DEF ClPastOk, ClPast
<1>3. Cl!Completed /\ cliInput' = cliInput
  BY DEF Cl!LoopRest
<1>4. /\ cliCmd' = Cl!Emptied(ClAsked(cliCmd)) /\ cliComplete' = FALSE /\ cliIndex' = 0
      /\ cliRan' = Cl!Line(ClAsked(cliCmd).text)
      /\ cliHistory' = ClEntered(cliCmd, cliHistory)
  BY <1>1, <1>3, ClCompletedIs
<1>5. PICK a : a = ClAsked(cliCmd)
  OBVIOUS
<1>6. /\ a \in Cl!Buffers /\ a.text[BufSize - 1] = cliCmd.text[BufSize - 1]
      /\ a.mode = cliCmd.mode /\ a.escape = cliCmd.escape
      /\ Cl!Length(cliCmd.text) # 0 => a.text = cliCmd.text
      /\ Cl!Length(cliCmd.text) = 0 => ClWhole(a.text, 1) /\ a.text[0] = "?"
  BY <1>1, <1>5, ClAskedIs
<1>7. ClLined(cliCmd') /\ cliCmd'.index = 0 /\ cliCmd'.mode = cliCmd.mode /\ cliCmd'.escape = cliCmd.escape
      /\ Cl!Length(cliCmd'.text) = 0 /\ cliCmd'.text[BufSize - 1] = cliCmd.text[BufSize - 1]
  BY <1>4, <1>5, <1>6, ClEmptiedIs
<1>8. Cl!Line(cliCmd'.text) = << >>
  BY <1>7, ClLinedView
<1>9. Cl!Length(cliCmd.text) \in Nat /\ cliCmd.mode \in Cl!Modes
  BY <1>1, ClPartsOf DEF Cl!CliAssumption
<1>10. Cl!Line(cliCmd.text) = << >> <=> Cl!Length(cliCmd.text) = 0
  BY <1>1, ClLinedView
<1>11. cliRan' = IF Cl!Line(cliCmd.text) = << >> THEN << "?" >> ELSE Cl!Line(cliCmd.text)
  <2>1. CASE Cl!Length(cliCmd.text) = 0
    <3>1. PICK u : u = a.text
      OBVIOUS
    <3>2. ClWhole(u, 1) /\ u[0] = "?"
      BY <1>6, <2>1, <3>1
    <3>3. PICK s : s = Cl!Line(u)
      OBVIOUS
    <3>4. s \in Seq(Cl!Stored) /\ Len(s) = 1 /\ \A i \in 1 .. 1 : s[i] = u[i - 1]
      BY <3>2, <3>3, ClLineIs
    <3>5. s[1] = "?"
      BY <3>2, <3>4
    <3>6. << "?" >> \in Seq(Cl!Stored) /\ Len(<< "?" >>) = 1 /\ << "?" >>[1] = "?"
      BY DEF Cl!Stored
    <3>7. \A i \in 1 .. Len(s) : s[i] = << "?" >>[i]
      BY <3>4, <3>5, <3>6
    <3>8. s = << "?" >>
      BY <3>4, <3>6, <3>7, SeqEqual
    <3>9. QED
      BY <1>4, <1>5, <1>10, <2>1, <3>1, <3>3, <3>8
  <2>2. CASE Cl!Length(cliCmd.text) # 0
    BY <1>4, <1>5, <1>6, <1>10, <2>2
  <2>3. QED
    BY <2>1, <2>2
<1>12. /\ ClPastOf(cliHistory) \in Seq(ClRecords) /\ Len(ClPastOf(cliHistory)) = Len(cliHistory) - 1
       /\ \A i \in 1 .. (Len(cliHistory) - 1) : ClPastOf(cliHistory)[i] = ClRec(cliHistory[i + 1])
  BY <1>2, ClPastOfIs
<1>13. ClPastOf(cliHistory) # << >> <=> Len(cliHistory) > 1
  BY <1>2, <1>12, EmptySeq
<1>14. Len(cliHistory) > 1 => ClPastOf(cliHistory)[1].line = Cl!Line(cliHistory[2].text)
  <2>1. SUFFICES ASSUME Len(cliHistory) > 1 PROVE ClPastOf(cliHistory)[1].line = Cl!Line(cliHistory[2].text)
    OBVIOUS
  <2>2. PICK b : b = cliHistory[2]
    OBVIOUS
  <2>3. ClLined(b)
    BY <1>2, <2>1, <2>2 DEF ClPast, ClKept
  <2>4. 1 \in 1 .. (Len(cliHistory) - 1) /\ 1 + 1 = 2
    BY <1>2, <2>1
  <2>5. ClPastOf(cliHistory)[1] = ClRec(b)
    BY <1>12, <2>2, <2>4
  <2>6. QED
    BY <2>2, <2>3, <2>5, ClRecordIs
<1>15. ClPastOf(cliHistory') =
         IF Cl!Line(cliCmd.text) = << >>
            \/ (ClPastOf(cliHistory) # << >> /\ ClPastOf(cliHistory)[1].line = Cl!Line(cliCmd.text))
         THEN ClPastOf(cliHistory)
         ELSE << ClRec(cliCmd) >> \o ClPastOf(cliHistory)
  <2>1. CASE Cl!Line(cliCmd.text) = << >>
             \/ (ClPastOf(cliHistory) # << >> /\ ClPastOf(cliHistory)[1].line = Cl!Line(cliCmd.text))
    <3>1. cliHistory' = cliHistory
      BY <1>4, <1>9, <1>10, <1>13, <1>14, <2>1 DEF ClEntered
    <3>2. QED
      BY <2>1, <3>1
  <2>2. CASE ~(Cl!Line(cliCmd.text) = << >>
               \/ (ClPastOf(cliHistory) # << >> /\ ClPastOf(cliHistory)[1].line = Cl!Line(cliCmd.text)))
    <3>1. cliHistory' = << Cl!Empty, ClCleaned(cliCmd) >> \o Tail(cliHistory)
      BY <1>4, <1>9, <1>10, <1>13, <1>14, <2>2 DEF ClEntered
    <3>2. ClPastOf(cliHistory') = << ClRec(cliCmd) >> \o ClPastOf(cliHistory)
      BY <1>1, <1>2, <3>1, ClPastOfPut
    <3>3. QED
      BY <2>2, <3>2
  <2>3. QED
    BY <2>1, <2>2
<1>16. /\ Cl!Mode(cliCmd.mode) # "key" /\ ClKeyOf(cliCmd') = ClKeyOf(cliCmd)
       /\ Cl!Origin(cliCmd'.text) = Cl!Origin(cliCmd.text)
  BY <1>7, <1>9, ClModeIs DEF ClKeyOf, Cl!Origin
<1>17. QED
  BY <1>1, <1>3, <1>4, <1>7, <1>8, <1>11, <1>15, <1>16 DEF Cl!H!Run, ClKeyOf, ClPastOf, ClRec

(* A program is lost only where all that is behind its line is junk.       *)
LEMMA ClLostRefines ==
  ASSUME Cl!CliAssumption, ClInv, Cl!LoopLost
  PROVE  Cl!H!Lose
<1>1. PICK i : i = cliCmd.index
  OBVIOUS
<1>2. PICK n : n = Cl!Length(cliCmd.text)
  OBVIOUS
<1>3. /\ ClLined(cliCmd) /\ cliCmd.mode = "received" /\ cliCmd.escape = Cl!Delete
      /\ ~Cl!Closes(cliCmd.text, i)
  BY <1>1 DEF ClInv, Cl!LoopLost
<1>4. ClWhole(cliCmd.text, n) /\ i \in 0 .. n
  BY <1>1, <1>2, <1>3, ClPartsOf
<1>5. n \in Nat /\ n <= BufSize - 2 /\ BufSize \in Nat /\ cliCmd.text[n] = Cl!Nul
  BY <1>4 DEF ClWhole, Cl!CliAssumption
<1>6. i = n
  <2>1. SUFFICES ASSUME i # n PROVE FALSE
    OBVIOUS
  <2>2. n \in (i + 1) .. (BufSize - 1)
    BY <1>4, <1>5, <2>1
  <2>3. QED
    BY <1>3, <1>5, <2>2 DEF Cl!Closes
<1>7. Cl!Origin(cliCmd.text) = "junk"
  <2>1. BufSize - 1 \in (i + 1) .. (BufSize - 1)
    BY <1>4, <1>5
  <2>2. QED
    BY <1>3, <2>1 DEF Cl!Closes, Cl!Origin
<1>8. Len(Cl!Line(cliCmd.text)) = n
  BY <1>4, ClLineIs
<1>9. QED
  BY <1>1, <1>3, <1>6, <1>7, <1>8, ClModeIs DEF Cl!H!Lose, Cl!LoopLost

LEMMA ClStepRefines ==
  ASSUME Cl!CliAssumption, ClInv, [Cl!Next]_(Cl!vars)
  PROVE  [Cl!H!Next]_(Cl!H!hvars)
<1>1. CASE UNCHANGED Cl!vars
  BY <1>1 DEF Cl!vars, Cl!H!hvars
<1>2. CASE Cl!LoopRest
  <2>1. cliPc = "rest" /\ cliPc' = "receive"
    BY <1>2 DEF Cl!LoopRest
  <2>2. CASE cliCmd.mode = "received"
    BY <1>2, <2>1, <2>2, ClEscapeRefines DEF Cl!H!Next
  <2>3. CASE cliCmd.mode # "received" /\ cliComplete
    BY <1>2, <2>1, <2>3, ClRunRefines DEF Cl!H!Next
  <2>4. CASE cliCmd.mode # "received" /\ ~cliComplete
    BY <1>2, <2>4 DEF Cl!LoopRest, Cl!H!hvars
  <2>5. QED
    BY <2>2, <2>3, <2>4
<1>3. CASE Cl!LoopReceive
  <2>1. cliPc = "receive" /\ cliPc' = "rest"
    BY <1>3 DEF Cl!LoopReceive
  <2>2. QED
    BY <1>3, <2>1, ClReceiveRefines DEF Cl!H!Next
<1>4. CASE Cl!LoopLost
  <2>1. cliPc = "rest"
    BY <1>4 DEF Cl!LoopLost
  <2>2. QED
    BY <1>4, <2>1, ClLostRefines DEF Cl!H!Next
<1>5. ASSUME NEW c \in Plain \cup Cl!Letters \cup {Cl!Bracket, Cl!Esc, Cl!Enter, Cl!Erase, Cl!Break,
                                                  Cl!Ignored},
             Cl!HandleInterrupt(c)
      PROVE  Cl!H!Next
  <2>1. cliPc = "receive" /\ cliPc' = cliPc
    BY <1>5 DEF Cl!HandleInterrupt
  <2>2. Cl!H!Type(c)
    BY <1>5, ClInterruptRefines
  <2>3. QED
    BY <2>1, <2>2 DEF Cl!H!Next
<1>6. QED
  BY <1>1, <1>2, <1>3, <1>4, <1>5 DEF Cl!Next, Cl!Lost

-----------------------------------------------------------------------------
(* The seven libraries beside each other.  A step of the whole is a step   *)
(* of one library, or of none, as the others see it.                       *)

LEMMA StepOfLibrary ==
  ASSUME [Next]_vars
  PROVE  /\ library' = library
         /\ [Can!Next]_(Can!vars) /\ [Gen!Next]_(Gen!vars)
         /\ [Pq!Next]_(Pq!vars) /\ [Ll!Next]_(Ll!vars)
         /\ [Heap!Next]_(Heap!vars) /\ [Led!Next]_(Led!vars)
         /\ [Cl!Next]_(Cl!vars)
<1>1. library' = library
  BY DEF Next, vars
<1>2. [Can!Next]_(Can!vars)
  BY DEF Next, vars, canVars, Can!vars
<1>3. [Gen!Next]_(Gen!vars)
  BY DEF Next, vars, genVars, Gen!vars
<1>4. [Pq!Next]_(Pq!vars)
  BY DEF Next, vars, pqVars, Pq!vars
<1>5. [Led!Next]_(Led!vars)
  BY DEF Next, vars, ledVars, Led!vars, Led!handler
<1>6. [Ll!Next]_(Ll!vars)
  BY DEF Next, vars, llVars, Ll!vars, Ll!links
<1>7. [Heap!Next]_(Heap!vars)
  BY DEF Next, vars, heapVars, Heap!vars
<1>8. [Cl!Next]_(Cl!vars)
  BY DEF Next, vars, cliVars, Cl!vars
<1>9. QED
  BY <1>1, <1>2, <1>3, <1>4, <1>5, <1>6, <1>7, <1>8

(* What every library keeps, whichever is chosen; the led begins as a led  *)
(* only where it is the one.                                               *)
Kept ==
  /\ library \in {"can", "generic", "priority", "list", "heap", "led", "cli"}
  /\ Can!Inv /\ GenInv /\ PqInv /\ LlInv /\ HpInv /\ ClInv
  /\ library = "led" => LedInv

LEMMA KeptInit == ASSUME Init PROVE Kept
<1>1. Can!Inv
  BY Assumptions, CanInitInv DEF Init
<1>2. GenInv
  BY Assumptions, GenInitInv DEF Init
<1>3. PqInv
  BY Assumptions, PqInitInv DEF Init
<1>4. library = "led" => LedInv
  BY Assumptions, LedInitInv DEF Init
<1>5. LlInv
  BY Assumptions, LlInitInv DEF Init
<1>6. HpInv
  BY Assumptions, HpInitInv DEF Init
<1>7. ClInv
  BY Assumptions, ClInitInv DEF Init
<1>8. QED
  BY <1>1, <1>2, <1>3, <1>4, <1>5, <1>6, <1>7 DEF Kept, Init

LEMMA KeptStep == ASSUME Kept, [Next]_vars PROVE Kept'
<1>1. Can!Inv'
  BY Assumptions, StepOfLibrary, CanInductiveStep DEF Kept
<1>2. GenInv'
  BY Assumptions, StepOfLibrary, GenInductiveStep DEF Kept
<1>3. PqInv'
  BY Assumptions, StepOfLibrary, PqInvStep DEF Kept
<1>4. (library = "led" => LedInv)'
  BY Assumptions, StepOfLibrary, LedInvStep DEF Kept
<1>5. LlInv'
  BY Assumptions, StepOfLibrary, LlInvStep DEF Kept
<1>6. HpInv'
  BY Assumptions, StepOfLibrary, HpInvStep DEF Kept
<1>7. ClInv'
  BY Assumptions, StepOfLibrary, ClInvStep DEF Kept
<1>8. QED
  BY <1>1, <1>2, <1>3, <1>4, <1>5, <1>6, <1>7, StepOfLibrary DEF Kept

(* The inductive invariants of all libraries hold in every behaviour.      *)
THEOREM LibrariesKept == Spec => []Kept
<1>1. Init => Kept
  BY KeptInit
<1>2. Kept /\ [Next]_vars => Kept'
  BY KeptStep
<1>3. QED
  BY <1>1, <1>2, PTL DEF Spec

(* MemoryKept: however a library is used, its indices, counts and cursors  *)
(* stay inside its memory, no node of its pool or of its list is lost or   *)
(* used twice, and what is between its indices is whole.                   *)
THEOREM NoMemoryLost == Spec => []MemoryKept
<1>1. Kept => MemoryKept
  <2>1. SUFFICES ASSUME Kept PROVE MemoryKept
    OBVIOUS
  <2>2. Can!Inv /\ Gen!TypeOK /\ (library = "led" => Led!TypeOK)
    BY <2>1 DEF Kept, GenInv, LedInv
  <2>3. Pq!TypeOK /\ Pq!PoolKept
    BY <2>1, Assumptions, PqInvMeans DEF Kept
  <2>4. Ll!TypeOK /\ Ll!LinksCoherent
    BY <2>1, Assumptions, LlInvMeans DEF Kept
  <2>5. Heap!TypeOK /\ Cl!TypeOK
    BY <2>1, Assumptions, HpInvMeans, ClInvMeans DEF Kept
  <2>6. library \in {"can", "generic", "priority", "list", "heap", "led", "cli"}
    BY <2>1 DEF Kept
  <2>7. QED
    BY <2>2, <2>3, <2>4, <2>5, <2>6 DEF MemoryKept
<1>2. QED
  BY <1>1, LibrariesKept, PTL

(* WaitBounded: ageing subtracts from a priority at most once for every    *)
(* entry that was in the queue before it, so that nobody waits for ever    *)
(* and no two priorities are ever as far apart as the comparison turns.    *)
THEOREM NobodyOvertakenForever == Spec => []WaitBounded
<1>1. Kept => WaitBounded
  BY Assumptions, PqInvMeans DEF Kept, WaitBounded
<1>2. QED
  BY <1>1, LibrariesKept, PTL

(* CanFifoImplementsDeque: without any lock, and whatever the order of the *)
(* statements of its two sides, a push and a pop each take effect at one   *)
(* instant between their call and their return.                            *)
THEOREM CanFifoLinearizable == Spec => CanFifoImplementsDeque
<1>1. Init => Can!D!Init
  BY Assumptions, CanInitRefines DEF Init
<1>2. Kept /\ Kept' /\ [Next]_vars
        => [library = "can" => Can!D!Next]_<<library, Can!D!dvars>>
  BY Assumptions, StepOfLibrary, CanStepRefines DEF Kept
<1>3. Spec => Can!D!Init /\ [][library = "can" => Can!D!Next]_<<library, Can!D!dvars>>
  BY <1>1, <1>2, LibrariesKept, PTL DEF Spec
<1>4. QED
  BY <1>3 DEF CanFifoImplementsDeque

(* GenericImplementsQueue: elements come out in the order they went in, as *)
(* many as fit whole into the memory.                                      *)
THEOREM GenericInOrder == Spec => GenericImplementsQueue
<1>1. Init => Gen!R!Init
  BY Assumptions, GenInitRefines DEF Init
<1>2. Kept /\ Kept' /\ [Next]_vars
        => [library = "generic" => Gen!R!Next]_<<library, Gen!R!qvars>>
  BY Assumptions, StepOfLibrary, GenStepRefines DEF Kept
<1>3. Spec => Gen!R!Init
              /\ [][library = "generic" => Gen!R!Next]_<<library, Gen!R!qvars>>
  BY <1>1, <1>2, LibrariesKept, PTL DEF Spec
<1>4. QED
  BY <1>3 DEF GenericImplementsQueue

(* PriorityImplementsRanks: the linked list over the pool, with priorities *)
(* that wrap around below zero, serves a least rank first and the older of *)
(* two equals.                                                             *)
THEOREM PriorityInOrder == Spec => PriorityImplementsRanks
<1>1. Init => Pq!R!Init
  BY Assumptions, PqInitRefines DEF Init
<1>2. Kept /\ Kept' /\ [Next]_vars
        => [library = "priority" => Pq!R!Next]_<<library, Pq!R!qvars>>
  BY Assumptions, StepOfLibrary, PqStepRefines DEF Kept
<1>3. Spec => Pq!R!Init
              /\ [][library = "priority" => Pq!R!Next]_<<library, Pq!R!qvars>>
  BY <1>1, <1>2, LibrariesKept, PTL DEF Spec
<1>4. QED
  BY <1>3 DEF PriorityImplementsRanks

(* ListImplementsSequence: whichever end an operation walks from, and      *)
(* whichever links it changes, it does to the sequence of the items what   *)
(* it says; memory runs out only when all of it holds items.               *)
THEOREM ListInOrder == Spec => ListImplementsSequence
<1>1. Init => Ll!L!Init
  BY Assumptions, LlInitRefines DEF Init
<1>2. Kept /\ Kept' /\ [Next]_vars
        => [library = "list" => Ll!L!Next]_<<library, Ll!L!ivars>>
  BY Assumptions, StepOfLibrary, LlStepRefines DEF Kept
<1>3. Spec => Ll!L!Init
              /\ [][library = "list" => Ll!L!Next]_<<library, Ll!L!ivars>>
  BY <1>1, <1>2, LibrariesKept, PTL DEF Spec
<1>4. QED
  BY <1>3 DEF ListImplementsSequence

(* HeapImplementsBag: an entry goes in and comes out whole, and whatever   *)
(* was pushed and popped before, the one on top is preceded by no other;   *)
(* the swaps in between change nothing of what the heap holds.             *)
THEOREM HeapServesBest == Spec => HeapImplementsBag
<1>1. Init => Heap!B!Init
  BY Assumptions, HpInitRefines DEF Init
<1>2. Kept /\ Kept' /\ [Next]_vars
        => [library = "heap" => Heap!B!Next]_<<library, Heap!B!bvars>>
  BY Assumptions, StepOfLibrary, HpStepRefines DEF Kept
<1>3. Spec => Heap!B!Init
              /\ [][library = "heap" => Heap!B!Next]_<<library, Heap!B!bvars>>
  BY <1>1, <1>2, LibrariesKept, PTL DEF Spec
<1>4. QED
  BY <1>3 DEF HeapImplementsBag

(* BlinkyImplementsSchedule: the led goes through its pattern in real      *)
(* time, whenever it is polled in time and although the tick wraps around. *)
THEOREM BlinkyInTime == Spec => BlinkyImplementsSchedule
<1>1. Kept /\ Kept' /\ [Next]_vars
        => [library = "led" => Led!S!Next]_<<library, Led!S!lampVars>>
  <2>1. ASSUME Kept, Kept', [Next]_vars
        PROVE  [library = "led" => Led!S!Next]_<<library, Led!S!lampVars>>
    <3>1. library' = library /\ [Led!Next]_(Led!vars)
      BY <2>1, StepOfLibrary
    <3>2. CASE library = "led"
      BY <2>1, <3>1, <3>2, Assumptions, LedStepRefines DEF Kept
    <3>3. CASE library # "led"
      BY <3>3
    <3>4. QED
      BY <3>2, <3>3
  <2>2. QED
    BY <2>1
<1>2. Spec => [][library = "led" => Led!S!Next]_<<library, Led!S!lampVars>>
  BY <1>1, LibrariesKept, PTL DEF Spec
<1>3. QED
  BY <1>2 DEF BlinkyImplementsSchedule

(* CliImplementsHistory: whatever malloc and older lines left in an array,  *)
(* every key does to the line and to the history what it says, and an      *)
(* entry recalled is the line that was entered.  The one way out is a      *)
(* deletion at the end of the line where it goes back to malloc's memory.  *)
THEOREM CliRecallsLines == Spec => CliImplementsHistory
<1>1. Init => Cl!H!Init
  BY Assumptions, ClInitRefines DEF Init
<1>2. Kept /\ Kept' /\ [Next]_vars
        => [library = "cli" => Cl!H!Next]_<<library, Cl!H!hvars>>
  BY Assumptions, StepOfLibrary, ClStepRefines DEF Kept
<1>3. Spec => Cl!H!Init
              /\ [][library = "cli" => Cl!H!Next]_<<library, Cl!H!hvars>>
  BY <1>1, <1>2, LibrariesKept, PTL DEF Spec
<1>4. QED
  BY <1>3 DEF CliImplementsHistory
=============================================================================
