------------------------- MODULE EepromConfigProofs -------------------------
(***************************************************************************)
(* What holds of EepromConfig for every geometry of the chip, every layout *)
(* of the configuration and every set of versions: the inductive invariant *)
(* Inv, and that the two libraries implement ConfigStore.                  *)
(***************************************************************************)
EXTENDS EepromConfig, SequenceTheorems, TLAPS

-----------------------------------------------------------------------------
(* Pages: quotients and remainders by a page size.                         *)

LEMMA Products ==
  ASSUME NEW d \in Nat \ {0}, NEW a \in Int, NEW b \in Int
  PROVE  /\ d * a \in Int /\ d * (a + b) = d * a + d * b
         /\ d * (a - b) = d * a - d * b
         /\ a < b => d * a + d <= d * b
<1>1. d * a \in Int /\ d * (a + b) = d * a + d * b /\ d * (a - b) = d * a - d * b
  OBVIOUS
<1>2. ASSUME a < b PROVE d * a + d <= d * b
  <2>1. PICK k \in Nat : b = a + 1 + k
    BY <1>2, b - a - 1 \in Nat, b = a + 1 + (b - a - 1)
  <2>2. d * b = d * a + d + d * k
    BY <2>1
  <2>3. d * k >= 0
    OBVIOUS
  <2>4. QED
    BY <2>2, <2>3
<1>3. QED
  BY <1>1, <1>2

LEMMA Divided ==
  ASSUME NEW d \in Nat \ {0}, NEW a \in Nat
  PROVE  /\ a \div d \in Nat /\ a % d \in 0 .. (d - 1)
         /\ a = d * (a \div d) + (a % d)
  OBVIOUS

(* There is only one such quotient and remainder.                          *)
LEMMA DividedOnce ==
  ASSUME NEW d \in Nat \ {0}, NEW q \in Nat, NEW r \in 0 .. (d - 1)
  PROVE  (d * q + r) \div d = q /\ (d * q + r) % d = r
<1> DEFINE a == d * q + r
           p == a \div d
           s == a % d
<1>1. a \in Nat
  OBVIOUS
<1>2. p \in Nat /\ s \in 0 .. (d - 1) /\ a = d * p + s
  BY <1>1, Divided
<1>3. ~(p < q)
  <2>1. p < q => d * p + d <= d * q
    BY <1>2, Products
  <2>2. d * p \in Int /\ d * q \in Int
    BY <1>2
  <2>3. QED
    BY <1>2, <2>1, <2>2
<1>4. ~(q < p)
  <2>1. q < p => d * q + d <= d * p
    BY <1>2, Products
  <2>2. d * p \in Int /\ d * q \in Int
    BY <1>2
  <2>3. QED
    BY <1>2, <2>1, <2>2
<1>5. p = q
  BY <1>2, <1>3, <1>4
<1>6. QED
  BY <1>2, <1>5

LEMMA Shifted ==
  ASSUME NEW d \in Nat \ {0}, NEW a \in Nat, NEW k \in Nat
  PROVE  (a + k * d) % d = a % d /\ (k * d) % d = 0 /\ k * d \in Nat
<1> DEFINE q == a \div d
           r == a % d
<1>1. q \in Nat /\ r \in 0 .. (d - 1) /\ a = d * q + r
  BY Divided
<1>2. k * d = d * k /\ d * k \in Nat /\ d * (q + k) = d * q + d * k
      /\ d * q \in Nat
  OBVIOUS
<1>3. a + k * d = d * (q + k) + r
  <2> HIDE DEF q, r
  <2>1. QED
    BY <1>1, <1>2
<1>4. (d * (q + k) + r) % d = r
  <2> HIDE DEF q, r
  <2>1. q + k \in Nat
    BY <1>1
  <2>2. QED
    BY <1>1, <2>1, DividedOnce
<1>5. (d * k + 0) % d = 0
  BY DividedOnce, 0 \in 0 .. (d - 1)
<1>6. QED
  BY <1>2, <1>3, <1>4, <1>5

(* Bytes sent for a part of a page do not roll over at the end of the      *)
(* page of the chip.                                                       *)
LEMMA InPage ==
  ASSUME NEW a \in Nat, NEW n \in Nat, (a % PageSize) + n <= PageSize,
         NEW i \in 0 .. (n - 1)
  PROVE  Cell(a, i) = a + i
<1> DEFINE m  == DevicePage \div PageSize
           q  == a \div DevicePage
           r  == a % DevicePage
           q2 == r \div PageSize
           r2 == r % PageSize
<1>1. PageSize \in Nat \ {0} /\ DevicePage \in Nat \ {0}
  BY M95256Assumption
<1>2. m \in Nat /\ DevicePage = PageSize * m
  BY <1>1, Divided, M95256Assumption
<1>3. q \in Nat /\ r \in 0 .. (DevicePage - 1) /\ a = DevicePage * q + r
  BY <1>1, Divided
<1>4. q2 \in Nat /\ r2 \in 0 .. (PageSize - 1) /\ r = PageSize * q2 + r2
  <2> HIDE DEF r
  <2>1. r \in Nat
    BY <1>1, <1>3
  <2>2. QED
    BY <1>1, <2>1, Divided
<1> HIDE DEF m, q, r, q2, r2
<1>5. a % PageSize = r2
  <2>1. a = PageSize * (m * q + q2) + r2
    <3>1. DevicePage * q = PageSize * (m * q)
      BY <1>1, <1>2, <1>3
    <3>2. m * q \in Nat /\ PageSize * (m * q + q2) = PageSize * (m * q) + PageSize * q2
      BY <1>1, <1>2, <1>3, <1>4
    <3>3. PageSize * (m * q) \in Nat /\ PageSize * q2 \in Nat
      BY <1>1, <1>4, <3>2
    <3>4. QED
      BY <1>3, <1>4, <3>1, <3>2, <3>3
  <2>2. m * q + q2 \in Nat
    BY <1>2, <1>3, <1>4
  <2>3. QED
    BY <1>1, <1>4, <2>1, <2>2, DividedOnce
<1>6. q2 < m
  <2>1. ~(m < q2) /\ m # q2
    <3>1. m < q2 => PageSize * m + PageSize <= PageSize * q2
      BY <1>1, <1>2, <1>4, Products
    <3>2. PageSize * q2 \in Nat
      BY <1>1, <1>4
    <3>3. QED
      BY <1>1, <1>2, <1>3, <1>4, <3>1, <3>2
  <2>2. QED
    BY <1>2, <1>4, <2>1
<1>7. PageSize * q2 + PageSize <= DevicePage
  BY <1>1, <1>2, <1>4, <1>6, Products
<1>8. r + i \in 0 .. (DevicePage - 1)
  <2>1. PageSize * q2 \in Nat
    BY <1>1, <1>4
  <2>2. QED
    BY <1>1, <1>3, <1>4, <1>5, <1>7, <2>1
<1>9. (a + i) % DevicePage = r + i
  <2>1. DevicePage * q \in Nat
    BY <1>1, <1>3
  <2>2. a + i = DevicePage * q + (r + i)
    BY <1>3, <2>1
  <2>3. QED
    BY <1>1, <1>3, <1>8, <2>2, DividedOnce
<1>10. QED
  <2>1. Cell(a, i) = DevicePage * q + (r + i)
    BY <1>9 DEF Cell, q
  <2>2. DevicePage * q \in Nat
    BY <1>1, <1>3
  <2>3. QED
    BY <1>3, <2>1, <2>2


-----------------------------------------------------------------------------
(* m95256_WriteBuffer cuts the configuration into page writes.             *)

Pairs == (0 .. MemSize) \X (0 .. MemSize)

LEMMA FunctionAsSeq ==
  ASSUME NEW S, NEW n \in Nat, NEW f \in [1 .. n -> S]
  PROVE  f \in Seq(S) /\ Len(f) = n
<1>1. f \in Seq(S)
  BY SeqDef, SMT
<1>2. DOMAIN f = 1 .. n /\ DOMAIN f = 1 .. Len(f) /\ Len(f) \in Nat
  BY <1>1, LenProperties
<1>3. QED
  BY <1>2

(* n bytes from a on, the beginning of a page: the q pages W and the rest. *)
Pages(a, n, q, W, R) ==
  /\ q \in Nat
  /\ W \in Seq(Pairs) /\ Len(W) = q
  /\ \A i \in 1 .. q :
       /\ W[i][2] = PageSize /\ a <= W[i][1] /\ W[i][1] \in Nat
       /\ W[i][1] % PageSize = 0
       /\ W[i][1] + PageSize <= a + n
       /\ W[i][1] + PageSize = IF i = q THEN R[1] ELSE W[i + 1][1]
  /\ q > 0 => W[1][1] = a
  /\ q = 0 => R[1] = a
  /\ R \in Pairs /\ R[1] % PageSize = 0
  /\ R[1] + R[2] = a + n /\ R[2] < PageSize
  /\ a <= R[1] /\ R[2] = n % PageSize

LEMMA CutInPages ==
  ASSUME NEW a \in Nat, NEW n \in Nat, a % PageSize = 0, a + n <= MemSize
  PROVE  Pages(a, n, n \div PageSize, WholePages(a, n), Rest(a, n))
<1> DEFINE q == n \div PageSize
           W == WholePages(a, n)
           R == Rest(a, n)
<1>1. PageSize \in Nat \ {0} /\ MemSize \in Nat
  BY M95256Assumption
<1>2. /\ q \in Nat /\ n % PageSize \in 0 .. (PageSize - 1)
      /\ n = PageSize * q + (n % PageSize)
  BY <1>1, Divided
<1>3. PageSize * q = q * PageSize /\ q * PageSize \in Nat
  BY <1>1, <1>2
<1>4. W = [i \in 1 .. q |-> <<a + (i - 1) * PageSize, PageSize>>]
  BY DEF WholePages
<1>5. R = <<a + q * PageSize, n % PageSize>>
  BY DEF Rest
<1> HIDE DEF q, W, R
<1>6. ASSUME NEW i \in 1 .. q
      PROVE  /\ (i - 1) * PageSize \in Nat
             /\ (i - 1) * PageSize + PageSize = i * PageSize
             /\ i * PageSize <= q * PageSize
             /\ (a + (i - 1) * PageSize) % PageSize = 0
  <2>1. i - 1 \in Nat /\ i \in Nat
    BY <1>2
  <2>2. (i - 1) * PageSize \in Nat /\ (a + (i - 1) * PageSize) % PageSize = 0
    BY <1>1, <2>1, Shifted
  <2>3. (i - 1) * PageSize + PageSize = i * PageSize
    BY <1>1, <2>1
  <2>4. i * PageSize <= q * PageSize
    <3>1. i < q => PageSize * i + PageSize <= PageSize * q
      BY <1>1, <1>2, <2>1, Products
    <3>2. PageSize * i = i * PageSize /\ i * PageSize \in Nat
      BY <1>1, <2>1
    <3>3. QED
      BY <1>1, <1>2, <1>3, <2>1, <3>1, <3>2
  <2>5. QED
    BY <2>2, <2>3, <2>4
<1>7. ASSUME NEW i \in 1 .. q
      PROVE  /\ W[i] = <<a + (i - 1) * PageSize, PageSize>>
             /\ W[i] \in Pairs
             /\ W[i][1] + PageSize = a + i * PageSize
             /\ W[i][1] + PageSize <= a + n
  <2>1. W[i] = <<a + (i - 1) * PageSize, PageSize>>
    BY <1>4
  <2>2. a + (i - 1) * PageSize + PageSize <= a + n
    BY <1>1, <1>2, <1>3, <1>6
  <2>3. QED
    BY <1>1, <1>6, <2>1, <2>2 DEF Pairs
<1>8. W \in Seq(Pairs) /\ Len(W) = q
  <2>1. W \in [1 .. q -> Pairs]
    BY <1>4, <1>7
  <2>2. QED
    BY <1>2, <2>1, FunctionAsSeq
<1>9. ASSUME NEW i \in 1 .. q
      PROVE  W[i][1] + PageSize = IF i = q THEN R[1] ELSE W[i + 1][1]
  <2>1. CASE i = q
    BY <1>5, <1>7, <2>1
  <2>2. CASE i # q
    <3>1. i + 1 \in 1 .. q
      BY <1>2, <2>2
    <3>2. W[i + 1] = <<a + ((i + 1) - 1) * PageSize, PageSize>>
      BY <1>7, <3>1
    <3>3. (i + 1) - 1 = i
      BY <1>2
    <3>4. QED
      BY <1>7, <2>2, <3>2, <3>3
  <2>3. QED
    BY <2>1, <2>2
<1>10. q > 0 => W[1][1] = a
  <2>1. ASSUME q > 0 PROVE W[1] = <<a + (1 - 1) * PageSize, PageSize>>
    BY <1>2, <1>7, <2>1, 1 \in 1 .. q
  <2>2. (1 - 1) * PageSize = 0
    BY <1>1
  <2>3. QED
    BY <2>1, <2>2
<1>11. q = 0 => R[1] = a
  BY <1>1, <1>5, 0 * PageSize = 0
<1>12. R[1] % PageSize = 0
  BY <1>1, <1>2, <1>5, Shifted
<1>13. /\ R[1] + R[2] = a + n /\ R[2] < PageSize /\ a <= R[1]
       /\ R[2] = n % PageSize /\ R \in Pairs
  BY <1>1, <1>2, <1>3, <1>5 DEF Pairs
<1>14. \A i \in 1 .. q : /\ W[i][2] = PageSize /\ a <= W[i][1] /\ W[i][1] \in Nat
                         /\ W[i][1] % PageSize = 0
  BY <1>1, <1>6, <1>7
<1>15. QED
  <2>1. Pages(a, n, q, W, R)
    BY <1>2, <1>7, <1>8, <1>9, <1>10, <1>11, <1>12, <1>13, <1>14 DEF Pages
  <2>2. QED
    BY <2>1 DEF q, W, R

(* Before the pages there may be the rest of the page the configuration    *)
(* begins on, and behind them what is left, if it is not all.              *)
Before(first, a) ==
  /\ first \in Seq(Pairs)
  /\ \/ Len(first) = 0 /\ a = Address
     \/ /\ Len(first) = 1 /\ Address % PageSize # 0
        /\ first[1][1] = Address /\ first[1][1] + first[1][2] = a
        /\ first[1][2] > 0 /\ (Address % PageSize) + first[1][2] <= PageSize
Behind(first, last, a, n) ==
  /\ last \in Seq(Pairs)
  /\ \/ last = << Rest(a, n) >> /\ (n % PageSize = 0 <=> FillsPages)
     \/ last = << >> /\ n % PageSize = 0 /\ ~FillsPages /\ Len(first) = 1

LEMMA ChunkingOf ==
  ASSUME Address \in Nat, Length \in Nat, Address + Length <= MemSize,
         NEW first, NEW last, NEW a \in Nat, NEW n \in Nat,
         a % PageSize = 0, Address <= a, a + n = Address + Length,
         Before(first, a), Behind(first, last, a, n)
  PROVE  LET s == first \o WholePages(a, n) \o last
         IN  Chunking(s) /\ s[1][1] = Address /\ s \in Seq(Pairs)
<1> DEFINE q == n \div PageSize
           W == WholePages(a, n)
           R == Rest(a, n)
           s == first \o W \o last
           f == Len(first)
           l == Len(last)
<1>1. PageSize \in Nat \ {0} /\ MemSize \in Nat
  BY M95256Assumption
<1>2. Pages(a, n, q, W, R)
  BY a + n <= MemSize, CutInPages
<1> HIDE DEF q, W, R
<1>3. \/ f = 0 /\ a = Address
      \/ /\ f = 1 /\ Address % PageSize # 0
         /\ first[1][1] = Address /\ first[1][1] + first[1][2] = a
         /\ first[1][2] > 0 /\ (Address % PageSize) + first[1][2] <= PageSize
         /\ first[1] \in Pairs
  BY DEF Before
<1>4. \/ l = 1 /\ last[1] = R /\ (n % PageSize = 0 <=> FillsPages)
      \/ l = 0 /\ n % PageSize = 0 /\ ~FillsPages /\ f = 1
  BY DEF Behind, R
<1>5. /\ s \in Seq(Pairs) /\ Len(s) = f + q + l
      /\ \A i \in 1 .. f + q + l :
           s[i] = IF i <= f THEN first[i]
                  ELSE IF i <= f + q THEN W[i - f] ELSE last[i - f - q]
  <2>1. /\ first \o W \in Seq(Pairs) /\ Len(first \o W) = f + q
        /\ \A i \in 1 .. f + q :
             (first \o W)[i] = IF i <= f THEN first[i] ELSE W[i - f]
    <3>1. W \in Seq(Pairs) /\ Len(W) = q
      BY <1>2 DEF Pages
    <3>2. QED
      BY <3>1, ConcatProperties DEF Before
  <2>2. /\ s \in Seq(Pairs) /\ Len(s) = f + q + l
        /\ \A i \in 1 .. f + q + l :
             s[i] = IF i <= f + q THEN (first \o W)[i] ELSE last[i - (f + q)]
    BY <2>1, ConcatProperties DEF Behind
  <2>3. QED
    BY <1>2, <1>3, <1>4, <2>1, <2>2 DEF Pages
<1> HIDE DEF s, f, l
<1>6. Len(s) > 0
  BY <1>2, <1>3, <1>4, <1>5 DEF Pages
<1>7. s[1][1] = Address
  <2>1. CASE f = 1
    BY <1>2, <1>3, <1>4, <1>5, <2>1 DEF Pages
  <2>2. CASE f = 0 /\ q > 0
    <3>1. s[1] = W[1]
      BY <1>2, <1>4, <1>5, <2>2 DEF Pages
    <3>2. a = Address
      BY <1>3, <2>2
    <3>3. QED
      BY <1>2, <2>2, <3>1, <3>2 DEF Pages
  <2>3. CASE f = 0 /\ q = 0
    <3>1. s[1] = R
      BY <1>4, <1>5, <2>3
    <3>2. QED
      BY <1>2, <1>3, <2>3, <3>1 DEF Pages
  <2>4. QED
    BY <1>2, <1>3, <2>1, <2>2, <2>3 DEF Pages
<1> DEFINE Fits(e) ==
             /\ Address <= e[1] /\ e[1] + e[2] <= Address + Length
             /\ (e[1] % PageSize) + e[2] <= PageSize
           Joins(i) ==
             s[i][1] + s[i][2] =
               IF i = Len(s) THEN Address + Length ELSE s[i + 1][1]
<1>8. ASSUME NEW i \in 1 .. Len(s)
      PROVE  Fits(s[i]) /\ (s[i][2] = 0 <=> FillsPages /\ i = Len(s)) /\ Joins(i)
  <2>0. /\ i \in Nat /\ 1 <= i /\ i <= f + q + l /\ q \in Nat
        /\ Len(s) = f + q + l /\ f \in {0, 1} /\ l \in {0, 1}
        /\ R[1] \in Nat /\ R[2] \in Nat
    <3>1. R[1] \in Nat /\ R[2] \in Nat /\ q \in Nat
      BY <1>2 DEF Pages, Pairs
    <3>2. QED
      BY <1>3, <1>4, <1>5, <3>1
  <2>1. CASE i <= f
    <3>1. f = 1 /\ i = 1 /\ s[1] = first[1]
      BY <1>3, <1>5, <2>1
    <3>2. /\ first[1][1] = Address /\ first[1][1] + first[1][2] = a
          /\ first[1][2] > 0 /\ (Address % PageSize) + first[1][2] <= PageSize
          /\ Address % PageSize # 0
      BY <1>3, <3>1
    <3>3. first[1] \in Pairs
      BY <1>3, <3>1
    <3>4. Fits(s[i])
      BY <3>1, <3>2, <3>3 DEF Pairs
    <3>5. ~FillsPages
      BY <3>2 DEF FillsPages
    <3>6. Joins(i)
      <4>1. CASE q > 0
        <5>1. s[2] = W[1] /\ Len(s) # 1
          BY <1>2, <1>4, <1>5, <3>1, <4>1 DEF Pages
        <5>2. QED
          BY <1>2, <3>1, <3>2, <4>1, <5>1 DEF Pages
      <4>2. CASE q = 0 /\ l = 1
        <5>1. last[1] = R
          BY <1>4, <4>2
        <5>2. s[2] = R /\ Len(s) = 2
          BY <1>5, <3>1, <4>2, <5>1
        <5>3. R[1] = a
          BY <1>2, <4>2 DEF Pages
        <5>4. s[1][1] + s[1][2] = s[2][1]
          BY <3>1, <3>2, <5>2, <5>3
        <5>5. QED
          BY <3>1, <5>2, <5>4
      <4>3. CASE q = 0 /\ l = 0
        <5>1. Len(s) = 1 /\ n % PageSize = 0
          BY <1>4, <1>5, <3>1, <4>3
        <5>2. n = 0
          BY <1>2, <4>3, <5>1 DEF Pages
        <5>3. s[1][1] + s[1][2] = Address + Length
          BY <3>1, <3>2, <5>2
        <5>4. QED
          BY <3>1, <5>1, <5>3
      <4>4. QED
        BY <1>2, <1>4, <4>1, <4>2, <4>3 DEF Pages
    <3>7. QED
      BY <3>1, <3>2, <3>4, <3>5, <3>6
  <2>2. CASE f < i /\ i <= f + q
    <3> DEFINE j == i - f
    <3>1. j \in 1 .. q /\ s[i] = W[j]
      <4>1. j \in 1 .. q /\ i \in 1 .. f + q + l /\ ~(i <= f)
        BY <2>0, <2>2
      <4>2. QED
        BY <1>5, <2>2, <4>1
    <3>2. /\ W[j][2] = PageSize /\ a <= W[j][1] /\ W[j][1] \in Nat
          /\ W[j][1] % PageSize = 0
          /\ W[j][1] + PageSize <= a + n
          /\ W[j][1] + PageSize = IF j = q THEN R[1] ELSE W[j + 1][1]
      BY <1>2, <3>1 DEF Pages
    <3>3. Fits(s[i])
      <4>1. W[j][1] + W[j][2] <= Address + Length
        BY <3>2
      <4>2. Address <= W[j][1] /\ (W[j][1] % PageSize) + W[j][2] <= PageSize
        BY <1>1, <3>2
      <4>3. QED
        BY <3>1, <4>1, <4>2
    <3>4. ~(FillsPages /\ i = Len(s))
      BY <1>2, <1>3, <1>4, <1>5, <2>2 DEF Pages
    <3>5. Joins(i)
      <4>1. CASE j # q
        <5>1. /\ i + 1 \in 1 .. f + q + l /\ i + 1 <= f + q /\ ~(i + 1 <= f)
              /\ i # Len(s) /\ (i + 1) - f = j + 1
          BY <2>0, <2>2, <3>1, <4>1
        <5>2. s[i + 1] = W[j + 1]
          BY <1>5, <5>1
        <5>3. QED
          BY <3>1, <3>2, <4>1, <5>1, <5>2
      <4>2. CASE j = q /\ l = 1
        <5>1. last[1] = R
          BY <1>4, <4>2
        <5>2. /\ i + 1 \in 1 .. f + q + l /\ ~(i + 1 <= f) /\ ~(i + 1 <= f + q)
              /\ i # Len(s) /\ (i + 1) - f - q = 1
          <6>1. i = f + q
            BY <2>0, <4>2
          <6>2. QED
            BY <2>0, <4>2, <6>1
        <5>3. s[i + 1] = R
          BY <1>5, <5>1, <5>2
        <5>4. QED
          BY <3>1, <3>2, <4>2, <5>2, <5>3
      <4>3. CASE j = q /\ l = 0
        <5>1. i = Len(s) /\ n % PageSize = 0
          BY <1>2, <1>3, <1>4, <1>5, <3>1, <4>3 DEF Pages
        <5>2. R[1] = Address + Length
          BY <1>2, <5>1 DEF Pages, Pairs
        <5>3. QED
          BY <3>1, <3>2, <4>3, <5>1, <5>2
      <4>4. QED
        BY <1>4, <4>1, <4>2, <4>3
    <3>6. s[i][2] # 0
      BY <1>1, <3>1, <3>2
    <3>7. QED
      BY <3>3, <3>4, <3>5, <3>6
  <2>3. CASE f + q < i
    <3>1. l = 1 /\ last[1] = R /\ (n % PageSize = 0 <=> FillsPages)
      BY <1>2, <1>3, <1>4, <1>5, <2>3 DEF Pages
    <3>2. i = Len(s) /\ s[i] = R
      BY <1>2, <1>3, <1>5, <2>3, <3>1 DEF Pages
    <3>3. n % PageSize = 0 <=> FillsPages
      BY <3>1
    <3>4. /\ R \in Pairs /\ R[1] % PageSize = 0
          /\ R[1] + R[2] = a + n /\ R[2] < PageSize
          /\ a <= R[1] /\ R[2] = n % PageSize
      BY <1>2 DEF Pages
    <3>5. Fits(R) /\ R[1] + R[2] = Address + Length
      BY <1>1, <2>0, <3>4, Address <= a
    <3>6. QED
      BY <3>2, <3>3, <3>4, <3>5
  <2>4. QED
    <3>1. i \in Int /\ f \in Int /\ f + q \in Int
      BY <1>2, <1>3, <1>5 DEF Pages
    <3>2. QED
      BY <2>1, <2>2, <2>3, <3>1
<1>9. QED
  BY <1>5, <1>6, <1>7, <1>8 DEF Chunking, W, s

(* Whatever the address and the length.                                    *)
LEMMA ChunksAre ==
  ASSUME Address \in Nat, Length \in Nat \ {0}, Address + Length <= MemSize
  PROVE  /\ Chunking(Chunks(Address, Length))
         /\ Chunks(Address, Length)[1][1] = Address
         /\ Chunks(Address, Length) \in Seq(Pairs)
<1> DEFINE r     == Address % PageSize
           count == PageSize - r
           left  == Length - count
           a     == Address + count
<1>1. PageSize \in Nat \ {0} /\ MemSize \in Nat
  BY M95256Assumption
<1>2. /\ r \in 0 .. (PageSize - 1) /\ Address \div PageSize \in Nat
      /\ Address = PageSize * (Address \div PageSize) + r
  BY <1>1, Divided
<1>3. Rest(Address, Length) \in Pairs
  <2>1. /\ Length \div PageSize \in Nat /\ Length % PageSize \in 0 .. (PageSize - 1)
        /\ Length = PageSize * (Length \div PageSize) + (Length % PageSize)
    BY <1>1, Divided
  <2>2. (Length \div PageSize) * PageSize = PageSize * (Length \div PageSize)
        /\ PageSize * (Length \div PageSize) \in Nat
    BY <1>1, <2>1
  <2>3. QED
    BY <1>1, <2>1, <2>2 DEF Rest, Pairs
<1>4. CASE r = 0
  <2> DEFINE W == WholePages(Address, Length)
             R == Rest(Address, Length)
  <2>1. Chunks(Address, Length) = W \o << R >>
    BY <1>4 DEF Chunks
  <2>2. W \in Seq(Pairs)
    BY <1>4, CutInPages DEF Pages
  <2>3. << >> \o W = W
    BY <2>2, ConcatEmptySeq
  <2>4. Before(<< >>, Address)
    BY DEF Before
  <2>5. Behind(<< >>, << R >>, Address, Length)
    BY <1>3, <1>4 DEF Behind, FillsPages
  <2>6. LET s == << >> \o W \o << R >>
        IN  Chunking(s) /\ s[1][1] = Address /\ s \in Seq(Pairs)
    <3>1. /\ Address % PageSize = 0 /\ Address <= Address /\ Length \in Nat
          /\ Address + Length = Address + Length
      BY <1>4
    <3> HIDE DEF R
    <3>2. QED
      BY <2>4, <2>5, <3>1, ChunkingOf DEF R
  <2>7. QED
    BY <2>1, <2>3, <2>6
<1>5. CASE r # 0 /\ Length < PageSize /\ Length <= count
  <2>1. Chunks(Address, Length) = << <<Address, Length>> >>
    BY <1>5 DEF Chunks
  <2>2. <<Address, Length>> \in Pairs
    BY <1>1 DEF Pairs
  <2>3. << <<Address, Length>> >> \in Seq(Pairs)
    BY <2>2
  <2>4. Chunking(<< <<Address, Length>> >>)
    BY <1>1, <1>2, <1>5 DEF Chunking, FillsPages
  <2>5. QED
    BY <2>1, <2>3, <2>4
<1>6. CASE r # 0 /\ ~(Length < PageSize /\ Length <= count)
  <2> DEFINE first == << <<Address, count>> >>
             W     == WholePages(a, left)
             R     == Rest(a, left)
             last  == IF left % PageSize = 0 THEN << >> ELSE << R >>
  <2>1. Chunks(Address, Length) = first \o W \o last
    BY <1>6 DEF Chunks
  <2>2. left \in Nat /\ a \in Nat /\ count \in Nat \ {0} /\ Address <= a
        /\ a + left = Address + Length
    BY <1>1, <1>2, <1>6
  <2>3. a % PageSize = 0
    <3>1. a = PageSize * (Address \div PageSize) + PageSize
      BY <1>1, <1>2
    <3>2. a = PageSize * ((Address \div PageSize) + 1) + 0
      BY <1>1, <1>2, <3>1
    <3> DEFINE k == (Address \div PageSize) + 1
    <3>3. k \in Nat /\ 0 \in 0 .. (PageSize - 1)
      BY <1>1, <1>2
    <3>4. a = PageSize * k + 0
      BY <3>2
    <3> HIDE DEF k, a
    <3>5. (PageSize * k + 0) % PageSize = 0
      BY <1>1, <3>3, DividedOnce
    <3>6. QED
      BY <3>4, <3>5
  <2>4. Before(first, a)
    <3>1. <<Address, count>> \in Pairs
      BY <1>1, <2>2 DEF Pairs
    <3>2. QED
      BY <1>1, <1>2, <1>6, <2>2, <3>1 DEF Before
  <2>5. R \in Pairs
    BY <2>2, <2>3, CutInPages DEF Pages
  <2>6. Behind(first, last, a, left)
    BY <1>6, <2>5 DEF Behind, FillsPages
  <2>7. LET s == first \o W \o last
        IN  Chunking(s) /\ s[1][1] = Address /\ s \in Seq(Pairs)
    <3> HIDE DEF first, last, a, left
    <3>1. QED
      BY <2>2, <2>3, <2>4, <2>6, ChunkingOf
  <2>8. QED
    BY <2>1, <2>7
<1>7. QED
  BY <1>4, <1>5, <1>6

(* A page write less.                                                      *)
LEMMA ChunkingTail ==
  ASSUME NEW s \in Seq(Pairs), Chunking(s), Len(s) # 1
  PROVE  /\ Tail(s) \in Seq(Pairs) /\ Tail(s) # << >> /\ Chunking(Tail(s))
         /\ Tail(s)[1][1] = s[1][1] + s[1][2]
<1>1. Len(s) \in Nat /\ Len(s) > 1 /\ s # << >>
  <2>1. Len(s) \in Nat
    BY LenProperties
  <2>2. Len(s) > 0
    BY DEF Chunking
  <2>3. s # << >>
    BY <2>2, EmptySeq
  <2>4. QED
    BY <2>1, <2>2, <2>3
<1>2. /\ Tail(s) \in Seq(Pairs) /\ Len(Tail(s)) = Len(s) - 1
      /\ \A i \in 1 .. Len(s) - 1 : Tail(s)[i] = s[i + 1]
  BY <1>1, HeadTailProperties
<1>3. Tail(s) # << >>
  <2>1. Len(Tail(s)) # 0
    BY <1>1, <1>2
  <2>2. QED
    BY <2>1, EmptySeq
<1>4. Tail(s)[1][1] = s[1][1] + s[1][2]
  <2>1. 1 \in 1 .. Len(s) - 1 /\ 1 \in 1 .. Len(s) /\ 1 + 1 = 2
    BY <1>1
  <2>2. Tail(s)[1] = s[2]
    BY <1>2, <2>1
  <2>3. s[1][1] + s[1][2] = s[2][1]
    BY <2>1 DEF Chunking
  <2>4. QED
    BY <2>2, <2>3
<1>5. ASSUME NEW i \in 1 .. Len(s) - 1
      PROVE  /\ Address <= Tail(s)[i][1]
             /\ Tail(s)[i][1] + Tail(s)[i][2] <= Address + Length
             /\ (Tail(s)[i][1] % PageSize) + Tail(s)[i][2] <= PageSize
             /\ Tail(s)[i][2] = 0 <=> FillsPages /\ i = Len(Tail(s))
             /\ Tail(s)[i][1] + Tail(s)[i][2] =
                  IF i = Len(Tail(s)) THEN Address + Length ELSE Tail(s)[i + 1][1]
  <2>1. i + 1 \in 1 .. Len(s) /\ (i + 1 = Len(s) <=> i = Len(Tail(s)))
    BY <1>1, <1>2
  <2>2. Tail(s)[i] = s[i + 1]
    BY <1>2
  <2>3. ASSUME i # Len(Tail(s)) PROVE Tail(s)[i + 1] = s[i + 1 + 1]
    <3>1. i + 1 \in 1 .. Len(s) - 1
      <4>1. i + 1 # Len(s) /\ Len(s) \in Nat
        BY <1>1, <2>1, <2>3
      <4>2. QED
        BY <2>1, <4>1
    <3>2. QED
      BY <1>2, <3>1
  <2>4. QED
    BY <2>1, <2>2, <2>3 DEF Chunking
<1>6. Chunking(Tail(s))
  <2>1. Len(Tail(s)) > 0
    BY <1>1, <1>2
  <2>2. QED
    BY <1>2, <1>5, <2>1 DEF Chunking
<1>7. QED
  BY <1>2, <1>3, <1>4, <1>6

-----------------------------------------------------------------------------
(* The layout, the content and the chip.                                   *)

LEMMA LayoutIs ==
  ASSUME <<layout, reliable>> \in Setups
  PROVE  /\ Address \in Nat /\ Size \in Nat \ {0} /\ VersionSize \in Nat \ {0}
         /\ Length = VersionSize + Size /\ Address + Length <= MemSize
         /\ Length \in Nat \ {0} /\ MemSize \in Nat \ {0}
         /\ Region \subseteq Cells /\ Address \in Cells
         /\ reliable \in BOOLEAN
<1>1. <<layout, reliable>> \in (Nat \X (Nat \ {0})) \X BOOLEAN
  BY EepromConfigAssumption
<1>2. layout \in Nat \X (Nat \ {0}) /\ reliable \in BOOLEAN
  BY <1>1
<1>3. layout[1] + VersionSize + layout[2] <= MemSize
  BY EepromConfigAssumption
<1>4. QED
  BY <1>2, <1>3, EepromConfigAssumption, M95256Assumption
     DEF Address, Size, Length, Region, Cells

LEMMA ContentIs ==
  ASSUME <<layout, reliable>> \in Setups,
         version \in Versions, data \in [1 .. Size -> Bytes]
  PROVE  /\ Content \in Seq(Bytes) /\ Len(Content) = Length
         /\ Content \in [1 .. Length -> Bytes]
<1>1. VersionSize \in Nat /\ Size \in Nat /\ Length = VersionSize + Size
  BY LayoutIs
<1>2. version \in Seq(Bytes) /\ Len(version) = VersionSize
  <2>1. version \in [1 .. VersionSize -> Bytes]
    BY EepromConfigAssumption
  <2>2. QED
    BY <1>1, <2>1, FunctionAsSeq
<1>3. data \in Seq(Bytes) /\ Len(data) = Size
  BY <1>1, FunctionAsSeq
<1>4. Content \in Seq(Bytes) /\ Len(Content) = Length
  BY <1>1, <1>2, <1>3, ConcatProperties DEF Content
<1>5. QED
  BY <1>4, LenProperties

(* The bytes of a page write go where they belong.                         *)
LEMMA ProgramIs ==
  ASSUME NEW a \in Nat, NEW n \in Nat, (a % PageSize) + n <= PageSize,
         NEW k \in 1 .. n, latch, ~Busy, bytes.at \in Nat
  PROVE  /\ DOMAIN Program(a, k) = a .. (a + k - 1)
         /\ \A c \in a .. (a + k - 1) :
              Program(a, k)[c] = bytes.source[c - bytes.at + 1]
<1>1. \A i \in 0 .. (k - 1) : Cell(a, i) = a + i
  BY InPage
<1>2. { Cell(a, i) : i \in 0 .. (k - 1) } = a .. (a + k - 1)
  <2>1. \A c \in a .. (a + k - 1) : c - a \in 0 .. (k - 1) /\ Cell(a, c - a) = c
    BY <1>1
  <2>2. \A i \in 0 .. (k - 1) : Cell(a, i) \in a .. (a + k - 1)
    BY <1>1
  <2>3. QED
    BY <2>1, <2>2
<1>3. Program(a, k) =
        [c \in { Cell(a, i) : i \in 0 .. (k - 1) } |->
           LET i == CHOOSE j \in 0 .. (k - 1) : Cell(a, j) = c
           IN  bytes.source[a - bytes.at + i + 1]]
  BY DEF Program
<1>4. ASSUME NEW c \in a .. (a + k - 1)
      PROVE  Program(a, k)[c] = bytes.source[c - bytes.at + 1]
  <2> DEFINE i == CHOOSE j \in 0 .. (k - 1) : Cell(a, j) = c
  <2>1. \E j \in 0 .. (k - 1) : Cell(a, j) = c
    BY <1>1, c - a \in 0 .. (k - 1)
  <2>2. i \in 0 .. (k - 1) /\ Cell(a, i) = c
    BY <2>1
  <2>3. Program(a, k)[c] = bytes.source[a - bytes.at + i + 1]
    BY <1>2, <1>3
  <2> HIDE DEF i
  <2>4. i = c - a
    BY <1>1, <2>2
  <2>5. a - bytes.at + i + 1 = c - bytes.at + 1
    BY <2>4
  <2>6. QED
    BY <2>3, <2>5
<1>5. QED
  BY <1>2, <1>3, <1>4

-----------------------------------------------------------------------------
(* The invariant: what each step does to it.                               *)

LEMMA Fixed ==
  ASSUME UNCHANGED layout
  PROVE  /\ Address' = Address /\ Size' = Size /\ Length' = Length
         /\ Region' = Region /\ (FillsPages <=> FillsPages')
         /\ \A s : Chunking(s) <=> Chunking(s)'
  BY DEF Address, Size, Length, Region, FillsPages, Chunking

LEMMA InitInv == Init => Inv
<1>1. SUFFICES ASSUME Init PROVE Inv
  OBVIOUS
<1>2. /\ <<layout, reliable>> \in Setups
      /\ mem \in [Cells -> Bytes]
      /\ latch = FALSE /\ burst = << >> /\ open = FALSE
      /\ pc = "free" /\ chunks = << >>
      /\ bytes = [at |-> 0, source |-> << >>]
      /\ status = "PENDING" /\ buffer = << >> /\ step = "off"
      /\ version = << >> /\ data = << >> /\ dirty = FALSE /\ answer = "none"
  <2>1. PICK s \in Setups : layout = s[1] /\ reliable = s[2]
    BY <1>1 DEF Init
  <2>2. s = <<layout, reliable>>
    BY <2>1, EepromConfigAssumption
  <2>3. QED
    BY <1>1, <2>1, <2>2 DEF Init, DriverInit, Idle
<1>3. DOMAIN burst = {}
  BY <1>2
<1>4. TypeOK
  <2>1. 0 \in Cells
    BY M95256Assumption DEF Cells
  <2>2. << >> \in Seq(Bytes) /\ << >> \in Seq((0 .. MemSize) \X (0 .. MemSize))
    OBVIOUS
  <2>3. QED
    BY <1>2, <1>3, <2>1, <2>2 DEF TypeOK
<1>5. ChipQuiet
  BY <1>2, <1>3 DEF ChipQuiet, Busy
<1>6. Call
  BY <1>2, <1>3 DEF Call, On, Busy
<1>7. Progress
  BY <1>2, <1>3 DEF Progress, Busy
<1>8. QED
  BY <1>4, <1>5, <1>6, <1>7 DEF Inv

LEMMA InvBoot ==
  ASSUME Inv, NEW v \in Versions, Boot(v)
  PROVE  Inv'
<1> USE DEF Inv
<1>1. /\ UNCHANGED <<layout, data, answer, chip, bytes, status, buffer>>
      /\ step = "off" /\ step' = "init" /\ version' = v /\ dirty' = FALSE
      /\ pc = "free" /\ pc' = "read"
      /\ chunks' = << <<Address, Length>> >>
  BY DEF Boot, StartRead
<1>2. Address' = Address /\ Length' = Length /\ Region' = Region
  BY <1>1, Fixed
<1>3. TypeOK'
  <2>1. chunks' \in Seq(Pairs) /\ chunks' # << >>
    BY <1>1, LayoutIs DEF Pairs, TypeOK
  <2>2. QED
    BY <1>1, <2>1 DEF TypeOK, chip, Pairs
<1>4. ~Busy /\ ~Busy'
  BY <1>1 DEF Call, On, Busy, chip
<1>5. Call'
  BY <1>1, <1>2, <1>4 DEF Call, On, chip
<1>6. Progress'
  BY <1>1, <1>4 DEF Progress, ChipQuiet, chip, Busy
<1>7. QED
  BY <1>1, <1>3, <1>5, <1>6 DEF ChipQuiet

LEMMA SameStored ==
  ASSUME UNCHANGED <<layout, mem, burst, version, data>>
  PROVE  /\ Content' = Content
         /\ \A c : StoredBefore(c) <=> StoredBefore(c)'
<1>1. Content' = Content /\ Region' = Region /\ Address' = Address
  BY Fixed DEF Content
<1>2. Programmed(DOMAIN burst)' = Programmed(DOMAIN burst)
  BY DEF Programmed
<1>3. QED
  BY <1>1, <1>2 DEF StoredBefore

(* The calls that return, and set nothing or data of the size.             *)
LEMMA InvReturn ==
  ASSUME Inv, NEW s, Returned(s), s \in {"init", "read", "write", "verify"},
         data' \in [1 .. Size -> Bytes], dirty' \in BOOLEAN,
         answer' \in {"true", "false"}
  PROVE  Inv'
<1> USE DEF Inv
<1>1. /\ UNCHANGED <<layout, chip, version>>
      /\ step = s /\ step' = "idle" /\ pc = "free" /\ pc' = "free"
      /\ chunks' = << >> /\ bytes' = [at |-> 0, source |-> << >>]
      /\ status' = "PENDING" /\ buffer' = << >>
  BY DEF Returned, DriverReset
<1>2. /\ Address' = Address /\ Length' = Length /\ Region' = Region
      /\ Size' = Size
  BY <1>1, Fixed
<1>3. TypeOK'
  <2>1. 0 \in Cells
    BY M95256Assumption DEF Cells
  <2>2. data' \in Seq(Bytes)
    <3>1. Size \in Nat
      BY LayoutIs DEF TypeOK
    <3>2. QED
      BY <3>1, FunctionAsSeq
  <2>3. << >> \in Seq(Bytes) /\ << >> \in Seq((0 .. MemSize) \X (0 .. MemSize))
    OBVIOUS
  <2>4. QED
    BY <1>1, <2>1, <2>2, <2>3 DEF TypeOK, chip
<1>4. Call'
  BY <1>1, <1>2 DEF Call, On, chip
<1>5. Progress'
  BY <1>1 DEF Progress, ChipQuiet, chip, Busy
<1>6. QED
  BY <1>1, <1>3, <1>4, <1>5 DEF ChipQuiet, chip, Busy

LEMMA ReadDataIs ==
  ASSUME Inv, pc = "free", step \in {"init", "read", "verify"},
         status = "COMPLETE"
  PROVE  ReadData \in [1 .. Size -> Bytes]
<1>1. buffer \in [1 .. Length -> Bytes]
  BY DEF Inv, Call
<1>2. \A i \in 1 .. Size : VersionSize + i \in 1 .. Length
  BY LayoutIs DEF Inv, TypeOK
<1>3. QED
  BY <1>1, <1>2 DEF ReadData

LEMMA InvDone ==
  ASSUME Inv, InitDone \/ ReadDone \/ WriteFailed \/ Verified
  PROVE  Inv'
<1> USE DEF Inv
<1>1. pc = "free"
  BY DEF InitDone, ReadDone, WriteFailed, Verified, Returned
<1>2. On => data \in [1 .. Size -> Bytes]
  BY DEF Call
<1>3. CASE InitDone
  <2>1. data' \in [1 .. Size -> Bytes]
    <3>1. CASE Loaded
      BY <1>1, <1>3, <3>1, ReadDataIs DEF InitDone, Returned, Loaded, Take
    <3>2. CASE ~Loaded
      BY <1>3, <3>2, EepromConfigAssumption DEF InitDone, Default
    <3>3. QED
      BY <3>1, <3>2
  <2>2. QED
    BY <1>3, <2>1, InvReturn DEF InitDone, Take
<1>4. CASE ReadDone
  <2>1. data' \in [1 .. Size -> Bytes]
    <3>1. CASE Loaded
      BY <1>1, <1>4, <3>1, ReadDataIs DEF ReadDone, Returned, Loaded, Take
    <3>2. CASE ~Loaded
      BY <1>2, <1>4, <3>2 DEF ReadDone, Returned, On
    <3>3. QED
      BY <3>1, <3>2
  <2>2. QED
    BY <1>4, <2>1, InvReturn DEF ReadDone, Take, TypeOK
<1>5. CASE WriteFailed
  BY <1>2, <1>5, InvReturn DEF WriteFailed, Returned, On, TypeOK
<1>6. CASE Verified
  BY <1>2, <1>6, InvReturn DEF Verified, Returned, On, TypeOK
<1>7. QED
  BY <1>3, <1>4, <1>5, <1>6

LEMMA InvIdle ==
  ASSUME Inv, step = "idle", NEW d \in [1 .. Size -> Bytes],
         Set(d) \/ WriteClean
  PROVE  Inv'
<1> USE DEF Inv
<1>1. /\ UNCHANGED <<chip, driver, step, layout, version>>
      /\ data' \in {data, d} /\ dirty' \in BOOLEAN /\ answer' \in {"none", "true"}
      /\ pc = "free" /\ On /\ On'
  BY DEF Set, WriteClean, Call, TypeOK, On
<1>2. /\ Address' = Address /\ Length' = Length /\ Region' = Region
      /\ Size' = Size
  BY <1>1, Fixed
<1>3. data' \in [1 .. Size -> Bytes]
  BY <1>1 DEF Call
<1>4. TypeOK'
  <2>1. data' \in Seq(Bytes)
    <3>1. Size \in Nat
      BY LayoutIs DEF TypeOK
    <3>2. QED
      BY <1>3, <3>1, FunctionAsSeq
  <2>2. QED
    BY <1>1, <2>1 DEF TypeOK, chip, driver
<1>5. Call'
  BY <1>1, <1>2, <1>3 DEF Call, chip, driver
<1>6. Progress'
  BY <1>1 DEF Progress, ChipQuiet, chip, driver, Busy
<1>7. QED
  BY <1>1, <1>4, <1>5, <1>6 DEF ChipQuiet, chip, driver, Busy

LEMMA InvStartRead ==
  ASSUME Inv, CallRead \/ Verify
  PROVE  Inv'
<1> USE DEF Inv
<1>1. /\ UNCHANGED <<chip, config, bytes, status, buffer>>
      /\ pc = "free" /\ pc' = "read" /\ chunks' = << <<Address, Length>> >>
      /\ \/ step = "idle" /\ step' = "read"
         \/ step = "write" /\ step' = "verify"
  BY DEF CallRead, Verify, StartRead
<1>2. /\ Address' = Address /\ Length' = Length /\ Region' = Region
      /\ Size' = Size /\ (FillsPages <=> FillsPages')
  BY <1>1, Fixed DEF config
<1>3. TypeOK'
  <2>1. chunks' \in Seq(Pairs) /\ chunks' # << >>
    BY <1>1, LayoutIs DEF Pairs, TypeOK
  <2>2. QED
    BY <1>1, <2>1 DEF TypeOK, chip, config, Pairs
<1>4. Call'
  BY <1>1, <1>2 DEF Call, On, chip, config
<1>5. Progress'
  <2>1. Content' = Content /\ \A c : StoredBefore(c) <=> StoredBefore(c)'
    BY <1>1, SameStored DEF chip, config
  <2>2. step' = "verify" /\ reliable =>
          StoredBefore(Address + Length)' /\ ~FillsPages'
    <3>1. step' = "verify" => status = "COMPLETE"
      BY <1>1 DEF CallRead, Verify
    <3>2. QED
      BY <1>1, <1>2, <2>1, <3>1 DEF Progress
  <2>3. QED
    BY <1>1, <2>2 DEF Progress, ChipQuiet, chip, Busy
<1>6. QED
  BY <1>1, <1>3, <1>4, <1>5 DEF ChipQuiet

LEMMA InvStartWrite ==
  ASSUME Inv, CallWrite
  PROVE  Inv'
<1> USE DEF Inv
<1>1. /\ UNCHANGED <<chip, config, status, buffer>>
      /\ pc = "free" /\ pc' = "wren" /\ step = "idle" /\ step' = "write"
      /\ chunks' = Chunks(Address, Len(Content))
      /\ bytes' = [at |-> Address, source |-> Content]
  BY DEF CallWrite, StartWrite, Content
<1>2. /\ Address' = Address /\ Length' = Length /\ Region' = Region
      /\ Size' = Size /\ Content' = Content
      /\ \A s : Chunking(s) <=> Chunking(s)'
  BY <1>1, Fixed DEF config, Content
<1>3. /\ Content \in Seq(Bytes) /\ Len(Content) = Length
      /\ Content \in [1 .. Length -> Bytes]
  BY <1>1, ContentIs DEF Call, TypeOK, On
<1>4. Chunking(chunks') /\ chunks'[1][1] = Address /\ chunks' \in Seq(Pairs)
  BY <1>1, <1>3, LayoutIs, ChunksAre DEF TypeOK
<1>5. TypeOK'
  <2>1. chunks' # << >>
    <3>1. Len(chunks') # 0
      BY <1>4 DEF Chunking
    <3>2. QED
      BY <3>1, EmptySeq
  <2>2. QED
    BY <1>1, <1>3, <1>4, <2>1, LayoutIs DEF TypeOK, chip, config, Pairs
<1>6. Call'
  BY <1>1, <1>2, <1>4 DEF Call, On, chip, config
<1>7. Progress'
  <2>1. StoredBefore(chunks[1][1])'
    BY <1>2, <1>4, LayoutIs DEF StoredBefore, Region, TypeOK
  <2>2. QED
    BY <1>1, <2>1 DEF Progress, ChipQuiet, chip, config, Busy
<1>8. QED
  BY <1>1, <1>5, <1>6, <1>7 DEF ChipQuiet

LEMMA InvWriteEnable ==
  ASSUME Inv, WriteEnable, UNCHANGED <<step, config>>
  PROVE  Inv'
<1> USE DEF Inv
<1>1. /\ UNCHANGED <<layout, version, data, dirty, answer, step, chunks, bytes,
                     status, buffer, reliable, mem, burst>>
      /\ pc = "wren" /\ pc' = "write" /\ open' = FALSE
      /\ latch' = IF open \/ Busy THEN latch ELSE TRUE
  BY DEF WriteEnable, Latch, config
<1>2. /\ Address' = Address /\ Length' = Length /\ Region' = Region
      /\ Size' = Size /\ Content' = Content
      /\ \A s : Chunking(s) <=> Chunking(s)'
      /\ \A c : StoredBefore(c) <=> StoredBefore(c)'
  BY <1>1, Fixed, SameStored
<1>3. TypeOK'
  BY <1>1 DEF TypeOK
<1>4. Call'
  BY <1>1, <1>2 DEF Call, On, Busy
<1>5. Progress'
  <2>1. reliable => StoredBefore(chunks[1][1])'
    BY <1>1, <1>2 DEF Progress
  <2>2. step = "write"
    BY <1>1 DEF Call
  <2>3. QED
    BY <1>1, <1>2, <2>1, <2>2 DEF Progress, Busy
<1>6. QED
  BY <1>1, <1>3, <1>4, <1>5 DEF ChipQuiet

LEMMA InvWait ==
  ASSUME Inv, Wait, UNCHANGED <<step, config>>
  PROVE  Inv'
<1> USE DEF Inv
<1>1. /\ UNCHANGED <<layout, version, data, dirty, answer, step, chunks, bytes,
                     status, buffer, reliable, mem, latch, burst>>
      /\ pc = "wait" /\ pc' = "wrdi" /\ open' \in {open, TRUE}
      /\ reliable => ~Busy /\ open' = open
  BY DEF Wait, config
<1>2. /\ Address' = Address /\ Length' = Length /\ Region' = Region
      /\ Size' = Size /\ Content' = Content
      /\ \A s : Chunking(s) <=> Chunking(s)'
      /\ \A c : StoredBefore(c) <=> StoredBefore(c)'
  BY <1>1, Fixed, SameStored
<1>3. TypeOK'
  BY <1>1 DEF TypeOK
<1>4. Call'
  BY <1>1, <1>2 DEF Call, On, Busy
<1>5. Progress'
  <2>1. reliable => StoredBefore(chunks[1][1] + chunks[1][2])'
    BY <1>1, <1>2 DEF Progress
  <2>2. step = "write"
    BY <1>1 DEF Call
  <2>3. QED
    BY <1>1, <1>2, <2>1, <2>2 DEF Progress, Busy
<1>6. QED
  BY <1>1, <1>3, <1>4, <1>5 DEF ChipQuiet

LEMMA InvHalt ==
  ASSUME Inv, Halt, UNCHANGED <<step, config>>
  PROVE  Inv'
<1> USE DEF Inv
<1>1. /\ UNCHANGED <<layout, version, data, dirty, answer, step, chunks, bytes,
                     status, buffer, chip>>
      /\ pc # "free" /\ pc' = "halted" /\ ~reliable
  BY DEF Halt, config
<1>2. /\ Address' = Address /\ Length' = Length /\ Region' = Region
      /\ Size' = Size
  BY <1>1, Fixed
<1>3. TypeOK'
  BY <1>1 DEF TypeOK, chip
<1>4. Call'
  BY <1>1, <1>2 DEF Call, On, Busy, chip
<1>5. QED
  BY <1>1, <1>3, <1>4 DEF ChipQuiet, Progress, chip

(* The first page write that is left.                                      *)
LEMMA FirstChunk ==
  ASSUME Inv, pc \in {"wren", "write", "wait", "wrdi"}
  PROVE  /\ chunks[1][1] \in Nat /\ chunks[1][2] \in Nat
         /\ Address <= chunks[1][1]
         /\ chunks[1][1] + chunks[1][2] <= Address + Length
         /\ (chunks[1][1] % PageSize) + chunks[1][2] <= PageSize
         /\ chunks[1][2] = 0 <=> FillsPages /\ Len(chunks) = 1
         /\ Len(chunks) = 1 => chunks[1][1] + chunks[1][2] = Address + Length
         /\ Len(chunks) \in Nat \ {0} /\ chunks \in Seq(Pairs)
<1>1. Chunking(chunks) /\ chunks \in Seq(Pairs)
  BY DEF Inv, Call, TypeOK, Pairs
<1>2. Len(chunks) \in Nat \ {0}
  <2>1. Len(chunks) \in Nat
    BY <1>1, LenProperties
  <2>2. QED
    BY <1>1, <2>1 DEF Chunking
<1>3. 1 \in 1 .. Len(chunks)
  BY <1>2
<1>4. chunks[1] \in Pairs
  BY <1>1, <1>3, ElementOfSeq
<1>5. chunks[1][1] \in Nat /\ chunks[1][2] \in Nat
  BY <1>4 DEF Pairs
<1>6. QED
  BY <1>1, <1>2, <1>3, <1>5 DEF Chunking

(* The bytes that arrive are of the page write and go into its cells.      *)
LEMMA Sent ==
  ASSUME Inv, pc = "write", NEW k \in 0 .. chunks[1][2]
  PROVE  LET a == chunks[1][1]
             b == Program(a, k)
         IN  \/ b = burst /\ (k = 0 \/ ~latch \/ Busy)
             \/ /\ DOMAIN b = a .. (a + k - 1) /\ k > 0
                /\ \A c \in a .. (a + k - 1) :
                     c \in Region /\ b[c] = Content[c - Address + 1]
<1> DEFINE a == chunks[1][1]
           n == chunks[1][2]
<1>1. /\ a \in Nat /\ n \in Nat /\ Address <= a /\ a + n <= Address + Length
      /\ (a % PageSize) + n <= PageSize
  BY FirstChunk
<1>2. /\ bytes.at = Address /\ bytes.source = Content
      /\ Address \in Nat /\ Length \in Nat
  BY LayoutIs DEF Inv, Call, TypeOK
<1>3. CASE k = 0 \/ ~latch \/ Busy
  BY <1>3 DEF Program
<1>4. CASE ~(k = 0 \/ ~latch \/ Busy)
  <2>1. k \in 1 .. n
    BY <1>1, <1>4
  <2> HIDE DEF a, n
  <2>2. /\ DOMAIN Program(a, k) = a .. (a + k - 1)
        /\ \A c \in a .. (a + k - 1) :
             Program(a, k)[c] = Content[c - Address + 1]
    BY <1>1, <1>2, <1>4, <2>1, ProgramIs
  <2>3. \A c \in a .. (a + k - 1) : c \in Region
    BY <1>1, <1>2, <2>1 DEF Region
  <2>4. QED
    BY <2>1, <2>2, <2>3 DEF a
<1>5. QED
  BY <1>3, <1>4

LEMMA InvWriteData ==
  ASSUME Inv, WriteData, UNCHANGED <<step, config>>
  PROVE  Inv'
<1> USE DEF Inv
<1> DEFINE a == chunks[1][1]
           n == chunks[1][2]
<1>1. /\ UNCHANGED <<layout, version, data, dirty, answer, step, chunks, bytes,
                     buffer, reliable, mem, latch, open>>
      /\ pc = "write" /\ pc' = "wait"
  BY DEF WriteData, config
<1>2. PICK o \in TransmitOutcomes(n) :
        /\ status' = IF o[1] = "ERROR" THEN "ERROR" ELSE "COMPLETE"
        /\ burst' = Program(a, o[2])
  BY DEF WriteData
<1>3. /\ Address' = Address /\ Length' = Length /\ Region' = Region
      /\ Size' = Size /\ Content' = Content
      /\ \A s : Chunking(s) <=> Chunking(s)'
  BY <1>1, Fixed DEF Content
<1>4. /\ a \in Nat /\ n \in Nat /\ Address <= a /\ a + n <= Address + Length
      /\ Address \in Nat /\ Length \in Nat /\ Region \subseteq Cells
      /\ a' = a /\ n' = n
  BY <1>1, FirstChunk, LayoutIs DEF TypeOK
<1>5. /\ o[2] \in 0 .. n
      /\ reliable => o = IF n = 0 THEN <<"ERROR", 0>> ELSE <<"OK", n>>
  BY <1>2, <1>4 DEF TransmitOutcomes
<1>6. \/ burst' = burst /\ (o[2] = 0 \/ ~latch \/ Busy)
      \/ /\ DOMAIN burst' = a .. (a + o[2] - 1) /\ o[2] > 0
         /\ \A c \in a .. (a + o[2] - 1) :
              c \in Region /\ burst'[c] = Content[c - Address + 1]
  BY <1>1, <1>2, <1>5, Sent
<1>7. /\ version \in Versions /\ data \in [1 .. Size -> Bytes] /\ step = "write"
      /\ Content \in [1 .. Length -> Bytes]
  <2>1. step = "write"
    BY <1>1 DEF Call
  <2>2. version \in Versions /\ data \in [1 .. Size -> Bytes]
    BY <2>1 DEF Call, On
  <2>3. QED
    BY <2>1, <2>2, ContentIs DEF TypeOK
<1> HIDE DEF a, n
<1>8. DOMAIN burst' \subseteq Region /\ \A c \in DOMAIN burst' : burst'[c] \in Bytes
  <2>1. CASE burst' = burst
    BY <2>1 DEF Call, TypeOK
  <2>2. CASE burst' # burst
    <3>1. \A c \in Region : c - Address + 1 \in 1 .. Length
      BY <1>4 DEF Region
    <3>2. QED
      BY <1>6, <1>7, <2>2, <3>1
  <2>3. QED
    BY <2>1, <2>2
<1>9. TypeOK'
  BY <1>1, <1>2, <1>4, <1>8 DEF TypeOK
<1>10. Call'
  BY <1>1, <1>3, <1>7, <1>8 DEF Call, On
<1>11. Progress'
  <2>1. SUFFICES ASSUME reliable PROVE Progress'
    BY <1>1 DEF Progress
  <2>2. latch /\ ~Busy /\ ~open /\ StoredBefore(a)
    BY <1>1, <2>1 DEF Progress, a
  <2>3. status' = IF n = 0 THEN "ERROR" ELSE "COMPLETE"
    BY <1>2, <1>5, <2>1
  <2>4. DOMAIN burst' = a .. (a + n - 1)
        /\ \A c \in DOMAIN burst' : burst'[c] = Content[c - Address + 1]
    <3>1. CASE n = 0
      <4>1. o[2] = 0 /\ a .. (a + n - 1) = {}
        BY <1>4, <1>5, <2>1, <3>1
      <4>2. burst' = burst
        BY <1>6, <4>1
      <4>3. DOMAIN burst = {}
        BY <2>2 DEF Busy
      <4>4. QED
        BY <4>1, <4>2, <4>3
    <3>2. CASE n # 0
      <4>1. o[2] = n
        BY <1>5, <2>1, <3>2
      <4>2. QED
        BY <1>6, <2>2, <3>2, <4>1
    <3>3. QED
      BY <3>1, <3>2
  <2>5. ASSUME NEW c \in Region, c < a + n
        PROVE  Programmed(DOMAIN burst)'[c] = Content[c - Address + 1]
    <3>1. c \in Cells /\ c \in Int
      BY <1>4 DEF Region, Cells
    <3>2. Programmed(DOMAIN burst)'[c] = IF c \in DOMAIN burst' THEN burst'[c] ELSE mem[c]
      BY <1>1, <3>1 DEF Programmed
    <3>3. Programmed(DOMAIN burst)[c] = mem[c]
      BY <2>2, <3>1 DEF Programmed, Busy
    <3>4. CASE c < a
      BY <2>2, <2>4, <3>1, <3>2, <3>3, <3>4 DEF StoredBefore
    <3>5. CASE c >= a
      BY <1>4, <2>4, <2>5, <3>1, <3>2, <3>5
    <3>6. QED
      BY <1>4, <3>1, <3>4, <3>5
  <2>6. StoredBefore(chunks[1][1] + chunks[1][2])'
    BY <1>1, <1>3, <2>5 DEF StoredBefore, a, n
  <2>7. QED
    BY <1>1, <1>3, <1>7, <2>2, <2>3, <2>4, <2>6 DEF Progress, n
<1>12. QED
  BY <1>1, <1>9, <1>10, <1>11 DEF ChipQuiet

LEMMA InvWriteDisable ==
  ASSUME Inv, WriteDisable, UNCHANGED <<step, config>>
  PROVE  Inv'
<1> USE DEF Inv
<1>1. /\ UNCHANGED <<layout, version, data, dirty, answer, step, bytes,
                     status, buffer, reliable, mem, burst>>
      /\ pc = "wrdi" /\ open' = FALSE
      /\ latch' = IF open \/ Busy THEN latch ELSE FALSE
      /\ chunks' = Tail(chunks)
      /\ pc' = IF status = "ERROR" \/ Len(chunks) = 1 THEN "free" ELSE "wren"
  BY DEF WriteDisable, Latch, config
<1>2. /\ Address' = Address /\ Length' = Length /\ Region' = Region
      /\ Size' = Size /\ Content' = Content /\ (FillsPages <=> FillsPages')
      /\ \A s : Chunking(s) <=> Chunking(s)'
      /\ \A c : StoredBefore(c) <=> StoredBefore(c)'
  BY <1>1, Fixed, SameStored
<1>3. /\ Len(chunks) \in Nat \ {0} /\ chunks \in Seq(Pairs) /\ chunks # << >>
      /\ Chunking(chunks) /\ step = "write"
      /\ bytes = [at |-> Address, source |-> Content]
  BY <1>1, FirstChunk DEF Call, TypeOK
<1>4. Tail(chunks) \in Seq(Pairs)
  BY <1>3, HeadTailProperties
<1>5. pc' = "wren" => /\ Len(chunks) # 1 /\ chunks' # << >> /\ Chunking(chunks')
                      /\ chunks'[1][1] = chunks[1][1] + chunks[1][2]
  BY <1>1, <1>3, ChunkingTail
<1>6. TypeOK'
  BY <1>1, <1>4, <1>5 DEF TypeOK, Pairs
<1>7. Call'
  BY <1>1, <1>2, <1>3, <1>5 DEF Call, On, Busy
<1>8. Progress'
  <2>1. SUFFICES ASSUME reliable PROVE Progress'
    BY <1>1 DEF Progress
  <2>2. /\ ~open /\ ~Busy /\ StoredBefore(chunks[1][1] + chunks[1][2])
        /\ status = IF chunks[1][2] = 0 THEN "ERROR" ELSE "COMPLETE"
    BY <1>1, <2>1 DEF Progress
  <2>3. /\ chunks[1][2] = 0 <=> FillsPages /\ Len(chunks) = 1
        /\ Len(chunks) = 1 => chunks[1][1] + chunks[1][2] = Address + Length
    BY <1>1, FirstChunk
  <2>4. CASE Len(chunks) = 1
    <3>1. pc' = "free" /\ StoredBefore(Address + Length)'
      BY <1>1, <1>2, <2>2, <2>3, <2>4
    <3>2. status' = IF FillsPages' THEN "ERROR" ELSE "COMPLETE"
      BY <1>1, <1>2, <2>2, <2>3, <2>4
    <3>3. QED
      BY <1>1, <1>2, <1>3, <2>1, <2>2, <3>1, <3>2 DEF Progress, Busy
  <2>5. CASE Len(chunks) # 1
    <3>1. pc' = "wren" /\ chunks'[1][1] = chunks[1][1] + chunks[1][2]
      BY <1>1, <1>5, <2>2, <2>3, <2>5
    <3>2. StoredBefore(chunks[1][1])'
      BY <1>2, <2>2, <3>1
    <3>3. QED
      BY <1>1, <1>2, <1>3, <2>1, <2>2, <3>1, <3>2 DEF Progress, Busy
  <2>6. QED
    BY <2>4, <2>5
<1>9. ChipQuiet'
  BY <1>1 DEF ChipQuiet, Progress, Busy
<1>10. QED
  BY <1>6, <1>7, <1>8, <1>9

LEMMA InvRead ==
  ASSUME Inv, Read, UNCHANGED <<step, config>>
  PROVE  Inv'
<1> USE DEF Inv
<1>1. /\ UNCHANGED <<layout, version, data, dirty, answer, step, bytes,
                     reliable, mem, latch, burst>>
      /\ pc = "read" /\ pc' = "free" /\ chunks' = << >>
      /\ Receive(Address, Length) \/ GiveUp
      /\ step \in {"init", "read", "verify"}
  BY DEF Read, config, Call
<1>2. /\ Address' = Address /\ Length' = Length /\ Region' = Region
      /\ Size' = Size /\ Content' = Content /\ (FillsPages <=> FillsPages')
      /\ \A c : StoredBefore(c) <=> StoredBefore(c)'
  BY <1>1, Fixed, SameStored
<1>3. Address \in Nat /\ Length \in Nat /\ Region \subseteq Cells
  BY LayoutIs DEF TypeOK
<1>4. \A i \in 1 .. Length : mem[Address + i - 1] \in Bytes
  BY <1>3 DEF TypeOK, Region
<1>5. ASSUME Receive(Address, Length)
      PROVE  /\ buffer' \in [1 .. Length -> Bytes] /\ buffer' \in Seq(Bytes)
             /\ open' = FALSE /\ status' = "COMPLETE"
             /\ reliable => buffer' = [i \in 1 .. Length |-> mem[Address + i - 1]]
  <2>1. \A k : Prefix(Address, Length, k) \in [1 .. Length -> Bytes]
    BY <1>4, M95256Assumption DEF Prefix
  <2>2. buffer' \in [1 .. Length -> Bytes]
    BY <1>5, <2>1 DEF Receive
  <2>3. Prefix(Address, Length, Length) = [i \in 1 .. Length |-> mem[Address + i - 1]]
    BY <1>3 DEF Prefix
  <2>4. reliable => ~open /\ ~Busy
    BY <1>1 DEF Progress
  <2>5. QED
    BY <1>3, <1>5, <2>2, <2>3, <2>4, FunctionAsSeq DEF Receive
<1>6. TypeOK'
  <2>1. << >> \in Seq((0 .. MemSize) \X (0 .. MemSize))
    OBVIOUS
  <2>2. CASE Receive(Address, Length)
    BY <1>1, <1>5, <2>1, <2>2 DEF TypeOK
  <2>3. CASE GiveUp
    BY <1>1, <2>1, <2>3 DEF TypeOK, GiveUp
  <2>4. QED
    BY <1>1, <2>2, <2>3
<1>7. Call'
  <2>1. status' = "COMPLETE" => buffer' \in [1 .. Length -> Bytes]
    BY <1>1, <1>5 DEF GiveUp
  <2>2. QED
    BY <1>1, <1>2, <2>1 DEF Call, On, Busy
<1>8. Progress'
  <2>1. SUFFICES ASSUME reliable PROVE Progress'
    BY <1>1 DEF Progress
  <2>2. Receive(Address, Length)
    BY <1>1, <2>1 DEF GiveUp
  <2>3. ~Busy /\ (step = "verify" => StoredBefore(Address + Length)' /\ ~FillsPages')
    BY <1>1, <1>2, <2>1 DEF Progress
  <2>4. QED
    BY <1>1, <1>2, <1>5, <2>1, <2>2, <2>3 DEF Progress, Busy
<1>9. ChipQuiet'
  BY <1>1, <1>8 DEF ChipQuiet, Progress, Busy
<1>10. QED
  BY <1>6, <1>7, <1>8, <1>9

LEMMA InvFinish ==
  ASSUME Inv, Finish, UNCHANGED <<step, config>>
  PROVE  Inv'
<1> USE DEF Inv
<1>1. /\ UNCHANGED <<layout, version, data, dirty, answer, step, pc, chunks,
                     bytes, status, buffer, reliable, open>>
      /\ Busy /\ mem' = Programmed(DOMAIN burst) /\ DOMAIN burst' = {}
      /\ latch' = FALSE
  BY DEF Finish, Idle, config, driver
<1>2. /\ Address' = Address /\ Length' = Length /\ Region' = Region
      /\ Size' = Size /\ Content' = Content /\ (FillsPages <=> FillsPages')
      /\ \A s : Chunking(s) <=> Chunking(s)'
  BY <1>1, Fixed DEF Content
<1>3. mem' \in [Cells -> Bytes]
  BY <1>1 DEF Programmed, TypeOK
<1>4. Programmed(DOMAIN burst)' = Programmed(DOMAIN burst)
  <2>1. Programmed(DOMAIN burst)' = [c \in Cells |-> mem'[c]]
    BY <1>1 DEF Programmed
  <2>2. QED
    BY <1>1, <2>1 DEF Programmed
<1>5. \A c : StoredBefore(c) <=> StoredBefore(c)'
  BY <1>2, <1>4 DEF StoredBefore
<1>6. TypeOK'
  <2>1. /\ DOMAIN burst' \subseteq Cells
        /\ \A c \in DOMAIN burst' : burst'[c] \in Bytes
    BY <1>1
  <2> HIDE DEF Inv
  <2>2. TypeOK
    BY DEF Inv
  <2>3. latch' \in BOOLEAN
    BY <1>1
  <2>4. /\ open' \in BOOLEAN /\ dirty' \in BOOLEAN
        /\ <<layout', reliable'>> \in Setups
    BY <1>1, <2>2 DEF TypeOK
  <2>5. /\ chunks' \in Seq((0 .. MemSize) \X (0 .. MemSize))
        /\ pc' # "free" => chunks' # << >>
        /\ bytes'.at \in Cells /\ bytes'.source \in Seq(Bytes)
    BY <1>1, <2>2 DEF TypeOK
  <2>6. QED
    BY <1>1, <1>3, <2>1, <2>2, <2>3, <2>4, <2>5 DEF TypeOK
<1>7. Call'
  BY <1>1, <1>2 DEF Call, On, Busy
<1>8. Progress'
  <2>1. SUFFICES ASSUME reliable PROVE Progress'
    BY <1>1 DEF Progress
  <2>2. pc = "wait" /\ step = "write"
    BY <1>1, <2>1 DEF Progress, Call
  <2>3. QED
    BY <1>1, <1>2, <1>5, <2>1, <2>2 DEF Progress, Busy
<1>9. ChipQuiet'
  BY <1>1, <1>8 DEF ChipQuiet, Progress, Busy
<1>10. QED
  BY <1>6, <1>7, <1>8, <1>9

LEMMA InvPowerLoss ==
  ASSUME Inv, PowerLoss
  PROVE  Inv'
<1> USE DEF Inv
<1>1. PICK S \in SUBSET DOMAIN burst : mem' = Programmed(S)
  BY DEF PowerLoss, ChipOff
<1>2. /\ UNCHANGED <<layout, reliable>>
      /\ step' = "off" /\ latch' = FALSE /\ open' = FALSE
      /\ DOMAIN burst' = {}
      /\ pc' = "free" /\ chunks' = << >>
      /\ bytes' = [at |-> 0, source |-> << >>]
      /\ status' = "PENDING" /\ buffer' = << >>
      /\ version' = << >> /\ data' = << >> /\ dirty' = FALSE /\ answer' = "none"
  BY DEF PowerLoss, ChipOff, Idle, DriverReset
<1>3. mem' \in [Cells -> Bytes]
  BY <1>1 DEF Programmed, TypeOK
<1>4. TypeOK'
  <2>1. 0 \in Cells
    BY M95256Assumption DEF Cells
  <2>2. << >> \in Seq(Bytes) /\ << >> \in Seq((0 .. MemSize) \X (0 .. MemSize))
    OBVIOUS
  <2>3. \A c \in DOMAIN burst' : burst'[c] \in Bytes
    BY <1>2
  <2>4. QED
    BY <1>2, <1>3, <2>1, <2>2, <2>3 DEF TypeOK
<1>5. Call'
  BY <1>2 DEF Call, On, Busy
<1>6. Progress'
  BY <1>2 DEF Progress, Busy
<1>7. ChipQuiet'
  BY <1>2 DEF ChipQuiet, Busy
<1>8. QED
  BY <1>4, <1>5, <1>6, <1>7

-----------------------------------------------------------------------------
(* Every step keeps the invariant.                                         *)
LEMMA InductiveStep == Inv /\ [Next]_vars => Inv'
<1> SUFFICES ASSUME Inv, [Next]_vars PROVE Inv'
  OBVIOUS
<1>1. ASSUME NEW v \in Versions, Boot(v) PROVE Inv'
  BY <1>1, InvBoot
<1>2. ASSUME NEW d \in [1 .. Size -> Bytes], Set(d) PROVE Inv'
  BY <1>2, InvIdle DEF Set
<1>3. CASE UNCHANGED vars
  <2>1. UNCHANGED <<layout, version, data, dirty, answer, step, pc, chunks,
                    bytes, status, buffer, reliable, mem, latch, burst, open>>
    BY <1>3 DEF vars, chip, driver, config
  <2>2. /\ Address' = Address /\ Length' = Length /\ Region' = Region
        /\ Size' = Size /\ Content' = Content /\ (FillsPages <=> FillsPages')
        /\ \A s : Chunking(s) <=> Chunking(s)'
        /\ \A c : StoredBefore(c) <=> StoredBefore(c)'
    BY <2>1, Fixed, SameStored
  <2>3. TypeOK' /\ ChipQuiet'
    BY <2>1 DEF Inv, TypeOK, ChipQuiet, Busy
  <2>4. Call'
    BY <2>1, <2>2 DEF Inv, Call, On, Busy
  <2>5. Progress'
    BY <2>1, <2>2 DEF Inv, Progress, Busy
  <2>6. QED
    BY <2>3, <2>4, <2>5 DEF Inv
<1>4. CASE WriteClean
  <2>1. step = "idle" /\ data \in [1 .. Size -> Bytes]
    BY <1>4 DEF WriteClean, Inv, Call, On
  <2>2. QED
    BY <1>4, <2>1, InvIdle
<1>5. CASE Main
  BY <1>5, InvDone, InvStartRead, InvWriteEnable, InvWriteData, InvWait,
     InvWriteDisable, InvRead DEF Main, Driver
<1>6. CASE (Halt \/ Finish) /\ UNCHANGED <<step, config>>
  BY <1>6, InvHalt, InvFinish
<1>7. QED
  BY <1>1, <1>2, <1>3, <1>4, <1>5, <1>6, InvStartRead, InvStartWrite,
     InvPowerLoss DEF Next

(* Whatever the address, the sizes and the failures: what the driver holds *)
(* of a call lies in the memory of the chip, the page writes go through    *)
(* the configuration from its beginning to its end, the chip rests         *)
(* between two calls, and while transfers succeed a write that is over has *)
(* stored every byte.                                                      *)
THEOREM Invariance == Spec => []Inv
<1>1. Init => Inv
  BY InitInv
<1>2. Inv /\ [Next]_vars => Inv'
  BY InductiveStep
<1>3. QED
  BY <1>1, <1>2, PTL DEF Spec

-----------------------------------------------------------------------------
(* The two libraries implement ConfigStore: its state is that of this      *)
(* module without the driver and the chip's registers.                     *)

LEMMA SameStore ==
  /\ C!Address = Address /\ C!Size = Size /\ C!Length = Length
  /\ C!Region = Region /\ (C!FillsPages <=> FillsPages)
  /\ C!Default = Default /\ (On => C!Content = Content)
<1>1. C!Address = Address /\ C!Size = Size
  BY DEF C!Address, Address, C!Size, Size
<1>2. C!Length = Length
  BY <1>1 DEF C!Length, Length
<1>3. QED
  BY <1>1, <1>2 DEF C!Region, Region, C!FillsPages, FillsPages, C!Default,
     Default, C!Content, Content

(* What ConfigStore sees of a step that changes nothing it has.            *)
LEMMA Unseen ==
  ASSUME UNCHANGED <<reliable, layout, mem, version, data, dirty, answer>>,
         On <=> On',
         step \in {"write", "verify"} <=> step' \in {"write", "verify"}
  PROVE  UNCHANGED C!cvars
<1>1. On' = On
  BY DEF On
<1>2. (step \in {"write", "verify"})' = (step \in {"write", "verify"})
  OBVIOUS
<1>3. (IF On THEN version ELSE << >>)' = IF On THEN version ELSE << >>
  BY <1>1
<1>4. QED
  BY <1>1, <1>2, <1>3 DEF C!cvars, C!given

(* Power lost, or programming done: what is then in the memory.            *)
LEMMA Mixed ==
  ASSUME Inv, reliable, On, NEW S \in SUBSET DOMAIN burst
  PROVE  C!Mixture(Programmed(S))
<1>1. S \in SUBSET C!Region
  BY SameStore DEF Inv, Call
<1>2. \A c \in S : burst[c] = C!Content[c - C!Address + 1]
  BY SameStore DEF Inv, Progress
<1>3. Programmed(S) = [c \in Cells |-> IF c \in S
                                       THEN C!Content[c - C!Address + 1]
                                       ELSE mem[c]]
  BY <1>2 DEF Programmed
<1>4. QED
  BY <1>1, <1>3 DEF C!Mixture

LEMMA Harmed ==
  ASSUME Inv, NEW S \in SUBSET DOMAIN burst
  PROVE  C!Damaged(Programmed(S))
<1>1. S \subseteq C!Region
  BY SameStore DEF Inv, Call
<1>2. QED
  BY <1>1 DEF C!Damaged, Programmed

(* What a read has found, against what is stored.                          *)
LEMMA Found ==
  ASSUME Inv, pc = "free", step \in {"init", "read", "verify"}
  PROVE  /\ Loaded => ReadData \in C!Reads(version)
         /\ ~Loaded => C!Fails(version)
<1>1. Loaded => ReadData \in [1 .. Size -> Bytes]
  BY ReadDataIs DEF Loaded
<1>2. CASE ~reliable
  BY <1>1, <1>2, SameStore DEF C!Reads, C!Fails
<1>3. CASE reliable
  <2>1. /\ status = "COMPLETE"
        /\ buffer = [i \in 1 .. Length |-> mem[Address + i - 1]]
    BY <1>3 DEF Inv, Progress
  <2>2. /\ VersionSize \in Nat /\ Size \in Nat /\ Length = VersionSize + Size
        /\ Address \in Nat
    BY LayoutIs DEF Inv, TypeOK
  <2>3. \A i \in 1 .. VersionSize : buffer[i] = C!CopyOf(i)
    BY <2>1, <2>2, SameStore DEF C!CopyOf
  <2>4. Loaded <=> C!Known(version)
    BY <2>1, <2>3 DEF Loaded, Matches, C!Known
  <2>5. \A i \in 1 .. Size : buffer[VersionSize + i] = C!CopyOf(VersionSize + i)
    <3>1. \A i \in 1 .. Size : VersionSize + i \in 1 .. Length
      BY <2>2
    <3>2. QED
      BY <2>1, <3>1, SameStore DEF C!CopyOf
  <2>6. ReadData = C!StoredData
    BY <2>5, SameStore DEF ReadData, C!StoredData
  <2>7. QED
    BY <1>3, <2>4, <2>6 DEF C!Reads, C!Fails
<1>4. QED
  BY <1>2, <1>3

(* A write that is over has stored everything.                             *)
LEMMA AllStored ==
  ASSUME Inv, reliable, pc = "free", step \in {"write", "verify"}
  PROVE  /\ C!Stored
         /\ \A i \in 1 .. Length : mem[Address + i - 1] = Content[i]
<1>1. StoredBefore(Address + Length) /\ ~Busy
  BY DEF Inv, Progress, ChipQuiet
<1>2. Address \in Nat /\ Length \in Nat /\ Region \subseteq Cells
  BY LayoutIs DEF Inv, TypeOK
<1>3. Programmed(DOMAIN burst) = [c \in Cells |-> mem[c]]
  BY <1>1 DEF Programmed, Busy
<1>4. ASSUME NEW i \in 1 .. Length
      PROVE  mem[Address + i - 1] = Content[i]
  <2>1. /\ Address + i - 1 \in Region /\ Address + i - 1 < Address + Length
        /\ (Address + i - 1) - Address + 1 = i
    BY <1>2 DEF Region
  <2>2. Programmed(DOMAIN burst)[Address + i - 1] = Content[i]
    BY <1>1, <2>1 DEF StoredBefore
  <2>3. QED
    BY <1>2, <1>3, <2>1, <2>2
<1>5. On
  BY DEF On
<1>6. QED
  BY <1>4, <1>5, SameStore DEF C!Stored, C!CopyOf

LEMMA BeginsAlike == Init => C!Init
<1> SUFFICES ASSUME Init PROVE C!Init
  OBVIOUS
<1>1. \E s \in Setups : layout = s[1] /\ reliable = s[2]
  BY DEF Init
<1>2. \E b \in Bytes : mem = [c \in Cells |-> b]
  BY DEF Init
<1>3. /\ step = "off" /\ ~On /\ version = << >> /\ data = << >>
      /\ dirty = FALSE /\ answer = "none"
  BY DEF Init, On
<1>4. QED
  BY <1>1, <1>2, <1>3 DEF C!Init

LEMMA StartsAlike ==
  ASSUME Inv, InitDone
  PROVE  \E v \in Versions : C!Start(v)
<1>1. /\ UNCHANGED <<reliable, mem, layout, version>>
      /\ step = "init" /\ step' = "idle" /\ pc = "free"
  BY DEF InitDone, Returned, chip
<1>2. version \in Versions
  BY <1>1 DEF Inv, Call
<1>3. ~On /\ On' /\ version' = version
  BY <1>1 DEF On
<1>4. \/ data' \in C!Reads(version) /\ dirty' = FALSE /\ answer' = "true"
      \/ /\ C!Fails(version) /\ data' = C!Default /\ dirty' = TRUE
         /\ answer' = "false"
  BY <1>1, Found, SameStore DEF InitDone, Take
<1>5. (step \in {"write", "verify"})' = (step \in {"write", "verify"})
  BY <1>1
<1>6. C!Start(version)
  BY <1>1, <1>3, <1>4, <1>5 DEF C!Start, C!given
<1>7. QED
  BY <1>2, <1>6

LEMMA LoadsAlike ==
  ASSUME Inv, ReadDone
  PROVE  C!Load
<1>1. /\ UNCHANGED <<reliable, mem, layout, version>>
      /\ step = "read" /\ step' = "idle" /\ pc = "free"
  BY DEF ReadDone, Returned, chip
<1>2. On /\ On'
  BY <1>1 DEF On
<1>3. \/ data' \in C!Reads(version) /\ dirty' = FALSE /\ answer' = "true"
      \/ C!Fails(version) /\ answer' = "false" /\ UNCHANGED <<data, dirty>>
  BY <1>1, Found DEF ReadDone, Take
<1>4. (step \in {"write", "verify"})' = (step \in {"write", "verify"})
  BY <1>1
<1>5. On' = On /\ ~(step \in {"write", "verify"})
  BY <1>1 DEF On
<1>6. QED
  BY <1>1, <1>2, <1>3, <1>4, <1>5 DEF C!Load, C!Ready, C!given

LEMMA CallsAlike ==
  ASSUME Inv, step = "idle"
  PROVE  /\ \A d : Set(d) => C!Set(d)
         /\ WriteClean => C!WriteNothing
         /\ CallWrite => C!BeginWrite
<1>1. On /\ ~(step \in {"write", "verify"})
  BY DEF On
<1>2. C!Ready
  BY <1>1 DEF C!Ready
<1>3. UNCHANGED step => /\ On' = On
                        /\ (step \in {"write", "verify"})'
                             = (step \in {"write", "verify"})
  BY DEF On
<1>4. ASSUME NEW d, Set(d) PROVE C!Set(d)
  BY <1>1, <1>2, <1>3, <1>4 DEF Set, C!Set, C!given, chip
<1>5. ASSUME WriteClean PROVE C!WriteNothing
  BY <1>1, <1>2, <1>3, <1>5 DEF WriteClean, C!WriteNothing, C!given, chip
<1>6. ASSUME CallWrite PROVE C!BeginWrite
  <2>1. On' = On /\ (step \in {"write", "verify"})' = TRUE
    BY <1>1, <1>6 DEF CallWrite, On
  <2>2. QED
    BY <1>1, <1>2, <1>6, <2>1
       DEF CallWrite, StartWrite, C!BeginWrite, C!given, chip, config
<1>7. QED
  BY <1>4, <1>5, <1>6

LEMMA WritesEndAlike ==
  ASSUME Inv, WriteFailed \/ Verified
  PROVE  C!EndWrite
<1>1. /\ UNCHANGED <<reliable, mem, layout, version, data>>
      /\ step \in {"write", "verify"} /\ step' = "idle" /\ pc = "free"
  BY DEF WriteFailed, Verified, Returned, chip
<1>2. /\ On /\ On' = On
      /\ (step \in {"write", "verify"}) = TRUE
      /\ (step \in {"write", "verify"})' = FALSE
  BY <1>1 DEF On
<1>3. reliable => C!Stored
  BY <1>1, AllStored
<1>4. \/ /\ reliable => (C!Stored /\ ~C!FillsPages)
         /\ dirty' \in {FALSE, ~reliable} /\ answer' = "true"
      \/ /\ reliable => (C!Stored /\ C!FillsPages)
         /\ answer' = "false" /\ UNCHANGED dirty
  <2>1. CASE WriteFailed
    <3>1. reliable => FillsPages
      BY <1>1, <2>1 DEF WriteFailed, Returned, Inv, Progress
    <3>2. QED
      BY <1>3, <2>1, <3>1, SameStore DEF WriteFailed
  <2>2. CASE Verified
    <3>1. dirty \in BOOLEAN /\ reliable \in BOOLEAN /\ step = "verify"
      BY <2>2, LayoutIs DEF Inv, TypeOK, Verified, Returned
    <3>2. CASE reliable
      <4>1. /\ ~FillsPages /\ status = "COMPLETE"
            /\ buffer = [i \in 1 .. Length |-> mem[Address + i - 1]]
        BY <1>1, <3>1, <3>2 DEF Inv, Progress
      <4>2. Matches
        <5>1. \A i \in 1 .. Length : buffer[i] = Content[i]
          BY <1>1, <3>2, <4>1, AllStored
        <5>2. \A i \in 1 .. VersionSize : i \in 1 .. Length
          BY LayoutIs DEF Inv, TypeOK
        <5>3. \A i \in 1 .. VersionSize : Content[i] = version[i]
          <6>1. version \in Versions /\ data \in [1 .. Size -> Bytes]
            BY <1>1, <1>2 DEF Inv, Call
          <6>2. version \in Seq(Bytes) /\ Len(version) = VersionSize
            <7>1. version \in [1 .. VersionSize -> Bytes]
              BY <6>1, EepromConfigAssumption
            <7>2. QED
              BY <7>1, EepromConfigAssumption, FunctionAsSeq
          <6>3. data \in Seq(Bytes)
            BY <6>1, FunctionAsSeq, LayoutIs DEF Inv, TypeOK
          <6>4. QED
            BY <6>2, <6>3, ConcatProperties DEF Content
        <5>4. QED
          BY <5>1, <5>2, <5>3 DEF Matches
      <4>3. dirty' = FALSE /\ answer' = "true"
        BY <2>2, <4>1, <4>2 DEF Verified
      <4>4. QED
        BY <1>3, <3>2, <4>1, <4>3, SameStore
    <3>3. CASE ~reliable
      BY <2>2, <3>1, <3>3 DEF Verified
    <3>4. QED
      BY <3>1, <3>2, <3>3
  <2>3. QED
    BY <2>1, <2>2
<1>5. QED
  BY <1>1, <1>2, <1>4 DEF C!EndWrite, C!given

LEMMA StoresAlike ==
  ASSUME Inv, Finish, UNCHANGED <<step, config>>
  PROVE  C!Store
<1>1. /\ UNCHANGED <<reliable, layout, version, data, dirty, answer, step>>
      /\ mem' = Programmed(DOMAIN burst) /\ Busy
  BY DEF Finish, config
<1>2. On /\ On' = On
        /\ (step \in {"write", "verify"})' = (step \in {"write", "verify"})
  BY <1>1 DEF On, Inv, Call
<1>3. \/ step \in {"write", "verify"} /\ C!Mixture(mem')
      \/ ~reliable /\ On /\ C!Damaged(mem')
  <2>1. CASE reliable
    <3>1. step = "write"
      BY <1>1, <2>1 DEF Inv, Call, Progress
    <3>2. QED
      BY <1>1, <1>2, <2>1, <3>1, Mixed
  <2>2. CASE ~reliable
    BY <1>1, <1>2, <2>2, Harmed
  <2>3. QED
    BY <2>1, <2>2
<1>4. QED
  BY <1>1, <1>2, <1>3 DEF C!Store, C!given

LEMMA PowerLostAlike ==
  ASSUME Inv, PowerLoss
  PROVE  C!PowerLoss
<1>1. PICK S \in SUBSET DOMAIN burst : mem' = Programmed(S)
  BY DEF PowerLoss, ChipOff
<1>2. /\ UNCHANGED <<reliable, layout>>
      /\ step' = "off" /\ version' = << >> /\ data' = << >>
      /\ dirty' = FALSE /\ answer' = "none"
  BY DEF PowerLoss, ChipOff
<1>3. On' = FALSE /\ (step \in {"write", "verify"})' = FALSE
  BY <1>2 DEF On
<1>4. ~reliable /\ On => C!Damaged(mem')
  BY <1>1, Harmed
<1>5. reliable /\ step \in {"write", "verify"} => C!Mixture(mem')
  BY <1>1, Mixed DEF On
<1>6. ~On \/ (reliable /\ ~(step \in {"write", "verify"})) => mem' = mem
  <2>1. SUFFICES ASSUME ~On \/ (reliable /\ ~(step \in {"write", "verify"}))
                 PROVE  mem' = mem
    OBVIOUS
  <2>2. ~Busy
    BY <2>1 DEF Inv, Call, Progress
  <2>3. S = {}
    BY <2>2 DEF Busy
  <2>4. QED
    BY <1>1, <2>3 DEF Programmed, Inv, TypeOK
<1>7. CASE ~reliable /\ On
  BY <1>2, <1>3, <1>4, <1>7 DEF C!PowerLoss, C!given
<1>8. CASE reliable /\ step \in {"write", "verify"}
  BY <1>2, <1>3, <1>5, <1>8 DEF C!PowerLoss, C!given
<1>9. CASE ~(~reliable /\ On) /\ ~(reliable /\ step \in {"write", "verify"})
  <2>1. mem' = mem
    BY <1>6, <1>9
  <2>2. QED
    BY <1>2, <1>3, <1>9, <2>1 DEF C!PowerLoss, C!given
<1>10. QED
  BY <1>7, <1>8, <1>9

(* What only the driver and the chip know of.                              *)
LEMMA StepsUnseen ==
  ASSUME Inv,
         \/ \E v \in Versions : Boot(v)
         \/ CallRead \/ Verify
         \/ (Driver \/ Halt) /\ UNCHANGED <<step, config>>
         \/ UNCHANGED vars
  PROVE  UNCHANGED C!cvars
<1>1. ASSUME NEW v \in Versions, Boot(v) PROVE UNCHANGED C!cvars
  <2>1. /\ UNCHANGED <<reliable, layout, mem, data, answer>> /\ dirty' = FALSE
        /\ step = "off" /\ step' = "init"
    BY <1>1 DEF Boot, StartRead, chip
  <2>2. On = FALSE /\ On' = FALSE /\ dirty = FALSE
    BY <2>1 DEF On, Inv, Call, TypeOK
  <2>3. (step \in {"write", "verify"})' = (step \in {"write", "verify"})
    BY <2>1
  <2>4. QED
    BY <2>1, <2>2, <2>3 DEF C!cvars, C!given
<1>2. CASE CallRead \/ Verify
  <2>1. UNCHANGED <<reliable, layout, mem, version, data, dirty, answer>>
    BY <1>2 DEF CallRead, Verify, StartRead, chip, config
  <2>2. \/ step = "idle" /\ step' = "read"
        \/ step = "write" /\ step' = "verify"
    BY <1>2 DEF CallRead, Verify
  <2>3. /\ On <=> On'
        /\ step \in {"write", "verify"} <=> step' \in {"write", "verify"}
    BY <2>2 DEF On
  <2>4. QED
    BY <2>1, <2>3, Unseen
<1>3. CASE (Driver \/ Halt) /\ UNCHANGED <<step, config>>
  <2>1. UNCHANGED <<reliable, mem>>
    BY <1>3 DEF Driver, Halt, WriteEnable, WriteData, Wait, WriteDisable,
       Read, Latch, chip
  <2>2. UNCHANGED <<layout, version, data, dirty, answer, step>>
    BY <1>3 DEF config
  <2>3. QED
    BY <2>1, <2>2, Unseen DEF On
<1>4. CASE UNCHANGED vars
  <2>1. UNCHANGED <<reliable, layout, mem, version, data, dirty, answer, step>>
    BY <1>4 DEF vars, chip, config
  <2>2. QED
    BY <2>1, Unseen DEF On
<1>5. QED
  BY <1>1, <1>2, <1>3, <1>4

LEMMA Simulation == Inv /\ [Next]_vars => [C!Next]_C!cvars
<1> SUFFICES ASSUME Inv, [Next]_vars PROVE [C!Next]_C!cvars
  OBVIOUS
<1>1. CASE InitDone \/ ReadDone
  BY <1>1, StartsAlike, LoadsAlike DEF C!Next
<1>2. ASSUME NEW d \in [1 .. Size -> Bytes], Set(d)
      PROVE  C!Next
  BY <1>2, SameStore, CallsAlike DEF C!Next, Set
<1>3. CASE WriteClean \/ CallWrite
  BY <1>3, CallsAlike DEF C!Next, WriteClean, CallWrite
<1>4. CASE WriteFailed \/ Verified
  BY <1>4, WritesEndAlike DEF C!Next
<1>5. CASE Finish /\ UNCHANGED <<step, config>>
  BY <1>5, StoresAlike DEF C!Next
<1>6. CASE PowerLoss
  BY <1>6, PowerLostAlike DEF C!Next
<1>7. CASE \/ \E v \in Versions : Boot(v)
           \/ CallRead \/ Verify
           \/ (Driver \/ Halt) /\ UNCHANGED <<step, config>>
           \/ UNCHANGED vars
  BY <1>7, StepsUnseen
<1>8. QED
  BY <1>1, <1>2, <1>3, <1>4, <1>5, <1>6, <1>7 DEF Next, Main

(* For every page size, address, size and version, with any failures: the  *)
(* two libraries and the chip implement ConfigStore.  A write changes no   *)
(* byte outside the configuration, has stored all of it when it returns    *)
(* and transfers succeed, and what the next start reads is what the last   *)
(* write, complete or cut short by a loss of power, has left.              *)
THEOREM Implements == Spec => ImplementsConfigStore
<1>1. Init => C!Init
  BY BeginsAlike
<1>2. Inv /\ [Next]_vars => [C!Next]_C!cvars
  BY Simulation
<1>3. Spec => []Inv
  BY Invariance
<1>4. QED
  BY <1>1, <1>2, <1>3, PTL DEF Spec, ImplementsConfigStore, C!Spec
=============================================================================
