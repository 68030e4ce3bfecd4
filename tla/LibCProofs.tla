------------------------------ MODULE LibCProofs ------------------------------
(***************************************************************************)
(* Proofs about numbers and formats, for words of any width, buffers the   *)
(* numerals fit in, and any formats and texts.                             *)
(*                                                                         *)
(* Numeral, Powers and FlattenSeq are defined by recursion; the lemmas in  *)
(* front give each its first step, by induction on the number or the       *)
(* position.  The invariant of printf splits its text in two: what has     *)
(* been printed, with the digits a division still has to find, and what    *)
(* the characters and arguments that are left stand for.  The invariant    *)
(* of atoi is that the value so far is that of the digits read so far.     *)
(***************************************************************************)
EXTENDS LibC, NaturalOrder, SequenceTheorems

-----------------------------------------------------------------------------
\* Words, and the integers they stand for.
LEMMA WordFacts ==
    /\ WORD \in Nat /\ WORD > 0 /\ Words = 0 .. (WORD - 1)
    /\ WORD \div 2 \in Nat /\ WORD \div 2 > 0 /\ WORD = 2 * (WORD \div 2)
<1> DEFINE w == WORD
<1>1. w \in Nat /\ w > 0 /\ w = 2 * (w \div 2) /\ Words = 0 .. (w - 1)
  BY LibCAssumption DEF Words
<1> HIDE DEF w
<1>2. w \div 2 \in Nat /\ w \div 2 > 0
  BY <1>1
<1>3. w = WORD
  BY DEF w
<1> QED
  BY <1>1, <1>2, <1>3

\* Remainders, of which Bits takes those of negative numbers too.
LEMMA RemainderBound == ASSUME NEW w \in Nat, w > 0, NEW n \in Int PROVE n % w \in 0 .. (w - 1)
OBVIOUS

LEMMA RemainderOfSmall == ASSUME NEW w \in Nat, w > 0, NEW n \in 0 .. (w - 1) PROVE n % w = n
OBVIOUS

LEMMA RemainderOfNegative ==
    ASSUME NEW w \in Nat, w > 0, NEW n \in (-w) .. (-1) PROVE n % w = n + w
OBVIOUS

LEMMA DigitFacts ==
    /\ \A d \in 0 .. 15 : DigitChar(d) \in Char
    /\ \A d \in 0 .. 9 : isdigit(DigitChar(d)) /\ Decimal(DigitChar(d)) = d
    /\ \A d \in 0 .. 9 : DigitChar(d) # "-" /\ ~isspace(DigitChar(d))
<1> DEFINE Digits == <<"0", "1", "2", "3", "4", "5", "6", "7", "8", "9",
                       "a", "b", "c", "d", "e", "f">>
<1>1. \A d \in 0 .. 15 : DigitChar(d) = Digits[d + 1]
  BY DEF DigitChar
<1>2. \A d \in 0 .. 15 : DigitChar(d) \in Char
  BY LibCAssumption
<1>3. \A d, e \in 0 .. 9 : DigitChar(d) = DigitChar(e) => d = e
  BY DEF DigitChar
<1>4. \A d \in 0 .. 9 : isdigit(DigitChar(d)) /\ Decimal(DigitChar(d)) = d
  BY <1>3 DEF isdigit, Decimal
<1>5. \A d \in 1 .. 10 : Digits[d] \in {"0", "1", "2", "3", "4", "5", "6", "7", "8", "9"}
  OBVIOUS
<1>6. ASSUME NEW d \in 0 .. 9 PROVE DigitChar(d) # "-" /\ ~isspace(DigitChar(d))
  <2>1. DigitChar(d) = Digits[d + 1] /\ d + 1 \in 1 .. 10
    BY <1>1
  <2>2. DigitChar(d) \in {"0", "1", "2", "3", "4", "5", "6", "7", "8", "9"}
    <3> HIDE DEF Digits
    <3> QED
      BY <1>5, <2>1
  <2> QED
    BY <2>2 DEF isspace
<1> QED
  BY <1>2, <1>4, <1>6

-----------------------------------------------------------------------------
\* Numerals.  N holds the numerals in base b of the numbers up to n.
AreNumerals(N, b, n) ==
    /\ N = [k \in 0 .. n |-> N[k]]
    /\ \A k \in 0 .. n : N[k] = IF k < b THEN <<DigitChar(k)>>
                                ELSE Append(N[k \div b], DigitChar(k % b))

LEMMA Quotient ==
    ASSUME NEW b \in {10, 16}, NEW k \in Nat
    PROVE  /\ k \div b \in Nat /\ k % b \in 0 .. (b - 1) /\ k = b * (k \div b) + (k % b)
           /\ k < b => k \div b = 0 /\ k % b = k
           /\ k > 0 => k \div b < k
           /\ k >= b => k \div b > 0
<1>1. CASE b = 10
  <2>1. k \div 10 \in Nat /\ k % 10 \in 0 .. 9 /\ k = 10 * (k \div 10) + (k % 10)
    OBVIOUS
  <2> DEFINE q == k \div 10
             r == k % 10
  <2>2. q \in Nat /\ r \in 0 .. 9 /\ k = 10 * q + r
    BY <2>1
  <2> HIDE DEF q, r
  <2>3. (k < 10 => q = 0 /\ r = k) /\ (k > 0 => q < k) /\ (k >= 10 => q > 0)
    BY <2>2
  <2> QED
    BY <1>1, <2>2, <2>3 DEF q, r
<1>2. CASE b = 16
  <2>1. k \div 16 \in Nat /\ k % 16 \in 0 .. 15 /\ k = 16 * (k \div 16) + (k % 16)
    OBVIOUS
  <2> DEFINE q == k \div 16
             r == k % 16
  <2>2. q \in Nat /\ r \in 0 .. 15 /\ k = 16 * q + r
    BY <2>1
  <2> HIDE DEF q, r
  <2>3. (k < 16 => q = 0 /\ r = k) /\ (k > 0 => q < k) /\ (k >= 16 => q > 0)
    BY <2>2
  <2> QED
    BY <1>2, <2>2, <2>3 DEF q, r
<1> QED
  BY <1>1, <1>2

LEMMA SomeNumerals == ASSUME NEW b \in {10, 16}, NEW n \in Nat PROVE \E N : AreNumerals(N, b, n)
<1> DEFINE T == {k \in 0 .. n : \E N : AreNumerals(N, b, k)}
<1>1. 0 \in T
  <2> DEFINE N == [j \in 0 .. 0 |-> <<DigitChar(j)>>]
  <2>1. AreNumerals(N, b, 0)
    BY DEF AreNumerals
  <2> QED
    BY <2>1
<1>2. ASSUME NEW k \in 1 .. n, k - 1 \in T PROVE k \in T
  <2>1. PICK M : AreNumerals(M, b, k - 1)
    BY <1>2
  <2> DEFINE last == IF k < b THEN <<DigitChar(k)>> ELSE Append(M[k \div b], DigitChar(k % b))
             N == [j \in 0 .. k |-> IF j = k THEN last ELSE M[j]]
  <2>2. \A j \in 0 .. k : j \div b \in 0 .. k /\ (j >= b => j \div b \in 0 .. k - 1)
    BY Quotient
  <2>3. N = [j \in 0 .. k |-> N[j]] /\ N[k] = last
    OBVIOUS
  <2>4. \A j \in 0 .. k - 1 : j \in 0 .. k /\ N[j] = M[j]
    OBVIOUS
  <2>5. \A j \in 0 .. k : j # k => j \in 0 .. k - 1
    OBVIOUS
  <2>6. \A j \in 0 .. k - 1 : M[j] = IF j < b THEN <<DigitChar(j)>>
                                      ELSE Append(M[j \div b], DigitChar(j % b))
    BY <2>1 DEF AreNumerals
  <2>7. \A j \in 0 .. k : j >= b => N[j \div b] = M[j \div b]
    BY <2>2, <2>4
  <2>8. k \in 0 .. k /\ k \in Nat /\ b \in Nat
    OBVIOUS
  <2> HIDE DEF N
  <2>a. ASSUME NEW j \in 0 .. k, j # k
        PROVE  N[j] = IF j < b THEN <<DigitChar(j)>> ELSE Append(N[j \div b], DigitChar(j % b))
    <3>1. j \in 0 .. k - 1 /\ N[j] = M[j]
      BY <2>a, <2>4, <2>5
    <3>2. j >= b => N[j \div b] = M[j \div b]
      BY <2>7
    <3>3. j >= b \/ j < b
      BY <2>8
    <3> QED
      BY <3>1, <3>2, <3>3, <2>6, Zenon
  <2>9. \A j \in 0 .. k : N[j] = IF j < b THEN <<DigitChar(j)>>
                                 ELSE Append(N[j \div b], DigitChar(j % b))
    <3>1. k >= b \/ k < b
      BY <2>8
    <3>2. k >= b => ~(k < b)
      BY <2>8
    <3>3. N[k] = IF k < b THEN <<DigitChar(k)>> ELSE Append(N[k \div b], DigitChar(k % b))
      BY <2>3, <2>7, <2>8, <3>1, <3>2, Zenon
    <3> QED
      BY <2>a, <3>3, Zenon
  <2>10. AreNumerals(N, b, k)
    BY <2>3, <2>9 DEF AreNumerals
  <2> QED
    BY <2>10
<1>3. n \in T
  <2> HIDE DEF T
  <2> QED
    BY <1>1, <1>2, AllPositions
<1> QED
  BY <1>3

LEMMA NumeralIs ==
    ASSUME NEW b \in {10, 16}, NEW n \in Words
    PROVE  Numeral(n, b) = IF n < b THEN <<DigitChar(n)>>
                           ELSE Append(Numeral(n \div b, b), DigitChar(n % b))
<1> DEFINE N == CHOOSE N : N = [k \in Words |-> IF k < b THEN <<DigitChar(k)>>
                                ELSE Append(N[k \div b], DigitChar(k % b))]
<1>1. PICK M : AreNumerals(M, b, WORD - 1)
  BY SomeNumerals, WordFacts
<1>2. M = [k \in Words |-> IF k < b THEN <<DigitChar(k)>>
                           ELSE Append(M[k \div b], DigitChar(k % b))]
  BY <1>1, WordFacts DEF AreNumerals
<1>3. N = [k \in Words |-> IF k < b THEN <<DigitChar(k)>>
                           ELSE Append(N[k \div b], DigitChar(k % b))]
  BY <1>2
<1>4. \A k \in Words : Numeral(k, b) = N[k]
  BY DEF Numeral
<1>5. n \div b \in Words
  BY WordFacts, Quotient
<1> HIDE DEF N
<1> QED
  BY <1>3, <1>4, <1>5

\* A sequence of one element.
LEMMA OneElement ==
    ASSUME NEW S, NEW x \in S
    PROVE  <<x>> \in Seq(S) /\ Len(<<x>>) = 1 /\ <<x>>[1] = x /\ <<x>> # << >>
OBVIOUS

\* A numeral is a text, and not an empty one.
LEMMA NumeralType ==
    ASSUME NEW b \in {10, 16}, NEW n \in Words
    PROVE  Numeral(n, b) \in Seq(Char) /\ Numeral(n, b) # << >>
<1> DEFINE T == {k \in Words : Numeral(k, b) \in Seq(Char) /\ Numeral(k, b) # << >>}
<1>1. ASSUME NEW k \in 0 .. WORD - 1, \A j \in 0 .. WORD - 1 : j < k => j \in T
      PROVE  k \in T
  <2>1. k \in Words /\ k \in Nat /\ b \in Nat
    BY WordFacts
  <2>2. CASE k < b
    <3>1. DigitChar(k) \in Char
      BY <2>1, <2>2, DigitFacts
    <3>2. Numeral(k, b) = <<DigitChar(k)>>
      BY <2>1, <2>2, NumeralIs, Zenon
    <3>3. Numeral(k, b) \in Seq(Char) /\ Numeral(k, b) # << >>
      BY <3>1, <3>2, OneElement
    <3> QED
      BY <2>1, <3>3
  <2>3. CASE ~(k < b)
    <3>1. k \div b \in 0 .. WORD - 1 /\ k \div b < k /\ k % b \in 0 .. 15
      BY <2>1, <2>3, Quotient, WordFacts
    <3>2. Numeral(k \div b, b) \in Seq(Char) /\ DigitChar(k % b) \in Char
      BY <1>1, <3>1, DigitFacts
    <3>3. Numeral(k, b) = Append(Numeral(k \div b, b), DigitChar(k % b))
      BY <2>1, <2>3, NumeralIs, Zenon
    <3> QED
      BY <2>1, <3>2, <3>3, AppendProperties, SMTT(30)
  <2> QED
    BY <2>2, <2>3
<1>2. 0 .. WORD - 1 \subseteq T
  <2>1. WORD - 1 \in Nat
    BY WordFacts
  <2> HIDE DEF T
  <2> QED
    BY <1>1, <2>1, AllFromBefore
<1>3. n \in 0 .. WORD - 1
  BY WordFacts
<1> QED
  BY <1>2, <1>3

\* The digits a division after the other still has to find.
Digits(v, b) == IF v = 0 THEN << >> ELSE Numeral(v, b)

LEMMA DigitsStep ==
    ASSUME NEW b \in {10, 16}, NEW v \in Words, v > 0
    PROVE  /\ v \div b \in Words /\ DigitChar(v % b) \in Char
           /\ Digits(v, b) = Append(Digits(v \div b, b), DigitChar(v % b))
<1>1. /\ v \div b \in Nat /\ v \div b < v /\ v % b \in 0 .. 15
      /\ v < b => v \div b = 0 /\ v % b = v
      /\ ~(v < b) => v \div b # 0
  BY WordFacts, Quotient
<1>2. v \div b \in Words /\ DigitChar(v % b) \in Char
  BY <1>1, WordFacts, DigitFacts, SMTT(30)
<1>3. CASE v < b
  <2>1. Digits(v, b) = <<DigitChar(v)>> /\ Digits(v \div b, b) = << >>
    BY <1>1, <1>3, NumeralIs DEF Digits
  <2> QED
    BY <1>1, <1>2, <1>3, <2>1
<1>4. CASE ~(v < b)
  BY <1>1, <1>2, <1>4, NumeralIs DEF Digits
<1> QED
  BY <1>3, <1>4

LEMMA DigitsType ==
    ASSUME NEW b \in {10, 16}, NEW v \in Words
    PROVE  Digits(v, b) \in Seq(Char) /\ (v # 0 => Digits(v, b) = Numeral(v, b))
           /\ (v = 0 => Digits(v, b) = << >>)
BY NumeralType DEF Digits

LEMMA NumeralOfZero == ASSUME NEW b \in {10, 16} PROVE Numeral(0, b) = <<"0">>
<1>1. DigitChar(0) = "0" /\ 0 \in Words /\ 0 < b
  BY WordFacts DEF DigitChar
<1> QED
  BY <1>1, NumeralIs

-----------------------------------------------------------------------------
\* What is left of v fits into the n free places of the buffer.
Fits(v, b, limit, n) ==
    \E P : /\ P[0] = 1
           /\ \A k \in 1 .. limit : P[k] = b * P[k - 1]
           /\ n \in 0 .. limit /\ v < P[n] /\ \A k \in 0 .. limit : P[k] \in Nat

LEMMA PowersFit ==
    ASSUME NEW b \in {10, 16}, NEW n \in Nat, WORD <= Powers(b, n)[n], NEW v \in Words
    PROVE  Fits(v, b, n, n)
<1> DEFINE P == CHOOSE P : P = [k \in 0 .. n |-> IF k = 0 THEN 1 ELSE b * P[k - 1]]
           Step == [p \in (1 .. n) \X Nat |-> b * p[2]]
<1>1. \A k \in 1 .. n : \A x \in Nat : Step[<<k, x>>] = b * x /\ b * x \in Nat
  OBVIOUS
<1>2. \E f : Unfolds(f, 1, n, Step) /\ Within(f, n, Nat)
  <2>1. Advances(Step, n, Nat)
    <3> HIDE DEF Step
    <3> QED
      BY <1>1 DEF Advances
  <2>2. 1 \in Nat
    OBVIOUS
  <2> HIDE DEF Step
  <2> QED
    BY <2>1, <2>2, Recursion
<1>3. PICK f : Unfolds(f, 1, n, Step) /\ Within(f, n, Nat)
  BY <1>2
<1>4. f[0] = 1 /\ (\A k \in 0 .. n : f[k] \in Nat) /\ f = [k \in 0 .. n |-> f[k]]
      /\ \A k \in 1 .. n : f[k] = b * f[k - 1]
  <2> HIDE DEF Step
  <2>1. \A k \in 1 .. n : k - 1 \in 0 .. n
    OBVIOUS
  <2> QED
    BY <1>1, <1>3, <2>1 DEF Unfolds, Within
<1>5. f = [k \in 0 .. n |-> IF k = 0 THEN 1 ELSE b * f[k - 1]]
  <2>1. \A k \in 0 .. n : k # 0 => k \in 1 .. n
    OBVIOUS
  <2>2. \A k \in 0 .. n : f[k] = IF k = 0 THEN 1 ELSE b * f[k - 1]
    BY <1>4, <2>1
  <2> QED
    BY <1>4, <2>2
<1>6. P = [k \in 0 .. n |-> IF k = 0 THEN 1 ELSE b * P[k - 1]]
  BY <1>5
<1>7. Powers(b, n) = P
  BY DEF Powers
<1> HIDE DEF P, Step
<1>8. P[0] = 1 /\ \A k \in 1 .. n : P[k] = b * P[k - 1]
  BY <1>6
<1>9. \A k \in 0 .. n : P[k] \in Nat
  <2> DEFINE T == {k \in 0 .. n : P[k] \in Nat}
  <2>1. 0 \in T
    BY <1>8
  <2>2. ASSUME NEW k \in 1 .. n, k - 1 \in T PROVE k \in T
    BY <1>8, <2>2
  <2>3. 0 .. n \subseteq T
    <3> HIDE DEF T
    <3> QED
      BY <2>1, <2>2, AllPositions
  <2> QED
    BY <2>3
<1>10. v < P[n] /\ n \in 0 .. n
  BY <1>7, <1>9, WordFacts
<1> QED
  BY <1>8, <1>9, <1>10 DEF Fits

LEMMA FitsStep ==
    ASSUME NEW b \in {10, 16}, NEW v \in Nat, NEW limit \in Nat, NEW n \in Nat, Fits(v, b, limit, n), v > 0
    PROVE  n > 0 /\ Fits(v \div b, b, limit, n - 1)
<1>1. PICK P : /\ P[0] = 1
               /\ \A k \in 1 .. limit : P[k] = b * P[k - 1]
               /\ n \in 0 .. limit /\ v < P[n] /\ \A k \in 0 .. limit : P[k] \in Nat
  BY DEF Fits
<1>2. n > 0
  BY <1>1
<1>3. v \div b \in Nat /\ v = b * (v \div b) + (v % b) /\ v % b \in 0 .. (b - 1)
  BY Quotient
<1>4. P[n] = b * P[n - 1] /\ n - 1 \in 0 .. limit /\ P[n - 1] \in Nat
  BY <1>1, <1>2
<1>5. v \div b < P[n - 1]
  <2> DEFINE q == v \div b
             r == v % b
             p == P[n - 1]
  <2>1. q \in Nat /\ p \in Nat /\ r \in Nat /\ v = b * q + r /\ v < b * p
    BY <1>1, <1>3, <1>4
  <2> HIDE DEF q, r, p
  <2>2. q < p
    BY <2>1
  <2> QED
    BY <2>2 DEF q, p
<1> QED
  BY <1>1, <1>2, <1>3, <1>4, <1>5 DEF Fits

-----------------------------------------------------------------------------
\* What a reader of D has read after each of its digits is V, in the end n.
ReadAs(V, D, n) ==
    /\ V[0] = 0 /\ V[Len(D)] = n
    /\ \A m \in 0 .. Len(D) : V[m] \in 0 .. n
    /\ \A m \in 1 .. Len(D) : \E d \in 0 .. 9 : D[m] = DigitChar(d) /\ V[m] = 10 * V[m - 1] + d

LEMMA NumeralValue == ASSUME NEW n \in Words PROVE \E V : ReadAs(V, Numeral(n, 10), n)
<1> DEFINE T == {k \in Words : \E V : ReadAs(V, Numeral(k, 10), k)}
<1>1. ASSUME NEW k \in 0 .. WORD - 1, \A j \in 0 .. WORD - 1 : j < k => j \in T
      PROVE  k \in T
  <2>1. k \in Words /\ k \in Nat
    BY WordFacts
  <2>2. CASE k < 10
    <3> DEFINE V == [m \in 0 .. 1 |-> IF m = 0 THEN 0 ELSE k]
               D == <<DigitChar(k)>>
    <3>1. Numeral(k, 10) = D
      BY <2>1, <2>2, NumeralIs
    <3>2. Len(D) = 1 /\ D[1] = DigitChar(k) /\ k \in 0 .. 9
      BY <2>1, <2>2
    <3>3. V[0] = 0 /\ V[1] = k
      OBVIOUS
    <3> HIDE DEF V, D
    <3>4. \A m \in 1 .. 1 : m = 1 /\ m - 1 = 0
      OBVIOUS
    <3>5. \A m \in 1 .. Len(D) : D[m] = DigitChar(k) /\ V[m] = 10 * V[m - 1] + k
      BY <2>1, <3>2, <3>3, <3>4
    <3>6. \A m \in 0 .. Len(D) : V[m] \in 0 .. k
      BY <2>1, <3>2, <3>3
    <3>7. ReadAs(V, D, k)
      BY <3>2, <3>3, <3>5, <3>6 DEF ReadAs
    <3> QED
      BY <2>1, <3>1, <3>7
  <2>3. CASE ~(k < 10)
    <3> DEFINE q == k \div 10
               d == k % 10
               E == Numeral(q, 10)
               D == Append(E, DigitChar(d))
    <3>1. q \in 0 .. WORD - 1 /\ q < k /\ d \in 0 .. 9 /\ k = 10 * q + d /\ q \in Nat
      BY <2>1, <2>3, Quotient, WordFacts
    <3>2. Numeral(k, 10) = D
      BY <2>1, <2>3, NumeralIs
    <3>3. PICK U : ReadAs(U, E, q)
      BY <1>1, <3>1
    <3>4. E \in Seq(Char) /\ DigitChar(d) \in Char
      <4>1. q \in Words /\ 10 \in {10, 16} /\ d \in 0 .. 15
        BY <3>1, WordFacts
      <4>2. E \in Seq(Char)
        <5> HIDE DEF q
        <5> QED
          BY <4>1, NumeralType
      <4> QED
        BY <4>1, <4>2, DigitFacts
    <3>5. /\ Len(E) \in Nat /\ Len(D) = Len(E) + 1 /\ D[Len(E) + 1] = DigitChar(d)
          /\ \A m \in 1 .. Len(E) : D[m] = E[m]
      BY <3>4, AppendProperties
    <3> DEFINE V == [m \in 0 .. Len(E) + 1 |-> IF m = Len(E) + 1 THEN k ELSE U[m]]
    <3>6. V[Len(E) + 1] = k /\ \A m \in 0 .. Len(E) : V[m] = U[m]
      BY <3>5
    <3> HIDE DEF q, d, E, D, V
    <3>7. V[0] = 0 /\ V[Len(E)] = q
      BY <3>3, <3>5, <3>6 DEF ReadAs
    <3>8. \A m \in 0 .. Len(D) : V[m] \in 0 .. k
      <4>1. \A m \in 0 .. Len(E) : U[m] \in 0 .. q
        BY <3>3 DEF ReadAs
      <4>2. \A m \in 0 .. Len(D) : m \in 0 .. Len(E) \/ m = Len(E) + 1
        BY <3>5
      <4> QED
        BY <2>1, <3>1, <3>6, <4>1, <4>2
    <3>9. ASSUME NEW m \in 1 .. Len(D)
          PROVE  \E e \in 0 .. 9 : D[m] = DigitChar(e) /\ V[m] = 10 * V[m - 1] + e
      <4>1. CASE m \in 1 .. Len(E)
        <5>1. m \in 0 .. Len(E) /\ m - 1 \in 0 .. Len(E)
          BY <3>5, <4>1
        <5>2. \E e \in 0 .. 9 : E[m] = DigitChar(e) /\ U[m] = 10 * U[m - 1] + e
          BY <3>3, <4>1 DEF ReadAs
        <5> QED
          BY <3>5, <3>6, <4>1, <5>1, <5>2
      <4>2. CASE m = Len(E) + 1
        <5>1. m - 1 = Len(E)
          BY <3>5, <4>2
        <5> QED
          BY <3>1, <3>5, <3>6, <3>7, <4>2, <5>1
      <4> QED
        BY <3>5, <4>1, <4>2
    <3>10. ReadAs(V, D, k)
      BY <3>5, <3>6, <3>7, <3>8, <3>9 DEF ReadAs
    <3> QED
      BY <2>1, <3>2, <3>10
  <2> QED
    BY <2>2, <2>3
<1>2. 0 .. WORD - 1 \subseteq T
  <2>1. WORD - 1 \in Nat
    BY WordFacts
  <2> HIDE DEF T
  <2> QED
    BY <1>1, <2>1, AllFromBefore
<1>3. n \in 0 .. WORD - 1
  BY WordFacts
<1> QED
  BY <1>2, <1>3

-----------------------------------------------------------------------------
\* Pieces of text one behind the other: G[k] is what follows the first k of s.
Tails(G, s, S) ==
    /\ G[Len(s)] = << >>
    /\ \A k \in 0 .. Len(s) : G[k] \in Seq(S)
    /\ \A k \in 1 .. Len(s) : G[k - 1] = s[k] \o G[k]

LEMMA SomeTails ==
    ASSUME NEW S, NEW s, Len(s) \in Nat, \A k \in 1 .. Len(s) : s[k] \in Seq(S)
    PROVE  \E G : Tails(G, s, S)
<1> DEFINE n == Len(s)
           Step == [p \in (1 .. n) \X Seq(S) |-> s[n + 1 - p[1]] \o p[2]]
<1>1. \A k \in 1 .. n : n + 1 - k \in 1 .. n
  OBVIOUS
<1>2. \A k \in 1 .. n : \A x \in Seq(S) :
         Step[<<k, x>>] = s[n + 1 - k] \o x /\ s[n + 1 - k] \o x \in Seq(S)
  <2> SUFFICES ASSUME NEW k \in 1 .. n, NEW x \in Seq(S)
               PROVE  Step[<<k, x>>] = s[n + 1 - k] \o x /\ s[n + 1 - k] \o x \in Seq(S)
    OBVIOUS
  <2>1. Step[<<k, x>>] = s[n + 1 - k] \o x
    OBVIOUS
  <2>2. s[n + 1 - k] \in Seq(S)
    BY <1>1
  <2>3. s[n + 1 - k] \o x \in Seq(S)
    BY <2>2, ConcatProperties
  <2> QED
    BY <2>1, <2>3
<1>3. PICK f : Unfolds(f, << >>, n, Step) /\ Within(f, n, Seq(S))
  <2> HIDE DEF Step
  <2>1. Advances(Step, n, Seq(S))
    BY <1>2 DEF Advances
  <2>2. << >> \in Seq(S) /\ n \in Nat
    BY EmptySeq
  <2> HIDE DEF n
  <2> QED
    BY <2>1, <2>2, Recursion
<1> DEFINE G == [k \in 0 .. n |-> f[n - k]]
<1>4. \A k \in 0 .. n : G[k] = f[n - k] /\ n - k \in 0 .. n
  OBVIOUS
<1> HIDE DEF G, Step
<1>5. G[n] = << >> /\ \A k \in 0 .. n : G[k] \in Seq(S)
  <2>1. n \in 0 .. n /\ n - n = 0
    OBVIOUS
  <2>2. G[n] = f[0]
    BY <1>4, <2>1
  <2>3. f[0] = << >>
    BY <1>3 DEF Unfolds
  <2>4. \A k \in 0 .. n : f[n - k] \in Seq(S)
    BY <1>3, <1>4 DEF Within
  <2> QED
    BY <1>4, <2>2, <2>3, <2>4
<1>6. ASSUME NEW k \in 1 .. n PROVE G[k - 1] = s[k] \o G[k]
  <2>1. k - 1 \in 0 .. n /\ k \in 0 .. n /\ n - (k - 1) = n - k + 1 /\ n - k + 1 \in 1 .. n
        /\ (n - k + 1) - 1 = n - k /\ n + 1 - (n - k + 1) = k
    OBVIOUS
  <2>2. f[n - k + 1] = Step[<<n - k + 1, f[(n - k + 1) - 1]>>]
    BY <1>3, <2>1 DEF Unfolds
  <2>3. f[n - k] \in Seq(S)
    BY <1>3, <1>4, <2>1 DEF Within
  <2>4. f[n - k + 1] = s[k] \o f[n - k]
    BY <1>2, <2>1, <2>2, <2>3
  <2> QED
    BY <1>4, <2>1, <2>4
<1> QED
  BY <1>5, <1>6 DEF Tails

\* They are what FlattenSeq puts together, from the other end.
LEMMA FlattenIs ==
    ASSUME NEW S, NEW s \in Seq(Seq(S)), NEW G, Tails(G, s, S)
    PROVE  FlattenSeq(s) = G[0]
<1> DEFINE n == Len(s)
           f == CHOOSE f : f = [k \in 1 .. n |-> IF k = 1 THEN s[k] ELSE f[k - 1] \o s[k]]
<1>1. n \in Nat /\ \A k \in 1 .. n : s[k] \in Seq(S)
  OBVIOUS
<1>a. /\ \A k \in 1 .. n : G[k] \in Seq(S) /\ G[k - 1] = s[k] \o G[k]
      /\ G[n] = << >>
  <2>1. \A k \in 1 .. n : k \in 0 .. n
    BY <1>1
  <2> QED
    BY <2>1 DEF Tails
<1>2. CASE n = 0
  <2>1. s = << >>
    BY <1>2
  <2> QED
    BY <1>2, <2>1 DEF FlattenSeq, Tails
<1>3. CASE n # 0
  <2>1. FlattenSeq(s) = f[n]
    BY <1>3 DEF FlattenSeq
  <2> DEFINE Step == [p \in (1 .. n) \X Seq(S) |-> p[2] \o s[p[1]]]
  <2>2. \A k \in 1 .. n : \A x \in Seq(S) :
           Step[<<k, x>>] = x \o s[k] /\ x \o s[k] \in Seq(S)
    <3> SUFFICES ASSUME NEW k \in 1 .. n, NEW x \in Seq(S)
                 PROVE  Step[<<k, x>>] = x \o s[k] /\ x \o s[k] \in Seq(S)
      OBVIOUS
    <3>1. Step[<<k, x>>] = x \o s[k]
      OBVIOUS
    <3>2. x \o s[k] \in Seq(S)
      BY <1>1, ConcatProperties
    <3> QED
      BY <3>1, <3>2
  <2>3. PICK g : Unfolds(g, << >>, n, Step) /\ Within(g, n, Seq(S))
    <3> HIDE DEF Step
    <3>1. Advances(Step, n, Seq(S))
      BY <2>2 DEF Advances
    <3>2. << >> \in Seq(S)
      BY EmptySeq
    <3> HIDE DEF n
    <3> QED
      BY <1>1, <3>1, <3>2, Recursion
  <2>4. \A k \in 1 .. n : g[k] = IF k = 1 THEN s[k] ELSE g[k - 1] \o s[k]
    <3> SUFFICES ASSUME NEW k \in 1 .. n
                 PROVE  g[k] = IF k = 1 THEN s[k] ELSE g[k - 1] \o s[k]
      OBVIOUS
    <3>1. k - 1 \in 0 .. n /\ g[k - 1] \in Seq(S)
      BY <2>3 DEF Within
    <3>2. g[k] = g[k - 1] \o s[k]
      <4> HIDE DEF Step
      <4> QED
        BY <2>2, <2>3, <3>1 DEF Unfolds
    <3>3. k = 1 => g[k - 1] = << >>
      BY <2>3 DEF Unfolds
    <3>4. << >> \o s[k] = s[k]
      BY <1>1, ConcatEmptySeq
    <3> QED
      BY <3>2, <3>3, <3>4
  <2> DEFINE h == [k \in 1 .. n |-> g[k]]
  <2>5. h = [k \in 1 .. n |-> IF k = 1 THEN s[k] ELSE h[k - 1] \o s[k]]
    <3>1. \A k \in 1 .. n : h[k] = g[k] /\ (k # 1 => k - 1 \in 1 .. n /\ h[k - 1] = g[k - 1])
      OBVIOUS
    <3>2. h = [k \in 1 .. n |-> h[k]]
      OBVIOUS
    <3> HIDE DEF h
    <3>3. \A k \in 1 .. n : h[k] = IF k = 1 THEN s[k] ELSE h[k - 1] \o s[k]
      BY <2>4, <3>1
    <3> QED
      BY <3>2, <3>3
  <2>6. f = [k \in 1 .. n |-> IF k = 1 THEN s[k] ELSE f[k - 1] \o s[k]]
    <3> HIDE DEF h
    <3> QED
      BY <2>5
  <2> HIDE DEF f, n
  <2> DEFINE T == {k \in 0 .. n : k # 0 => f[k] \in Seq(S) /\ f[k] \o G[k] = G[0]}
  <2>7. 0 \in T
    BY <1>1
  <2>8. ASSUME NEW k \in 1 .. n, k - 1 \in T PROVE k \in T
    <3>0. k \in 0 .. n
      BY <1>1
    <3>1. s[k] \in Seq(S) /\ G[k] \in Seq(S) /\ G[k - 1] = s[k] \o G[k]
      BY <1>1, <1>a
    <3>2. CASE k = 1
      <4>1. f[k] = s[k] /\ G[0] = G[k - 1]
        BY <2>6, <3>2
      <4>2. f[k] \in Seq(S) /\ f[k] \o G[k] = G[0]
        BY <3>1, <4>1
      <4> QED
        BY <3>0, <4>2
    <3>3. CASE k # 1
      <4>1. f[k] = f[k - 1] \o s[k] /\ f[k - 1] \in Seq(S) /\ f[k - 1] \o G[k - 1] = G[0]
        <5>1. k - 1 \in 0 .. n /\ k - 1 # 0
          BY <1>1, <3>3
        <5>2. f[k] = f[k - 1] \o s[k]
          BY <2>6, <3>3
        <5> QED
          BY <2>8, <5>1, <5>2
      <4>2. f[k] \in Seq(S)
        BY <3>1, <4>1, ConcatProperties
      <4>3. (f[k - 1] \o s[k]) \o G[k] = f[k - 1] \o (s[k] \o G[k])
        <5>1. \A x \in Seq(S), y \in Seq(S), z \in Seq(S) : (x \o y) \o z = x \o (y \o z)
          BY ConcatAssociative, SMTT(30)
        <5> QED
          BY <3>1, <4>1, <5>1
      <4>4. f[k] \o G[k] = G[0]
        BY <3>1, <4>1, <4>3
      <4> QED
        BY <3>0, <4>2, <4>4
    <3> QED
      BY <3>2, <3>3
  <2>9. n \in T
    <3> HIDE DEF T
    <3>1. 0 .. n \subseteq T
      BY <1>1, <2>7, <2>8, AllPositions
    <3> QED
      BY <1>1, <3>1
  <2>10. f[n] \in Seq(S) /\ f[n] \o G[n] = G[0] /\ G[n] = << >>
    BY <1>3, <1>a, <2>9
  <2>11. f[n] \o << >> = f[n]
    BY <2>10, ConcatEmptySeq
  <2> QED
    BY <2>1, <2>10, <2>11
<1> QED
  BY <1>2, <1>3

\* Each of them is what FlattenSeq puts together of the rest.
LEMMA FlattenRest ==
    ASSUME NEW S, NEW s \in Seq(Seq(S)), NEW G, Tails(G, s, S), NEW n \in 0 .. Len(s)
    PROVE  FlattenSeq(SubSeq(s, n + 1, Len(s))) = G[n]
<1> DEFINE l == Len(s) - n
           r == SubSeq(s, n + 1, Len(s))
           H == [k \in 0 .. l |-> G[n + k]]
<1>1. Len(s) \in Nat /\ l \in Nat /\ n \in Nat
  OBVIOUS
<1>2. r \in Seq(Seq(S)) /\ Len(r) = l /\ \A k \in 1 .. l : r[k] = s[n + k]
  OBVIOUS
<1>3. \A k \in 0 .. l : H[k] = G[n + k] /\ n + k \in 0 .. Len(s)
  OBVIOUS
<1>4. H[l] = << >> /\ H[0] = G[n]
  BY <1>1, <1>3 DEF Tails
<1> HIDE DEF H, r
<1>5. \A k \in 0 .. l : H[k] \in Seq(S)
  BY <1>3 DEF Tails
<1>6. ASSUME NEW k \in 1 .. l PROVE H[k - 1] = r[k] \o H[k]
  <2>1. k \in 0 .. l /\ k - 1 \in 0 .. l /\ n + k \in 1 .. Len(s) /\ n + (k - 1) = (n + k) - 1
    BY <1>1
  <2>2. G[(n + k) - 1] = s[n + k] \o G[n + k]
    BY <2>1 DEF Tails
  <2> QED
    BY <1>2, <1>3, <2>1, <2>2
<1>7. Tails(H, r, S)
  BY <1>2, <1>4, <1>5, <1>6 DEF Tails
<1>8. FlattenSeq(r) = H[0]
  BY <1>2, <1>7, FlattenIs
<1> QED
  BY <1>4, <1>8 DEF r

-----------------------------------------------------------------------------
\* What printf has to look at behind the first pieces of a format: characters,
\* arguments, and what they stand for.
Arguments == Words \cup Char \cup Seq(Char)

CharsOf(pieces) == [k \in DOMAIN pieces |-> pieces[k].chars]
ArgsOf(pieces) == [k \in DOMAIN pieces |-> pieces[k].args]
RenderedOf(pieces) == [k \in DOMAIN pieces |-> Rendered(pieces[k])]

CharsFrom(pieces) == CHOOSE G : Tails(G, CharsOf(pieces), Char)
ArgsFrom(pieces) == CHOOSE G : Tails(G, ArgsOf(pieces), Arguments)
ShownFrom(pieces) == CHOOSE G : Tails(G, RenderedOf(pieces), Char)

LEMMA SignedType ==
    /\ \A word \in Words : Signed(word) \in Int /\ -Signed(word) \in Int
    /\ \A word \in Words : Signed(word) < 0 => Bits(-Signed(word)) = -Signed(word) /\ -Signed(word) \in Words
    /\ \A word \in Words : ~(Signed(word) < 0) => Signed(word) = word
<1> DEFINE w == WORD
           h == WORD \div 2
<1>1. w \in Nat /\ h \in Nat /\ w > 0 /\ h > 0 /\ w = 2 * h /\ Words = 0 .. (w - 1)
  BY WordFacts
<1>2. \A word \in Words : Signed(word) = IF word < h THEN word ELSE word - w
  BY DEF Signed
<1>3. \A i : Bits(i) = i % w
  BY DEF Bits
<1> HIDE DEF w, h
<1>4. \A word \in Words : Signed(word) \in Int /\ -Signed(word) \in Int
  BY <1>1, <1>2
<1>5. \A word \in Words : ~(Signed(word) < 0) => Signed(word) = word
  BY <1>1, <1>2
<1>6. ASSUME NEW word \in Words, Signed(word) < 0
      PROVE  Bits(-Signed(word)) = -Signed(word) /\ -Signed(word) \in Words
  <2>1. -Signed(word) \in 0 .. (w - 1)
    BY <1>1, <1>2, <1>6
  <2>2. (-Signed(word)) % w = -Signed(word)
    BY <1>1, <2>1, RemainderOfSmall
  <2> QED
    BY <1>1, <1>3, <2>1, <2>2
<1> QED
  BY <1>4, <1>5, <1>6

LEMMA SignedNumeralType ==
    ASSUME NEW word \in Words PROVE SignedNumeral(Signed(word)) \in Seq(Char)
<1>1. CASE Signed(word) < 0
  <2>1. Numeral(-Signed(word), 10) \in Seq(Char)
    BY <1>1, SignedType, NumeralType
  <2>2. <<"-">> \in Seq(Char)
    BY LibCAssumption, OneElement
  <2> QED
    BY <1>1, <2>1, <2>2, ConcatProperties DEF SignedNumeral
<1>2. CASE ~(Signed(word) < 0)
  BY <1>2, SignedType, NumeralType DEF SignedNumeral
<1> QED
  BY <1>1, <1>2

\* The kinds of a piece.
IsPlain(piece) ==
    /\ piece.chars \in Seq(Char) /\ piece.chars # << >>
    /\ \A k \in 1 .. Len(piece.chars) : piece.chars[k] # "%"
    /\ piece.args = << >> /\ Rendered(piece) = piece.chars

Converts(piece, c, arguments) ==
    /\ piece.chars = <<"%", c>> /\ c \in Char /\ piece.args = arguments

LEMMA PieceKinds ==
    ASSUME NEW piece, piece = Piece(piece.chars, piece.args), IsPiece(piece)
    PROVE  \/ IsPlain(piece)
           \/ \E word \in Words : \E c \in {"d", "i"} :
                 Converts(piece, c, <<word>>) /\ Rendered(piece) = SignedNumeral(Signed(word))
           \/ \E word \in Words :
                 Converts(piece, "u", <<word>>) /\ Rendered(piece) = Numeral(word, 10)
           \/ \E word \in Words :
                 Converts(piece, "x", <<word>>) /\ Rendered(piece) = Numeral(word, 16)
           \/ \E c \in Char : Converts(piece, "c", <<c>>) /\ Rendered(piece) = <<c>>
           \/ \E t \in Seq(Char) : Converts(piece, "s", <<t>>) /\ Rendered(piece) = t
           \/ Converts(piece, "%", << >>) /\ Rendered(piece) = <<"%">>
           \/ \E c \in Char \ {"d", "i", "u", "x", "c", "s", "%"} :
                 Converts(piece, c, << >>) /\ Rendered(piece) = <<"%", c>>
<1>1. CASE /\ \A k \in 1 .. Len(piece.chars) : piece.chars[k] # "%"
           /\ piece.args = << >>
  <2>1. piece.chars \in Seq(Char) /\ piece.chars # << >>
    BY DEF IsPiece
  <2>2. piece.chars[1] # "%"
    BY <1>1, <2>1
  <2>3. \A f : piece.chars # <<"%", f>>
    BY <2>2
  <2>4. Rendered(piece) = piece.chars
    BY <1>1, <2>3 DEF Rendered
  <2> QED
    BY <1>1, <2>1, <2>4 DEF IsPlain
<1>2. CASE /\ Len(piece.chars) = 2 /\ piece.chars[1] = "%"
           /\ CASE piece.chars[2] \in {"d", "i", "u", "x"} -> Takes(piece, Words)
                [] piece.chars[2] = "c" -> Takes(piece, Char)
                [] piece.chars[2] = "s" -> Takes(piece, Seq(Char))
                [] OTHER -> piece.args = << >>
  <2> DEFINE c == piece.chars[2]
  <2>1. piece.chars \in Seq(Char)
    BY DEF IsPiece
  <2>2. c \in Char /\ piece.chars = <<"%", c>>
    BY <1>2, <2>1
  <2> HIDE DEF c
  <2>3. \A e, f : <<"%", e>> = <<"%", f>> <=> e = f
    OBVIOUS
  <2>4. \A S : Takes(piece, S) => /\ \E x \in S : piece.args = <<x>> /\ piece.args[1] = x
                                  /\ piece.args # << >>
    BY DEF Takes
  <2>5. CASE c \in {"d", "i"}
    <3>1. Takes(piece, Words)
      BY <1>2, <2>5 DEF c
    <3>2. PICK word \in Words : piece.args = <<word>> /\ piece.args[1] = word
      BY <2>4, <3>1
    <3>3. Rendered(piece) = SignedNumeral(Signed(word))
      BY <2>2, <2>3, <2>4, <2>5, <3>1, <3>2 DEF Rendered
    <3> QED
      BY <2>2, <2>5, <3>2, <3>3 DEF Converts
  <2>6. CASE c = "u"
    <3>1. Takes(piece, Words)
      BY <1>2, <2>6 DEF c
    <3>2. PICK word \in Words : piece.args = <<word>> /\ piece.args[1] = word
      BY <2>4, <3>1
    <3>3. Rendered(piece) = Numeral(word, 10)
      BY <2>2, <2>3, <2>4, <2>6, <3>1, <3>2 DEF Rendered
    <3> QED
      BY <2>2, <2>6, <3>2, <3>3 DEF Converts
  <2>7. CASE c = "x"
    <3>1. Takes(piece, Words)
      BY <1>2, <2>7 DEF c
    <3>2. PICK word \in Words : piece.args = <<word>> /\ piece.args[1] = word
      BY <2>4, <3>1
    <3>3. Rendered(piece) = Numeral(word, 16)
      BY <2>2, <2>3, <2>4, <2>7, <3>1, <3>2 DEF Rendered
    <3> QED
      BY <2>2, <2>7, <3>2, <3>3 DEF Converts
  <2>8. CASE c = "c"
    <3>1. Takes(piece, Char)
      BY <1>2, <2>8 DEF c
    <3>2. PICK e \in Char : piece.args = <<e>> /\ piece.args[1] = e
      BY <2>4, <3>1
    <3>3. Rendered(piece) = <<e>>
      BY <2>2, <2>3, <2>4, <2>8, <3>1, <3>2 DEF Rendered
    <3> QED
      BY <2>2, <2>8, <3>2, <3>3 DEF Converts
  <2>9. CASE c = "s"
    <3>1. Takes(piece, Seq(Char))
      BY <1>2, <2>9 DEF c
    <3>2. PICK t \in Seq(Char) : piece.args = <<t>> /\ piece.args[1] = t
      BY <2>4, <3>1
    <3>3. Rendered(piece) = t
      BY <2>2, <2>3, <2>4, <2>9, <3>1, <3>2 DEF Rendered
    <3> QED
      BY <2>2, <2>9, <3>2, <3>3 DEF Converts
  <2>10. CASE c = "%"
    <3>1. piece.args = << >>
      BY <1>2, <2>10 DEF c
    <3>2. Rendered(piece) = <<"%">>
      BY <2>2, <2>3, <2>10, <3>1 DEF Rendered
    <3> QED
      BY <2>2, <2>10, <3>1, <3>2 DEF Converts
  <2>11. CASE c \notin {"d", "i", "u", "x", "c", "s", "%"}
    <3>1. piece.args = << >>
      BY <1>2, <2>11 DEF c
    <3>2. Rendered(piece) = <<"%", c>>
      BY <2>2, <2>3, <2>11, <3>1 DEF Rendered
    <3> QED
      BY <2>2, <2>11, <3>1, <3>2 DEF Converts
  <2> QED
    BY <2>5, <2>6, <2>7, <2>8, <2>9, <2>10, <2>11
<1> QED
  BY <1>1, <1>2 DEF IsPiece

LEMMA PieceTypes ==
    ASSUME NEW piece, piece = Piece(piece.chars, piece.args), IsPiece(piece)
    PROVE  /\ piece.chars \in Seq(Char) /\ piece.args \in Seq(Arguments)
           /\ Rendered(piece) \in Seq(Char)
<1>1. piece.chars \in Seq(Char)
  BY DEF IsPiece
<1>2. CASE IsPlain(piece)
  BY <1>1, <1>2 DEF IsPlain
<1>3. ASSUME NEW word \in Words, piece.args = <<word>>,
             Rendered(piece) \in {SignedNumeral(Signed(word)), Numeral(word, 10), Numeral(word, 16)}
      PROVE  piece.args \in Seq(Arguments) /\ Rendered(piece) \in Seq(Char)
  <2>1. word \in Arguments
    BY DEF Arguments
  <2>2. piece.args \in Seq(Arguments)
    BY <1>3, <2>1, OneElement
  <2>3. /\ SignedNumeral(Signed(word)) \in Seq(Char)
        /\ Numeral(word, 10) \in Seq(Char) /\ Numeral(word, 16) \in Seq(Char)
    BY SignedNumeralType, NumeralType
  <2> QED
    BY <1>3, <2>2, <2>3
<1>4. ASSUME NEW c \in Char, piece.args = <<c>>, Rendered(piece) = <<c>>
      PROVE  piece.args \in Seq(Arguments) /\ Rendered(piece) \in Seq(Char)
  <2>1. c \in Arguments
    BY DEF Arguments
  <2> QED
    BY <1>4, <2>1, OneElement
<1>5. ASSUME NEW t \in Seq(Char), piece.args = <<t>>, Rendered(piece) = t
      PROVE  piece.args \in Seq(Arguments) /\ Rendered(piece) \in Seq(Char)
  <2>1. t \in Arguments
    BY DEF Arguments
  <2> QED
    BY <1>5, <2>1, OneElement
<1>6. ASSUME NEW c \in Char, piece.args = << >>, Rendered(piece) \in {<<"%">>, <<"%", c>>}
      PROVE  piece.args \in Seq(Arguments) /\ Rendered(piece) \in Seq(Char)
  <2>1. "%" \in Char
    BY LibCAssumption
  <2>2. <<"%">> \in Seq(Char) /\ <<"%", c>> \in Seq(Char)
    BY <2>1
  <2> QED
    BY <1>6, <2>2, EmptySeq
<1>7. "%" \in Char
  BY LibCAssumption
<1> QED
  BY <1>1, <1>2, <1>3, <1>4, <1>5, <1>6, <1>7, PieceKinds DEF Converts

LEMMA FormatFacts ==
    ASSUME NEW pieces \in Formats
    PROVE  /\ Len(pieces) \in Nat /\ DOMAIN pieces = 1 .. Len(pieces)
           /\ \A k \in 1 .. Len(pieces) :
                 /\ pieces[k] = Piece(pieces[k].chars, pieces[k].args) /\ IsPiece(pieces[k])
                 /\ CharsFrom(pieces)[k - 1] = pieces[k].chars \o CharsFrom(pieces)[k]
                 /\ ArgsFrom(pieces)[k - 1] = pieces[k].args \o ArgsFrom(pieces)[k]
                 /\ ShownFrom(pieces)[k - 1] = Rendered(pieces[k]) \o ShownFrom(pieces)[k]
           /\ \A k \in 0 .. Len(pieces) :
                 /\ CharsFrom(pieces)[k] \in Seq(Char)
                 /\ ArgsFrom(pieces)[k] \in Seq(Arguments)
                 /\ ShownFrom(pieces)[k] \in Seq(Char)
                 /\ Shown(SubSeq(pieces, k + 1, Len(pieces))) = ShownFrom(pieces)[k]
           /\ CharsFrom(pieces)[Len(pieces)] = << >>
           /\ ShownFrom(pieces)[Len(pieces)] = << >>
           /\ Chars(pieces) = CharsFrom(pieces)[0]
           /\ Args(pieces) = ArgsFrom(pieces)[0]
           /\ Shown(pieces) = ShownFrom(pieces)[0]
<1> DEFINE l == Len(pieces)
<1>1. /\ l \in Nat
      /\ pieces = [k \in 1 .. l |-> Piece(pieces[k].chars, pieces[k].args)]
      /\ \A k \in 1 .. l : IsPiece(pieces[k])
  BY LibCAssumption
<1>2. DOMAIN pieces = 1 .. l /\ \A k \in 1 .. l : pieces[k] = Piece(pieces[k].chars, pieces[k].args)
  <2> HIDE DEF l
  <2> QED
    BY <1>1, Zenon
<1>3. \A k \in 1 .. l : /\ pieces[k].chars \in Seq(Char) /\ pieces[k].args \in Seq(Arguments)
                        /\ Rendered(pieces[k]) \in Seq(Char)
  BY <1>1, <1>2, PieceTypes
<1> HIDE DEF l
<1>4. /\ CharsOf(pieces) \in Seq(Seq(Char)) /\ Len(CharsOf(pieces)) = l
      /\ \A k \in 1 .. l : CharsOf(pieces)[k] = pieces[k].chars
  BY <1>1, <1>2, <1>3 DEF CharsOf
<1>5. /\ ArgsOf(pieces) \in Seq(Seq(Arguments)) /\ Len(ArgsOf(pieces)) = l
      /\ \A k \in 1 .. l : ArgsOf(pieces)[k] = pieces[k].args
  BY <1>1, <1>2, <1>3 DEF ArgsOf
<1>6. /\ RenderedOf(pieces) \in Seq(Seq(Char)) /\ Len(RenderedOf(pieces)) = l
      /\ \A k \in 1 .. l : RenderedOf(pieces)[k] = Rendered(pieces[k])
  BY <1>1, <1>2, <1>3 DEF RenderedOf
<1>7. Tails(CharsFrom(pieces), CharsOf(pieces), Char)
  <2>1. \E G : Tails(G, CharsOf(pieces), Char)
    BY <1>1, <1>3, <1>4, SomeTails
  <2> QED
    BY <2>1 DEF CharsFrom
<1>8. Tails(ArgsFrom(pieces), ArgsOf(pieces), Arguments)
  <2>1. \E G : Tails(G, ArgsOf(pieces), Arguments)
    BY <1>1, <1>3, <1>5, SomeTails
  <2> QED
    BY <2>1 DEF ArgsFrom
<1>9. Tails(ShownFrom(pieces), RenderedOf(pieces), Char)
  <2>1. \E G : Tails(G, RenderedOf(pieces), Char)
    BY <1>1, <1>3, <1>6, SomeTails
  <2> QED
    BY <2>1 DEF ShownFrom
<1>10. Chars(pieces) = CharsFrom(pieces)[0]
  <2>1. Chars(pieces) = FlattenSeq(CharsOf(pieces))
    BY DEF Chars, CharsOf
  <2> QED
    BY <1>4, <1>7, <2>1, FlattenIs
<1>11. Args(pieces) = ArgsFrom(pieces)[0]
  <2>1. Args(pieces) = FlattenSeq(ArgsOf(pieces))
    BY DEF Args, ArgsOf
  <2> QED
    BY <1>5, <1>8, <2>1, FlattenIs
<1>12. Shown(pieces) = ShownFrom(pieces)[0]
  <2>1. Shown(pieces) = FlattenSeq(RenderedOf(pieces))
    BY DEF Shown, RenderedOf
  <2> QED
    BY <1>6, <1>9, <2>1, FlattenIs
<1>13. ASSUME NEW k \in 0 .. l
       PROVE  Shown(SubSeq(pieces, k + 1, l)) = ShownFrom(pieces)[k]
  <2> DEFINE rest == SubSeq(pieces, k + 1, l)
  <2>1. FlattenSeq(SubSeq(RenderedOf(pieces), k + 1, l)) = ShownFrom(pieces)[k]
    BY <1>6, <1>9, FlattenRest
  <2>2. DOMAIN rest = 1 .. l - k /\ \A j \in 1 .. l - k : rest[j] = pieces[k + j]
    <3> DEFINE S == {pieces[j] : j \in 1 .. l}
    <3>1. k + 1 \in Int /\ l \in Int /\ \A i \in k + 1 .. l : pieces[i] \in S
      BY <1>1
    <3> HIDE DEF S
    <3>2. /\ rest \in Seq(S) /\ Len(rest) = IF k + 1 <= l THEN l - (k + 1) + 1 ELSE 0
          /\ \A i \in 1 .. l - (k + 1) + 1 : rest[i] = pieces[(k + 1) + i - 1]
      BY <3>1, SubSeqProperties
    <3> QED
      BY <1>1, <3>2
  <2> DEFINE shown == SubSeq(RenderedOf(pieces), k + 1, l)
  <2>3. /\ shown \in Seq(Seq(Char)) /\ Len(shown) = l - k
        /\ \A j \in 1 .. l - k : shown[j] = RenderedOf(pieces)[k + j] /\ k + j \in 1 .. l
    BY <1>1, <1>6
  <2>4. shown = [j \in 1 .. l - k |-> shown[j]]
    BY <2>3, SMTT(30)
  <2>5. \A j \in 1 .. l - k : shown[j] = Rendered(rest[j])
    BY <1>6, <2>2, <2>3
  <2> HIDE DEF rest, shown
  <2>6. [j \in DOMAIN rest |-> Rendered(rest[j])] = shown
    BY <2>2, <2>4, <2>5
  <2>7. Shown(rest) = FlattenSeq([j \in DOMAIN rest |-> Rendered(rest[j])])
    BY DEF Shown
  <2> QED
    BY <2>1, <2>6, <2>7 DEF rest, shown
<1>14. /\ CharsFrom(pieces)[l] = << >> /\ ShownFrom(pieces)[l] = << >>
       /\ \A k \in 0 .. l : /\ CharsFrom(pieces)[k] \in Seq(Char)
                            /\ ArgsFrom(pieces)[k] \in Seq(Arguments)
                            /\ ShownFrom(pieces)[k] \in Seq(Char)
  BY <1>4, <1>5, <1>6, <1>7, <1>8, <1>9 DEF Tails
<1>15. ASSUME NEW k \in 1 .. l
       PROVE  /\ CharsFrom(pieces)[k - 1] = pieces[k].chars \o CharsFrom(pieces)[k]
              /\ ArgsFrom(pieces)[k - 1] = pieces[k].args \o ArgsFrom(pieces)[k]
              /\ ShownFrom(pieces)[k - 1] = Rendered(pieces[k]) \o ShownFrom(pieces)[k]
  <2>1. CharsFrom(pieces)[k - 1] = CharsOf(pieces)[k] \o CharsFrom(pieces)[k]
    BY <1>4, <1>7 DEF Tails
  <2>2. ArgsFrom(pieces)[k - 1] = ArgsOf(pieces)[k] \o ArgsFrom(pieces)[k]
    BY <1>5, <1>8 DEF Tails
  <2>3. ShownFrom(pieces)[k - 1] = RenderedOf(pieces)[k] \o ShownFrom(pieces)[k]
    BY <1>6, <1>9 DEF Tails
  <2> QED
    BY <1>4, <1>5, <1>6, <2>1, <2>2, <2>3
<1> QED
  BY <1>1, <1>2, <1>10, <1>11, <1>12, <1>13, <1>14, <1>15, Zenon DEF l

-----------------------------------------------------------------------------
\* The characters a number still in the loop of the divisions prints.
Number == Digits(value, base) \o Reverse(buffer)

\* Printed is what the call has shown of the first k pieces but the characters
\* plain of the k-th.
Shows(printed, k, plain) ==
    /\ plain \in Seq(Char) /\ \A j \in 1 .. Len(plain) : plain[j] # "%"
    /\ format = plain \o CharsFrom(call.what)[k]
    /\ args = ArgsFrom(call.what)[k]
    /\ printed \o (plain \o ShownFrom(call.what)[k]) = Shown(call.what)

Halfway(printed) ==
    /\ call.name = "printf"
    /\ \E k \in 0 .. Len(call.what) : \E plain : Shows(printed, k, plain)

CallOK ==
    /\ call.name \in {"none", "printf", "print_uint", "puts", "putchar", "atoi"}
    /\ call.name = "printf" => call.what \in Formats
    /\ call.name = "atoi" => call.of = << >> \/ call.of \in Formats

Ints == {Signed(word) : word \in Words}

DataOK ==
    /\ pc \in {"idle", "format", "digits", "spaces", "number"}
    /\ value \in Words /\ buffer \in Seq(Char)
    /\ room \in Nat /\ Len(buffer) <= room
    /\ sign \in {1, -1} /\ int \in Ints
    /\ out \in Seq(Char) /\ text \in Seq(Char)

\* A number has its digits in the buffer or the room for them.
Dividing ==
    /\ base \in {10, 16}
    /\ Fits(value, base, room, room - Len(buffer))
    /\ \/ Halfway(out \o Number)
       \/ call.name = "print_uint" /\ out \o Number = Asked

Printing ==
    /\ pc = "idle" => out = Asked
    /\ pc = "format" => Halfway(out)
    /\ pc = "digits" => Dividing
    /\ pc \in {"spaces", "number"} => call.name = "atoi" /\ out = << >>

LibInv == DataOK /\ CallOK /\ Printing

LEMMA Concat3 ==
    ASSUME NEW S, NEW a \in Seq(S), NEW b \in Seq(S), NEW c \in Seq(S)
    PROVE  /\ (a \o b) \o c = a \o (b \o c) /\ a \o b \in Seq(S) /\ a \o (b \o c) \in Seq(S)
           /\ << >> \o a = a /\ a \o << >> = a
<1>1. (a \o b) \o c = a \o (b \o c)
  BY ConcatAssociative, SMTT(30)
<1>2. a \o b \in Seq(S) /\ b \o c \in Seq(S) /\ a \o (b \o c) \in Seq(S)
  BY ConcatProperties
<1>3. << >> \o a = a /\ a \o << >> = a
  BY ConcatEmptySeq
<1> QED
  BY <1>1, <1>2, <1>3

LEMMA ReverseAppend ==
    ASSUME NEW S, NEW s \in Seq(S), NEW x \in S
    PROVE  /\ Reverse(s) \in Seq(S) /\ Reverse(Append(s, x)) \in Seq(S)
           /\ Reverse(Append(s, x)) = <<x>> \o Reverse(s)
           /\ Reverse(<< >>) = << >>
<1> DEFINE n == Len(s)
           r == Reverse(s)
           t == Append(s, x)
<1>1. n \in Nat /\ Len(t) = n + 1 /\ t[n + 1] = x /\ \A k \in 1 .. n : t[k] = s[k] /\ s[k] \in S
  BY AppendProperties
<1>2. r = [k \in 1 .. n |-> s[(n - k) + 1]]
  BY DEF Reverse
<1>3. Reverse(t) = [k \in 1 .. Len(t) |-> t[(Len(t) - k) + 1]]
  BY DEF Reverse
<1>4. \A k \in 1 .. n : (n - k) + 1 \in 1 .. n
  BY <1>1
<1> HIDE DEF n, t
<1>5. r \in Seq(S) /\ Len(r) = n /\ \A k \in 1 .. n : r[k] = s[(n - k) + 1]
  BY <1>1, <1>2, <1>4
<1>6. Reverse(t) = [k \in 1 .. n + 1 |-> t[((n + 1) - k) + 1]]
  BY <1>1, <1>3
<1>7. \A k \in 1 .. n + 1 : ((n + 1) - k) + 1 \in 1 .. n + 1
  BY <1>1
<1>8. t \in Seq(S)
  BY AppendProperties DEF t
<1>9. \A k \in 1 .. n + 1 : t[k] \in S
  BY <1>1, <1>8
<1>10. Reverse(t) \in Seq(S) /\ Len(Reverse(t)) = n + 1
       /\ \A k \in 1 .. n + 1 : Reverse(t)[k] = t[((n + 1) - k) + 1]
  BY <1>1, <1>6, <1>7, <1>9
<1> HIDE DEF r
<1>11. /\ <<x>> \o r \in Seq(S) /\ Len(<<x>> \o r) = n + 1
       /\ (<<x>> \o r)[1] = x /\ \A k \in 2 .. n + 1 : (<<x>> \o r)[k] = r[k - 1]
  BY <1>1, <1>5
<1>12. ASSUME NEW k \in 1 .. n + 1 PROVE Reverse(t)[k] = (<<x>> \o r)[k]
  <2>1. CASE k = 1
    <3>1. ((n + 1) - k) + 1 = n + 1
      BY <1>1, <2>1
    <3> QED
      BY <1>1, <1>10, <1>11, <2>1, <3>1
  <2>2. CASE k # 1
    <3>1. /\ k \in 2 .. n + 1 /\ k - 1 \in 1 .. n
          /\ ((n + 1) - k) + 1 = (n - (k - 1)) + 1 /\ (n - (k - 1)) + 1 \in 1 .. n
      BY <1>1, <2>2
    <3> QED
      BY <1>1, <1>5, <1>10, <1>11, <3>1, ZenonT(60)
  <2> QED
    BY <2>1, <2>2
<1>13. Reverse(t) = <<x>> \o r
  BY <1>1, <1>10, <1>11, <1>12, SeqEqual
<1>14. Reverse(<< >>) = << >>
  BY DEF Reverse
<1> QED
  BY <1>5, <1>10, <1>13, <1>14 DEF r, t

LEMMA TextConcat ==
    /\ \A a, b, c \in Seq(Char) : (a \o b) \o c = a \o (b \o c)
    /\ \A a, b \in Seq(Char) : a \o b \in Seq(Char)
    /\ \A a \in Seq(Char) : << >> \o a = a /\ a \o << >> = a
BY Concat3

\* Where printf stands: at a plain character or at a conversion.
LEMMA NextPiece ==
    ASSUME call.name = "printf", call.what \in Formats, out \in Seq(Char),
           Halfway(out), format # << >>
    PROVE  \/ \E c \in Char \ {"%"} : \E k \in 0 .. Len(call.what) : \E plain \in Seq(Char) :
                 /\ \A j \in 1 .. Len(plain) : plain[j] # "%"
                 /\ format = <<c>> \o (plain \o CharsFrom(call.what)[k])
                 /\ args = ArgsFrom(call.what)[k]
                 /\ out \o (<<c>> \o (plain \o ShownFrom(call.what)[k])) = Shown(call.what)
           \/ \E k \in 1 .. Len(call.what) :
                 /\ ~IsPlain(call.what[k])
                 /\ format = call.what[k].chars \o CharsFrom(call.what)[k]
                 /\ args = call.what[k].args \o ArgsFrom(call.what)[k]
                 /\ out \o (Rendered(call.what[k]) \o ShownFrom(call.what)[k]) = Shown(call.what)
<1> DEFINE pieces == call.what
           C == CharsFrom(pieces)
           A == ArgsFrom(pieces)
           R == ShownFrom(pieces)
           l == Len(pieces)
           AtPlain == \E c \in Char \ {"%"} : \E k \in 0 .. l : \E plain \in Seq(Char) :
                         /\ \A j \in 1 .. Len(plain) : plain[j] # "%"
                         /\ format = <<c>> \o (plain \o C[k])
                         /\ args = A[k]
                         /\ out \o (<<c>> \o (plain \o R[k])) = Shown(pieces)
<1>0. PICK k \in 0 .. l : \E plain : Shows(out, k, plain)
  BY DEF Halfway
<1>1. PICK plain : Shows(out, k, plain)
  BY <1>0
<1>2. /\ l \in Nat
      /\ \A j \in 1 .. l :
            /\ pieces[j] = Piece(pieces[j].chars, pieces[j].args) /\ IsPiece(pieces[j])
            /\ C[j - 1] = pieces[j].chars \o C[j]
            /\ A[j - 1] = pieces[j].args \o A[j]
            /\ R[j - 1] = Rendered(pieces[j]) \o R[j]
      /\ \A j \in 0 .. l : C[j] \in Seq(Char) /\ A[j] \in Seq(Arguments) /\ R[j] \in Seq(Char)
      /\ C[l] = << >>
  BY FormatFacts
<1>3. /\ plain \in Seq(Char) /\ \A j \in 1 .. Len(plain) : plain[j] # "%"
      /\ format = plain \o C[k] /\ args = A[k] /\ out \o (plain \o R[k]) = Shown(pieces)
  BY <1>1 DEF Shows
<1> HIDE DEF pieces, C, A, R, l
\* The first of some plain characters.
<1>4. ASSUME NEW s \in Seq(Char), s # << >>, \A j \in 1 .. Len(s) : s[j] # "%",
             NEW j \in 0 .. l, format = s \o C[j], args = A[j], out \o (s \o R[j]) = Shown(pieces)
      PROVE  AtPlain
  <2>1. /\ Head(s) \in Char /\ Tail(s) \in Seq(Char) /\ s = <<Head(s)>> \o Tail(s)
        /\ Head(s) # "%" /\ \A i \in 1 .. Len(Tail(s)) : Tail(s)[i] # "%"
    BY <1>4
  <2> DEFINE c == Head(s)
             p == Tail(s)
  <2> HIDE DEF c, p
  <2>2. <<c>> \in Seq(Char) /\ p \in Seq(Char) /\ C[j] \in Seq(Char) /\ R[j] \in Seq(Char)
    BY <1>2, <2>1, OneElement DEF c, p
  <2> DEFINE h == <<c>>
  <2>a. h \in Seq(Char)
    BY <2>2
  <2>b. s = h \o p
    BY <2>1 DEF c, p
  <2> HIDE DEF h
  <2>3. \A z \in Seq(Char) : (h \o p) \o z = h \o (p \o z)
    BY <2>2, <2>a, TextConcat, SMTT(30)
  <2>4. (h \o p) \o C[j] = h \o (p \o C[j]) /\ (h \o p) \o R[j] = h \o (p \o R[j])
    BY <2>2, <2>3
  <2>5. format = h \o (p \o C[j]) /\ out \o (h \o (p \o R[j])) = Shown(pieces)
    BY <1>4, <2>b, <2>4
  <2>6. c \in Char \ {"%"} /\ \A i \in 1 .. Len(p) : p[i] # "%"
    BY <2>1 DEF c, p
  <2> QED
    BY <1>4, <2>2, <2>5, <2>6 DEF h
<1>5. CASE plain # << >>
  BY <1>3, <1>4, <1>5 DEF pieces, C, A, R, l
<1>6. CASE plain = << >>
  <2>1. format = C[k] /\ out \o R[k] = Shown(pieces)
    <3>1. << >> \o C[k] = C[k] /\ << >> \o R[k] = R[k]
      BY <1>2, Concat3
    <3> QED
      BY <1>3, <1>6, <3>1
  <2>2. k # l
    BY <1>2, <2>1
  <2> DEFINE j == k + 1
  <2>3. j \in 1 .. l /\ j - 1 = k /\ j \in 0 .. l
    BY <1>2, <2>2
  <2> HIDE DEF j
  <2>4. /\ format = pieces[j].chars \o C[j] /\ args = pieces[j].args \o A[j]
        /\ out \o (Rendered(pieces[j]) \o R[j]) = Shown(pieces)
    BY <1>2, <1>3, <2>1, <2>3
  <2>5. CASE IsPlain(pieces[j])
    <3>1. A[j] \in Seq(Arguments) /\ << >> \o A[j] = A[j]
      BY <1>2, <2>3, Concat3
    <3>2. args = A[j]
      BY <2>4, <2>5, <3>1 DEF IsPlain
    <3>3. AtPlain
      BY <1>4, <2>3, <2>4, <2>5, <3>2 DEF IsPlain
    <3> QED
      BY <3>3 DEF pieces, C, A, R, l
  <2>6. CASE ~IsPlain(pieces[j])
    BY <2>3, <2>4, <2>6 DEF pieces, C, A, R, l
  <2> QED
    BY <2>5, <2>6
<1> QED
  BY <1>5, <1>6

-----------------------------------------------------------------------------
\* The steps of printf.
LEMMA CallFacts ==
    ASSUME LibInv, pc = "format"
    PROVE  /\ call.name = "printf" /\ call.what \in Formats /\ Halfway(out) /\ out \in Seq(Char)
BY DEF LibInv, DataOK, CallOK, Printing, Halfway

LEMMA HalfwayNext ==
    ASSUME call.name = "printf", call' = call, NEW k \in 0 .. Len(call.what),
           NEW plain \in Seq(Char), \A j \in 1 .. Len(plain) : plain[j] # "%",
           format' = plain \o CharsFrom(call.what)[k], args' = ArgsFrom(call.what)[k]
    PROVE  /\ out' \o (plain \o ShownFrom(call.what)[k]) = Shown(call.what) => Halfway(out)'
           /\ (out' \o Number') \o (plain \o ShownFrom(call.what)[k]) = Shown(call.what)
                => Halfway(out \o Number)'
<1>1. ASSUME out' \o (plain \o ShownFrom(call.what)[k]) = Shown(call.what) PROVE Halfway(out)'
  <2>1. Shows(out, k, plain)'
    BY <1>1 DEF Shows
  <2> QED
    BY <2>1 DEF Halfway
<1>2. ASSUME (out' \o Number') \o (plain \o ShownFrom(call.what)[k]) = Shown(call.what)
      PROVE  Halfway(out \o Number)'
  <2>1. Shows(out \o Number, k, plain)'
    BY <1>2 DEF Shows
  <2> QED
    BY <2>1 DEF Halfway
<1> QED
  BY <1>1, <1>2

LEMMA PlainStep == ASSUME LibInv, Plain PROVE LibInv'
<1> DEFINE pieces == call.what
           C == CharsFrom(pieces)
           R == ShownFrom(pieces)
<1>1. /\ call.name = "printf" /\ pieces \in Formats /\ Halfway(out) /\ out \in Seq(Char)
      /\ pc = "format" /\ format # << >> /\ Head(format) # "%"
      /\ out' = out \o <<Head(format)>> /\ format' = Tail(format)
      /\ UNCHANGED <<pc, value, base, buffer, room, call, args, text, sign, int>>
  BY CallFacts DEF Plain, Show
<1>2. \A k \in 0 .. Len(pieces) : C[k] \in Seq(Char) /\ R[k] \in Seq(Char)
  BY <1>1, FormatFacts
<1>3. ASSUME NEW k \in 1 .. Len(pieces), ~IsPlain(pieces[k]), format = pieces[k].chars \o C[k]
      PROVE  FALSE
  <2>1. pieces[k] = Piece(pieces[k].chars, pieces[k].args) /\ IsPiece(pieces[k])
        /\ C[k] \in Seq(Char)
    <3>1. Len(pieces) \in Nat /\ pieces[k] = Piece(pieces[k].chars, pieces[k].args)
          /\ IsPiece(pieces[k])
      BY <1>1, FormatFacts
    <3>2. k \in 0 .. Len(pieces)
      BY <3>1
    <3> HIDE DEF C, pieces
    <3> QED
      BY <1>2, <3>1, <3>2
  <2>2. \E c \in Char : pieces[k].chars = <<"%", c>>
    BY <1>3, <2>1, PieceKinds, LibCAssumption DEF Converts
  <2> HIDE DEF C
  <2>3. Head(format) = "%"
    BY <1>3, <2>1, <2>2
  <2> QED
    BY <1>1, <2>3
<1>4. PICK c \in Char \ {"%"} : \E k \in 0 .. Len(pieces) : \E plain \in Seq(Char) :
                 /\ \A j \in 1 .. Len(plain) : plain[j] # "%"
                 /\ format = <<c>> \o (plain \o C[k])
                 /\ args = ArgsFrom(pieces)[k]
                 /\ out \o (<<c>> \o (plain \o R[k])) = Shown(pieces)
  BY <1>1, <1>3, NextPiece
<1>5. PICK k \in 0 .. Len(pieces) : \E plain \in Seq(Char) :
                 /\ \A j \in 1 .. Len(plain) : plain[j] # "%"
                 /\ format = <<c>> \o (plain \o C[k])
                 /\ args = ArgsFrom(pieces)[k]
                 /\ out \o (<<c>> \o (plain \o R[k])) = Shown(pieces)
  BY <1>4
<1>6. PICK plain \in Seq(Char) :
                 /\ \A j \in 1 .. Len(plain) : plain[j] # "%"
                 /\ format = <<c>> \o (plain \o C[k])
                 /\ args = ArgsFrom(pieces)[k]
                 /\ out \o (<<c>> \o (plain \o R[k])) = Shown(pieces)
  BY <1>5
<1> HIDE DEF C, R
<1>7. plain \o C[k] \in Seq(Char) /\ plain \o R[k] \in Seq(Char)
  BY <1>2, TextConcat
<1>8. Head(format) = c /\ Tail(format) = plain \o C[k]
  <2>1. \A t \in Seq(Char) : Head(<<c>> \o t) = c /\ Tail(<<c>> \o t) = t
    OBVIOUS
  <2> QED
    BY <1>6, <1>7, <2>1
<1> DEFINE h == <<c>>
<1>9. h \in Seq(Char)
  BY OneElement
<1>10. out' = out \o h /\ out \o (h \o (plain \o R[k])) = Shown(pieces)
  BY <1>1, <1>6, <1>8
<1> HIDE DEF h
<1>11. \A z \in Seq(Char) : (out \o h) \o z = out \o (h \o z)
  BY <1>1, <1>9, TextConcat
<1>12. out' \in Seq(Char) /\ out' \o (plain \o R[k]) = Shown(pieces)
  <2>1. out \o h \in Seq(Char)
    BY <1>1, <1>9, TextConcat
  <2>2. (out \o h) \o (plain \o R[k]) = out \o (h \o (plain \o R[k]))
    BY <1>7, <1>11
  <2> QED
    BY <1>10, <2>1, <2>2
<1>13. Halfway(out)'
  BY <1>1, <1>6, <1>8, <1>12, HalfwayNext DEF C, R
<1>14. DataOK'
  BY <1>1, <1>12 DEF LibInv, DataOK
<1>15. CallOK'
  BY <1>1 DEF LibInv, CallOK
<1> QED
  BY <1>1, <1>13, <1>14, <1>15 DEF LibInv, Printing

\* A conversion is read with its argument, and its piece is still to be shown.
AtConversion(k) ==
    /\ LibInv /\ pc = "format" /\ call.name = "printf" /\ call.what \in Formats
    /\ k \in 1 .. Len(call.what)
    /\ format' = CharsFrom(call.what)[k] /\ args' = ArgsFrom(call.what)[k]
    /\ out \o (Rendered(call.what[k]) \o ShownFrom(call.what)[k]) = Shown(call.what)
    /\ UNCHANGED <<call, text, sign, int>>

LEMMA AtConversionFacts ==
    ASSUME NEW k, AtConversion(k)
    PROVE  /\ k \in 0 .. Len(call.what) /\ out \in Seq(Char) /\ Rendered(call.what[k]) \in Seq(Char)
           /\ CharsFrom(call.what)[k] \in Seq(Char) /\ ShownFrom(call.what)[k] \in Seq(Char)
           /\ << >> \o CharsFrom(call.what)[k] = CharsFrom(call.what)[k]
           /\ << >> \o ShownFrom(call.what)[k] = ShownFrom(call.what)[k]
           /\ \A t \in Seq(Char) : (out \o t) \o ShownFrom(call.what)[k] = out \o (t \o ShownFrom(call.what)[k])
<1>1. k \in 1 .. Len(call.what) /\ call.what \in Formats /\ out \in Seq(Char)
  BY DEF AtConversion, LibInv, DataOK
<1>2. /\ Len(call.what) \in Nat
      /\ call.what[k] = Piece(call.what[k].chars, call.what[k].args) /\ IsPiece(call.what[k])
  BY <1>1, FormatFacts
<1>3. k \in 0 .. Len(call.what)
  BY <1>1, <1>2
<1>4. CharsFrom(call.what)[k] \in Seq(Char) /\ ShownFrom(call.what)[k] \in Seq(Char)
  BY <1>1, <1>3, FormatFacts
<1>5. Rendered(call.what[k]) \in Seq(Char)
  BY <1>2, PieceTypes
<1> DEFINE R == ShownFrom(call.what)[k]
           C == CharsFrom(call.what)[k]
<1>6. R \in Seq(Char) /\ C \in Seq(Char)
  BY <1>4
<1> HIDE DEF R, C
<1>7. << >> \o R = R /\ << >> \o C = C
  BY <1>6, TextConcat
<1>8. \A t \in Seq(Char) : (out \o t) \o R = out \o (t \o R)
  BY <1>1, <1>6, TextConcat, SMTT(30)
<1> QED
  BY <1>1, <1>3, <1>4, <1>5, <1>7, <1>8 DEF R, C

LEMMA ShowsPiece ==
    ASSUME NEW k, AtConversion(k), Show(Rendered(call.what[k]))
    PROVE  LibInv'
<1> DEFINE R == ShownFrom(call.what)[k]
           C == CharsFrom(call.what)[k]
           r == Rendered(call.what[k])
<1>1. /\ LibInv /\ pc = "format" /\ call.name = "printf" /\ k \in 0 .. Len(call.what)
      /\ out' = out \o r /\ format' = C /\ args' = ArgsFrom(call.what)[k]
      /\ out \o (r \o R) = Shown(call.what)
      /\ UNCHANGED <<pc, value, base, buffer, room, call, text, sign, int>>
  BY AtConversionFacts DEF AtConversion, Show
<1>2. /\ out \in Seq(Char) /\ r \in Seq(Char) /\ << >> \o C = C /\ << >> \o R = R
      /\ (out \o r) \o R = out \o (r \o R)
  BY AtConversionFacts
<1> HIDE DEF R, C, r
<1>3. out' \o (<< >> \o R) = Shown(call.what) /\ format' = << >> \o C /\ out' \in Seq(Char)
  BY <1>1, <1>2, TextConcat
<1>4. << >> \in Seq(Char) /\ \A j \in 1 .. Len(<< >>) : << >>[j] # "%"
  BY EmptySeq
<1>5. Halfway(out)'
  BY <1>1, <1>3, <1>4, HalfwayNext DEF R, C
<1>6. DataOK'
  BY <1>1, <1>3 DEF LibInv, DataOK
<1>7. CallOK'
  BY <1>1 DEF LibInv, CallOK
<1> QED
  BY <1>1, <1>5, <1>6, <1>7 DEF LibInv, Printing

\* The entry of print_unsigned and print_uint.
LEMMA Converted ==
    ASSUME NEW word \in Words, word # 0, NEW b \in {10, 16}, NEW limit \in Nat,
           WORD <= Powers(b, limit)[limit], Convert(word, b, limit)
    PROVE  /\ pc' = "digits" /\ value' \in Words /\ base' \in {10, 16} /\ buffer' \in Seq(Char)
           /\ room' \in Nat /\ Len(buffer') <= room'
           /\ Fits(value', base', room', room' - Len(buffer'))
           /\ Number' = Numeral(word, b)
<1>1. base' = b /\ room' = limit /\ buffer' = << >> /\ value' = word /\ pc' = "digits"
  BY DEF Convert
<1>2. << >> \in Seq(Char) /\ Len(<< >>) = 0 /\ Reverse(<< >>) = << >>
  BY DEF Reverse
<1>3. Fits(word, b, limit, limit) /\ limit - 0 = limit
  BY PowersFit
<1>4. Number' = Digits(word, b) \o << >>
  BY <1>1, <1>2 DEF Number
<1>5. Numeral(word, b) \in Seq(Char) /\ Digits(word, b) = Numeral(word, b)
  BY DigitsType
<1>6. Number' = Numeral(word, b)
  BY <1>4, <1>5, TextConcat
<1> QED
  BY <1>1, <1>2, <1>3, <1>6

LEMMA DividesPiece ==
    ASSUME NEW k, AtConversion(k), NEW word \in Words, NEW b \in {10, 16}, NEW prefix \in Seq(Char),
           print_unsigned(word, b, prefix), word = 0 => prefix = << >>,
           Rendered(call.what[k]) = prefix \o Numeral(word, b)
    PROVE  LibInv'
<1>1. CASE word = 0
  <2>1. Rendered(call.what[k]) = <<"0">>
    <3>1. Numeral(0, b) = <<"0">> /\ Numeral(0, b) \in Seq(Char)
      BY <1>1, NumeralOfZero, NumeralType
    <3>2. << >> \o Numeral(0, b) = Numeral(0, b)
      BY <3>1, TextConcat
    <3> QED
      BY <1>1, <3>1, <3>2
  <2>2. Show(<<"0">>)
    BY <1>1 DEF print_unsigned
  <2> QED
    BY <2>1, <2>2, ShowsPiece
<1>2. CASE word # 0
  <2> DEFINE R == ShownFrom(call.what)[k]
             C == CharsFrom(call.what)[k]
             number == Numeral(word, b)
  <2>1. /\ LibInv /\ pc = "format" /\ call.name = "printf" /\ k \in 0 .. Len(call.what)
        /\ format' = C /\ args' = ArgsFrom(call.what)[k]
        /\ out \o ((prefix \o number) \o R) = Shown(call.what)
        /\ UNCHANGED <<call, text, sign, int>>
    BY AtConversionFacts DEF AtConversion
  <2>2. out' = out \o prefix /\ Convert(word, b, PRINTF_BUFFER)
    BY <1>2 DEF print_unsigned
  <2>3. /\ pc' = "digits" /\ value' \in Words /\ base' \in {10, 16} /\ buffer' \in Seq(Char)
        /\ room' \in Nat /\ Len(buffer') <= room'
        /\ Fits(value', base', room', room' - Len(buffer'))
        /\ Number' = number
    BY <1>2, <2>2, Converted, LibCAssumption
  <2>4. /\ out \in Seq(Char) /\ number \in Seq(Char) /\ << >> \o C = C /\ << >> \o R = R
        /\ \A t \in Seq(Char) : (out \o t) \o R = out \o (t \o R)
    BY AtConversionFacts, NumeralType
  <2> HIDE DEF R, C, number
  <2>5. (out \o prefix) \o number = out \o (prefix \o number) /\ prefix \o number \in Seq(Char)
        /\ out \o prefix \in Seq(Char)
    <3>1. \A z \in Seq(Char) : (out \o prefix) \o z = out \o (prefix \o z)
      BY <2>4, TextConcat
    <3> QED
      BY <2>4, <3>1, TextConcat
  <2>6. (out \o (prefix \o number)) \o R = Shown(call.what)
    BY <2>1, <2>4, <2>5
  <2>7. (out' \o Number') \o (<< >> \o R) = Shown(call.what) /\ format' = << >> \o C
    BY <2>1, <2>2, <2>3, <2>4, <2>5, <2>6
  <2>8. << >> \in Seq(Char) /\ \A j \in 1 .. Len(<< >>) : << >>[j] # "%"
    BY EmptySeq
  <2>9. Halfway(out \o Number)'
    BY <2>1, <2>7, <2>8, HalfwayNext DEF R, C
  <2>10. DataOK'
    BY <2>1, <2>2, <2>3, <2>5 DEF LibInv, DataOK
  <2>11. CallOK'
    BY <2>1 DEF LibInv, CallOK
  <2>12. Dividing'
    BY <2>3, <2>9 DEF Dividing
  <2> QED
    BY <2>3, <2>10, <2>11, <2>12 DEF LibInv, Printing
<1> QED
  BY <1>1, <1>2

LEMMA ConversionStep == ASSUME LibInv, Conversion PROVE LibInv'
<1> DEFINE pieces == call.what
           C == CharsFrom(pieces)
           A == ArgsFrom(pieces)
           R == ShownFrom(pieces)
<1>1. /\ call.name = "printf" /\ pieces \in Formats /\ Halfway(out) /\ out \in Seq(Char)
      /\ pc = "format" /\ format # << >> /\ Head(format) = "%"
      /\ UNCHANGED <<call, text, sign, int>>
      /\ format' = SubSeq(format, 3, Len(format))
  BY CallFacts DEF Conversion
<1>2. ASSUME NEW c \in Char \ {"%"}, NEW k \in 0 .. Len(pieces), NEW plain \in Seq(Char),
             format = <<c>> \o (plain \o C[k])
      PROVE  FALSE
  <2>1. C[k] \in Seq(Char)
    BY <1>1, FormatFacts
  <2> HIDE DEF C
  <2>2. plain \o C[k] \in Seq(Char)
    BY <2>1, TextConcat
  <2>3. \A t \in Seq(Char) : Head(<<c>> \o t) = c
    OBVIOUS
  <2> QED
    BY <1>1, <1>2, <2>2, <2>3
<1>3. PICK k \in 1 .. Len(pieces) :
                 /\ ~IsPlain(pieces[k])
                 /\ format = pieces[k].chars \o C[k]
                 /\ args = pieces[k].args \o A[k]
                 /\ out \o (Rendered(pieces[k]) \o R[k]) = Shown(pieces)
  BY <1>1, <1>2, NextPiece
<1>4. /\ pieces[k] = Piece(pieces[k].chars, pieces[k].args) /\ IsPiece(pieces[k])
      /\ C[k] \in Seq(Char) /\ A[k] \in Seq(Arguments)
  <2>1. Len(pieces) \in Nat /\ pieces[k] = Piece(pieces[k].chars, pieces[k].args)
        /\ IsPiece(pieces[k])
    BY <1>1, FormatFacts
  <2>2. k \in 0 .. Len(pieces)
    BY <2>1
  <2> QED
    BY <1>1, <2>1, <2>2, FormatFacts
<1> DEFINE piece == pieces[k]
           c == format[2]
\* The conversion is behind the '%', and the rest behind the conversion.
<1>5. ASSUME NEW e, NEW arguments, Converts(piece, e, arguments)
      PROVE  c = e /\ format' = C[k]
  <2>1. format = <<"%", e>> \o C[k] /\ C[k] \in Seq(Char) /\ e \in Char /\ "%" \in Char
    BY <1>3, <1>4, <1>5, LibCAssumption DEF Converts
  <2> DEFINE t == C[k]
  <2>2. t \in Seq(Char) /\ format = <<"%", e>> \o t
    BY <2>1
  <2> HIDE DEF t
  <2>3. format[2] = e /\ SubSeq(format, 3, Len(format)) = t
    <3>1. <<"%", e>> \in Seq(Char) /\ Len(<<"%", e>>) = 2
      BY <2>1
    <3>2. /\ format \in Seq(Char) /\ Len(format) = 2 + Len(t) /\ Len(t) \in Nat
          /\ \A i \in 1 .. 2 + Len(t) : format[i] = IF i <= 2 THEN <<"%", e>>[i] ELSE t[i - 2]
      BY <2>2, <3>1, ConcatProperties
    <3>3. format[2] = e
      BY <3>2
    <3>4. SubSeq(format, 3, Len(format)) = t
      <4>1. /\ SubSeq(format, 3, Len(format)) \in Seq(Char)
            /\ Len(SubSeq(format, 3, Len(format))) = Len(t)
            /\ \A i \in 1 .. Len(t) : SubSeq(format, 3, Len(format))[i] = t[i]
        BY <3>2
      <4> QED
        BY <2>2, <4>1, SeqEqual
    <3> QED
      BY <3>3, <3>4
  <2> QED
    BY <1>1, <2>3 DEF t
\* A conversion that takes an argument takes that of the piece.
<1>6. ASSUME NEW x \in Arguments, piece.args = <<x>> PROVE Head(args) = x /\ Tail(args) = A[k]
  <2> DEFINE t == A[k]
  <2>1. t \in Seq(Arguments) /\ args = <<x>> \o t
    BY <1>3, <1>4, <1>6
  <2> HIDE DEF t
  <2>2. Head(args) = x /\ Tail(args) = t
    BY <2>1
  <2> QED
    BY <2>2 DEF t
<1>7. ASSUME piece.args = << >> PROVE args = A[k]
  <2> DEFINE t == A[k]
  <2>1. t \in Seq(Arguments) /\ args = << >> \o t
    BY <1>3, <1>4, <1>7
  <2> HIDE DEF t
  <2> QED
    BY <2>1, ConcatEmptySeq DEF t
<1>8. /\ \/ c \in {"s", "c", "d", "i", "u", "x"} /\ args' = Tail(args)
         \/ c \notin {"s", "c", "d", "i", "u", "x"} /\ UNCHANGED args
      /\ \/ c = "s" /\ Show(Head(args))
         \/ c = "c" /\ Show(<<Head(args)>>)
         \/ c \in {"d", "i"} /\ print_signed(Head(args))
         \/ c = "u" /\ print_unsigned(Head(args), 10, << >>)
         \/ c = "x" /\ print_unsigned(Head(args), 16, << >>)
         \/ c = "%" /\ Show(<<"%">>)
         \/ c \notin {"s", "c", "d", "i", "u", "x", "%"} /\ Show(<<"%", c>>)
  BY DEF Conversion
<1> HIDE DEF c
<1>9. ASSUME format' = C[k], args' = A[k] PROVE AtConversion(k)
  BY <1>1, <1>3, <1>9 DEF AtConversion
<1> HIDE DEF C, A, R
<1>10. << >> \in Seq(Char) /\ \A t \in Seq(Char) : << >> \o t = t
  BY EmptySeq, TextConcat
<1>11. ASSUME NEW word \in Words, NEW e \in {"d", "i"}, Converts(piece, e, <<word>>),
              Rendered(piece) = SignedNumeral(Signed(word))
       PROVE  LibInv'
  <2>1. c = e /\ format' = C[k]
    BY <1>5, <1>11
  <2>2. Head(args) = word /\ Tail(args) = A[k]
    BY <1>6, <1>11 DEF Converts, Arguments
  <2>3. args' = A[k] /\ print_signed(word)
    BY <1>8, <2>1, <2>2
  <2>4. AtConversion(k)
    BY <1>9, <2>1, <2>3
  <2>5. CASE Signed(word) < 0
    <3>1. /\ print_unsigned(-Signed(word), 10, <<"-">>)
          /\ -Signed(word) \in Words /\ -Signed(word) # 0
      BY <2>3, <2>5, SignedType DEF print_signed
    <3>2. <<"-">> \in Seq(Char)
      BY LibCAssumption, OneElement
    <3>3. Rendered(piece) = <<"-">> \o Numeral(-Signed(word), 10)
      BY <1>11, <2>5 DEF SignedNumeral
    <3> HIDE DEF piece
    <3> QED
      BY <2>4, <3>1, <3>2, <3>3, DividesPiece DEF piece
  <2>6. CASE ~(Signed(word) < 0)
    <3>1. print_unsigned(word, 10, << >>) /\ Signed(word) = word
      BY <2>3, <2>6, SignedType DEF print_signed
    <3>2. Rendered(piece) = << >> \o Numeral(word, 10)
      BY <1>10, <1>11, <2>6, <3>1, NumeralType DEF SignedNumeral
    <3> QED
      BY <1>10, <2>4, <3>1, <3>2, DividesPiece
  <2> QED
    BY <2>5, <2>6
<1>12. ASSUME NEW word \in Words, NEW e \in {"u", "x"}, Converts(piece, e, <<word>>),
              Rendered(piece) = Numeral(word, IF e = "u" THEN 10 ELSE 16)
       PROVE  LibInv'
  <2> DEFINE b == IF e = "u" THEN 10 ELSE 16
  <2>1. c = e /\ format' = C[k]
    BY <1>5, <1>12
  <2>2. Head(args) = word /\ Tail(args) = A[k]
    BY <1>6, <1>12 DEF Converts, Arguments
  <2>3. args' = A[k] /\ print_unsigned(word, b, << >>) /\ b \in {10, 16}
    BY <1>8, <2>1, <2>2
  <2>4. AtConversion(k)
    BY <1>9, <2>1, <2>3
  <2>5. Rendered(piece) = << >> \o Numeral(word, b)
    BY <1>10, <1>12, <2>3, NumeralType
  <2> HIDE DEF b
  <2> QED
    BY <1>10, <2>3, <2>4, <2>5, DividesPiece
<1>13. ASSUME NEW e \in Char, Converts(piece, "c", <<e>>), Rendered(piece) = <<e>>
       PROVE  LibInv'
  <2>1. c = "c" /\ format' = C[k]
    BY <1>5, <1>13
  <2>2. Head(args) = e /\ Tail(args) = A[k]
    BY <1>6, <1>13 DEF Converts, Arguments
  <2>3. args' = A[k] /\ Show(Rendered(piece))
    BY <1>8, <1>13, <2>1, <2>2
  <2> QED
    BY <1>9, <2>1, <2>3, ShowsPiece
<1>14. ASSUME NEW t \in Seq(Char), Converts(piece, "s", <<t>>), Rendered(piece) = t
       PROVE  LibInv'
  <2>1. c = "s" /\ format' = C[k]
    BY <1>5, <1>14
  <2>2. Head(args) = t /\ Tail(args) = A[k]
    BY <1>6, <1>14 DEF Converts, Arguments
  <2>3. args' = A[k] /\ Show(Rendered(piece))
    BY <1>8, <1>14, <2>1, <2>2
  <2> QED
    BY <1>9, <2>1, <2>3, ShowsPiece
<1>15. ASSUME Converts(piece, "%", << >>), Rendered(piece) = <<"%">>
       PROVE  LibInv'
  <2>1. c = "%" /\ format' = C[k] /\ args = A[k]
    BY <1>5, <1>7, <1>15 DEF Converts
  <2>2. args' = A[k] /\ Show(Rendered(piece))
    BY <1>8, <1>15, <2>1
  <2> QED
    BY <1>9, <2>1, <2>2, ShowsPiece
<1>16. ASSUME NEW e \in Char \ {"d", "i", "u", "x", "c", "s", "%"}, Converts(piece, e, << >>),
              Rendered(piece) = <<"%", e>>
       PROVE  LibInv'
  <2>1. c = e /\ format' = C[k] /\ args = A[k]
    BY <1>5, <1>7, <1>16 DEF Converts
  <2>2. args' = A[k] /\ Show(Rendered(piece))
    BY <1>8, <1>16, <2>1
  <2> QED
    BY <1>9, <2>1, <2>2, ShowsPiece
<1> HIDE DEF piece
<1>17. piece = Piece(piece.chars, piece.args) /\ IsPiece(piece) /\ ~IsPlain(piece)
  BY <1>3, <1>4 DEF piece
<1> QED
  BY <1>11, <1>12, <1>13, <1>14, <1>15, <1>16, <1>17, PieceKinds

LEMMA FormatEndStep == ASSUME LibInv, FormatEnd PROVE LibInv'
<1> DEFINE pieces == call.what
           C == CharsFrom(pieces)
           R == ShownFrom(pieces)
<1>1. /\ call.name = "printf" /\ pieces \in Formats /\ Halfway(out) /\ out \in Seq(Char)
      /\ format = << >> /\ pc' = "idle"
      /\ UNCHANGED <<call, format, args, value, base, buffer, room, out, text, sign, int>>
  BY CallFacts DEF FormatEnd
<1>2. PICK k \in 0 .. Len(pieces) : \E plain : Shows(out, k, plain)
  BY <1>1 DEF Halfway
<1>3. PICK plain : Shows(out, k, plain)
  BY <1>2
<1>4. /\ Len(pieces) \in Nat
      /\ \A j \in 1 .. Len(pieces) :
            /\ pieces[j] = Piece(pieces[j].chars, pieces[j].args) /\ IsPiece(pieces[j])
            /\ C[j - 1] = pieces[j].chars \o C[j]
      /\ \A j \in 0 .. Len(pieces) : C[j] \in Seq(Char) /\ R[j] \in Seq(Char)
      /\ R[Len(pieces)] = << >>
  BY <1>1, FormatFacts
<1>5. plain \in Seq(Char) /\ plain \o C[k] = << >> /\ out \o (plain \o R[k]) = Shown(pieces)
  BY <1>1, <1>3 DEF Shows
<1> HIDE DEF C, R, pieces
<1>6. plain = << >> /\ C[k] = << >>
  BY <1>4, <1>5, ConcatEqualIffEmpty
<1>7. k = Len(pieces)
  <2> SUFFICES ASSUME k # Len(pieces) PROVE FALSE
    OBVIOUS
  <2> DEFINE j == k + 1
  <2>1. j \in 1 .. Len(pieces) /\ j - 1 = k /\ j \in 0 .. Len(pieces)
    BY <1>4
  <2> HIDE DEF j
  <2>2. C[k] = pieces[j].chars \o C[j] /\ IsPiece(pieces[j]) /\ C[j] \in Seq(Char)
    BY <1>4, <2>1
  <2>3. pieces[j].chars \in Seq(Char) /\ pieces[j].chars # << >>
    BY <2>2 DEF IsPiece
  <2> DEFINE p == pieces[j].chars
             t == C[j]
  <2>4. p \in Seq(Char) /\ t \in Seq(Char) /\ p \o t = << >> /\ p # << >>
    BY <1>6, <2>2, <2>3
  <2> HIDE DEF p, t
  <2>5. p \o t = << >> => p = << >>
    BY <2>4, ConcatEqualIffEmpty
  <2> QED
    BY <2>4, <2>5
<1>8. out = Shown(pieces)
  BY <1>1, <1>4, <1>5, <1>6, <1>7, TextConcat, ZenonT(60)
<1>9. out' = Asked'
  BY <1>1, <1>8 DEF Asked, pieces
<1>10. DataOK'
  BY <1>1 DEF LibInv, DataOK
<1>11. CallOK'
  BY <1>1 DEF LibInv, CallOK
<1> QED
  BY <1>1, <1>9, <1>10, <1>11 DEF LibInv, Printing

-----------------------------------------------------------------------------
\* The digits of a number.
LEMMA DigitFound ==
    ASSUME DataOK, Dividing, value > 0
    PROVE  /\ Len(buffer) < room /\ value \div base \in Words
           /\ Fits(value \div base, base, room, room - (Len(buffer) + 1))
           /\ DigitChar(value % base) \in Char
           /\ Digits(value \div base, base) \o Reverse(Append(buffer, DigitChar(value % base)))
                = Number
<1>1. /\ value \in Words /\ value \in Nat /\ base \in {10, 16} /\ buffer \in Seq(Char)
      /\ room \in Nat /\ Len(buffer) \in Nat /\ Len(buffer) <= room
      /\ room - Len(buffer) \in Nat /\ Fits(value, base, room, room - Len(buffer))
  BY WordFacts DEF DataOK, Dividing
<1>2. room - Len(buffer) > 0 /\ Fits(value \div base, base, room, (room - Len(buffer)) - 1)
  BY <1>1, FitsStep
<1>3. (room - Len(buffer)) - 1 = room - (Len(buffer) + 1) /\ Len(buffer) < room
  BY <1>1, <1>2
<1> DEFINE d == DigitChar(value % base)
           q == value \div base
           D == Digits(q, base)
<1>4. q \in Words /\ d \in Char /\ Digits(value, base) = Append(D, d)
  BY <1>1, DigitsStep
<1>5. D \in Seq(Char)
  BY <1>1, <1>4, DigitsType
<1> HIDE DEF d, D
<1> DEFINE h == <<d>>
           r == Reverse(buffer)
<1>6. /\ h \in Seq(Char) /\ r \in Seq(Char) /\ Reverse(Append(buffer, d)) = h \o r
      /\ Append(D, d) = D \o h
  BY <1>1, <1>4, <1>5, ReverseAppend, OneElement, AppendIsConcat
<1>7. Number = (D \o h) \o r
  BY <1>4, <1>6 DEF Number
<1> HIDE DEF h, r
<1>8. (D \o h) \o r = D \o (h \o r)
  <2>1. \A z \in Seq(Char) : (D \o h) \o z = D \o (h \o z)
    BY <1>5, <1>6, TextConcat
  <2> QED
    BY <1>6, <2>1
<1>9. D \o Reverse(Append(buffer, d)) = Number
  BY <1>6, <1>7, <1>8
<1> QED
  BY <1>2, <1>3, <1>4, <1>9 DEF d, D

LEMMA DivideStep == ASSUME LibInv, Divide PROVE LibInv'
<1>1. DataOK /\ CallOK /\ Dividing /\ pc = "digits" /\ value > 0
      /\ buffer' = Append(buffer, DigitChar(value % base)) /\ value' = value \div base
      /\ UNCHANGED <<call, pc, format, args, base, room, out, text, sign, int>>
  BY DEF LibInv, Printing, Divide
<1>2. /\ Len(buffer) < room /\ value' \in Words
      /\ Fits(value', base, room, room - (Len(buffer) + 1))
      /\ DigitChar(value % base) \in Char
      /\ Digits(value', base) \o Reverse(buffer') = Number
  BY <1>1, DigitFound
<1>3. buffer \in Seq(Char) /\ room \in Nat
  BY <1>1 DEF DataOK
<1>4. buffer' \in Seq(Char) /\ Len(buffer') = Len(buffer) + 1 /\ Len(buffer) \in Nat
  BY <1>1, <1>2, <1>3, AppendProperties
<1>5. Number' = Number
  BY <1>1, <1>2 DEF Number
<1>6. DataOK'
  BY <1>1, <1>2, <1>3, <1>4 DEF DataOK
<1>7. CallOK'
  BY <1>1 DEF CallOK
<1>8. Asked' = Asked
  BY <1>1 DEF Asked
<1>9. Halfway(out \o Number) => Halfway(out \o Number)'
  <2> SUFFICES ASSUME Halfway(out \o Number) PROVE Halfway(out \o Number)'
    OBVIOUS
  <2>1. PICK k \in 0 .. Len(call.what) : \E plain : Shows(out \o Number, k, plain)
    BY DEF Halfway
  <2>2. PICK plain : Shows(out \o Number, k, plain)
    BY <2>1
  <2>3. Shows(out \o Number, k, plain)'
    BY <1>1, <1>5, <2>2 DEF Shows
  <2> QED
    BY <1>1, <2>3 DEF Halfway
<1>10. Dividing'
  BY <1>1, <1>2, <1>4, <1>5, <1>8, <1>9 DEF Dividing
<1> QED
  BY <1>1, <1>6, <1>7, <1>10 DEF LibInv, Printing

LEMMA EmitDigitsStep == ASSUME LibInv, EmitDigits PROVE LibInv'
<1>1. DataOK /\ CallOK /\ Dividing /\ pc = "digits" /\ ~(value > 0 /\ Len(buffer) < room)
      /\ out' = out \o Reverse(buffer) /\ buffer' = << >> /\ value' = 0
      /\ pc' = (IF call.name = "printf" THEN "format" ELSE "idle")
      /\ UNCHANGED <<call, format, args, base, room, text, sign, int>>
  BY DEF LibInv, Printing, EmitDigits
<1>2. value = 0
  <2>1. value \in Nat
    BY <1>1, WordFacts DEF DataOK
  <2> QED
    BY <1>1, <2>1, DigitFound
<1>3. Reverse(buffer) \in Seq(Char) /\ out \in Seq(Char) /\ room \in Nat
  <2>1. buffer \in Seq(Char) /\ "-" \in Char
    BY <1>1, LibCAssumption DEF DataOK
  <2>2. Reverse(buffer) \in Seq(Char)
    BY <2>1, ReverseAppend
  <2> QED
    BY <1>1, <2>2 DEF DataOK
<1>4. Number = Reverse(buffer)
  <2>1. Digits(value, base) = << >>
    BY <1>2 DEF Digits
  <2> QED
    BY <1>3, <2>1, TextConcat DEF Number
<1>5. out' = out \o Number /\ out' \in Seq(Char)
  BY <1>1, <1>3, <1>4, TextConcat
<1>6. DataOK'
  <2>1. << >> \in Seq(Char) /\ Len(<< >>) = 0 /\ 0 \in Words
    BY WordFacts
  <2> QED
    BY <1>1, <1>3, <1>5, <2>1 DEF DataOK
<1>7. CallOK'
  BY <1>1 DEF CallOK
<1>8. CASE Halfway(out \o Number)
  <2>1. PICK k \in 0 .. Len(call.what) : \E plain : Shows(out \o Number, k, plain)
    BY <1>8 DEF Halfway
  <2>2. PICK plain : Shows(out \o Number, k, plain)
    BY <2>1
  <2>3. Shows(out, k, plain)'
    BY <1>1, <1>5, <2>2 DEF Shows
  <2>4. Halfway(out)' /\ call.name = "printf"
    BY <1>1, <1>8, <2>3 DEF Halfway
  <2> QED
    BY <1>1, <1>6, <1>7, <2>4 DEF LibInv, Printing
<1>9. CASE call.name = "print_uint" /\ out \o Number = Asked
  <2>1. Asked' = Asked
    BY <1>1 DEF Asked
  <2>2. pc' = "idle" /\ out' = Asked'
    BY <1>1, <1>5, <1>9, <2>1
  <2> QED
    BY <1>6, <1>7, <2>2 DEF LibInv, Printing
<1> QED
  BY <1>1, <1>8, <1>9 DEF Dividing

-----------------------------------------------------------------------------
\* The steps of atoi, as far as printing goes.
LEMMA IntsFacts ==
    /\ 0 \in Ints
    /\ \A n \in Int : Signed(Bits(n)) \in Ints
    /\ Ints \subseteq Int
<1>1. \A n \in Int : Bits(n) \in Words
  BY WordFacts, RemainderBound DEF Bits
<1>2. Signed(0) = 0 /\ 0 \in Words
  BY WordFacts DEF Signed
<1> QED
  BY <1>1, <1>2, SignedType DEF Ints

LEMMA AtoiSteps ==
    ASSUME LibInv, SkipSpace \/ ReadSign \/ ReadDigit \/ NumberEnd
    PROVE  LibInv'
<1>1. /\ DataOK /\ CallOK /\ pc \in {"spaces", "number"} /\ call.name = "atoi" /\ out = << >>
      /\ UNCHANGED <<call, value, buffer, room, out>>
      /\ pc' \in {"spaces", "number", "idle"}
      /\ text' \in {text, Tail(text)} /\ (text' # text => text # << >>)
      /\ sign' \in {sign, -1}
  BY DEF LibInv, Printing, SkipSpace, ReadSign, ReadDigit, NumberEnd, AtDigit
<1>2. int' \in Ints
  <2>1. int \in Ints /\ int \in Int /\ sign \in {1, -1}
    BY <1>1, IntsFacts DEF DataOK
  <2>2. CASE UNCHANGED int
    BY <2>1, <2>2
  <2>3. CASE ReadDigit
    <3>1. isdigit(Head(text)) /\ int' = Signed(Bits(int * 10 + Decimal(Head(text))))
      BY <2>3 DEF ReadDigit, AtDigit
    <3>2. Decimal(Head(text)) \in 0 .. 9
      BY <3>1 DEF isdigit, Decimal
    <3>3. int * 10 + Decimal(Head(text)) \in Int
      BY <2>1, <3>2
    <3> QED
      BY <3>1, <3>3, IntsFacts
  <2>4. CASE NumberEnd
    <3>1. int' = Signed(Bits(int * sign)) /\ int * sign \in Int
      BY <2>1, <2>4 DEF NumberEnd
    <3> QED
      BY <3>1, IntsFacts
  <2> QED
    BY <2>2, <2>3, <2>4 DEF SkipSpace, ReadSign
<1>3. text' \in Seq(Char)
  BY <1>1, SMTT(30) DEF DataOK
<1>4. DataOK'
  BY <1>1, <1>2, <1>3 DEF DataOK
<1>5. CallOK'
  BY <1>1 DEF CallOK
<1>6. Asked' = << >>
  BY <1>1 DEF Asked
<1> QED
  BY <1>1, <1>4, <1>5, <1>6 DEF LibInv, Printing

-----------------------------------------------------------------------------
\* The calls.
LEMMA printfStep == ASSUME LibInv, NEW pieces \in Formats, printf(pieces) PROVE LibInv'
<1>1. /\ call' = [name |-> "printf", what |-> pieces] /\ args' = Args(pieces)
      /\ int' = 0 /\ sign' = 1 /\ text' = << >> /\ pc' = "format" /\ format' = Chars(pieces)
      /\ out' = << >> /\ UNCHANGED <<value, base, buffer, room>>
  BY DEF printf, Prints
<1>2. call'.name = "printf" /\ call'.what = pieces
  BY <1>1
<1> DEFINE C == CharsFrom(pieces)[0]
           R == ShownFrom(pieces)[0]
<1>3. /\ Chars(pieces) = C /\ Args(pieces) = ArgsFrom(pieces)[0] /\ Shown(pieces) = R
      /\ 0 \in 0 .. Len(pieces) /\ C \in Seq(Char) /\ R \in Seq(Char)
  <2>1. Len(pieces) \in Nat
    BY FormatFacts
  <2>2. 0 \in 0 .. Len(pieces)
    BY <2>1
  <2> QED
    BY <2>2, FormatFacts
<1> HIDE DEF C, R
<1>4. << >> \in Seq(Char) /\ << >> \o C = C /\ << >> \o R = R
  BY <1>3, EmptySeq, TextConcat
<1>5. format' = << >> \o C /\ args' = ArgsFrom(pieces)[0] /\ out' \o (<< >> \o R) = Shown(pieces)
  BY <1>1, <1>3, <1>4
<1>6. \A j \in 1 .. Len(<< >>) : << >>[j] # "%"
  OBVIOUS
<1>7. Shows(out, 0, << >>)'
  BY <1>2, <1>4, <1>5, <1>6 DEF Shows, C, R
<1>8. Halfway(out)'
  BY <1>2, <1>3, <1>7 DEF Halfway
<1>9. DataOK'
  BY <1>1, <1>4, IntsFacts DEF LibInv, DataOK
<1>10. CallOK'
  BY <1>2 DEF CallOK
<1> QED
  BY <1>1, <1>8, <1>9, <1>10 DEF LibInv, Printing

LEMMA print_uintStep == ASSUME LibInv, NEW word \in Words, print_uint(word) PROVE LibInv'
<1>1. /\ pc = "idle" /\ call' = [name |-> "print_uint", what |-> word]
      /\ int' = 0 /\ sign' = 1 /\ text' = << >>
  BY DEF print_uint, Prints
<1>2. call'.name = "print_uint" /\ call'.what = word
  BY <1>1
<1>3. Asked' = Numeral(word, 10) /\ Numeral(word, 10) \in Seq(Char)
  BY <1>2, NumeralType DEF Asked
<1>4. CallOK' /\ << >> \in Seq(Char) /\ 0 \in Ints
  BY <1>2, EmptySeq, IntsFacts DEF CallOK
<1>5. CASE word = 0
  <2>1. out' = <<"0">> /\ UNCHANGED <<pc, value, base, buffer, room>>
    BY <1>5 DEF print_uint
  <2>2. out' = Asked' /\ out' \in Seq(Char)
    BY <1>3, <1>5, <2>1, NumeralOfZero
  <2>3. DataOK'
    BY <1>1, <1>4, <2>1, <2>2 DEF LibInv, DataOK
  <2> QED
    BY <1>1, <1>4, <2>1, <2>2, <2>3 DEF LibInv, Printing
<1>6. CASE word # 0
  <2>1. out' = << >> /\ Convert(word, 10, UINT_BUFFER)
    BY <1>6 DEF print_uint
  <2>2. /\ pc' = "digits" /\ value' \in Words /\ base' \in {10, 16} /\ buffer' \in Seq(Char)
        /\ room' \in Nat /\ Len(buffer') <= room'
        /\ Fits(value', base', room', room' - Len(buffer'))
        /\ Number' = Numeral(word, 10)
    BY <1>6, <2>1, Converted, LibCAssumption
  <2>3. (out \o Number)' = Asked'
    BY <1>3, <2>1, <2>2, TextConcat
  <2>4. DataOK'
    BY <1>1, <1>4, <2>1, <2>2 DEF DataOK
  <2>5. Dividing'
    BY <1>2, <2>2, <2>3 DEF Dividing
  <2> QED
    BY <1>4, <2>2, <2>4, <2>5 DEF LibInv, Printing
<1> QED
  BY <1>5, <1>6

LEMMA putsStep == ASSUME LibInv, NEW t \in Texts, puts(t) PROVE LibInv'
<1>1. /\ pc = "idle" /\ call' = [name |-> "puts", what |-> t]
      /\ int' = 0 /\ sign' = 1 /\ text' = << >> /\ out' = Append(t, "\n")
      /\ UNCHANGED <<pc, format, value, base, buffer, room>>
  BY DEF puts, Prints
<1>2. call'.name = "puts" /\ call'.what = t
  BY <1>1
<1>3. << >> \in Seq(Char) /\ 0 \in Ints /\ Append(t, "\n") \in Seq(Char)
  <2>1. t \in Seq(Char) /\ "\n" \in Char
    BY LibCAssumption
  <2> QED
    BY <2>1, EmptySeq, IntsFacts, AppendProperties
<1>4. out' = Asked'
  BY <1>1, <1>2 DEF Asked
<1>5. DataOK'
  BY <1>1, <1>3 DEF LibInv, DataOK
<1>6. CallOK'
  BY <1>2 DEF CallOK
<1> QED
  BY <1>1, <1>4, <1>5, <1>6 DEF LibInv, Printing

LEMMA putcharStep == ASSUME LibInv, NEW c \in Char, putchar(c) PROVE LibInv'
<1>1. /\ pc = "idle" /\ call' = [name |-> "putchar", what |-> c]
      /\ int' = 0 /\ sign' = 1 /\ text' = << >> /\ out' = <<c>>
      /\ UNCHANGED <<pc, format, value, base, buffer, room>>
  BY DEF putchar, Prints
<1>2. call'.name = "putchar" /\ call'.what = c
  BY <1>1
<1>3. << >> \in Seq(Char) /\ 0 \in Ints /\ <<c>> \in Seq(Char)
  BY EmptySeq, IntsFacts, OneElement
<1>4. out' = Asked'
  BY <1>1, <1>2 DEF Asked
<1>5. DataOK'
  BY <1>1, <1>3 DEF LibInv, DataOK
<1>6. CallOK'
  BY <1>2 DEF CallOK
<1> QED
  BY <1>1, <1>4, <1>5, <1>6 DEF LibInv, Printing

LEMMA atoiStep == ASSUME LibInv, NEW t \in Seq(Char), atoi(t) PROVE LibInv'
<1>1. /\ pc = "idle" /\ pc' = "spaces"
      /\ call' = [name |-> "atoi", what |-> t,
                  of |-> IF t = out /\ call.name = "printf" THEN call.what ELSE << >>]
      /\ text' = t /\ sign' = 1 /\ int' = 0 /\ out' = << >>
      /\ UNCHANGED <<format, args, value, base, buffer, room>>
  BY DEF atoi
<1>2. /\ call'.name = "atoi"
      /\ call'.of = IF t = out /\ call.name = "printf" THEN call.what ELSE << >>
  BY <1>1
<1>3. CallOK'
  BY <1>2 DEF LibInv, CallOK
<1>4. DataOK'
  BY <1>1, EmptySeq, IntsFacts DEF LibInv, DataOK
<1> QED
  BY <1>1, <1>2, <1>3, <1>4 DEF LibInv, Printing

LEMMA LibNext == LibInv /\ [Next]_vars => LibInv'
<1> SUFFICES ASSUME LibInv, [Next]_vars PROVE LibInv'
  OBVIOUS
<1>1. CASE Callers
  <2>1. \A t \in Texts : t \in Seq(Char)
    BY LibCAssumption
  <2>2. out \in Seq(Char)
    BY DEF LibInv, DataOK
  <2> QED
    BY <1>1, <2>1, <2>2, printfStep, print_uintStep, putsStep, putcharStep, atoiStep DEF Callers
<1>2. CASE Work
  BY <1>2, PlainStep, ConversionStep, FormatEndStep, DivideStep, EmitDigitsStep, AtoiSteps DEF Work
<1>3. CASE UNCHANGED vars
  <2>1. DataOK' /\ CallOK'
    BY <1>3 DEF LibInv, DataOK, CallOK, vars
  <2>2. Asked' = Asked /\ Number' = Number
    BY <1>3 DEF Asked, Number, vars
  <2>3. ASSUME NEW k \in 0 .. Len(call.what), NEW plain
        PROVE  /\ Shows(out, k, plain)' <=> Shows(out, k, plain)
               /\ Shows(out \o Number, k, plain)' <=> Shows(out \o Number, k, plain)
    BY <1>3, <2>2 DEF Shows, vars
  <2>4. (Halfway(out)' <=> Halfway(out)) /\ (Halfway(out \o Number)' <=> Halfway(out \o Number))
    BY <1>3, <2>3 DEF Halfway, vars
  <2>5. Dividing => Dividing'
    BY <1>3, <2>2, <2>4 DEF Dividing, vars
  <2> QED
    BY <1>3, <2>1, <2>2, <2>4, <2>5 DEF LibInv, Printing, vars
<1> QED
  BY <1>1, <1>2, <1>3 DEF Next

LEMMA InitLib == Init => LibInv
<1> SUFFICES ASSUME Init PROVE LibInv
  OBVIOUS
<1>1. call.name = "none" /\ out = << >> /\ pc = "idle"
  BY DEF Init
<1>2. CallOK /\ Asked = << >>
  BY <1>1 DEF CallOK, Asked
<1>3. DataOK
  BY WordFacts, EmptySeq, IntsFacts DEF Init, DataOK
<1> QED
  BY <1>1, <1>2, <1>3 DEF LibInv, Printing

LEMMA LibInvariant == Spec => []LibInv
BY InitLib, LibNext, PTL DEF Spec

\* The digits stay inside their buffer, and value and int inside their words,
\* although printf negates and atoi multiplies them.
THEOREM TypeCorrect == Spec => []TypeOK
<1>1. LibInv => TypeOK
  BY DEF LibInv, DataOK, TypeOK, Ints
<1> QED
  BY LibInvariant, <1>1, PTL

\* What a call has printed when it returns is what each piece of its format
\* stands for, in order and whole: for every word, every width of a word and
\* every buffer with room for the digits.
THEOREM CallsPrintWhatIsAsked == Spec => []PrintsWhatIsAsked
<1>1. LibInv => PrintsWhatIsAsked
  BY DEF LibInv, Printing, PrintsWhatIsAsked
<1> QED
  BY LibInvariant, <1>1, PTL

-----------------------------------------------------------------------------
\* Reading a number back: its size without the sign.
Magnitude(x) == IF x < 0 THEN -x ELSE x

\* What is left of D behind its first m digits.
IsRest(s, D, m) ==
    /\ s \in Seq(Char) /\ Len(s) = Len(D) - m
    /\ \A i \in 1 .. Len(s) : s[i] = D[m + i]

\* atoi reads the number that is the n-th piece, of which D is the numeral.
Reading(D, x, rest) ==
    /\ sign = (IF x < 0 THEN -1 ELSE 1)
    /\ \E V : ReadAs(V, D, Magnitude(x)) /\
       \E m \in 0 .. Len(D) : \E s :
          IsRest(s, D, m) /\ int = Signed(V[m]) /\ text = s \o rest

AtNumber(pieces, n) ==
    LET x == Signed(pieces[n].args[1])
    IN  /\ pc = "spaces" =>
              sign = 1 /\ int = 0 /\ \E k \in 0 .. n - 1 : text = ShownFrom(pieces)[k]
        /\ pc = "number" => Reading(Numeral(Magnitude(x), 10), x, ShownFrom(pieces)[n])
        /\ pc = "idle" => int = x

AtoiInv ==
    call.name = "atoi" =>
        \A n \in DOMAIN call.of : StartsWithNumber(call.of, n) => AtNumber(call.of, n)

LEMMA MagnitudeFacts ==
    ASSUME NEW word \in Words
    PROVE  /\ Signed(word) \in Int /\ Magnitude(Signed(word)) \in Words
           /\ \A v \in 0 .. Magnitude(Signed(word)) : \A d \in 0 .. 9 :
                 10 * v + d \in 0 .. Magnitude(Signed(word)) =>
                     Signed(Bits(Signed(v) * 10 + d)) = Signed(10 * v + d)
           /\ Signed(0) = 0
           /\ \A s \in {1, -1} : s = (IF Signed(word) < 0 THEN -1 ELSE 1) =>
                 Signed(Bits(Signed(Magnitude(Signed(word))) * s)) = Signed(word)
<1> DEFINE w == WORD
           h == WORD \div 2
           x == Signed(word)
           y == Magnitude(x)
<1>1. w \in Nat /\ h \in Nat /\ w > 0 /\ h > 0 /\ w = 2 * h /\ Words = 0 .. (w - 1)
  BY WordFacts
<1>2. \A v : Signed(v) = IF v < h THEN v ELSE v - w
  BY DEF Signed
<1>3. \A i : Bits(i) = i % w
  BY DEF Bits
<1> HIDE DEF w, h
<1>4. x \in -h .. (h - 1)
  BY <1>1, <1>2
<1> HIDE DEF x
<1>5. y \in 0 .. h /\ y \in Words /\ (y = h <=> x = -h) /\ (x < 0 => y = -x) /\ (~(x < 0) => y = x)
  BY <1>1, <1>4 DEF Magnitude
<1> HIDE DEF y
<1>6. ASSUME NEW v \in 0 .. y, NEW d \in 0 .. 9, 10 * v + d \in 0 .. y
      PROVE  Signed(Bits(Signed(v) * 10 + d)) = Signed(10 * v + d)
  <2> DEFINE u == 10 * v + d
  <2>1. v < h /\ v \in Int /\ u \in 0 .. (w - 1) /\ v * 10 + d = u
    BY <1>1, <1>5, <1>6
  <2>2. Signed(v) = v
    BY <1>2, <2>1
  <2> HIDE DEF u
  <2>3. u % w = u
    BY <1>1, <2>1, RemainderOfSmall
  <2>4. Bits(Signed(v) * 10 + d) = u
    BY <1>3, <2>1, <2>2, <2>3
  <2> QED
    BY <2>4 DEF u
<1>7. Signed(0) = 0
  BY <1>1, <1>2
<1>8. ASSUME NEW s \in {1, -1}, s = (IF x < 0 THEN -1 ELSE 1)
      PROVE  Signed(Bits(Signed(y) * s)) = x
  <2>1. CASE ~(x < 0)
    <3>1. y = x /\ x \in 0 .. (h - 1) /\ s = 1
      BY <1>4, <1>5, <1>8, <2>1
    <3>2. Signed(y) = x /\ Signed(y) * s = x /\ x \in 0 .. (w - 1)
      BY <1>1, <1>2, <3>1
    <3>3. x % w = x
      BY <1>1, <3>2, RemainderOfSmall
    <3> QED
      BY <1>2, <1>3, <3>1, <3>2, <3>3
  <2>2. CASE x < 0 /\ x # -h
    <3>1. y = -x /\ y \in 1 .. (h - 1) /\ s = -1
      BY <1>1, <1>4, <1>5, <1>8, <2>2
    <3>2. Signed(y) = -x /\ Signed(y) * s = x /\ x \in (-w) .. (-1)
      BY <1>1, <1>2, <1>4, <2>2, <3>1
    <3>3. x % w = x + w
      BY <1>1, <3>2, RemainderOfNegative
    <3>4. Signed(x + w) = x
      BY <1>1, <1>2, <1>4, <2>2
    <3> QED
      BY <1>3, <3>2, <3>3, <3>4
  <2>3. CASE x = -h
    <3>1. y = h /\ s = -1
      BY <1>1, <1>5, <1>8, <2>3
    <3>2. Signed(y) = -h /\ Signed(y) * s = h /\ h \in 0 .. (w - 1)
      BY <1>1, <1>2, <3>1
    <3>3. h % w = h
      BY <1>1, <3>2, RemainderOfSmall
    <3>4. Signed(h) = -h
      BY <1>1, <1>2
    <3> QED
      BY <1>3, <2>3, <3>2, <3>3, <3>4
  <2> QED
    BY <1>1, <1>4, <2>1, <2>2, <2>3
<1> QED
  BY <1>4, <1>5, <1>6, <1>7, <1>8 DEF x, y

\* The pieces up to the number, and what follows it.
LEMMA NumberPiece ==
    ASSUME NEW pieces \in Formats, NEW n \in DOMAIN pieces, StartsWithNumber(pieces, n)
    PROVE  /\ n \in Nat /\ n - 1 \in Nat /\ pieces[n].args[1] \in Words
           /\ \A k \in 0 .. n : ShownFrom(pieces)[k] \in Seq(Char)
           /\ \A k \in 0 .. n - 1 : k # n - 1 =>
                 /\ k + 1 \in 0 .. n - 1 /\ " " \in Char
                 /\ ShownFrom(pieces)[k] = <<" ">> \o ShownFrom(pieces)[k + 1]
           /\ ShownFrom(pieces)[n - 1] =
                 SignedNumeral(Signed(pieces[n].args[1])) \o ShownFrom(pieces)[n]
           /\ ShownFrom(pieces)[n] # << >> => ~isdigit(Head(ShownFrom(pieces)[n]))
<1> DEFINE l == Len(pieces)
           R == ShownFrom(pieces)
<1>1. /\ l \in Nat /\ DOMAIN pieces = 1 .. l
      /\ \A k \in 1 .. l :
            /\ pieces[k] = Piece(pieces[k].chars, pieces[k].args) /\ IsPiece(pieces[k])
            /\ R[k - 1] = Rendered(pieces[k]) \o R[k]
      /\ \A k \in 0 .. l : R[k] \in Seq(Char) /\ Shown(SubSeq(pieces, k + 1, l)) = R[k]
  BY FormatFacts
<1>2. /\ pieces[n].chars \in {<<"%", "d">>, <<"%", "i">>}
      /\ \A k \in 1 .. n - 1 : pieces[k].chars = <<" ">>
      /\ Shown(SubSeq(pieces, n + 1, l)) # << >> => ~isdigit(Head(Shown(SubSeq(pieces, n + 1, l))))
  BY DEF StartsWithNumber
<1> HIDE DEF l, R
<1>3. n \in 1 .. l /\ n \in 0 .. l /\ n \in Nat /\ n - 1 \in Nat
  BY <1>1
<1>4. \A e, f : <<"%", e>> = <<"%", f>> <=> e = f
  OBVIOUS
<1>5. pieces[n].args[1] \in Words
      /\ Rendered(pieces[n]) = SignedNumeral(Signed(pieces[n].args[1]))
  <2> DEFINE piece == pieces[n]
  <2>1. /\ piece = Piece(piece.chars, piece.args) /\ IsPiece(piece)
        /\ \E e \in {"d", "i"} : piece.chars = <<"%", e>>
    BY <1>1, <1>2, <1>3
  <2> HIDE DEF piece
  <2>2. PICK e \in {"d", "i"} : piece.chars = <<"%", e>>
    BY <2>1
  <2>3. ~IsPlain(piece)
    <3>1. piece.chars[1] = "%" /\ Len(piece.chars) = 2
      BY <2>2
    <3> QED
      BY <3>1 DEF IsPlain
  <2>4. \A c, arguments : Converts(piece, c, arguments) => c = e
    BY <1>4, <2>2 DEF Converts
  <2>5. \E word \in Words : piece.args = <<word>> /\ Rendered(piece) = SignedNumeral(Signed(word))
    BY <2>1, <2>3, <2>4, PieceKinds DEF Converts
  <2>6. PICK word \in Words : piece.args = <<word>> /\ Rendered(piece) = SignedNumeral(Signed(word))
    BY <2>5
  <2>7. piece.args[1] = word
    BY <2>6
  <2> QED
    BY <2>6, <2>7 DEF piece
<1>6. ASSUME NEW k \in 1 .. n - 1 PROVE Rendered(pieces[k]) = <<" ">> /\ " " \in Char
  <2> DEFINE piece == pieces[k]
  <2>a. k \in 1 .. l
    BY <1>1, <1>3
  <2>b. piece.chars = <<" ">>
    BY <1>2
  <2>1. /\ piece = Piece(piece.chars, piece.args) /\ IsPiece(piece) /\ piece.chars = <<" ">>
    BY <1>1, <2>a, <2>b
  <2> HIDE DEF piece
  <2>2. Len(piece.chars) = 1
    <3>1. Len(<<" ">>) = 1
      OBVIOUS
    <3> QED
      BY <2>b, <3>1
  <2>3. \A c, arguments : ~Converts(piece, c, arguments)
    <3>1. \A c : Len(<<"%", c>>) = 2
      OBVIOUS
    <3> QED
      BY <2>2, <3>1 DEF Converts
  <2>4. IsPlain(piece)
    BY <2>1, <2>3, PieceKinds
  <2>5. " " \in Char
    <3>1. piece.chars \in Seq(Char) /\ 1 \in 1 .. Len(piece.chars)
      BY <2>2, <2>4 DEF IsPlain
    <3>2. piece.chars[1] = " "
      <4>1. <<" ">>[1] = " "
        OBVIOUS
      <4> QED
        BY <2>b, <4>1
    <3> QED
      BY <3>1, <3>2, ElementOfSeq
  <2> QED
    BY <2>1, <2>4, <2>5 DEF IsPlain, piece
<1>7. \A k \in 0 .. n : R[k] \in Seq(Char)
  BY <1>1, <1>3
<1>8. ASSUME NEW k \in 0 .. n - 1, k # n - 1
      PROVE  k + 1 \in 0 .. n - 1 /\ " " \in Char /\ R[k] = <<" ">> \o R[k + 1]
  <2> DEFINE j == k + 1
  <2>1. j \in 1 .. n - 1 /\ j \in 1 .. l /\ j - 1 = k /\ j \in 0 .. n - 1
    BY <1>1, <1>3, <1>8
  <2> HIDE DEF j
  <2>2. R[k] = Rendered(pieces[j]) \o R[j] /\ Rendered(pieces[j]) = <<" ">> /\ " " \in Char
    BY <1>1, <1>6, <2>1
  <2> QED
    BY <2>1, <2>2 DEF j
<1>9. R[n - 1] = SignedNumeral(Signed(pieces[n].args[1])) \o R[n]
  BY <1>1, <1>3, <1>5
<1>10. R[n] # << >> => ~isdigit(Head(R[n]))
  BY <1>1, <1>2, <1>3
<1> QED
  BY <1>3, <1>5, <1>7, <1>8, <1>9, <1>10 DEF R

LEMMA FirstOfNumeral ==
    ASSUME NEW word \in Words
    PROVE  /\ Numeral(word, 10) \in Seq(Char) /\ Len(Numeral(word, 10)) > 0
           /\ \A V, n : ReadAs(V, Numeral(word, 10), n) =>
                 Numeral(word, 10)[1] # "-" /\ ~isspace(Numeral(word, 10)[1])
<1> DEFINE D == Numeral(word, 10)
<1>1. D \in Seq(Char) /\ D # << >>
  BY NumeralType
<1> HIDE DEF D
<1>2. Len(D) > 0 /\ 1 \in 1 .. Len(D)
  BY <1>1
<1>3. ASSUME NEW V, NEW n, ReadAs(V, D, n) PROVE D[1] # "-" /\ ~isspace(D[1])
  <2>1. \E d \in 0 .. 9 : D[1] = DigitChar(d)
    BY <1>2, <1>3 DEF ReadAs
  <2> QED
    BY <2>1, DigitFacts
<1> QED
  BY <1>1, <1>2, <1>3 DEF D

\* In front of the number are only spaces.
LEMMA InFront ==
    ASSUME NEW pieces \in Formats, NEW n \in DOMAIN pieces, StartsWithNumber(pieces, n),
           pc = "spaces", AtNumber(pieces, n)
    PROVE  \/ /\ text # << >> /\ isspace(Head(text))
              /\ \E k \in 0 .. n - 1 : Tail(text) = ShownFrom(pieces)[k]
           \/ /\ text = SignedNumeral(Signed(pieces[n].args[1])) \o ShownFrom(pieces)[n]
              /\ text # << >> /\ ~isspace(Head(text))
              /\ Head(text) = "-" <=> Signed(pieces[n].args[1]) < 0
<1> DEFINE R == ShownFrom(pieces)
           word == pieces[n].args[1]
           x == Signed(word)
<1>1. PICK k \in 0 .. n - 1 : text = R[k]
  BY DEF AtNumber
<1>2. /\ n \in Nat /\ n - 1 \in Nat /\ word \in Words
      /\ \A j \in 0 .. n : R[j] \in Seq(Char)
      /\ \A j \in 0 .. n - 1 :
            j # n - 1 => j + 1 \in 0 .. n - 1 /\ " " \in Char /\ R[j] = <<" ">> \o R[j + 1]
      /\ R[n - 1] = SignedNumeral(x) \o R[n]
  BY NumberPiece
<1>a. n \in Nat
  BY <1>2
<1>b. n \in 0 .. n /\ \A j \in 0 .. n - 1 : j \in 0 .. n
  BY <1>a
<1> HIDE DEF R
<1>3. CASE k # n - 1
  <2>1. k + 1 \in 0 .. n - 1 /\ " " \in Char /\ R[k] = <<" ">> \o R[k + 1]
    BY <1>2, <1>3
  <2>a. k + 1 \in 0 .. n
    BY <1>b, <2>1
  <2>b. R[k + 1] \in Seq(Char)
    BY <1>2, <2>a
  <2> DEFINE t == R[k + 1]
             h == <<" ">>
  <2>2. t \in Seq(Char) /\ text = h \o t
    BY <1>1, <2>1, <2>b
  <2> HIDE DEF t
  <2>3. text # << >> /\ Head(text) = " " /\ Tail(text) = t
    <3>1. ASSUME NEW c \in Char, NEW u \in Seq(Char)
          PROVE  <<c>> \o u # << >> /\ Head(<<c>> \o u) = c /\ Tail(<<c>> \o u) = u
      OBVIOUS
    <3> QED
      BY <2>1, <2>2, <3>1
  <2> QED
    BY <2>1, <2>3 DEF isspace, t, R
<1>4. CASE k = n - 1
  <2> DEFINE t == R[n]
             D == Numeral(Magnitude(x), 10)
  <2>1. text = SignedNumeral(x) \o t /\ t \in Seq(Char)
    <3> HIDE DEF x
    <3> QED
      BY <1>1, <1>2, <1>4, <1>b
  <2>2. Magnitude(x) \in Words /\ x \in Int
    BY <1>2, MagnitudeFacts
  <2>3. \E V : ReadAs(V, D, Magnitude(x))
    BY <2>2, NumeralValue
  <2>4. D \in Seq(Char) /\ Len(D) > 0 /\ D[1] # "-" /\ ~isspace(D[1])
    <3> HIDE DEF x
    <3> QED
      BY <2>2, <2>3, FirstOfNumeral
  <2>5. SignedNumeral(x) = IF x < 0 THEN <<"-">> \o D ELSE D
    BY DEF SignedNumeral, Magnitude
  <2> HIDE DEF t, D, x
  <2>6. CASE x < 0
    <3>1. <<"-">> \o D \in Seq(Char) /\ Len(<<"-">> \o D) > 0 /\ (<<"-">> \o D)[1] = "-"
      <4>1. "-" \in Char /\ <<"-">> \in Seq(Char) /\ Len(<<"-">>) = 1 /\ <<"-">>[1] = "-"
        BY LibCAssumption, OneElement
      <4> QED
        BY <2>4, <4>1, ConcatProperties
    <3> DEFINE s == <<"-">> \o D
    <3>2. s \in Seq(Char) /\ Len(s) > 0 /\ s[1] = "-" /\ text = s \o t
      BY <2>1, <2>5, <2>6, <3>1
    <3> HIDE DEF s
    <3>3. text # << >> /\ Head(text) = "-"
      BY <2>1, <3>2
    <3>4. ~isspace("-")
      BY DEF isspace
    <3> QED
      BY <2>1, <2>6, <3>3, <3>4 DEF t, x, R
  <2>7. CASE ~(x < 0)
    <3>1. text = D \o t
      BY <2>1, <2>5, <2>7
    <3>2. text # << >> /\ Head(text) = D[1]
      BY <2>1, <2>4, <3>1
    <3> QED
      BY <2>1, <2>4, <2>7, <3>2 DEF t, x, R
  <2> QED
    BY <2>6, <2>7
<1> QED
  BY <1>3, <1>4

LEMMA SkipSpaceRead ==
    ASSUME NEW pieces \in Formats, NEW n \in DOMAIN pieces, StartsWithNumber(pieces, n),
           AtNumber(pieces, n), SkipSpace
    PROVE  AtNumber(pieces, n)'
<1>1. pc = "spaces" /\ isspace(Head(text)) /\ text' = Tail(text) /\ UNCHANGED <<pc, sign, int>>
  BY DEF SkipSpace
<1>2. \E k \in 0 .. n - 1 : Tail(text) = ShownFrom(pieces)[k]
  BY <1>1, InFront
<1>3. sign = 1 /\ int = 0
  BY <1>1 DEF AtNumber
<1> QED
  BY <1>1, <1>2, <1>3 DEF AtNumber

LEMMA ReadSignRead ==
    ASSUME NEW pieces \in Formats, NEW n \in DOMAIN pieces, StartsWithNumber(pieces, n),
           AtNumber(pieces, n), ReadSign
    PROVE  AtNumber(pieces, n)'
<1> DEFINE rest == ShownFrom(pieces)[n]
           word == pieces[n].args[1]
           x == Signed(word)
           D == Numeral(Magnitude(x), 10)
<1>1. /\ pc = "spaces" /\ (text # << >> => ~isspace(Head(text))) /\ pc' = "number" /\ int' = int
      /\ IF text # << >> /\ Head(text) = "-" THEN sign' = -1 /\ text' = Tail(text)
                                             ELSE UNCHANGED <<sign, text>>
      /\ sign = 1 /\ int = 0
  BY DEF ReadSign, AtNumber
<1>2. text = SignedNumeral(x) \o rest /\ text # << >> /\ (Head(text) = "-" <=> x < 0)
  BY <1>1, InFront
<1>3. word \in Words /\ rest \in Seq(Char)
  <2>1. n \in Nat /\ word \in Words /\ \A j \in 0 .. n : ShownFrom(pieces)[j] \in Seq(Char)
    BY NumberPiece
  <2>2. n \in 0 .. n
    BY <2>1
  <2> QED
    BY <2>1, <2>2
<1>4. Magnitude(x) \in Words /\ x \in Int /\ Signed(0) = 0
  BY <1>3, MagnitudeFacts
<1>5. D \in Seq(Char)
  BY <1>4, NumeralType
<1>6. PICK V : ReadAs(V, D, Magnitude(x))
  BY <1>4, NumeralValue
<1>7. SignedNumeral(x) = IF x < 0 THEN <<"-">> \o D ELSE D
  BY DEF SignedNumeral, Magnitude
<1> HIDE DEF rest, word, D, x
<1>8. text' = D \o rest /\ sign' = (IF x < 0 THEN -1 ELSE 1)
  <2>1. CASE x < 0
    <3> DEFINE h == <<"-">>
    <3>1. h \in Seq(Char) /\ \A t \in Seq(Char) : Tail(h \o t) = t
      <4>1. "-" \in Char
        BY LibCAssumption
      <4> QED
        BY <4>1, OneElement
    <3> HIDE DEF h
    <3>2. \A z \in Seq(Char) : (h \o D) \o z = h \o (D \o z)
      BY <1>5, <3>1, TextConcat, SMTT(30)
    <3>3. text = h \o (D \o rest) /\ D \o rest \in Seq(Char)
      BY <1>2, <1>3, <1>5, <1>7, <2>1, <3>2, TextConcat DEF h
    <3> QED
      BY <1>1, <1>2, <2>1, <3>1, <3>3
  <2>2. CASE ~(x < 0)
    BY <1>1, <1>2, <1>7, <2>2
  <2> QED
    BY <2>1, <2>2
<1>9. IsRest(D, D, 0)
  BY <1>5 DEF IsRest
<1>10. 0 \in 0 .. Len(D) /\ V[0] = 0
  BY <1>5, <1>6 DEF ReadAs
<1>11. int' = Signed(V[0])
  BY <1>1, <1>4, <1>10
<1>12. \E m \in 0 .. Len(D) : \E s : IsRest(s, D, m) /\ int' = Signed(V[m]) /\ text' = s \o rest
  BY <1>8, <1>9, <1>10, <1>11
<1>13. Reading(D, x, rest)'
  BY <1>6, <1>8, <1>12 DEF Reading
<1> QED
  BY <1>1, <1>13 DEF AtNumber, rest, x, D, word

LEMMA ReadDigitRead ==
    ASSUME NEW pieces \in Formats, NEW n \in DOMAIN pieces, StartsWithNumber(pieces, n),
           AtNumber(pieces, n), ReadDigit \/ NumberEnd
    PROVE  AtNumber(pieces, n)'
<1> DEFINE rest == ShownFrom(pieces)[n]
           word == pieces[n].args[1]
           x == Signed(word)
           y == Magnitude(x)
           D == Numeral(y, 10)
<1>1. pc = "number"
  BY DEF ReadDigit, NumberEnd
<1>2. Reading(D, x, rest)
  BY <1>1 DEF AtNumber
<1>3. word \in Words /\ rest \in Seq(Char) /\ (rest # << >> => ~isdigit(Head(rest)))
  <2>1. /\ n \in Nat /\ word \in Words /\ \A j \in 0 .. n : ShownFrom(pieces)[j] \in Seq(Char)
        /\ (rest # << >> => ~isdigit(Head(rest)))
    BY NumberPiece
  <2>2. n \in 0 .. n
    BY <2>1
  <2> QED
    BY <2>1, <2>2
<1>4. /\ x \in Int /\ y \in Words
      /\ \A v \in 0 .. y : \A d \in 0 .. 9 :
            10 * v + d \in 0 .. y => Signed(Bits(Signed(v) * 10 + d)) = Signed(10 * v + d)
      /\ \A s \in {1, -1} : s = (IF x < 0 THEN -1 ELSE 1) => Signed(Bits(Signed(y) * s)) = x
  BY <1>3, MagnitudeFacts
<1>5. D \in Seq(Char)
  BY <1>4, NumeralType
<1> HIDE DEF rest, word, D, x, y
<1>6. PICK V : /\ ReadAs(V, D, y)
               /\ \E m \in 0 .. Len(D) : \E s :
                     IsRest(s, D, m) /\ int = Signed(V[m]) /\ text = s \o rest
  BY <1>2 DEF Reading, y
<1>7. PICK m \in 0 .. Len(D) : \E s : IsRest(s, D, m) /\ int = Signed(V[m]) /\ text = s \o rest
  BY <1>6
<1>8. PICK s : IsRest(s, D, m) /\ int = Signed(V[m]) /\ text = s \o rest
  BY <1>7
<1>9. sign = (IF x < 0 THEN -1 ELSE 1)
  BY <1>2 DEF Reading
<1>10. /\ s \in Seq(Char) /\ Len(s) = Len(D) - m /\ \A i \in 1 .. Len(s) : s[i] = D[m + i]
       /\ V[m] \in 0 .. y /\ V[Len(D)] = y /\ m \in Nat /\ Len(D) \in Nat
  BY <1>5, <1>6, <1>8 DEF IsRest, ReadAs
\* Behind the digits of the number no digit follows.
<1>11. CASE m = Len(D)
  <2>1. s = << >> /\ text = rest /\ int = Signed(y)
    <3>1. s = << >>
      BY <1>10, <1>11
    <3> QED
      BY <1>3, <1>8, <1>10, <1>11, <3>1, TextConcat
  <2>2. ~AtDigit
    BY <1>3, <2>1 DEF AtDigit
  <2>3. int' = Signed(Bits(int * sign)) /\ pc' = "idle"
    BY <2>2 DEF ReadDigit, NumberEnd
  <2>4. sign \in {1, -1}
    BY <1>9
  <2>5. Signed(Bits(Signed(y) * sign)) = x
    BY <1>4, <1>9, <2>4
  <2> QED
    BY <2>1, <2>3, <2>5 DEF AtNumber, x, word
<1>12. CASE m # Len(D)
  <2> DEFINE j == m + 1
  <2>1. j \in 1 .. Len(D) /\ j \in 0 .. Len(D) /\ j - 1 = m /\ Len(s) > 0 /\ s[1] = D[j]
    BY <1>10, <1>12
  <2> HIDE DEF j
  <2>2. PICK d \in 0 .. 9 : D[j] = DigitChar(d) /\ V[j] = 10 * V[m] + d
    <3>1. \E d \in 0 .. 9 : D[j] = DigitChar(d) /\ V[j] = 10 * V[j - 1] + d
      BY <1>6, <2>1 DEF ReadAs
    <3> QED
      BY <2>1, <3>1
  <2>3. V[j] \in 0 .. y
    BY <1>6, <2>1 DEF ReadAs
  <2> DEFINE t == Tail(s)
  <2>4. t \in Seq(Char) /\ Len(t) = Len(s) - 1 /\ s = <<s[1]>> \o t /\ \A i \in 1 .. Len(t) : t[i] = s[i + 1]
    BY <1>10, <2>1
  <2>5. text # << >> /\ Head(text) = DigitChar(d) /\ Tail(text) = t \o rest
    <3> DEFINE c == s[1]
    <3>1. c = DigitChar(d) /\ c \in Char /\ s = <<c>> \o t
      BY <1>10, <2>1, <2>2, <2>4
    <3> HIDE DEF c, t
    <3> DEFINE h == <<c>>
    <3>2. h \in Seq(Char)
      BY <3>1, OneElement
    <3>3. \A u \in Seq(Char) : h \o u # << >> /\ Head(h \o u) = c /\ Tail(h \o u) = u
      BY <3>1
    <3> HIDE DEF h
    <3>4. \A z \in Seq(Char) : (h \o t) \o z = h \o (t \o z)
      BY <2>4, <3>2, TextConcat
    <3>5. text = h \o (t \o rest) /\ t \o rest \in Seq(Char)
      BY <1>3, <1>8, <2>4, <3>1, <3>4, TextConcat DEF h
    <3> QED
      BY <3>1, <3>3, <3>5
  <2>6. AtDigit /\ Decimal(Head(text)) = d
    BY <2>5, DigitFacts DEF AtDigit
  <2>7. /\ int' = Signed(Bits(Signed(V[m]) * 10 + d)) /\ text' = t \o rest
        /\ UNCHANGED <<pc, sign>>
    BY <1>8, <2>5, <2>6 DEF ReadDigit, NumberEnd
  <2>8. int' = Signed(V[j])
    BY <1>4, <1>10, <2>2, <2>3, <2>7
  <2>9. IsRest(t, D, j)
    <3>1. Len(t) = Len(D) - j
      BY <1>10, <2>1, <2>4
    <3>2. ASSUME NEW i \in 1 .. Len(t) PROVE t[i] = D[j + i]
      <4>1. i + 1 \in 1 .. Len(s) /\ m + (i + 1) = j + i
        BY <1>10, <2>1, <2>4
      <4> QED
        BY <1>10, <2>4, <4>1
    <3> QED
      BY <2>4, <3>1, <3>2 DEF IsRest
  <2> HIDE DEF t
  <2>10. \E k \in 0 .. Len(D) : \E u : IsRest(u, D, k) /\ int' = Signed(V[k]) /\ text' = u \o rest
    BY <2>1, <2>7, <2>8, <2>9
  <2>11. Reading(D, x, rest)'
    BY <1>6, <1>9, <2>7, <2>10 DEF Reading, y
  <2> QED
    BY <1>1, <2>7, <2>11 DEF AtNumber, rest, x, D, y, word
<1> QED
  BY <1>11, <1>12

LEMMA AtoiNext == LibInv /\ AtoiInv /\ [Next]_vars => AtoiInv'
<1> SUFFICES ASSUME LibInv, AtoiInv, [Next]_vars, call'.name = "atoi",
                    NEW n \in DOMAIN call'.of, StartsWithNumber(call'.of, n)
             PROVE  AtNumber(call.of, n)'
  BY DEF AtoiInv
<1> DEFINE pieces == call.of
<1>1. \A k \in DOMAIN << >> : FALSE
  OBVIOUS
<1>2. ASSUME call' = call
      PROVE  /\ pieces \in Formats /\ n \in DOMAIN pieces /\ StartsWithNumber(pieces, n)
             /\ AtNumber(pieces, n) /\ call.name = "atoi"
  BY <1>1, <1>2 DEF AtoiInv, LibInv, CallOK
<1>3. CASE \E pieces_1 \in Formats : printf(pieces_1)
  BY <1>3 DEF printf, Prints
<1>4. CASE \E word \in Words : print_uint(word)
  BY <1>4 DEF print_uint, Prints
<1>5. CASE (\E t \in Texts : puts(t)) \/ (\E c \in Char : putchar(c))
  BY <1>5 DEF puts, putchar, Prints
<1>6. ASSUME NEW t, atoi(t) PROVE AtNumber(call.of, n)'
  <2>1. /\ pc = "idle" /\ pc' = "spaces" /\ text' = t /\ sign' = 1 /\ int' = 0
        /\ call'.of = IF t = out /\ call.name = "printf" THEN call.what ELSE << >>
    BY <1>6 DEF atoi
  <2>2. t = out /\ call'.of = call.what /\ call.name = "printf" /\ call.what \in Formats
    BY <1>1, <2>1 DEF LibInv, CallOK
  <2>3. out = Shown(call.what)
    BY <2>1, <2>2 DEF LibInv, Printing, Asked
  <2>4. /\ Shown(call.what) = ShownFrom(call.what)[0] /\ n \in 1 .. Len(call.what)
        /\ Len(call.what) \in Nat
    BY <2>2, FormatFacts
  <2>5. 0 \in 0 .. n - 1 /\ text' = ShownFrom(call'.of)[0]
    BY <2>1, <2>2, <2>3, <2>4
  <2> QED
    BY <2>1, <2>5 DEF AtNumber
<1>7. CASE Plain \/ Conversion \/ FormatEnd \/ Divide \/ EmitDigits
  <2>1. call' = call /\ pc \in {"format", "digits"}
    BY <1>7 DEF Plain, Conversion, FormatEnd, Divide, EmitDigits
  <2>2. call.name # "atoi"
    BY <2>1 DEF LibInv, Printing, Dividing, Halfway
  <2> QED
    BY <2>1, <2>2
<1>8. CASE SkipSpace
  <2>1. call' = call
    BY <1>8 DEF SkipSpace
  <2>2. AtNumber(pieces, n)'
    BY <1>2, <1>8, <2>1, SkipSpaceRead
  <2> QED
    BY <2>1, <2>2
<1>9. CASE ReadSign
  <2>1. call' = call
    BY <1>9 DEF ReadSign
  <2> QED
    BY <1>2, <1>9, <2>1, ReadSignRead
<1>10. CASE ReadDigit \/ NumberEnd
  <2>1. call' = call
    BY <1>10 DEF ReadDigit, NumberEnd
  <2> QED
    BY <1>2, <1>10, <2>1, ReadDigitRead
<1>11. CASE UNCHANGED vars
  <2>1. call' = call /\ AtNumber(pieces, n)
    BY <1>2, <1>11 DEF vars
  <2> QED
    BY <1>11, <2>1 DEF AtNumber, Reading, vars
<1> QED
  BY <1>3, <1>4, <1>5, <1>6, <1>7, <1>8, <1>9, <1>10, <1>11 DEF Next, Callers, Work

\* Every integer printf has printed comes back from atoi, whatever stands
\* behind it, the most negative one included.
THEOREM AtoiInvertsPrintf == Spec => []AtoiReadsPrintf
<1>1. Init => AtoiInv
  BY DEF Init, AtoiInv
<1>2. LibInv /\ AtoiInv => AtoiReadsPrintf
  BY DEF AtoiInv, AtNumber, AtoiReadsPrintf
<1>3. Spec => []AtoiInv
  <2>1. LibInv /\ AtoiInv /\ [Next]_vars => AtoiInv'
    BY AtoiNext
  <2> QED
    BY <1>1, <2>1, LibInvariant, PTL DEF Spec
<1> QED
  BY <1>2, <1>3, LibInvariant, PTL
=============================================================================
