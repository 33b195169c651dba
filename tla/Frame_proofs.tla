------------------------------ MODULE Frame_proofs ------------------------------
(***************************************************************************)
(* What the operators of Frame compute, for every payload: a number        *)
(* written into a field is read back, and CRC16.calculate, the loop over   *)
(* bytes and bits, is the division by x^16 + x^15 + x^2 + 1.               *)
(*                                                                         *)
(* The library's induction theorems take an operator as a parameter, which *)
(* the provers cannot instantiate.  Induction is done here with sets: a    *)
(* set of numbers that is not empty has a least member (LeastMember), so a *)
(* set that holds 0 and is closed under + 1 holds every number (Induct).   *)
(***************************************************************************)
EXTENDS Frame, FiniteSetTheorems, WellFoundedInduction, TLAPS

-----------------------------------------------------------------------------
LEMMA LeastMember ==
  ASSUME NEW S \in SUBSET Nat, S # {}
  PROVE  \E m \in S : \A k \in S : m <= k
<1> DEFINE R == OpToRel(<, Nat)
<1>1. IsWellFoundedOn(R, Nat)
  BY NatLessThanWellFounded, Zenon
<1>2. \A x, y \in Nat : x < y => <<x, y>> \in R
  BY DEF OpToRel
<1> HIDE DEF R
<1>3. PICK m \in S : \A k \in S : ~(<<k, m>> \in R)
  BY <1>1, WFMin
<1>4. ASSUME NEW k \in S PROVE m <= k
  <2>1. ~(k < m)
    BY <1>2, <1>3, Zenon
  <2> QED BY <2>1
<1> QED BY <1>4

LEMMA Induct ==
  ASSUME NEW S, 0 \in S, \A n \in Nat : n \in S => n + 1 \in S
  PROVE  Nat \subseteq S
<1> DEFINE T == Nat \ S
<1> SUFFICES ASSUME T # {} PROVE FALSE
  OBVIOUS
<1>1. PICK m \in T : \A k \in T : m <= k
  BY LeastMember
<1>2. m - 1 \in Nat /\ m - 1 \notin T
  BY <1>1
<1> QED BY <1>1, <1>2

\* Induction up to a bound.
LEMMA InductUpTo ==
  ASSUME NEW N \in Nat, NEW S, 0 \in S, \A n \in 0 .. N - 1 : n \in S => n + 1 \in S
  PROVE  0 .. N \subseteq S
<1> DEFINE T == S \cup {n \in Nat : n > N}
<1>1. 0 \in T
  OBVIOUS
<1>2. ASSUME NEW n \in Nat, n \in T PROVE n + 1 \in T
  BY <1>2
<1>3. T \cap (0 .. N) \subseteq S
  OBVIOUS
<1> HIDE DEF T
<1>4. Nat \subseteq T
  BY <1>1, <1>2, Induct
<1> QED BY <1>3, <1>4

\* h is the function on 0 .. N with the value x at 0 and the step g.
IsRun(h, S, x, g, N) ==
  /\ h \in [0 .. N -> S]
  /\ h[0] = x
  /\ \A i \in 1 .. N : h[i] = g[i][h[i - 1]]

LEMMA RunExists ==
  ASSUME NEW S, NEW x \in S, NEW g \in [Nat -> [S -> S]], NEW N \in Nat
  PROVE  \E h : IsRun(h, S, x, g, N)
<1> DEFINE Reached == {n \in Nat : \E h : IsRun(h, S, x, g, n)}
<1>1. 0 \in Reached
  <2>1. IsRun([i \in 0 .. 0 |-> x], S, x, g, 0)
    BY DEF IsRun
  <2> QED BY <2>1
<1>2. ASSUME NEW n \in Nat, n \in Reached PROVE n + 1 \in Reached
  <2>1. PICK h : IsRun(h, S, x, g, n)
    BY <1>2
  <2>2. h \in [0 .. n -> S] /\ h[0] = x /\ \A i \in 1 .. n : h[i] = g[i][h[i - 1]]
    BY <2>1 DEF IsRun
  <2> DEFINE k == [i \in 0 .. n + 1 |-> IF i <= n THEN h[i] ELSE g[n + 1][h[n]]]
  <2>3. k \in [0 .. n + 1 -> S]
    <3>1. g[n + 1][h[n]] \in S
      BY <2>2
    <3> QED BY <2>2, <3>1
  <2>4. k[0] = x
    BY <2>2
  <2>5. ASSUME NEW i \in 1 .. n + 1 PROVE k[i] = g[i][k[i - 1]]
    <3>1. CASE i <= n
      BY <2>2, <3>1
    <3>2. CASE i = n + 1
      <4>1. k[n] = h[n] /\ k[n + 1] = g[n + 1][h[n]] /\ n + 1 - 1 = n
        OBVIOUS
      <4> HIDE DEF k
      <4> QED BY <3>2, <4>1
    <3> QED BY <3>1, <3>2
  <2> HIDE DEF k
  <2>6. IsRun(k, S, x, g, n + 1)
    BY <2>3, <2>4, <2>5 DEF IsRun
  <2> QED BY <2>6
<1>3. N \in Reached
  <2> HIDE DEF Reached
  <2> QED BY <1>1, <1>2, Induct
<1> QED BY <1>3

\* What holds at 0 and is kept by every step is the range.
LEMMA RunTyped ==
  ASSUME NEW S, NEW N \in Nat, NEW f, f = [i \in 0 .. N |-> f[i]],
         f[0] \in S, \A i \in 0 .. N - 1 : f[i] \in S => f[i + 1] \in S
  PROVE  f \in [0 .. N -> S]
<1> DEFINE Typed == {i \in 0 .. N : f[i] \in S}
<1>1. 0 \in Typed
  OBVIOUS
<1>2. ASSUME NEW i \in 0 .. N - 1, i \in Typed PROVE i + 1 \in Typed
  BY <1>2
<1>3. 0 .. N \subseteq Typed
  <2> HIDE DEF Typed
  <2> QED BY <1>1, <1>2, InductUpTo
<1> QED BY <1>3

-----------------------------------------------------------------------------
\* The recursive functions of Frame satisfy their defining equations.

LEMMA ValueFromTopRuns ==
  ASSUME NEW bits \in SUBSET Int, NEW first \in Nat, NEW width \in Nat
  PROVE  LET value == ValueFromTop(bits, first, width)
         IN  /\ value \in [0 .. width -> Nat]
             /\ value[0] = 0
             /\ \A i \in 1 .. width :
                  value[i] = 2 * value[i - 1] + BitAt(bits, first + width - i)
<1> DEFINE P(f) == f = [i \in 0 .. width |->
                          IF i = 0 THEN 0
                          ELSE 2 * f[i - 1] + BitAt(bits, first + width - i)]
           g == [i \in Nat |-> [v \in Nat |-> 2 * v + BitAt(bits, first + width - i)]]
           value == ValueFromTop(bits, first, width)
<1>1. g \in [Nat -> [Nat -> Nat]] /\ 0 \in Nat
  BY DEF BitAt
<1>2. \A i, v \in Nat : g[i][v] = 2 * v + BitAt(bits, first + width - i)
  OBVIOUS
<1> HIDE DEF g
<1>3. PICK h : IsRun(h, Nat, 0, g, width)
  BY <1>1, RunExists
<1>4. P(h)
  <2>1. h \in [0 .. width -> Nat] /\ h[0] = 0 /\ \A i \in 1 .. width : h[i] = g[i][h[i - 1]]
    BY <1>3 DEF IsRun
  <2>2. \A i \in 1 .. width : i \in Nat /\ h[i - 1] \in Nat
    BY <2>1
  <2>3. \A i \in 1 .. width : h[i] = 2 * h[i - 1] + BitAt(bits, first + width - i)
    BY <1>2, <2>1, <2>2
  <2> QED BY <2>1, <2>3
<1>5. value = CHOOSE f : P(f)
  BY Zenon DEF ValueFromTop
<1> HIDE DEF P, value
<1>6. P(value)
  BY <1>4, <1>5, Zenon
<1> USE DEF P
<1>7. value[0] = 0
  BY <1>6
<1>8. ASSUME NEW i \in 1 .. width
      PROVE  value[i] = 2 * value[i - 1] + BitAt(bits, first + width - i)
  BY <1>6
<1>9. value \in [0 .. width -> Nat]
  <2>1. \A i \in 0 .. width - 1 : value[i] \in Nat => value[i + 1] \in Nat
    BY <1>8 DEF BitAt
  <2>2. value = [i \in 0 .. width |-> value[i]]
    BY <1>6
  <2> HIDE DEF P
  <2>3. value[0] \in Nat
    BY <1>7
  <2> QED BY <2>1, <2>2, <2>3, RunTyped, Zenon
<1> QED BY <1>7, <1>8, <1>9 DEF value

LEMMA HalvedRuns ==
  ASSUME NEW n \in Nat, NEW width \in Nat
  PROVE  LET halved == Halved(n, width)
         IN  /\ halved \in [0 .. width -> Nat]
             /\ halved[0] = n
             /\ \A i \in 1 .. width : halved[i] = halved[i - 1] \div 2
<1> DEFINE P(f) == f = [i \in 0 .. width |-> IF i = 0 THEN n ELSE f[i - 1] \div 2]
           g == [i \in Nat |-> [v \in Nat |-> v \div 2]]
           halved == Halved(n, width)
<1>1. g \in [Nat -> [Nat -> Nat]]
  OBVIOUS
<1>2. \A i, v \in Nat : g[i][v] = v \div 2
  OBVIOUS
<1> HIDE DEF g
<1>3. PICK h : IsRun(h, Nat, n, g, width)
  BY <1>1, RunExists
<1>4. P(h)
  <2>1. h \in [0 .. width -> Nat] /\ h[0] = n /\ \A i \in 1 .. width : h[i] = g[i][h[i - 1]]
    BY <1>3 DEF IsRun
  <2>2. \A i \in 1 .. width : i \in Nat /\ h[i - 1] \in Nat
    BY <2>1
  <2>3. \A i \in 1 .. width : h[i] = h[i - 1] \div 2
    BY <1>2, <2>1, <2>2
  <2> QED BY <2>1, <2>3
<1>5. halved = CHOOSE f : P(f)
  BY Zenon DEF Halved
<1> HIDE DEF P, halved
<1>6. P(halved)
  BY <1>4, <1>5, Zenon
<1> USE DEF P
<1>7. halved[0] = n
  BY <1>6
<1>8. ASSUME NEW i \in 1 .. width PROVE halved[i] = halved[i - 1] \div 2
  BY <1>6
<1>9. halved \in [0 .. width -> Nat]
  <2>1. \A i \in 0 .. width - 1 : halved[i] \in Nat => halved[i + 1] \in Nat
    BY <1>8
  <2>2. halved = [i \in 0 .. width |-> halved[i]]
    BY <1>6
  <2> HIDE DEF P
  <2> QED BY <1>7, <2>1, <2>2, RunTyped
<1> QED BY <1>7, <1>8, <1>9 DEF halved

-----------------------------------------------------------------------------
\* A number that a field can hold is read back from it.

LEMMA FieldReadBack ==
  ASSUME NEW n \in Nat, NEW first \in Nat, NEW width \in Nat, Halved(n, width)[width] = 0,
         NEW bits \in SUBSET Int, bits \cap (first .. first + width - 1) = BitsOf(n, first, width)
  PROVE  Value(bits, first, width) = n
<1> DEFINE halved == Halved(n, width)
           value == ValueFromTop(bits, first, width)
           Same == {i \in 0 .. width : value[i] = halved[width - i]}
<1>1. /\ halved \in [0 .. width -> Nat]
      /\ halved[0] = n
      /\ \A i \in 1 .. width : halved[i] = halved[i - 1] \div 2
  BY HalvedRuns
<1>2. /\ value \in [0 .. width -> Nat]
      /\ value[0] = 0
      /\ \A i \in 1 .. width :
           value[i] = 2 * value[i - 1] + BitAt(bits, first + width - i)
  BY ValueFromTopRuns, Zenon
<1>3. \A i \in 1 .. width : first + width - i \in bits <=> halved[width - i] % 2 = 1
  BY DEF BitsOf
<1>4. halved[width] = 0 /\ Value(bits, first, width) = value[width]
  BY DEF Value
<1> HIDE DEF halved, value
<1>5. 0 \in Same
  BY <1>2, <1>4
<1>6. ASSUME NEW i \in 0 .. width - 1, i \in Same PROVE i + 1 \in Same
  <2>1. value[i + 1] = 2 * value[i] + BitAt(bits, first + width - (i + 1))
    BY <1>2
  <2>2. halved[width - i] = halved[width - (i + 1)] \div 2
    BY <1>1
  <2>3. halved[width - (i + 1)] \in Nat /\ value[i] = halved[width - i]
    BY <1>1, <1>6
  <2>4. first + width - (i + 1) \in bits <=> halved[width - (i + 1)] % 2 = 1
    BY <1>3
  <2>5. value[i + 1] = halved[width - (i + 1)]
    BY <2>1, <2>2, <2>3, <2>4 DEF BitAt
  <2> QED BY <2>5
<1>7. 0 .. width \subseteq Same
  <2> HIDE DEF Same
  <2> QED BY <1>5, <1>6, InductUpTo
<1>8. value[width] = halved[0]
  BY <1>7
<1> QED BY <1>1, <1>4, <1>8

-----------------------------------------------------------------------------
\* Words: membership in what the shifts make of them.

Word == SUBSET (0 .. 15)

\* The word read from the other end: bit k of a CRC register is the coefficient
\* of x^(15 - k).
Mirror(word) == {15 - k : k \in word}

LEMMA SymDiffMember ==
  ASSUME NEW A, NEW B
  PROVE  \A k : k \in SymDiff(A, B) <=> ~(k \in A <=> k \in B)
BY DEF SymDiff

LEMMA TimesXMember ==
  ASSUME NEW w \in Word
  PROVE  /\ TimesX(w) \in Word
         /\ \A k \in 0 .. 15 :
              k \in TimesX(w) <=> ~(k > 0 /\ k - 1 \in w <=> 15 \in w /\ k \in {0, 2, 15})
<1> DEFINE shifted == {k + 1 : k \in w}
<1>1. \A k \in Int : k \in shifted <=> k - 1 \in w
  BY DEF Word
<1>2. shifted \subseteq 1 .. 16
  BY DEF Word
<1>3. TimesX(w) = IF 16 \in shifted THEN SymDiff(shifted \ {16}, {15, 2, 0}) ELSE shifted
  BY DEF TimesX
<1> HIDE DEF shifted
<1>4. CASE 15 \in w
  BY <1>1, <1>2, <1>3, <1>4 DEF Word, SymDiff
<1>5. CASE 15 \notin w
  BY <1>1, <1>2, <1>3, <1>5 DEF Word
<1> QED BY <1>4, <1>5

LEMMA CrcBitMember ==
  ASSUME NEW w \in Word
  PROVE  /\ CrcBit(w) \in Word
         /\ \A k \in 0 .. 15 :
              k \in CrcBit(w) <=> ~(k + 1 \in w <=> 0 \in w /\ k \in {0, 13, 15})
<1>1. \A k \in Int : k \in ShiftRight(w) <=> k + 1 \in w /\ k # -1
  BY DEF Word, ShiftRight
<1>2. ShiftRight(w) \subseteq 0 .. 14
  BY DEF Word, ShiftRight
<1>3. CASE 0 \in w
  BY <1>1, <1>2, <1>3 DEF Word, SymDiff, CrcBit, Polynomial
<1>4. CASE 0 \notin w
  BY <1>1, <1>2, <1>4 DEF Word, CrcBit
<1> QED BY <1>3, <1>4

LEMMA MirrorMember ==
  ASSUME NEW w \in Word
  PROVE  /\ Mirror(w) \in Word
         /\ \A k \in 0 .. 15 : k \in Mirror(w) <=> 15 - k \in w
BY DEF Word, Mirror

\* A turn of the CRC's inner loop multiplies the mirrored register by x.
LEMMA MirrorCrcBit ==
  ASSUME NEW w \in Word
  PROVE  TimesX(Mirror(w)) = Mirror(CrcBit(w))
<1>1. Mirror(w) \in Word /\ CrcBit(w) \in Word
  BY MirrorMember, CrcBitMember
<1>2. TimesX(Mirror(w)) \in Word /\ Mirror(CrcBit(w)) \in Word
  BY <1>1, MirrorMember, TimesXMember
<1>3. ASSUME NEW k \in 0 .. 15
      PROVE  k \in TimesX(Mirror(w)) <=> k \in Mirror(CrcBit(w))
  <2>1. k \in TimesX(Mirror(w)) <=>
          ~(k > 0 /\ k - 1 \in Mirror(w) <=> 15 \in Mirror(w) /\ k \in {0, 2, 15})
    BY <1>1, TimesXMember
  <2>2. k > 0 => (k - 1 \in Mirror(w) <=> 15 - (k - 1) \in w)
    <3>1. k > 0 => k - 1 \in 0 .. 15
      OBVIOUS
    <3> QED BY <3>1, MirrorMember
  <2>3. 15 \in Mirror(w) <=> 0 \in w
    BY MirrorMember
  <2>4. k \in Mirror(CrcBit(w)) <=> 15 - k \in CrcBit(w)
    BY <1>1, MirrorMember
  <2>5. 15 - k \in CrcBit(w) <=> ~(15 - k + 1 \in w <=> 0 \in w /\ 15 - k \in {0, 13, 15})
    <3>1. 15 - k \in 0 .. 15
      OBVIOUS
    <3> QED BY <3>1, CrcBitMember
  <2>6. 15 - k \in {0, 13, 15} <=> k \in {0, 2, 15}
    OBVIOUS
  <2>7. k = 0 => 15 - k + 1 \notin w
    BY DEF Word
  <2> QED BY <2>1, <2>2, <2>3, <2>4, <2>5, <2>6, <2>7
<1> QED BY <1>2, <1>3 DEF Word

LEMMA TimesXSymDiff ==
  ASSUME NEW v \in Word, NEW w \in Word
  PROVE  /\ SymDiff(v, w) \in Word
         /\ TimesX(SymDiff(v, w)) = SymDiff(TimesX(v), TimesX(w))
<1>1. SymDiff(v, w) \in Word /\ TimesX(v) \in Word /\ TimesX(w) \in Word
  BY TimesXMember DEF SymDiff, Word
<1>2. TimesX(SymDiff(v, w)) \in Word
  BY <1>1, TimesXMember
<1>3. ASSUME NEW k \in 0 .. 15
      PROVE  k \in TimesX(SymDiff(v, w)) <=> k \in SymDiff(TimesX(v), TimesX(w))
  BY <1>1, TimesXMember, SymDiffMember
<1> QED BY <1>1, <1>2, <1>3 DEF Word, SymDiff

LEMMA TimesXEmpty ==
  /\ {} \in Word /\ TimesX({}) = {}
  /\ \A w \in Word : w # {} => TimesX(w) # {}
<1>1. {} \in Word
  BY DEF Word
<1>2. TimesX({}) = {}
  BY DEF TimesX
<1>3. ASSUME NEW w \in Word, w # {} PROVE TimesX(w) # {}
  <2>1. CASE 15 \in w
    BY <2>1, TimesXMember
  <2>2. CASE 15 \notin w
    <3> PICK k \in w : TRUE
      BY <1>3
    <3>1. k \in 0 .. 14
      BY <2>2 DEF Word
    <3>2. k + 1 \in TimesX(w)
      BY <2>2, <3>1, TimesXMember
    <3> QED BY <3>2
  <2> QED BY <2>1, <2>2
<1> QED BY <1>1, <1>2, <1>3

-----------------------------------------------------------------------------
\* The loops of the CRC, the powers of x, and a register that takes the bits of a
\* frame one by one, in the order of sending: after n bits it holds the remainder
\* of the polynomial that they are the coefficients of.

Incoming(bits, n) == IF n \in bits THEN {0} ELSE {}

Remainder(bits) ==
  LET rem[n \in 0 .. 96] ==
        IF n = 0 THEN {} ELSE SymDiff(TimesX(rem[n - 1]), Incoming(bits, n - 1))
  IN  rem

LEMMA CrcTurnsRun ==
  ASSUME NEW word \in Word
  PROVE  LET crc == CrcTurns(word)
         IN  /\ crc \in [0 .. 8 -> Word]
             /\ crc[0] = word
             /\ \A i \in 1 .. 8 : crc[i] = CrcBit(crc[i - 1])
<1> DEFINE P(f) == f = [i \in 0 .. 8 |-> IF i = 0 THEN word ELSE CrcBit(f[i - 1])]
           g == [i \in Nat |-> [w \in Word |-> CrcBit(w)]]
           crc == CrcTurns(word)
<1>1. g \in [Nat -> [Word -> Word]] /\ 8 \in Nat
  BY CrcBitMember
<1>2. \A i \in Nat : \A w \in Word : g[i][w] = CrcBit(w)
  OBVIOUS
<1> HIDE DEF g
<1>3. PICK h : IsRun(h, Word, word, g, 8)
  BY <1>1, RunExists
<1>4. P(h)
  <2>1. h \in [0 .. 8 -> Word] /\ h[0] = word /\ \A i \in 1 .. 8 : h[i] = g[i][h[i - 1]]
    BY <1>3 DEF IsRun
  <2>2. \A i \in 1 .. 8 : i \in Nat /\ h[i - 1] \in Word
    BY <2>1
  <2>3. \A i \in 1 .. 8 : h[i] = CrcBit(h[i - 1])
    BY <1>2, <2>1, <2>2
  <2> QED BY <2>1, <2>3
<1>5. crc = CHOOSE f : P(f)
  BY Zenon DEF CrcTurns
<1> HIDE DEF P, crc
<1>6. P(crc)
  BY <1>4, <1>5, Zenon
<1> USE DEF P
<1>7. crc[0] = word
  BY <1>6
<1>8. ASSUME NEW i \in 1 .. 8 PROVE crc[i] = CrcBit(crc[i - 1])
  BY <1>6
<1>9. crc \in [0 .. 8 -> Word]
  <2>1. \A i \in 0 .. 8 - 1 : crc[i] \in Word => crc[i + 1] \in Word
    BY <1>8, CrcBitMember
  <2>2. crc = [i \in 0 .. 8 |-> crc[i]]
    BY <1>6
  <2>3. crc[0] \in Word
    BY <1>7
  <2> HIDE DEF P
  <2> QED BY <1>1, <2>1, <2>2, <2>3, RunTyped, Zenon
<1> QED BY <1>7, <1>8, <1>9 DEF crc

LEMMA CrcByteTyped ==
  ASSUME NEW crc \in Word, NEW bits, NEW b
  PROVE  /\ SymDiff(crc, ByteOf(bits, b)) \in Word
         /\ CrcByte(crc, ByteOf(bits, b)) \in Word
<1>1. SymDiff(crc, ByteOf(bits, b)) \in Word
  <2>1. ByteOf(bits, b) \subseteq 0 .. 15
    BY DEF ByteOf
  <2> QED BY <2>1 DEF Word, SymDiff
<1>2. CrcTurns(SymDiff(crc, ByteOf(bits, b))) \in [0 .. 8 -> Word]
  BY <1>1, CrcTurnsRun
<1> QED BY <1>1, <1>2 DEF CrcByte

LEMMA CrcBytesRun ==
  ASSUME NEW bits \in SUBSET Int, NEW n \in Nat
  PROVE  LET crc == CrcBytes(bits, n)
         IN  /\ crc \in [0 .. n -> Word]
             /\ crc[0] = {}
             /\ \A i \in 1 .. n : crc[i] = CrcByte(crc[i - 1], ByteOf(bits, i - 1))
<1> DEFINE P(f) == f = [i \in 0 .. n |->
                          IF i = 0 THEN {} ELSE CrcByte(f[i - 1], ByteOf(bits, i - 1))]
           g == [i \in Nat |-> [w \in Word |-> CrcByte(w, ByteOf(bits, i - 1))]]
           crc == CrcBytes(bits, n)
<1>1. g \in [Nat -> [Word -> Word]] /\ {} \in Word
  BY CrcByteTyped, TimesXEmpty
<1>2. \A i \in Nat : \A w \in Word : g[i][w] = CrcByte(w, ByteOf(bits, i - 1))
  OBVIOUS
<1> HIDE DEF g
<1>3. PICK h : IsRun(h, Word, {}, g, n)
  BY <1>1, RunExists
<1>4. P(h)
  <2>1. h \in [0 .. n -> Word] /\ h[0] = {} /\ \A i \in 1 .. n : h[i] = g[i][h[i - 1]]
    BY <1>3 DEF IsRun
  <2>2. \A i \in 1 .. n : i \in Nat /\ h[i - 1] \in Word
    BY <2>1
  <2>3. \A i \in 1 .. n : h[i] = CrcByte(h[i - 1], ByteOf(bits, i - 1))
    BY <1>2, <2>1, <2>2
  <2> QED BY <2>1, <2>3
<1>5. crc = CHOOSE f : P(f)
  BY Zenon DEF CrcBytes
<1> HIDE DEF P, crc
<1>6. P(crc)
  BY <1>4, <1>5, Zenon
<1> USE DEF P
<1>7. crc[0] = {}
  BY <1>6
<1>8. ASSUME NEW i \in 1 .. n PROVE crc[i] = CrcByte(crc[i - 1], ByteOf(bits, i - 1))
  <2>1. i \in 0 .. n /\ i # 0
    OBVIOUS
  <2> QED BY <1>6, <2>1
<1>9. crc \in [0 .. n -> Word]
  <2>1. ASSUME NEW i \in 0 .. n - 1, crc[i] \in Word PROVE crc[i + 1] \in Word
    <3>1. crc[i + 1] = CrcByte(crc[i], ByteOf(bits, i))
      BY <1>8
    <3> QED BY <2>1, <3>1, CrcByteTyped
  <2>2. crc = [i \in 0 .. n |-> crc[i]]
    BY <1>6
  <2>3. crc[0] \in Word
    BY <1>1, <1>7
  <2> HIDE DEF P
  <2> QED BY <2>1, <2>2, <2>3, RunTyped, Zenon
<1> QED BY <1>7, <1>8, <1>9 DEF crc

LEMMA ResidueRun ==
  /\ Residue \in [0 .. 95 -> Word]
  /\ Residue[0] = {0}
  /\ \A e \in 1 .. 95 : Residue[e] = TimesX(Residue[e - 1])
<1> DEFINE P(f) == f = [e \in 0 .. 95 |-> IF e = 0 THEN {0} ELSE TimesX(f[e - 1])]
           g == [e \in Nat |-> [w \in Word |-> TimesX(w)]]
<1>1. g \in [Nat -> [Word -> Word]] /\ {0} \in Word /\ 95 \in Nat
  BY TimesXMember DEF Word
<1>2. \A e \in Nat : \A w \in Word : g[e][w] = TimesX(w)
  OBVIOUS
<1> HIDE DEF g
<1>3. PICK h : IsRun(h, Word, {0}, g, 95)
  BY <1>1, RunExists
<1>4. P(h)
  <2>1. h \in [0 .. 95 -> Word] /\ h[0] = {0} /\ \A e \in 1 .. 95 : h[e] = g[e][h[e - 1]]
    BY <1>3 DEF IsRun
  <2>2. \A e \in 1 .. 95 : e \in Nat /\ h[e - 1] \in Word
    BY <2>1
  <2>3. \A e \in 1 .. 95 : h[e] = TimesX(h[e - 1])
    BY <1>2, <2>1, <2>2
  <2> QED BY <2>1, <2>3
<1>5. Residue = CHOOSE f : P(f)
  BY Zenon DEF Residue
<1> HIDE DEF P
<1>6. P(Residue)
  BY <1>4, <1>5, Zenon
<1> USE DEF P
<1>7. Residue[0] = {0}
  BY <1>6
<1>8. ASSUME NEW e \in 1 .. 95 PROVE Residue[e] = TimesX(Residue[e - 1])
  BY <1>6
<1>9. Residue \in [0 .. 95 -> Word]
  <2>1. ASSUME NEW e \in 0 .. 95 - 1, Residue[e] \in Word PROVE Residue[e + 1] \in Word
    <3>1. Residue[e + 1] = TimesX(Residue[e])
      BY <1>8
    <3> QED BY <2>1, <3>1, TimesXMember
  <2>2. Residue = [e \in 0 .. 95 |-> Residue[e]]
    BY <1>6
  <2>3. Residue[0] \in Word
    BY <1>1, <1>7
  <2> HIDE DEF P
  <2> QED BY <1>1, <2>1, <2>2, <2>3, RunTyped, Zenon
<1> QED BY <1>7, <1>8, <1>9

LEMMA RemainderRun ==
  ASSUME NEW bits \in SUBSET Int
  PROVE  /\ Remainder(bits) \in [0 .. 96 -> Word]
         /\ Remainder(bits)[0] = {}
         /\ \A n \in 0 .. 95 :
              Remainder(bits)[n + 1] = SymDiff(TimesX(Remainder(bits)[n]), Incoming(bits, n))
<1> DEFINE P(f) == f = [n \in 0 .. 96 |->
                          IF n = 0 THEN {}
                          ELSE SymDiff(TimesX(f[n - 1]), Incoming(bits, n - 1))]
           g == [n \in Nat |-> [w \in Word |-> SymDiff(TimesX(w), Incoming(bits, n - 1))]]
           rem == Remainder(bits)
<1>0. \A w \in Word : \A n : SymDiff(TimesX(w), Incoming(bits, n)) \in Word
  BY TimesXMember DEF Incoming, SymDiff, Word
<1>1. g \in [Nat -> [Word -> Word]] /\ {} \in Word /\ 96 \in Nat
  BY <1>0, TimesXEmpty
<1>2. \A n \in Nat : \A w \in Word : g[n][w] = SymDiff(TimesX(w), Incoming(bits, n - 1))
  OBVIOUS
<1> HIDE DEF g
<1>3. PICK h : IsRun(h, Word, {}, g, 96)
  BY <1>1, RunExists
<1>4. P(h)
  <2>1. h \in [0 .. 96 -> Word] /\ h[0] = {} /\ \A n \in 1 .. 96 : h[n] = g[n][h[n - 1]]
    BY <1>3 DEF IsRun
  <2>2. \A n \in 1 .. 96 : n \in Nat /\ h[n - 1] \in Word
    BY <2>1
  <2>3. \A n \in 1 .. 96 : h[n] = SymDiff(TimesX(h[n - 1]), Incoming(bits, n - 1))
    BY <1>2, <2>1, <2>2
  <2> QED BY <2>1, <2>3
<1>5. rem = CHOOSE f : P(f)
  BY Zenon DEF Remainder
<1> HIDE DEF P, rem
<1>6. P(rem)
  BY <1>4, <1>5, Zenon
<1> USE DEF P
<1>7. rem[0] = {}
  BY <1>6
<1>8. ASSUME NEW n \in 0 .. 95
      PROVE  rem[n + 1] = SymDiff(TimesX(rem[n]), Incoming(bits, n))
  <2>1. n + 1 \in 0 .. 96 /\ n + 1 # 0 /\ n + 1 - 1 = n
    OBVIOUS
  <2> QED BY <1>6, <2>1
<1>9. rem \in [0 .. 96 -> Word]
  <2>1. ASSUME NEW n \in 0 .. 96 - 1, rem[n] \in Word PROVE rem[n + 1] \in Word
    <3>1. n \in 0 .. 95
      OBVIOUS
    <3> QED BY <1>0, <1>8, <2>1, <3>1
  <2>2. rem = [n \in 0 .. 96 |-> rem[n]]
    BY <1>6
  <2>3. rem[0] \in Word
    BY <1>1, <1>7
  <2> HIDE DEF P
  <2> QED BY <1>1, <2>1, <2>2, <2>3, RunTyped, Zenon
<1> QED BY <1>7, <1>8, <1>9 DEF rem

-----------------------------------------------------------------------------
\* The register is additive, so that damage can be looked at by itself.

LEMMA RemainderSymDiff ==
  ASSUME NEW A \in SUBSET Int, NEW B \in SUBSET Int
  PROVE  \A n \in 0 .. 96 :
           Remainder(SymDiff(A, B))[n] = SymDiff(Remainder(A)[n], Remainder(B)[n])
<1> DEFINE C == SymDiff(A, B)
           ra == Remainder(A)
           rb == Remainder(B)
           rc == Remainder(C)
           Holds == {n \in 0 .. 96 : rc[n] = SymDiff(ra[n], rb[n])}
<1>1. C \in SUBSET Int
  BY DEF SymDiff
<1>2. /\ ra \in [0 .. 96 -> Word] /\ rb \in [0 .. 96 -> Word] /\ rc \in [0 .. 96 -> Word]
      /\ ra[0] = {} /\ rb[0] = {} /\ rc[0] = {}
  BY <1>1, RemainderRun
<1>3. \A n \in 0 .. 95 : /\ ra[n + 1] = SymDiff(TimesX(ra[n]), Incoming(A, n))
                         /\ rb[n + 1] = SymDiff(TimesX(rb[n]), Incoming(B, n))
                         /\ rc[n + 1] = SymDiff(TimesX(rc[n]), Incoming(C, n))
  BY <1>1, RemainderRun
<1>4. \A n : Incoming(C, n) = SymDiff(Incoming(A, n), Incoming(B, n))
  BY DEF Incoming, SymDiff
<1> HIDE DEF C, ra, rb, rc
<1>5. 0 \in Holds
  BY <1>2 DEF SymDiff
<1>6. ASSUME NEW n \in 0 .. 96 - 1, n \in Holds PROVE n + 1 \in Holds
  <2>1. ra[n] \in Word /\ rb[n] \in Word
    BY <1>2
  <2>2. TimesX(rc[n]) = SymDiff(TimesX(ra[n]), TimesX(rb[n]))
    BY <1>6, <2>1, TimesXSymDiff
  <2> DEFINE ta == TimesX(ra[n])
             tb == TimesX(rb[n])
             ia == Incoming(A, n)
             ib == Incoming(B, n)
  <2>3. n \in 0 .. 95 /\ n + 1 \in 0 .. 96
    OBVIOUS
  <2>4. /\ rc[n + 1] = SymDiff(SymDiff(ta, tb), SymDiff(ia, ib))
        /\ ra[n + 1] = SymDiff(ta, ia)
        /\ rb[n + 1] = SymDiff(tb, ib)
    BY <1>3, <1>4, <2>2, <2>3
  <2> HIDE DEF ta, tb, ia, ib
  <2>5. SymDiff(SymDiff(ta, tb), SymDiff(ia, ib)) = SymDiff(SymDiff(ta, ia), SymDiff(tb, ib))
    BY DEF SymDiff
  <2>6. rc[n + 1] = SymDiff(ra[n + 1], rb[n + 1])
    BY <2>4, <2>5
  <2> QED BY <2>3, <2>6
<1>7. 0 .. 96 \subseteq Holds
  <2> HIDE DEF Holds
  <2> QED BY <1>5, <1>6, InductUpTo
<1> QED BY <1>7 DEF C, ra, rb, rc

\* Zeros ahead of the first bit leave the register at zero.
LEMMA RemainderBefore ==
  ASSUME NEW D \in SUBSET Int, NEW m \in 0 .. 96, D \cap (0 .. m - 1) = {}
  PROVE  \A n \in 0 .. m : Remainder(D)[n] = {}
<1> DEFINE Zero == {n \in 0 .. m : Remainder(D)[n] = {}}
<1>1. 0 \in Zero
  BY RemainderRun
<1>2. ASSUME NEW n \in 0 .. m - 1, n \in Zero PROVE n + 1 \in Zero
  <2>1. n \in 0 .. 95 /\ n + 1 \in 0 .. m /\ n \notin D
    OBVIOUS
  <2>2. Remainder(D)[n + 1] = SymDiff(TimesX({}), Incoming(D, n))
    BY <1>2, <2>1, RemainderRun
  <2>3. Remainder(D)[n + 1] = {}
    BY <2>1, <2>2, TimesXEmpty DEF Incoming, SymDiff
  <2> QED BY <2>1, <2>3
<1>3. 0 .. m \subseteq Zero
  <2> HIDE DEF Zero
  <2> QED BY <1>1, <1>2, InductUpTo
<1> QED BY <1>3

\* Zeros behind the last bit multiply: what is not zero stays so.
LEMMA RemainderBehind ==
  ASSUME NEW D \in SUBSET Int, NEW m \in 0 .. 96, D \cap (m .. 95) = {},
         Remainder(D)[m] # {}
  PROVE  Remainder(D)[96] # {}
<1> DEFINE NonZero == {j \in 0 .. 96 - m : Remainder(D)[m + j] # {}}
<1>1. 0 \in NonZero
  OBVIOUS
<1>2. ASSUME NEW j \in 0 .. (96 - m) - 1, j \in NonZero PROVE j + 1 \in NonZero
  <2>1. m + j \in 0 .. 95 /\ m + j + 1 = m + (j + 1) /\ m + j \notin D
    OBVIOUS
  <2>2. /\ Remainder(D)[m + (j + 1)] = SymDiff(TimesX(Remainder(D)[m + j]), Incoming(D, m + j))
        /\ Remainder(D)[m + j] \in Word
    BY <2>1, RemainderRun
  <2>3. TimesX(Remainder(D)[m + j]) # {}
    BY <1>2, <2>2, TimesXEmpty
  <2>4. Remainder(D)[m + (j + 1)] # {}
    BY <2>1, <2>2, <2>3 DEF Incoming, SymDiff
  <2> QED BY <2>4
<1>3. 0 .. 96 - m \subseteq NonZero
  <2> HIDE DEF NonZero
  <2> QED BY <1>1, <1>2, InductUpTo
<1> QED BY <1>3

\* Sixteen bits fill the register as they come.
LEMMA RemainderWindow ==
  ASSUME NEW D \in SUBSET Int, NEW m \in 0 .. 80, D \cap (0 .. m - 1) = {}
  PROVE  \A j \in 0 .. 16 :
           Remainder(D)[m + j] = {k \in 0 .. j - 1 : m + j - 1 - k \in D}
<1> DEFINE Filled(j) == {k \in 0 .. j - 1 : m + j - 1 - k \in D}
           Fills == {j \in 0 .. 16 : Remainder(D)[m + j] = Filled(j)}
<1>1. 0 \in Fills
  <2>1. m \in 0 .. 96 /\ m + 0 = m /\ m \in 0 .. m
    OBVIOUS
  <2>2. Remainder(D)[m] = {}
    BY <2>1, RemainderBefore
  <2> QED BY <2>1, <2>2
<1>2. ASSUME NEW j \in 0 .. 16 - 1, j \in Fills PROVE j + 1 \in Fills
  <2>1. m + j \in 0 .. 95 /\ m + j + 1 = m + (j + 1) /\ j + 1 \in 0 .. 16
    OBVIOUS
  <2>2. Remainder(D)[m + (j + 1)] = SymDiff(TimesX(Filled(j)), Incoming(D, m + j))
    <3>1. Remainder(D)[m + j] = Filled(j)
      BY <1>2
    <3> HIDE DEF Filled
    <3> QED BY <2>1, <3>1, RemainderRun
  <2>3. TimesX(Filled(j)) = {k + 1 : k \in Filled(j)}
    BY DEF TimesX
  <2>4. Filled(j + 1) = SymDiff({k + 1 : k \in Filled(j)}, Incoming(D, m + j))
    <3>1. \A k \in Int : k \in {i + 1 : i \in Filled(j)} <=> k \in 1 .. j /\ m + j - k \in D
      OBVIOUS
    <3>2. \A k \in Int : k \in Filled(j + 1) <=> k \in 0 .. j /\ m + j - k \in D
      OBVIOUS
    <3> QED BY <3>1, <3>2 DEF Incoming, SymDiff
  <2> QED BY <2>1, <2>2, <2>3, <2>4
<1>3. 0 .. 16 \subseteq Fills
  <2> HIDE DEF Fills
  <2> QED BY <1>1, <1>2, InductUpTo
<1> QED BY <1>3

LEMMA RemainderWord ==
  ASSUME NEW D \in SUBSET Int, NEW m \in 0 .. 80, D \cap (0 .. m - 1) = {}
  PROVE  Remainder(D)[m + 16] = {k \in 0 .. 15 : m + 15 - k \in D}
<1>1. \A j \in 0 .. 16 : Remainder(D)[m + j] = {k \in 0 .. j - 1 : m + j - 1 - k \in D}
  BY RemainderWindow
<1>2. 16 \in 0 .. 16 /\ 16 - 1 = 15
  OBVIOUS
<1>3. Remainder(D)[m + 16] = {k \in 0 .. 16 - 1 : m + 16 - 1 - k \in D}
  BY <1>1, <1>2, Zenon
<1> QED BY <1>2, <1>3

-----------------------------------------------------------------------------
\* CRC16.calculate takes whole bytes and shifts to the right; its register after
\* a byte is, mirrored, what the register above holds sixteen zeros later.

LEMMA MirrorSymDiff ==
  ASSUME NEW v \in Word, NEW w \in Word
  PROVE  /\ Mirror(SymDiff(v, w)) = SymDiff(Mirror(v), Mirror(w))
         /\ Mirror(v) = Mirror(w) => v = w
<1>1. /\ SymDiff(v, w) \in Word /\ Mirror(v) \in Word /\ Mirror(w) \in Word
      /\ Mirror(SymDiff(v, w)) \in Word /\ SymDiff(Mirror(v), Mirror(w)) \in Word
  BY MirrorMember, TimesXSymDiff
<1>2. \A k \in 0 .. 15 : k \in Mirror(SymDiff(v, w)) <=> k \in SymDiff(Mirror(v), Mirror(w))
  BY <1>1, MirrorMember, SymDiffMember
<1>3. ASSUME Mirror(v) = Mirror(w), NEW k \in 0 .. 15 PROVE k \in v <=> k \in w
  <2>1. 15 - k \in 0 .. 15 /\ 15 - (15 - k) = k
    OBVIOUS
  <2>2. (15 - k \in Mirror(v) <=> k \in v) /\ (15 - k \in Mirror(w) <=> k \in w)
    BY <2>1, MirrorMember
  <2> QED BY <1>3, <2>2
<1> QED BY <1>1, <1>2, <1>3 DEF Word

LEMMA CrcBytesAreRemainders ==
  ASSUME NEW bits \in SUBSET Int
  PROVE  \A j \in 0 .. 10 :
           Mirror(CrcBytes(bits, 10)[j]) = Remainder(bits \cap (0 .. 8 * j - 1))[8 * j + 16]
<1> DEFINE crc == CrcBytes(bits, 10)
           Agree == {j \in 0 .. 10 :
                       Mirror(crc[j]) = Remainder(bits \cap (0 .. 8 * j - 1))[8 * j + 16]}
<1>1. /\ crc \in [0 .. 10 -> Word]
      /\ crc[0] = {}
      /\ \A i \in 1 .. 10 : crc[i] = CrcByte(crc[i - 1], ByteOf(bits, i - 1))
  BY CrcBytesRun
<1> HIDE DEF crc
<1>2. 0 \in Agree
  <2>1. Remainder({})[16] = {}
    <3>1. {} \in SUBSET Int /\ 16 \in 0 .. 96 /\ {} \cap (0 .. 16 - 1) = {} /\ 16 \in 0 .. 16
      OBVIOUS
    <3> QED BY <3>1, RemainderBefore
  <2>2. bits \cap (0 .. 8 * 0 - 1) = {} /\ 8 * 0 + 16 = 16
    OBVIOUS
  <2>3. Mirror({}) = {}
    BY DEF Mirror
  <2> QED BY <1>1, <2>1, <2>2, <2>3
<1>3. ASSUME NEW j \in 0 .. 10 - 1, j \in Agree PROVE j + 1 \in Agree
  <2> DEFINE m == 8 * j
             D == bits \cap (0 .. 8 * (j + 1) - 1)
             before == bits \cap (0 .. 8 * j - 1)
             new == bits \cap (m .. m + 7)
             byte == ByteOf(bits, j)
             word == SymDiff(crc[j], byte)
             turn == CrcTurns(word)
  <2>1. m \in 0 .. 80 /\ m + 16 \in 0 .. 88 /\ m + 24 = 8 * (j + 1) + 16
    OBVIOUS
  <2>2. crc[j] \in Word /\ byte \in Word /\ word \in Word
    <3>1. crc[j] \in Word
      BY <1>1
    <3>2. byte \in Word
      BY DEF ByteOf, Word
    <3> QED BY <3>1, <3>2, CrcByteTyped
  <2>3. /\ turn \in [0 .. 8 -> Word] /\ turn[0] = word
        /\ \A i \in 1 .. 8 : turn[i] = CrcBit(turn[i - 1])
    BY <2>2, CrcTurnsRun
  <2>4. crc[j + 1] = turn[8]
    <3>1. j + 1 \in 1 .. 10 /\ j + 1 - 1 = j
      OBVIOUS
    <3> QED BY <1>1, <3>1 DEF CrcByte
  <2>5. Remainder(new)[m + 16] = Mirror(byte)
    <3>1. new \in SUBSET Int /\ new \cap (0 .. m - 1) = {} /\ 16 \in 0 .. 16
      OBVIOUS
    <3>2. Remainder(new)[m + 16] = {k \in 0 .. 15 : m + 15 - k \in new}
      <4> HIDE DEF new, m
      <4> QED BY <2>1, <3>1, RemainderWord
    <3>3. ASSUME NEW k \in 0 .. 15 PROVE m + 15 - k \in new <=> 15 - k \in byte
      BY DEF ByteOf
    <3>4. \A k \in 0 .. 15 : k \in Mirror(byte) <=> 15 - k \in byte
      BY <2>2, MirrorMember
    <3>5. Mirror(byte) \subseteq 0 .. 15
      BY <2>2, MirrorMember DEF Word
    <3> HIDE DEF new, byte, m
    <3> QED BY <3>2, <3>3, <3>4, <3>5
  <2>6. D = SymDiff(before, new)
    BY DEF SymDiff
  <2>7. Remainder(D)[m + 16] = Mirror(word)
    <3>1. m + 16 \in 0 .. 96 /\ before \in SUBSET Int /\ new \in SUBSET Int
      OBVIOUS
    <3>2. Remainder(before)[m + 16] = Mirror(crc[j])
      BY <1>3
    <3> HIDE DEF D, before, new, m
    <3>3. Remainder(SymDiff(before, new))[m + 16]
            = SymDiff(Remainder(before)[m + 16], Remainder(new)[m + 16])
      BY <3>1, RemainderSymDiff
    <3>4. Remainder(D)[m + 16] = SymDiff(Mirror(crc[j]), Mirror(byte))
      BY <2>5, <2>6, <3>2, <3>3
    <3> QED BY <2>2, <3>4, MirrorSymDiff
  <2> DEFINE Turned == {i \in 0 .. 8 : Remainder(D)[m + 16 + i] = Mirror(turn[i])}
  <2>8. 0 \in Turned
    <3>1. m + 16 + 0 = m + 16
      OBVIOUS
    <3> HIDE DEF D, turn, m
    <3> QED BY <2>3, <2>7, <3>1
  <2>9. ASSUME NEW i \in 0 .. 8 - 1, i \in Turned PROVE i + 1 \in Turned
    <3>1. /\ m + 16 + i \in 0 .. 95 /\ m + 16 + i + 1 = m + 16 + (i + 1)
          /\ D \in SUBSET Int /\ m + 16 + i \notin D
      OBVIOUS
    <3>2. turn[i] \in Word /\ turn[i + 1] = CrcBit(turn[i])
      <4>1. i \in 0 .. 8 /\ i + 1 \in 1 .. 8 /\ i + 1 - 1 = i
        OBVIOUS
      <4> HIDE DEF turn
      <4> QED BY <2>3, <4>1
    <3>3. Remainder(D)[m + 16 + i] = Mirror(turn[i])
      BY <2>9
    <3> HIDE DEF D, turn, m
    <3>4. Remainder(D)[m + 16 + (i + 1)]
            = SymDiff(TimesX(Mirror(turn[i])), Incoming(D, m + 16 + i))
      BY <3>1, <3>3, RemainderRun
    <3>5. Remainder(D)[m + 16 + (i + 1)] = TimesX(Mirror(turn[i]))
      BY <3>1, <3>4 DEF Incoming, SymDiff
    <3>6. Remainder(D)[m + 16 + (i + 1)] = Mirror(turn[i + 1])
      BY <3>2, <3>5, MirrorCrcBit
    <3> QED BY <3>6
  <2>10. 0 .. 8 \subseteq Turned
    <3> HIDE DEF Turned
    <3> QED BY <2>8, <2>9, InductUpTo
  <2>11. Remainder(D)[m + 16 + 8] = Mirror(turn[8])
    BY <2>10
  <2>12. m + 16 + 8 = 8 * (j + 1) + 16 /\ j + 1 \in 0 .. 10
    OBVIOUS
  <2>13. Mirror(crc[j + 1]) = Remainder(D)[8 * (j + 1) + 16]
    <3> HIDE DEF D, turn, m
    <3> QED BY <2>4, <2>11, <2>12
  <2> QED BY <2>12, <2>13
<1>4. 0 .. 10 \subseteq Agree
  <2> HIDE DEF Agree
  <2> QED BY <1>2, <1>3, InductUpTo
<1> QED BY <1>4 DEF crc

LEMMA CalculateIsRemainder ==
  ASSUME NEW bits \in SUBSET Int
  PROVE  /\ Calculate(bits, 10) \in Word
         /\ Mirror(Calculate(bits, 10)) = Remainder(bits \cap ContentBit)[96]
<1>1. Calculate(bits, 10) = CrcBytes(bits, 10)[10]
  BY DEF Calculate
<1>2. CrcBytes(bits, 10) \in [0 .. 10 -> Word]
  BY CrcBytesRun
<1>3. Mirror(CrcBytes(bits, 10)[10]) = Remainder(bits \cap (0 .. 8 * 10 - 1))[8 * 10 + 16]
  <2>1. \A j \in 0 .. 10 :
          Mirror(CrcBytes(bits, 10)[j]) = Remainder(bits \cap (0 .. 8 * j - 1))[8 * j + 16]
    BY CrcBytesAreRemainders
  <2>2. 10 \in 0 .. 10
    OBVIOUS
  <2> QED BY <2>1, <2>2, Zenon
<1>4. 8 * 10 - 1 = 79 /\ 8 * 10 + 16 = 96
  OBVIOUS
<1> QED BY <1>1, <1>2, <1>3, <1>4 DEF ContentBit

\* validateFrame accepts a payload iff the register is zero after its last bit.
LEMMA ValidIffNoRemainder ==
  ASSUME NEW p, p.length = 12, p.bits \in SUBSET FrameBit
  PROVE  ValidateFrame(p) <=> Remainder(p.bits)[96] = {}
<1> DEFINE bits == p.bits
           content == bits \cap ContentBit
           trailer == bits \cap (80 .. 95)
           received == {k - 80 : k \in trailer}
<1>1. bits \in SUBSET Int /\ content \in SUBSET Int /\ trailer \in SUBSET Int
  BY DEF FrameBit
<1>2. Calculate(bits, 10) \in Word /\ Mirror(Calculate(bits, 10)) = Remainder(content)[96]
  BY <1>1, CalculateIsRemainder
<1>3. received \in Word
  BY DEF Word
<1>4. Remainder(trailer)[96] = Mirror(received)
  <2>1. 80 \in 0 .. 80 /\ trailer \cap (0 .. 80 - 1) = {} /\ 80 + 16 = 96
    OBVIOUS
  <2>2. Remainder(trailer)[80 + 16] = {k \in 0 .. 15 : 80 + 15 - k \in trailer}
    <3> HIDE DEF trailer
    <3> QED BY <1>1, <2>1, RemainderWord
  <2>3. ASSUME NEW k \in 0 .. 15 PROVE 80 + 15 - k \in trailer <=> 15 - k \in received
    OBVIOUS
  <2>4. \A k \in 0 .. 15 : k \in Mirror(received) <=> 15 - k \in received
    BY <1>3, MirrorMember
  <2>5. Mirror(received) \subseteq 0 .. 15
    BY <1>3, MirrorMember DEF Word
  <2> HIDE DEF trailer, received
  <2> QED BY <2>1, <2>2, <2>3, <2>4, <2>5
<1>5. bits = SymDiff(content, trailer)
  BY DEF SymDiff, FrameBit, ContentBit
<1>6. ValidateFrame(p) <=> received = Calculate(bits, 10)
  BY DEF ValidateFrame
<1> HIDE DEF content, trailer, received
<1>7. Remainder(bits)[96] = SymDiff(Mirror(Calculate(bits, 10)), Mirror(received))
  <2>1. Remainder(SymDiff(content, trailer))[96]
          = SymDiff(Remainder(content)[96], Remainder(trailer)[96])
    <3>1. 96 \in 0 .. 96
      OBVIOUS
    <3> QED BY <1>1, <3>1, RemainderSymDiff
  <2> QED BY <1>2, <1>4, <1>5, <2>1
<1>8. Remainder(bits)[96] = {} <=> Mirror(Calculate(bits, 10)) = Mirror(received)
  BY <1>7 DEF SymDiff
<1>9. Mirror(Calculate(bits, 10)) = Mirror(received) <=> Calculate(bits, 10) = received
  BY <1>2, <1>3, MirrorSymDiff
<1> QED BY <1>6, <1>8, <1>9

-----------------------------------------------------------------------------
\* Exclusive or adds modulo 2, so the register is zero iff the residues of the
\* bits cancel out: the reference definition, Codeword.

Odd(S) == Cardinality(S) % 2 = 1

LEMMA OddSymDiff ==
  ASSUME NEW A, NEW B, IsFiniteSet(A), IsFiniteSet(B)
  PROVE  /\ IsFiniteSet(SymDiff(A, B))
         /\ Odd(SymDiff(A, B)) <=> ~(Odd(A) <=> Odd(B))
<1> DEFINE both == A \cap B
           all == A \cup B
<1>1. /\ IsFiniteSet(all)
      /\ Cardinality(all) = Cardinality(A) + Cardinality(B) - Cardinality(both)
  BY FS_Union
<1>2. IsFiniteSet(both)
  BY FS_Intersection
<1>3. SymDiff(A, B) = all \ both /\ all \cap both = both
  BY DEF SymDiff
<1>4. /\ IsFiniteSet(all \ both)
      /\ Cardinality(all \ both) = Cardinality(all) - Cardinality(all \cap both)
  BY <1>1, FS_Difference
<1>5. Cardinality(A) \in Nat /\ Cardinality(B) \in Nat /\ Cardinality(both) \in Nat
  BY <1>2, FS_CardinalityType
<1> HIDE DEF all, both
<1>6. Cardinality(SymDiff(A, B)) = Cardinality(all) - Cardinality(both)
  BY <1>3, <1>4, Zenon
<1>7. IsFiniteSet(SymDiff(A, B))
  BY <1>3, <1>4, Zenon
<1>8. \A a, b, c, u, d \in Nat :
        u = a + b - c /\ d = u - c => (d % 2 = 1 <=> ~(a % 2 = 1 <=> b % 2 = 1))
  OBVIOUS
<1>9. Cardinality(all) \in Nat /\ Cardinality(SymDiff(A, B)) \in Nat
  BY <1>1, <1>7, FS_CardinalityType
<1>10. /\ Cardinality(all) = Cardinality(A) + Cardinality(B) - Cardinality(both)
       /\ Cardinality(SymDiff(A, B)) = Cardinality(all) - Cardinality(both)
  BY <1>1, <1>6
<1> HIDE <1>1, <1>3, <1>4
<1> QED BY <1>5, <1>7, <1>8, <1>9, <1>10 DEF Odd

LEMMA OddSmall ==
  /\ ~Odd({})
  /\ \A x : Odd({x})
<1>1. Cardinality({}) = 0 /\ \A x : Cardinality({x}) = 1
  BY FS_EmptySet, FS_Singleton, Zenon
<1> QED BY <1>1 DEF Odd

LEMMA FrameBitFinite ==
  ASSUME NEW S, S \subseteq FrameBit
  PROVE  IsFiniteSet(S) /\ S \in SUBSET Int
<1>1. 0 \in Int /\ 95 \in Int
  OBVIOUS
<1>2. IsFiniteSet(0 .. 95)
  BY <1>1, FS_Interval, Zenon
<1>3. S \in SUBSET (0 .. 95)
  BY DEF FrameBit
<1>4. IsFiniteSet(S)
  BY <1>2, <1>3, FS_Subset, Zenon
<1> QED BY <1>3, <1>4

\* The bits, of the first n, whose residue has the term x^k.
Contributing(bits, k, n) == {b \in bits : b < n /\ k \in Residue[n - 1 - b]}

LEMMA RemainderIsSumOfResidues ==
  ASSUME NEW bits \in SUBSET FrameBit
  PROVE  \A n \in 0 .. 96 : \A k \in 0 .. 15 :
           k \in Remainder(bits)[n] <=> Odd(Contributing(bits, k, n))
<1> DEFINE Terms(j, i) == {b \in bits : b < i /\ j \in Residue[i - 1 - b]}
           Sums == {n \in 0 .. 96 : \A k \in 0 .. 15 :
                      k \in Remainder(bits)[n] <=> Odd(Terms(k, n))}
<1>1. bits \in SUBSET Int
  BY FrameBitFinite
<1>2. ASSUME NEW S, S \subseteq bits PROVE IsFiniteSet(S)
  BY <1>2, FrameBitFinite
<1>3. 0 \in Sums
  <2>1. \A k : Terms(k, 0) = {}
    <3>1. \A b \in bits : ~(b < 0)
      BY DEF FrameBit
    <3> QED BY <3>1
  <2>2. Remainder(bits)[0] = {}
    BY <1>1, RemainderRun
  <2> HIDE DEF Terms
  <2> QED BY <2>1, <2>2, OddSmall
<1>4. ASSUME NEW n \in 0 .. 96 - 1, n \in Sums PROVE n + 1 \in Sums
  <2>1. n \in 0 .. 95 /\ n + 1 \in 0 .. 96
    OBVIOUS
  <2>2. /\ Remainder(bits)[n] \in Word
        /\ Remainder(bits)[n + 1] = SymDiff(TimesX(Remainder(bits)[n]), Incoming(bits, n))
    BY <1>1, <2>1, RemainderRun
  <2>3. ASSUME NEW k \in 0 .. 15
        PROVE  k \in Remainder(bits)[n + 1] <=> Odd(Terms(k, n + 1))
    <3> DEFINE lower == IF k > 0 THEN Terms(k - 1, n) ELSE {}
               wrapped == IF k \in {0, 2, 15} THEN Terms(15, n) ELSE {}
               last == IF k = 0 /\ n \in bits THEN {n} ELSE {}
    <3>1. IsFiniteSet(lower) /\ IsFiniteSet(wrapped) /\ IsFiniteSet(last)
      <4>1. lower \subseteq bits /\ wrapped \subseteq bits /\ last \subseteq bits
        OBVIOUS
      <4> HIDE DEF lower, wrapped, last
      <4> QED BY <1>2, <4>1
    <3>2. \A b \in bits : b < n => /\ n - b \in 1 .. 95
                                   /\ n - 1 - b \in 0 .. 95
                                   /\ n - b - 1 = n - 1 - b
      BY DEF FrameBit
    <3>3. ASSUME NEW b \in bits, b < n
          PROVE  /\ Residue[n - 1 - b] \in Word
                 /\ Residue[n - b] = TimesX(Residue[n - 1 - b])
      <4>1. /\ \A e \in 0 .. 95 : Residue[e] \in Word
            /\ \A e \in 1 .. 95 : Residue[e] = TimesX(Residue[e - 1])
        BY ResidueRun
      <4>2. /\ n - b \in 1 .. 95
            /\ n - 1 - b \in 0 .. 95
            /\ n - b - 1 = n - 1 - b
        BY <3>2, <3>3
      <4> QED BY <4>1, <4>2, Zenon
    <3>4. \A b \in bits : b \in Terms(k, n + 1) <=> b < n + 1 /\ k \in Residue[n - b]
      <4>1. \A b \in bits : (n + 1) - 1 - b = n - b
        BY DEF FrameBit
      <4>2. \A b \in bits : b \in Terms(k, n + 1) <=> b < n + 1 /\ k \in Residue[(n + 1) - 1 - b]
        OBVIOUS
      <4> QED BY <4>1, <4>2, Zenon
    <3>5. Terms(k, n + 1) = SymDiff(SymDiff(lower, wrapped), last)
      <4>1. ASSUME NEW b \in bits
            PROVE  b \in Terms(k, n + 1) <=> b \in SymDiff(SymDiff(lower, wrapped), last)
        <5>1. CASE b < n
          <6>1. b < n + 1 /\ b \notin last
            BY <5>1 DEF FrameBit
          <6>2. b \in Terms(k, n + 1) <=> k \in TimesX(Residue[n - 1 - b])
            <7>1. Residue[n - b] = TimesX(Residue[n - 1 - b])
              BY <3>3, <5>1, Zenon
            <7>2. b \in Terms(k, n + 1) <=> k \in Residue[n - b]
              BY <3>4, <6>1, Zenon
            <7> QED BY <7>1, <7>2, Zenon
          <6>3. k \in TimesX(Residue[n - 1 - b]) <=>
                  ~(k > 0 /\ k - 1 \in Residue[n - 1 - b]
                      <=> 15 \in Residue[n - 1 - b] /\ k \in {0, 2, 15})
            BY <3>3, <5>1, TimesXMember
          <6>4. b \in lower <=> k > 0 /\ k - 1 \in Residue[n - 1 - b]
            BY <5>1
          <6>5. b \in wrapped <=> 15 \in Residue[n - 1 - b] /\ k \in {0, 2, 15}
            BY <5>1
          <6> HIDE DEF Terms, lower, wrapped, last
          <6> QED BY <6>1, <6>2, <6>3, <6>4, <6>5, SymDiffMember
        <5>2. CASE b = n
          <6>1. n - n = 0 /\ n < n + 1
            OBVIOUS
          <6>2. b \in Terms(k, n + 1) <=> k = 0
            BY <3>4, <5>2, <6>1, ResidueRun
          <6>3. b \notin lower /\ b \notin wrapped
            BY <5>2
          <6>4. b \in last <=> k = 0
            BY <5>2
          <6> HIDE DEF Terms, lower, wrapped, last
          <6> QED BY <6>2, <6>3, <6>4, SymDiffMember
        <5>3. CASE b > n
          <6>1. b \notin Terms(k, n + 1) /\ b \notin lower /\ b \notin wrapped /\ b \notin last
            <7>1. b \in Int /\ ~(b < n + 1) /\ ~(b < n) /\ b # n
              BY <1>1, <5>3
            <7> QED BY <7>1
          <6> HIDE DEF Terms, lower, wrapped, last
          <6> QED BY <6>1, SymDiffMember
        <5> QED BY <5>1, <5>2, <5>3 DEF FrameBit
      <4>2. /\ Terms(k, n + 1) \subseteq bits
            /\ SymDiff(SymDiff(lower, wrapped), last) \subseteq bits
        BY DEF SymDiff
      <4> HIDE DEF Terms, lower, wrapped, last
      <4> QED BY <4>1, <4>2
    <3>6. k > 0 => (Odd(lower) <=> k - 1 \in Remainder(bits)[n])
      <4>1. k > 0 => k - 1 \in 0 .. 15
        OBVIOUS
      <4> HIDE DEF Terms
      <4> QED BY <1>4, <4>1
    <3>7. k \in {0, 2, 15} => (Odd(wrapped) <=> 15 \in Remainder(bits)[n])
      <4> HIDE DEF Terms
      <4> QED BY <1>4
    <3>8. /\ ~(k > 0) => ~Odd(lower)
          /\ k \notin {0, 2, 15} => ~Odd(wrapped)
          /\ Odd(last) <=> k \in Incoming(bits, n)
      BY OddSmall DEF Incoming
    <3> HIDE DEF Terms, lower, wrapped, last
    <3>9. Odd(Terms(k, n + 1)) <=> ~(~(Odd(lower) <=> Odd(wrapped)) <=> Odd(last))
      BY <3>1, <3>5, OddSymDiff
    <3>10. k \in Remainder(bits)[n + 1] <=>
            ~(k \in TimesX(Remainder(bits)[n]) <=> k \in Incoming(bits, n))
      BY <2>2, SymDiffMember
    <3>11. k \in TimesX(Remainder(bits)[n]) <=> ~(Odd(lower) <=> Odd(wrapped))
      <4>1. k \in TimesX(Remainder(bits)[n]) <=>
              ~(k > 0 /\ k - 1 \in Remainder(bits)[n]
                  <=> 15 \in Remainder(bits)[n] /\ k \in {0, 2, 15})
        BY <2>2, TimesXMember
      <4> QED BY <3>6, <3>7, <3>8, <4>1
    <3> QED BY <3>8, <3>9, <3>10, <3>11
  <2> HIDE DEF Terms
  <2> QED BY <2>1, <2>3
<1>5. 0 .. 96 \subseteq Sums
  <2> HIDE DEF Sums
  <2> QED BY <1>3, <1>4, InductUpTo
<1> QED BY <1>5 DEF Contributing

LEMMA CodewordIffNoRemainder ==
  ASSUME NEW bits \in SUBSET FrameBit
  PROVE  Codeword(bits) <=> Remainder(bits)[96] = {}
<1>1. Remainder(bits)[96] \in Word
  <2>1. bits \in SUBSET Int /\ 96 \in 0 .. 96
    BY FrameBitFinite
  <2>2. Remainder(bits) \in [0 .. 96 -> Word]
    BY <2>1, RemainderRun
  <2> QED BY <2>1, <2>2
<1>2. ASSUME NEW k \in 0 .. 15
      PROVE  k \in Remainder(bits)[96] <=> Odd({b \in bits : k \in ResidueOfBit[b]})
  <2>1. \A b \in bits : b < 96 /\ 96 - 1 - b = 95 - b /\ ResidueOfBit[b] = Residue[95 - b]
    BY DEF FrameBit, ResidueOfBit
  <2>2. Contributing(bits, k, 96) = {b \in bits : k \in ResidueOfBit[b]}
    BY <2>1 DEF Contributing
  <2>3. 96 \in 0 .. 96
    OBVIOUS
  <2>4. k \in Remainder(bits)[96] <=> Odd(Contributing(bits, k, 96))
    BY <2>3, RemainderIsSumOfResidues
  <2> QED BY <2>2, <2>4, Zenon
<1>3. ASSUME NEW k \in 0 .. 15
      PROVE  Cardinality({b \in bits : k \in ResidueOfBit[b]}) % 2 = 0
               <=> ~Odd({b \in bits : k \in ResidueOfBit[b]})
  <2> DEFINE T == {b \in bits : k \in ResidueOfBit[b]}
  <2>1. T \subseteq FrameBit
    OBVIOUS
  <2> HIDE DEF T
  <2>2. Cardinality(T) \in Nat
    BY <2>1, FrameBitFinite, FS_CardinalityType
  <2>3. Cardinality(T) % 2 = 0 <=> ~Odd(T)
    BY <2>2 DEF Odd
  <2> QED BY <2>3 DEF T
<1>4. Codeword(bits) <=> \A k \in 0 .. 15 : k \notin Remainder(bits)[96]
  BY <1>2, <1>3, Zenon DEF Codeword
<1> QED BY <1>1, <1>4 DEF Word

-----------------------------------------------------------------------------
\* No power of x below the 96th is 1, so two bits never cancel out.  The polynomial
\* is (x + 1)(x^15 + x + 1); modulo the second factor x^15 is x + 1, and a power is
\* a short sum that moves up until its highest term, x^14, is reached.  Modulo the
\* whole polynomial it is that sum or differs from it by the factor, {0, 1, 15}.

Reduced(n, w) == Residue[n] = w \/ Residue[n] = SymDiff(w, {0, 1, 15})

\* How far the powers are known, and that none of them is 1.
Known(n, w) == Reduced(n, w) /\ \A i \in 1 .. n : Residue[i] # {0}

\* A sum times x^j.
Up(w, j) == {k + j : k \in w}

LEMMA UpMember ==
  ASSUME NEW w \in SUBSET Int, NEW j \in Int
  PROVE  /\ Up(w, j) \in SUBSET Int
         /\ \A k \in Int : k \in Up(w, j) <=> k - j \in w
BY DEF Up

LEMMA ReducedNotOne ==
  ASSUME NEW n \in 0 .. 95, NEW w \in SUBSET (0 .. 14), Reduced(n, w), w # {0}
  PROVE  Residue[n] # {0}
BY DEF Reduced, SymDiff

LEMMA ReducedStep ==
  ASSUME NEW n \in 0 .. 94, NEW w \in SUBSET (0 .. 14), Reduced(n, w)
  PROVE  /\ 14 \notin w => Reduced(n + 1, Up(w, 1))
         /\ 14 \in w => Reduced(n + 1, SymDiff(Up(w \ {14}, 1), {0, 1}))
<1> DEFINE q == {0, 1, 15}
<1>1. w \in Word /\ q \in Word
  BY DEF Word
<1>2. Residue[n + 1] = TimesX(Residue[n])
  BY ResidueRun
<1>3. TimesX(q) = q
  <2>1. TimesX(q) \in Word /\ \A k \in 0 .. 15 :
           k \in TimesX(q) <=> ~(k > 0 /\ k - 1 \in q <=> 15 \in q /\ k \in {0, 2, 15})
    BY <1>1, TimesXMember
  <2>2. \A k \in 0 .. 15 : k \in TimesX(q) <=> k \in q
    BY <2>1
  <2> QED BY <1>1, <2>1, <2>2 DEF Word
<1>4. TimesX(w) = Up(w, 1)
  BY DEF TimesX, Up
<1>5. TimesX(SymDiff(w, q)) = SymDiff(Up(w, 1), q)
  BY <1>1, <1>3, <1>4, TimesXSymDiff
<1>6. Residue[n + 1] = Up(w, 1) \/ Residue[n + 1] = SymDiff(Up(w, 1), q)
  <2>1. Residue[n] = w \/ Residue[n] = SymDiff(w, q)
    BY DEF Reduced
  <2> QED BY <1>2, <1>4, <1>5, <2>1
<1>7. ASSUME 14 \in w
      PROVE  /\ Up(w, 1) = SymDiff(SymDiff(Up(w \ {14}, 1), {0, 1}), q)
             /\ SymDiff(Up(w, 1), q) = SymDiff(Up(w \ {14}, 1), {0, 1})
  <2> DEFINE s == Up(w, 1)
             t == Up(w \ {14}, 1)
  <2>1. s = t \cup {15} /\ 15 \notin t
    BY <1>7 DEF Up
  <2> HIDE DEF s, t
  <2>2. s = SymDiff(SymDiff(t, {0, 1}), q) /\ SymDiff(s, q) = SymDiff(t, {0, 1})
    BY <2>1 DEF SymDiff
  <2> QED BY <2>2 DEF s, t
<1> QED BY <1>6, <1>7 DEF Reduced

LEMMA ReducedRun ==
  ASSUME NEW n \in 0 .. 95, NEW m \in 0 .. 14, NEW w \in SUBSET (0 .. m), w # {},
         Known(n, w), NEW len \in 0 .. 14 - m, n + len <= 95
  PROVE  Known(n + len, Up(w, len))
<1> DEFINE Runs == {j \in 0 .. len : Known(n + j, Up(w, j))}
<1>1. 0 \in Runs
  <2>1. Up(w, 0) = w /\ n + 0 = n
    <3>1. \A k \in w : k + 0 = k
      OBVIOUS
    <3>2. Up(w, 0) = w
      BY <3>1, Zenon DEF Up
    <3>3. n + 0 = n
      OBVIOUS
    <3> QED BY <3>2, <3>3
  <2> QED BY <2>1
<1>2. ASSUME NEW j \in 0 .. len - 1, j \in Runs PROVE j + 1 \in Runs
  <2>1. n + j \in 0 .. 94 /\ n + j + 1 = n + (j + 1) /\ n + (j + 1) \in 0 .. 95
    OBVIOUS
  <2>2. /\ Up(w, j) \in SUBSET (0 .. 14) /\ 14 \notin Up(w, j)
        /\ Up(w, j + 1) \in SUBSET (0 .. 14)
    BY DEF Up
  <2>3. Up(w, j + 1) = Up(Up(w, j), 1)
    <3>1. \A k \in Int : k \in Up(w, j + 1) <=> k - (j + 1) \in w
      BY UpMember
    <3>2. \A k \in Int : k \in Up(Up(w, j), 1) <=> k - 1 \in Up(w, j)
      BY UpMember
    <3>3. \A k \in Int : k - 1 \in Up(w, j) <=> k - 1 - j \in w
      BY UpMember
    <3>4. Up(w, j + 1) \in SUBSET Int /\ Up(Up(w, j), 1) \in SUBSET Int
      BY UpMember
    <3> QED BY <3>1, <3>2, <3>3, <3>4
  <2>4. Up(w, j + 1) # {0}
    <3>1. PICK k \in w : TRUE
      OBVIOUS
    <3>2. k + (j + 1) \in Up(w, j + 1) /\ k + (j + 1) # 0
      BY DEF Up
    <3> QED BY <3>2
  <2>5. Reduced(n + j, Up(w, j)) /\ \A i \in 1 .. n + j : Residue[i] # {0}
    BY <1>2 DEF Known
  <2>6. Reduced(n + (j + 1), Up(w, j + 1))
    BY <2>1, <2>2, <2>3, <2>5, ReducedStep
  <2>7. Residue[n + (j + 1)] # {0}
    BY <2>1, <2>2, <2>4, <2>6, ReducedNotOne
  <2>8. \A i \in 1 .. n + (j + 1) : i \in 1 .. n + j \/ i = n + (j + 1)
    OBVIOUS
  <2>9. Known(n + (j + 1), Up(w, j + 1))
    BY <2>5, <2>6, <2>7, <2>8 DEF Known
  <2> QED BY <2>9
<1>3. 0 .. len \subseteq Runs
  <2> HIDE DEF Runs
  <2> QED BY <1>1, <1>2, InductUpTo
<1>4. len \in 0 .. len
  OBVIOUS
<1> QED BY <1>3, <1>4

\* The sum w with the highest term x^m, moved past x^14.
Wraps(w, m, next) ==
  /\ w \in SUBSET (0 .. m) /\ m \in w
  /\ next \in SUBSET (0 .. 14) /\ next # {0}
  /\ \A k \in 0 .. 14 : k \in next <=> ~(k + m - 15 \in w <=> k \in {0, 1})

LEMMA ReducedWrap ==
  ASSUME NEW n \in 0 .. 95, NEW w, NEW m \in 0 .. 14, NEW next,
         Known(n, w), Wraps(w, m, next), n + 15 - m <= 95
  PROVE  Known(n + 15 - m, next)
<1> DEFINE len == 14 - m
           top == Up(w, len)
<1>0. /\ w \in SUBSET (0 .. m) /\ m \in w /\ w \in SUBSET Int
      /\ next \in SUBSET (0 .. 14) /\ next # {0}
      /\ \A k \in 0 .. 14 : k \in next <=> ~(k + m - 15 \in w <=> k \in {0, 1})
  BY DEF Wraps
<1>1. Known(n + len, top)
  <2>1. len \in 0 .. 14 - m /\ n + len <= 95 /\ w # {}
    BY <1>0
  <2> HIDE DEF len
  <2> QED BY <1>0, <2>1, ReducedRun
<1>2. n + len \in 0 .. 94 /\ n + 15 - m = (n + len) + 1
  OBVIOUS
<1>3. top \in SUBSET (0 .. 14) /\ 14 \in top
  BY <1>0 DEF Up
<1>4. next = SymDiff(Up(top \ {14}, 1), {0, 1})
  <2>1. top \ {14} \in SUBSET Int /\ top \in SUBSET Int /\ len \in Int
    BY <1>3
  <2>2. \A k \in Int : k \in Up(top \ {14}, 1) <=> k - 1 \in top /\ k - 1 # 14
    <3>1. \A k \in Int : k \in Up(top \ {14}, 1) <=> k - 1 \in top \ {14}
      BY <2>1, UpMember
    <3> QED BY <3>1
  <2>3. \A k \in Int : k - 1 \in top <=> k - 1 - len \in w
    BY <1>0, <2>1, UpMember
  <2>4. \A k \in Int : k - 1 - len = k + m - 15
    OBVIOUS
  <2>5. Up(top \ {14}, 1) \subseteq 0 .. 14
    BY <1>3 DEF Up
  <2> HIDE DEF top, len
  <2>6. \A k \in 0 .. 14 : k \in Up(top \ {14}, 1) <=> k + m - 15 \in w
    BY <2>2, <2>3, <2>4
  <2>7. \A k \in 0 .. 14 : k \in next <=> k \in SymDiff(Up(top \ {14}, 1), {0, 1})
    BY <1>0, <2>6, SymDiffMember
  <2>8. SymDiff(Up(top \ {14}, 1), {0, 1}) \subseteq 0 .. 14
    BY <2>5 DEF SymDiff
  <2> QED BY <1>0, <2>7, <2>8
<1> HIDE DEF top, len
<1>5. Reduced((n + len) + 1, next)
  BY <1>1, <1>2, <1>3, <1>4, ReducedStep DEF Known
<1>6. Residue[(n + len) + 1] # {0}
  BY <1>0, <1>2, <1>5, ReducedNotOne
<1>7. \A i \in 1 .. (n + len) + 1 : i \in 1 .. n + len \/ i = (n + len) + 1
  BY <1>2
<1> QED BY <1>1, <1>2, <1>5, <1>6, <1>7 DEF Known

LEMMA ResidueNeverOne ==
  \A n \in 1 .. 95 : Residue[n] # {0}
<1>1. Known(0, {0})
  BY ResidueRun DEF Known, Reduced
<1>2. Known(15, {0, 1})
  <2>1. Wraps({0}, 0, {0, 1})
    <3>1. /\ \A k \in {0} : k \in 0 .. 0
          /\ \A k \in {0, 1} : k \in 0 .. 14
          /\ 1 \in {0, 1} /\ 1 \notin {0}
      OBVIOUS
    <3>2. \A k \in 0 .. 14 : k + 0 - 15 \notin {0}
      OBVIOUS
    <3>3. \A k \in 0 .. 14 : k \in {0, 1} <=> k \in {0, 1}
      OBVIOUS
    <3> QED BY <3>1, <3>2, Zenon DEF Wraps
  <2>2. 0 + 15 - 0 = 15 /\ 0 \in 0 .. 95 /\ 0 \in 0 .. 14
    OBVIOUS
  <2> QED BY <1>1, <2>1, <2>2, ReducedWrap
<1>3. Known(29, {0, 1, 14})
  <2>1. Wraps({0, 1}, 1, {0, 1, 14})
    BY DEF Wraps
  <2>2. 15 + 15 - 1 = 29 /\ 15 \in 0 .. 95 /\ 1 \in 0 .. 14
    OBVIOUS
  <2> QED BY <1>2, <2>1, <2>2, ReducedWrap
<1>4. Known(30, {0, 2})
  <2>1. Wraps({0, 1, 14}, 14, {0, 2})
    BY DEF Wraps
  <2>2. 29 + 15 - 14 = 30 /\ 29 \in 0 .. 95 /\ 14 \in 0 .. 14
    OBVIOUS
  <2> QED BY <1>3, <2>1, <2>2, ReducedWrap
<1>5. Known(43, {0, 1, 13})
  <2>1. Wraps({0, 2}, 2, {0, 1, 13})
    BY DEF Wraps
  <2>2. 30 + 15 - 2 = 43 /\ 30 \in 0 .. 95 /\ 2 \in 0 .. 14
    OBVIOUS
  <2> QED BY <1>4, <2>1, <2>2, ReducedWrap
<1>6. Known(45, {0, 1, 2, 3})
  <2>1. Wraps({0, 1, 13}, 13, {0, 1, 2, 3})
    BY DEF Wraps
  <2>2. 43 + 15 - 13 = 45 /\ 43 \in 0 .. 95 /\ 13 \in 0 .. 14
    OBVIOUS
  <2> QED BY <1>5, <2>1, <2>2, ReducedWrap
<1>7. Known(57, {0, 1, 12, 13, 14})
  <2>1. Wraps({0, 1, 2, 3}, 3, {0, 1, 12, 13, 14})
    BY DEF Wraps
  <2>2. 45 + 15 - 3 = 57 /\ 45 \in 0 .. 95 /\ 3 \in 0 .. 14
    OBVIOUS
  <2> QED BY <1>6, <2>1, <2>2, ReducedWrap
<1>8. Known(58, {0, 2, 13, 14})
  <2>1. Wraps({0, 1, 12, 13, 14}, 14, {0, 2, 13, 14})
    BY DEF Wraps
  <2>2. 57 + 15 - 14 = 58 /\ 57 \in 0 .. 95 /\ 14 \in 0 .. 14
    OBVIOUS
  <2> QED BY <1>7, <2>1, <2>2, ReducedWrap
<1>9. Known(59, {0, 3, 14})
  <2>1. Wraps({0, 2, 13, 14}, 14, {0, 3, 14})
    BY DEF Wraps
  <2>2. 58 + 15 - 14 = 59 /\ 58 \in 0 .. 95 /\ 14 \in 0 .. 14
    OBVIOUS
  <2> QED BY <1>8, <2>1, <2>2, ReducedWrap
<1>10. Known(60, {0, 4})
  <2>1. Wraps({0, 3, 14}, 14, {0, 4})
    BY DEF Wraps
  <2>2. 59 + 15 - 14 = 60 /\ 59 \in 0 .. 95 /\ 14 \in 0 .. 14
    OBVIOUS
  <2> QED BY <1>9, <2>1, <2>2, ReducedWrap
<1>11. Known(71, {0, 1, 11})
  <2>1. Wraps({0, 4}, 4, {0, 1, 11})
    BY DEF Wraps
  <2>2. 60 + 15 - 4 = 71 /\ 60 \in 0 .. 95 /\ 4 \in 0 .. 14
    OBVIOUS
  <2> QED BY <1>10, <2>1, <2>2, ReducedWrap
<1>12. Known(75, {0, 1, 4, 5})
  <2>1. Wraps({0, 1, 11}, 11, {0, 1, 4, 5})
    BY DEF Wraps
  <2>2. 71 + 15 - 11 = 75 /\ 71 \in 0 .. 95 /\ 11 \in 0 .. 14
    OBVIOUS
  <2> QED BY <1>11, <2>1, <2>2, ReducedWrap
<1>13. Known(85, {0, 1, 10, 11, 14})
  <2>1. Wraps({0, 1, 4, 5}, 5, {0, 1, 10, 11, 14})
    BY DEF Wraps
  <2>2. 75 + 15 - 5 = 85 /\ 75 \in 0 .. 95 /\ 5 \in 0 .. 14
    OBVIOUS
  <2> QED BY <1>12, <2>1, <2>2, ReducedWrap
<1>14. Known(86, {0, 2, 11, 12})
  <2>1. Wraps({0, 1, 10, 11, 14}, 14, {0, 2, 11, 12})
    BY DEF Wraps
  <2>2. 85 + 15 - 14 = 86 /\ 85 \in 0 .. 95 /\ 14 \in 0 .. 14
    OBVIOUS
  <2> QED BY <1>13, <2>1, <2>2, ReducedWrap
<1>15. Known(89, {0, 1, 3, 5, 14})
  <2>1. Wraps({0, 2, 11, 12}, 12, {0, 1, 3, 5, 14})
    BY DEF Wraps
  <2>2. 86 + 15 - 12 = 89 /\ 86 \in 0 .. 95 /\ 12 \in 0 .. 14
    OBVIOUS
  <2> QED BY <1>14, <2>1, <2>2, ReducedWrap
<1>16. Known(90, {0, 2, 4, 6})
  <2>1. Wraps({0, 1, 3, 5, 14}, 14, {0, 2, 4, 6})
    BY DEF Wraps
  <2>2. 89 + 15 - 14 = 90 /\ 89 \in 0 .. 95 /\ 14 \in 0 .. 14
    OBVIOUS
  <2> QED BY <1>15, <2>1, <2>2, ReducedWrap
<1>17. Known(95, Up({0, 2, 4, 6}, 5))
  <2> DEFINE w == {0, 2, 4, 6}
  <2>1. 90 \in 0 .. 95 /\ 6 \in 0 .. 14 /\ w \in SUBSET (0 .. 6) /\ w # {}
    OBVIOUS
  <2>2. 5 \in 0 .. 14 - 6 /\ 90 + 5 <= 95 /\ 90 + 5 = 95
    OBVIOUS
  <2>3. Known(90, w)
    BY <1>16
  <2> HIDE DEF w
  <2>4. Known(90 + 5, Up(w, 5))
    BY <2>1, <2>2, <2>3, ReducedRun
  <2> QED BY <2>2, <2>4 DEF w
<1> QED BY <1>17 DEF Known

-----------------------------------------------------------------------------
\* What the register never misses: damage of an odd number of bits, of two bits,
\* and of bits that lie within sixteen.

LEMMA OddPair ==
  ASSUME NEW a, NEW b, a # b
  PROVE  IsFiniteSet({a, b}) /\ ~Odd({a, b})
<1>1. {a, b} = SymDiff({a}, {b})
  BY DEF SymDiff
<1>2. IsFiniteSet({a}) /\ IsFiniteSet({b})
  BY FS_Singleton
<1>3. Odd({a}) /\ Odd({b})
  BY OddSmall
<1>4. IsFiniteSet(SymDiff({a}, {b})) /\ ~Odd(SymDiff({a}, {b}))
  BY <1>2, <1>3, OddSymDiff
<1> QED BY <1>1, <1>4, Zenon

LEMMA WordFinite ==
  ASSUME NEW w \in Word
  PROVE  IsFiniteSet(w)
<1>1. w \subseteq FrameBit
  BY DEF Word, FrameBit
<1> QED BY <1>1, FrameBitFinite

LEMMA OddTimesX ==
  ASSUME NEW w \in Word
  PROVE  Odd(TimesX(w)) <=> Odd(w)
<1> DEFINE shifted == {k + 1 : k \in w}
           f == [k \in w |-> k + 1]
<1>1. IsFiniteSet(w)
  BY WordFinite
<1>2. f \in Bijection(w, shifted)
  BY DEF Bijection, Injection, Surjection, IsInjective, Word
<1>3. IsFiniteSet(shifted) /\ Cardinality(shifted) = Cardinality(w)
  <2>1. ExistsBijection(w, shifted)
    BY <1>2 DEF ExistsBijection
  <2> HIDE DEF shifted
  <2> QED BY <1>1, <2>1, FS_Bijection
<1>4. Odd(shifted) <=> Odd(w)
  <2> HIDE DEF shifted
  <2> QED BY <1>3 DEF Odd
<1>5. CASE 15 \in w
  <2>1. TimesX(w) = SymDiff(shifted, SymDiff({0, 2}, {15, 16}))
    <3>1. 16 \in shifted
      BY <1>5
    <3>2. TimesX(w) = SymDiff(shifted \ {16}, {15, 2, 0})
      BY <3>1 DEF TimesX
    <3> HIDE DEF shifted
    <3> QED BY <3>1, <3>2 DEF SymDiff
  <2>2. IsFiniteSet({0, 2}) /\ IsFiniteSet({15, 16}) /\ ~Odd({0, 2}) /\ ~Odd({15, 16})
    <3>1. 0 # 2 /\ 15 # 16
      OBVIOUS
    <3> QED BY <3>1, OddPair, Zenon
  <2>3. IsFiniteSet(SymDiff({0, 2}, {15, 16})) /\ ~Odd(SymDiff({0, 2}, {15, 16}))
    BY <2>2, OddSymDiff
  <2> HIDE DEF shifted
  <2> QED BY <1>3, <1>4, <2>1, <2>3, OddSymDiff
<1>6. CASE 15 \notin w
  <2>1. TimesX(w) = shifted
    <3>1. 16 \notin shifted
      BY <1>6 DEF Word
    <3> QED BY <3>1 DEF TimesX
  <2> QED BY <1>4, <2>1
<1> QED BY <1>5, <1>6

LEMMA OddRemainder ==
  ASSUME NEW D \in SUBSET FrameBit
  PROVE  Odd(Remainder(D)[96]) <=> Odd(D)
<1> DEFINE until(n) == D \cap (0 .. n - 1)
           Same == {n \in 0 .. 96 : Odd(Remainder(D)[n]) <=> Odd(until(n))}
<1>1. D \in SUBSET Int
  BY FrameBitFinite
<1>2. 0 \in Same
  <2>1. until(0) = {} /\ Remainder(D)[0] = {}
    BY <1>1, RemainderRun
  <2> QED BY <2>1
<1>3. ASSUME NEW n \in 0 .. 96 - 1, n \in Same PROVE n + 1 \in Same
  <2>1. n \in 0 .. 95 /\ n + 1 \in 0 .. 96 /\ n \in 0 .. 96
    OBVIOUS
  <2>2. /\ Remainder(D)[n] \in Word
        /\ Remainder(D)[n + 1] = SymDiff(TimesX(Remainder(D)[n]), Incoming(D, n))
    BY <1>1, <2>1, RemainderRun
  <2>3. IsFiniteSet(TimesX(Remainder(D)[n])) /\ IsFiniteSet(Incoming(D, n))
    <3>1. TimesX(Remainder(D)[n]) \in Word /\ Incoming(D, n) \in Word
      BY <2>2, TimesXMember DEF Incoming, Word
    <3> QED BY <3>1, WordFinite
  <2> DEFINE last == IF n \in D THEN {n} ELSE {}
  <2>4. until(n + 1) = SymDiff(until(n), last)
    BY <1>1 DEF SymDiff
  <2>5. IsFiniteSet(until(n)) /\ IsFiniteSet(last)
    BY FrameBitFinite
  <2>6. Odd(last) <=> Odd(Incoming(D, n))
    BY OddSmall DEF Incoming
  <2>7. Odd(Remainder(D)[n]) <=> Odd(until(n))
    BY <1>3
  <2> HIDE DEF until, last
  <2>8. Odd(Remainder(D)[n + 1])
          <=> ~(Odd(TimesX(Remainder(D)[n])) <=> Odd(Incoming(D, n)))
    BY <2>2, <2>3, OddSymDiff
  <2>9. Odd(until(n + 1)) <=> ~(Odd(until(n)) <=> Odd(last))
    BY <2>4, <2>5, OddSymDiff
  <2> QED BY <2>1, <2>2, <2>6, <2>7, <2>8, <2>9, OddTimesX
<1>4. 0 .. 96 \subseteq Same
  <2> HIDE DEF Same
  <2> QED BY <1>2, <1>3, InductUpTo
<1>5. until(96) = D
  <2>1. \A b \in D : b \in 0 .. 96 - 1
    BY DEF FrameBit
  <2> QED BY <2>1
<1>6. 96 \in Same
  BY <1>4
<1> QED BY <1>5, <1>6

LEMMA OddDamageShows ==
  ASSUME NEW D \in SUBSET FrameBit, Odd(D)
  PROVE  Remainder(D)[96] # {}
BY OddRemainder, OddSmall

LEMMA BurstShows ==
  ASSUME NEW D \in SUBSET FrameBit, D # {}, \A a, b \in D : a - b <= 15
  PROVE  Remainder(D)[96] # {}
<1>1. D \in SUBSET Nat /\ D \in SUBSET Int
  BY DEF FrameBit
<1>2. PICK first \in D : \A b \in D : first <= b
  BY <1>1, LeastMember
<1> DEFINE m == IF first <= 80 THEN first ELSE 80
<1>3. /\ m \in 0 .. 80 /\ first - m \in 0 .. 15
      /\ \A b \in D : b >= m /\ b <= m + 15
  BY <1>2 DEF FrameBit
<1> HIDE DEF m
<1>4. D \cap (0 .. m - 1) = {} /\ D \cap (m + 16 .. 95) = {}
  BY <1>1, <1>3
<1>5. Remainder(D)[m + 16] = {k \in 0 .. 15 : m + 15 - k \in D}
  BY <1>1, <1>3, <1>4, RemainderWord
<1>6. Remainder(D)[m + 16] # {}
  <2>1. /\ m + 15 - first \in 0 .. 15
        /\ m + 15 - (m + 15 - first) = first
    BY <1>1, <1>3
  <2> QED BY <1>2, <1>5, <2>1
<1>7. m + 16 \in 0 .. 96
  BY <1>3
<1> QED BY <1>1, <1>4, <1>6, <1>7, RemainderBehind

LEMMA PairShows ==
  ASSUME NEW a \in FrameBit, NEW b \in FrameBit, a < b
  PROVE  Remainder({a, b})[96] # {}
<1> DEFINE D == {a, b}
           Alone == {j \in 0 .. b - (a + 1) : Remainder(D)[(a + 1) + j] = Residue[j]}
<1>1. D \in SUBSET Int /\ a \in 0 .. 95 /\ b \in 0 .. 95
  BY DEF FrameBit
<1>2. 0 \in Alone
  <2>1. D \cap (0 .. a - 1) = {} /\ a \in 0 .. 96 /\ a \in 0 .. a
    BY <1>1
  <2>2. Remainder(D)[a] = {}
    BY <1>1, <2>1, RemainderBefore
  <2>3. Remainder(D)[a + 1] = SymDiff(TimesX({}), Incoming(D, a))
    BY <1>1, <2>2, RemainderRun
  <2>4. Remainder(D)[a + 1] = {0}
    BY <2>3, TimesXEmpty DEF Incoming, SymDiff
  <2>5. (a + 1) + 0 = a + 1 /\ 0 \in 0 .. b - (a + 1)
    BY <1>1
  <2> QED BY <2>4, <2>5, ResidueRun
<1>3. ASSUME NEW j \in 0 .. (b - (a + 1)) - 1, j \in Alone PROVE j + 1 \in Alone
  <2>1. /\ (a + 1) + j \in 0 .. 95 /\ (a + 1) + j \notin D
        /\ ((a + 1) + j) + 1 = (a + 1) + (j + 1)
        /\ j + 1 \in 1 .. 95 /\ (j + 1) - 1 = j /\ j + 1 \in 0 .. b - (a + 1)
    BY <1>1
  <2>2. Remainder(D)[((a + 1) + j) + 1]
          = SymDiff(TimesX(Remainder(D)[(a + 1) + j]), Incoming(D, (a + 1) + j))
    BY <1>1, <2>1, RemainderRun
  <2>3. Remainder(D)[((a + 1) + j) + 1] = TimesX(Remainder(D)[(a + 1) + j])
    BY <2>1, <2>2 DEF Incoming, SymDiff
  <2>4. Residue[j + 1] = TimesX(Residue[j])
    BY <2>1, ResidueRun
  <2>5. Remainder(D)[(a + 1) + j] = Residue[j]
    BY <1>3
  <2>6. Remainder(D)[(a + 1) + (j + 1)] = Residue[j + 1]
    BY <2>1, <2>3, <2>4, <2>5
  <2> QED BY <2>1, <2>6
<1>4. b - (a + 1) \in Nat
  BY <1>1
<1>5. 0 .. b - (a + 1) \subseteq Alone
  <2> HIDE DEF Alone
  <2> QED BY <1>2, <1>3, <1>4, InductUpTo
<1>6. Remainder(D)[b] = Residue[b - (a + 1)]
  <2>1. b - (a + 1) \in 0 .. b - (a + 1) /\ (a + 1) + (b - (a + 1)) = b
    BY <1>1
  <2> QED BY <1>5, <2>1
<1>7. Remainder(D)[b + 1] # {}
  <2>1. /\ b - a \in 1 .. 95 /\ (b - a) - 1 = b - (a + 1)
    BY <1>1
  <2>2. Remainder(D)[b + 1] = SymDiff(TimesX(Remainder(D)[b]), Incoming(D, b))
    BY <1>1, RemainderRun
  <2>3. TimesX(Remainder(D)[b]) = Residue[b - a]
    BY <1>6, <2>1, ResidueRun
  <2>4. Residue[b - a] # {0}
    BY <2>1, ResidueNeverOne
  <2>5. Incoming(D, b) = {0}
    BY DEF Incoming
  <2> QED BY <2>2, <2>3, <2>4, <2>5 DEF SymDiff
<1>8. b + 1 \in 0 .. 96 /\ D \cap (b + 1 .. 95) = {}
  BY <1>1
<1> HIDE DEF D
<1>9. Remainder(D)[96] # {}
  BY <1>1, <1>7, <1>8, RemainderBehind
<1> QED BY <1>9 DEF D

-----------------------------------------------------------------------------
\* Sealing and validating agree on the checksum and on its byte order.
LEMMA SealedIsValid ==
  ASSUME NEW content \in SUBSET ContentBit, NEW frame, frame = Seal(content)
  PROVE  /\ frame \in SUBSET FrameBit
         /\ frame \cap ContentBit = content
         /\ Remainder(frame)[96] = {}
<1>1. content \in SUBSET Int /\ content \cap ContentBit = content
  <2>1. \A b \in content : b \in ContentBit /\ b \in Int
    BY DEF ContentBit
  <2> QED BY <2>1
<1>2. Calculate(content, 10) \in Word
  BY <1>1, CalculateIsRemainder
<1> DEFINE crc == Calculate(content, 10)
           trailer == {80 + k : k \in crc}
<1>3. trailer \subseteq 80 .. 95
  BY <1>2 DEF Word
<1>4. frame = content \cup trailer
  BY DEF Seal
<1>5. frame \in SUBSET FrameBit /\ frame \in SUBSET Int
  <2>1. \A b \in 80 .. 95 : b \in FrameBit
    BY DEF FrameBit
  <2>2. \A b \in content : b \in FrameBit
    BY DEF FrameBit, ContentBit
  <2> HIDE DEF trailer
  <2>3. frame \subseteq FrameBit
    BY <1>3, <1>4, <2>1, <2>2
  <2> QED BY <2>3, FrameBitFinite
<1>6. frame \cap ContentBit = content
  <2>1. \A b \in 80 .. 95 : b \notin ContentBit
    BY DEF ContentBit
  <2> HIDE DEF trailer
  <2> QED BY <1>1, <1>3, <1>4, <2>1
<1>7. Calculate(frame, 10) = crc
  <2>1. /\ Calculate(frame, 10) \in Word
        /\ Mirror(Calculate(frame, 10)) = Remainder(frame \cap ContentBit)[96]
    BY <1>5, CalculateIsRemainder
  <2>2. Mirror(crc) = Remainder(content)[96]
    BY <1>1, CalculateIsRemainder
  <2>3. Mirror(Calculate(frame, 10)) = Mirror(crc)
    BY <1>6, <2>1, <2>2
  <2> HIDE DEF crc
  <2> QED BY <1>2, <2>1, <2>3, MirrorSymDiff DEF crc
<1>8. {k - 80 : k \in frame \cap (80 .. 95)} = crc
  <2>1. frame \cap (80 .. 95) = trailer
    BY <1>1, <1>3, <1>4 DEF ContentBit
  <2>2. crc \subseteq Int
    BY <1>2 DEF Word
  <2> HIDE DEF crc
  <2>3. \A k \in crc : 80 + k \in trailer /\ (80 + k) - 80 = k
    BY <2>2
  <2>4. \A b \in trailer : b - 80 \in crc
    BY <2>2
  <2> HIDE DEF trailer
  <2>5. {k - 80 : k \in trailer} = crc
    BY <2>3, <2>4
  <2> QED BY <2>1, <2>5
<1> DEFINE p == [length |-> 12, bits |-> frame]
<1>9. ValidateFrame(p)
  BY <1>7, <1>8 DEF ValidateFrame
<1>10. p.length = 12 /\ p.bits = frame /\ p.bits \in SUBSET FrameBit
  BY <1>5
<1> HIDE DEF p
<1>11. Remainder(p.bits)[96] = {}
  BY <1>9, <1>10, ValidIffNoRemainder
<1> QED BY <1>5, <1>6, <1>10, <1>11

\* validateFrame accepts a payload of bytes iff it is a codeword of CRC-16/ARC.
THEOREM ValidateFrameIsCodeword ==
  ASSUME NEW p \in Payload
  PROVE  ValidateFrame(p) <=> p.length = 12 /\ Codeword(p.bits)
<1>1. p.bits \in SUBSET FrameBit
  BY DEF Payload
<1>2. CASE p.length = 12
  BY <1>1, <1>2, ValidIffNoRemainder, CodewordIffNoRemainder
<1>3. CASE p.length # 12
  BY <1>3 DEF ValidateFrame
<1> QED BY <1>2, <1>3

\* The bits of a field lie in the field.
LEMMA BitsOfField ==
  ASSUME NEW n, NEW first \in Nat, NEW width \in Nat
  PROVE  BitsOf(n, first, width) \subseteq first .. first + width - 1
BY DEF BitsOf

\* A number that a field can hold is used up when all its bits are taken.
LEMMA HalvedToZero ==
  ASSUME NEW n \in Nat
  PROVE  /\ n <= 1 => Halved(n, 1)[1] = 0
         /\ n <= 31 => Halved(n, 5)[5] = 0
         /\ n <= 255 => Halved(n, 8)[8] = 0
         /\ n <= 1023 => Halved(n, 10)[10] = 0
         /\ n <= 65535 => Halved(n, 16)[16] = 0
<1>1. ASSUME NEW width \in Nat, NEW halved, halved = Halved(n, width)
      PROVE  halved[0] = n /\ \A i \in 1 .. width : halved[i] = halved[i - 1] \div 2
  BY <1>1, HalvedRuns
<1>2. ASSUME n <= 1 PROVE Halved(n, 1)[1] = 0
  <2> DEFINE halved == Halved(n, 1)
  <2>1. 1 \in Nat /\ halved = Halved(n, 1)
    OBVIOUS
  <2> HIDE DEF halved
  <2>2. halved[0] = n /\ \A i \in 1 .. 1 : halved[i] = halved[i - 1] \div 2
    BY <1>1, <2>1
  <2>3. halved[1] = 0
    BY <1>2, <2>2
  <2> QED BY <2>1, <2>3
<1>3. ASSUME n <= 31 PROVE Halved(n, 5)[5] = 0
  <2> DEFINE halved == Halved(n, 5)
  <2>1. 5 \in Nat /\ halved = Halved(n, 5)
    OBVIOUS
  <2> HIDE DEF halved
  <2>2. halved[0] = n /\ \A i \in 1 .. 5 : halved[i] = halved[i - 1] \div 2
    BY <1>1, <2>1
  <2>3. halved[5] = 0
    BY <1>3, <2>2
  <2> QED BY <2>1, <2>3
<1>4. ASSUME n <= 255 PROVE Halved(n, 8)[8] = 0
  <2> DEFINE halved == Halved(n, 8)
  <2>1. 8 \in Nat /\ halved = Halved(n, 8)
    OBVIOUS
  <2> HIDE DEF halved
  <2>2. halved[0] = n /\ \A i \in 1 .. 8 : halved[i] = halved[i - 1] \div 2
    BY <1>1, <2>1
  <2>3. halved[8] = 0
    BY <1>4, <2>2
  <2> QED BY <2>1, <2>3
<1>5. ASSUME n <= 1023 PROVE Halved(n, 10)[10] = 0
  <2> DEFINE halved == Halved(n, 10)
  <2>1. 10 \in Nat /\ halved = Halved(n, 10)
    OBVIOUS
  <2> HIDE DEF halved
  <2>2. halved[0] = n /\ \A i \in 1 .. 10 : halved[i] = halved[i - 1] \div 2
    BY <1>1, <2>1
  <2>3. halved[10] = 0
    BY <1>5, <2>2
  <2> QED BY <2>1, <2>3
<1>6. ASSUME n <= 65535 PROVE Halved(n, 16)[16] = 0
  <2> DEFINE halved == Halved(n, 16)
  <2>1. 16 \in Nat /\ halved = Halved(n, 16)
    OBVIOUS
  <2> HIDE DEF halved
  <2>2. halved[0] = n /\ \A i \in 1 .. 16 : halved[i] = halved[i - 1] \div 2
    BY <1>1, <2>1
  <2>3. halved[16] = 0
    BY <1>6, <2>2
  <2> QED BY <2>1, <2>3
<1> QED BY <1>2, <1>3, <1>4, <1>5, <1>6
=============================================================================
