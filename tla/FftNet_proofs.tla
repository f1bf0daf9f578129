--------------------------- MODULE FftNet_proofs ---------------------------
(***************************************************************************)
(* Proofs about FftNet: for every number of stages the butterflies of the  *)
(* first transform add up to the discrete Fourier transform.               *)
(***************************************************************************)
EXTENDS FftNet, Numbers_proofs

-----------------------------------------------------------------------------
(* Reversing bits *)

(* The function that Reversed and BitReverse define recursively, for the   *)
(* lowest n bits of k.  It exists, so their CHOOSE finds it.               *)
Reverses(rev, k, n) ==
  rev = [i \in 0 .. n |-> IF i = 0 THEN 0 ELSE 2 * rev[i - 1] + Bit(k, i - 1)]

LEMMA ReversesExists ==
  ASSUME NEW k, NEW n \in Nat
  PROVE  \E rev : Reverses(rev, k, n)
  <1> DEFINE S == {m \in Nat : \E rev : Reverses(rev, k, m)}
  <1>1. 0 \in S
    <2> DEFINE f == [i \in 0 .. 0 |-> 0]
    <2>1. f = [i \in 0 .. 0 |-> IF i = 0 THEN 0 ELSE 2 * f[i - 1] + Bit(k, i - 1)]
      OBVIOUS
    <2> QED
      BY <2>1 DEF Reverses
  <1>2. \A m \in Nat : m \in S => m + 1 \in S
    <2>1. ASSUME NEW m \in Nat, NEW f, Reverses(f, k, m)
          PROVE  \E g : Reverses(g, k, m + 1)
      <3> DEFINE g == [i \in 0 .. m + 1 |-> IF i = m + 1 THEN 2 * f[m] + Bit(k, m) ELSE f[i]]
                 h == [i \in 0 .. m + 1 |-> IF i = 0 THEN 0 ELSE 2 * g[i - 1] + Bit(k, i - 1)]
      <3>1. \A i \in 0 .. m : f[i] = IF i = 0 THEN 0 ELSE 2 * f[i - 1] + Bit(k, i - 1)
        BY <2>1 DEF Reverses
      <3>2. ASSUME NEW i \in 0 .. m + 1 PROVE g[i] = h[i]
        <4>1. CASE i = m + 1
          <5>1. i # 0 /\ i - 1 = m /\ m \in 0 .. m + 1 /\ m # m + 1
            BY <4>1
          <5> QED
            BY <4>1, <5>1
        <4>2. CASE i # m + 1 /\ i # 0
          <5>1. i \in 0 .. m /\ i - 1 \in 0 .. m + 1 /\ i - 1 # m + 1
            BY <4>2
          <5> QED
            BY <3>1, <4>2, <5>1
        <4>3. CASE i = 0
          <5>1. 0 \in 0 .. m /\ 0 # m + 1
            OBVIOUS
          <5> QED
            BY <3>1, <4>3, <5>1
        <4> QED
          BY <4>1, <4>2, <4>3
      <3>3. g = h
        BY <3>2
      <3>4. Reverses(g, k, m + 1)
        BY <3>3, Zenon DEF Reverses
      <3> QED
        BY <3>4
    <2>2. \A m \in Nat : m + 1 \in Nat
      OBVIOUS
    <2> QED
      BY <2>1, <2>2
  <1> HIDE DEF S
  <1>3. n \in S
    BY <1>1, <1>2, Inductive
  <1> QED
    BY <1>3 DEF S

LEMMA ReversedSteps ==
  ASSUME NEW k, NEW bits \in Nat
  PROVE  \E rev : Reverses(rev, k, bits) /\ Reversed(k, bits) = rev[bits]
  <1>1. \E rev : rev = [i \in 0 .. bits |-> IF i = 0 THEN 0 ELSE 2 * rev[i - 1] + Bit(k, i - 1)]
    BY ReversesExists DEF Reverses
  <1> QED
    BY <1>1, Zenon DEF Reversed, Reverses

LEMMA BitReverseIs ==
  ASSUME NEW k
  PROVE  BitReverse(k) = Reversed(k, LOGN - 1)
  BY Zenon DEF BitReverse, Reversed

(* Numbers of different length are reversed alike as far as both go.       *)
LEMMA SameReversed ==
  ASSUME NEW k, NEW n \in Nat, NEW rev, Reverses(rev, k, n), NEW m \in 0 .. n
  PROVE  rev[m] = Reversed(k, m)
  <1>1. PICK r : Reverses(r, k, m) /\ Reversed(k, m) = r[m]
    <2>1. m \in Nat
      OBVIOUS
    <2> QED
      BY <2>1, ReversedSteps
  <1> DEFINE S == {i \in Nat : i <= m => rev[i] = r[i]}
  <1>2. /\ \A i \in 0 .. n : rev[i] = IF i = 0 THEN 0 ELSE 2 * rev[i - 1] + Bit(k, i - 1)
        /\ \A i \in 0 .. m : r[i] = IF i = 0 THEN 0 ELSE 2 * r[i - 1] + Bit(k, i - 1)
    BY <1>1 DEF Reverses
  <1>3. 0 \in S
    BY <1>2
  <1>4. \A i \in Nat : i \in S => i + 1 \in S
    <2>1. ASSUME NEW i \in Nat, i \in S, i + 1 <= m PROVE rev[i + 1] = r[i + 1]
      <3>1. i + 1 \in 0 .. n /\ i + 1 \in 0 .. m /\ i + 1 # 0 /\ (i + 1) - 1 = i /\ i <= m
        BY <2>1
      <3>2. rev[i] = r[i]
        BY <2>1, <3>1
      <3> QED
        BY <1>2, <3>1, <3>2
    <2>2. \A i \in Nat : i + 1 \in Nat
      OBVIOUS
    <2> QED
      BY <2>1, <2>2
  <1> HIDE DEF S
  <1>5. m \in S
    BY <1>3, <1>4, Inductive
  <1> QED
    BY <1>1, <1>5 DEF S

(* What the definition says: the bits come in from below.                  *)
LEMMA ReversedStep ==
  ASSUME NEW k
  PROVE  /\ Reversed(k, 0) = 0
         /\ \A n \in Nat : Reversed(k, n + 1) = 2 * Reversed(k, n) + Bit(k, n)
  <1>1. Reversed(k, 0) = 0
    <2>1. PICK rev : Reverses(rev, k, 0) /\ Reversed(k, 0) = rev[0]
      BY ReversedSteps
    <2> QED
      BY <2>1 DEF Reverses
  <1>2. ASSUME NEW n \in Nat PROVE Reversed(k, n + 1) = 2 * Reversed(k, n) + Bit(k, n)
    <2>0. n + 1 \in Nat /\ n \in 0 .. n + 1 /\ n + 1 \in 0 .. n + 1 /\ n + 1 # 0 /\ (n + 1) - 1 = n
      OBVIOUS
    <2>1. PICK rev : Reverses(rev, k, n + 1) /\ Reversed(k, n + 1) = rev[n + 1]
      BY <2>0, ReversedSteps
    <2>2. rev[n] = Reversed(k, n)
      BY <2>0, <2>1, SameReversed
    <2>3. rev[n + 1] = 2 * rev[n] + Bit(k, n)
      BY <2>0, <2>1 DEF Reverses
    <2> QED
      BY <2>1, <2>2, <2>3
  <1> QED
    BY <1>1, <1>2

LEMMA Powers ==
  ASSUME NEW n \in Nat
  PROVE  2 ^ n \in Nat \ {0} /\ 2 ^ (n + 1) = 2 * 2 ^ n /\ 2 ^ (n + 1) \in Nat \ {0}
  <1>1. 2 ^ n \in Nat \ {0}
    <2>1. n \in 0 .. n
      OBVIOUS
    <2> QED
      BY <2>1, PowerSplits
  <1> QED
    BY <1>1, Doubling

LEMMA BitType ==
  ASSUME NEW k \in Nat, NEW n \in Nat
  PROVE  Bit(k, n) \in 0 .. 1
  <1>1. k \div (2 ^ n) \in Nat
    BY Powers, Divides
  <1> QED
    BY <1>1 DEF Bit

LEMMA ReversedBelow ==
  ASSUME NEW k \in Nat, NEW n \in Nat
  PROVE  Reversed(k, n) \in 0 .. 2 ^ n - 1
  <1> DEFINE S == {m \in Nat : Reversed(k, m) \in 0 .. 2 ^ m - 1}
  <1>1. 0 \in S
    BY ReversedStep
  <1>2. \A m \in Nat : m \in S => m + 1 \in S
    <2>1. ASSUME NEW m \in Nat, m \in S PROVE Reversed(k, m + 1) \in 0 .. 2 ^ (m + 1) - 1
      <3>1. Reversed(k, m + 1) = 2 * Reversed(k, m) + Bit(k, m)
        BY ReversedStep
      <3>2. Bit(k, m) \in 0 .. 1 /\ 2 ^ (m + 1) = 2 * 2 ^ m /\ 2 ^ m \in Nat
        BY BitType, Powers
      <3>3. Reversed(k, m) \in 0 .. 2 ^ m - 1
        BY <2>1
      <3> QED
        BY <3>1, <3>2, <3>3
    <2>2. \A m \in Nat : m + 1 \in Nat
      OBVIOUS
    <2> QED
      BY <2>1, <2>2
  <1> HIDE DEF S
  <1>3. n \in S
    BY <1>1, <1>2, Inductive
  <1> QED
    BY <1>3 DEF S

(* The lowest bit ends up highest.                                         *)
LEMMA LowestBit ==
  ASSUME NEW h \in Nat, NEW e \in 0 .. 1, NEW s \in Nat
  PROVE  Reversed(2 * h + e, s + 1) = e * 2 ^ s + Reversed(h, s)
  <1> DEFINE k == 2 * h + e
             S == {m \in Nat : Reversed(k, m + 1) = e * 2 ^ m + Reversed(h, m)}
  <1>0. k \in Nat /\ k \div 2 = h /\ k % 2 = e
    OBVIOUS
  <1> HIDE DEF k
  <1>1. 0 \in S
    <2>1. 2 ^ 0 = 1 /\ 0 + 1 \in Nat /\ k \div 1 = k
      BY <1>0
    <2>2. Bit(k, 0) = e
      BY <1>0, <2>1 DEF Bit
    <2>3. Reversed(k, 0 + 1) = 2 * 0 + Bit(k, 0) /\ Reversed(h, 0) = 0
      BY ReversedStep
    <2>4. Reversed(k, 0 + 1) = e * 2 ^ 0 + Reversed(h, 0)
      BY <2>1, <2>2, <2>3
    <2> QED
      BY <2>4
  <1>2. \A m \in Nat : m \in S => m + 1 \in S
    <2>1. ASSUME NEW m \in Nat, m \in S
          PROVE  Reversed(k, (m + 1) + 1) = e * 2 ^ (m + 1) + Reversed(h, m + 1)
      <3>0. m + 1 \in Nat
        OBVIOUS
      <3>1. Reversed(k, (m + 1) + 1) = 2 * Reversed(k, m + 1) + Bit(k, m + 1)
        BY <3>0, ReversedStep
      <3>2. Reversed(h, m + 1) = 2 * Reversed(h, m) + Bit(h, m)
        BY ReversedStep
      <3>3. 2 ^ (m + 1) = 2 * 2 ^ m /\ 2 ^ m \in Nat \ {0}
        BY Powers
      <3>4. Bit(k, m + 1) = Bit(h, m)
        <4>1. k \div (2 * 2 ^ m) = (k \div 2) \div 2 ^ m
          <5>1. 2 \in Nat \ {0} /\ 2 ^ m \in Nat \ {0}
            BY <3>3
          <5> HIDE DEF k
          <5> DEFINE y == 2 ^ m
          <5>2. y \in Nat \ {0}
            BY <5>1
          <5> HIDE DEF y
          <5>3. k \div (2 * y) = (k \div 2) \div y
            BY <1>0, <5>1, <5>2, Nested
          <5> QED
            BY <5>3 DEF y
        <4> QED
          BY <1>0, <3>3, <4>1 DEF Bit
      <3>5. Reversed(k, m + 1) = e * 2 ^ m + Reversed(h, m)
        BY <2>1
      <3>6. Reversed(h, m) \in Nat /\ Bit(h, m) \in Nat
        <4>1. Reversed(h, m) \in 0 .. 2 ^ m - 1 /\ Bit(h, m) \in 0 .. 1
          BY ReversedBelow, BitType
        <4> QED
          BY <3>3, <4>1
      <3>7. 2 * (e * 2 ^ m + Reversed(h, m)) = e * (2 * 2 ^ m) + 2 * Reversed(h, m)
        BY <3>3, <3>6
      <3>8. e * 2 ^ m \in Nat /\ e * (2 * 2 ^ m) \in Nat
        BY <3>3
      <3> QED
        BY <3>1, <3>2, <3>3, <3>4, <3>5, <3>6, <3>7, <3>8
    <2>2. \A m \in Nat : m + 1 \in Nat
      OBVIOUS
    <2> QED
      BY <2>1, <2>2
  <1> HIDE DEF S
  <1>3. s \in S
    BY <1>1, <1>2, Inductive
  <1> QED
    BY <1>3 DEF S, k

(* Zeros above the bits of a number end up below them.                     *)
LEMMA HighZeros ==
  ASSUME NEW s \in Nat, NEW h \in 0 .. 2 ^ s - 1, NEW n \in Nat
  PROVE  Reversed(h, s + n) = 2 ^ n * Reversed(h, s)
  <1> DEFINE S == {m \in Nat : Reversed(h, s + m) = 2 ^ m * Reversed(h, s)}
  <1>0. h \in Nat /\ 2 ^ s \in Nat \ {0} /\ Reversed(h, s) \in Nat
    <2>1. 2 ^ s \in Nat \ {0}
      BY Powers
    <2>2. h \in Nat
      BY <2>1
    <2> QED
      BY <2>1, <2>2, ReversedBelow
  <1>1. 0 \in S
    <2>1. 2 ^ 0 = 1 /\ s + 0 = s
      OBVIOUS
    <2> QED
      BY <1>0, <2>1
  <1>2. \A m \in Nat : m \in S => m + 1 \in S
    <2>1. ASSUME NEW m \in Nat, m \in S
          PROVE  Reversed(h, s + (m + 1)) = 2 ^ (m + 1) * Reversed(h, s)
      <3>0. s + m \in Nat /\ s + (m + 1) = (s + m) + 1 /\ s \in 0 .. s + m /\ (s + m) - s = m
        OBVIOUS
      <3>1. Reversed(h, s + (m + 1)) = 2 * Reversed(h, s + m) + Bit(h, s + m)
        BY <3>0, ReversedStep
      <3>2. 2 ^ m * 2 ^ s = 2 ^ (s + m) /\ 2 ^ m \in Nat \ {0} /\ 2 ^ (s + m) \in Nat \ {0}
        <4>1. 2 ^ ((s + m) - s) * 2 ^ s = 2 ^ (s + m) /\ 2 ^ (s + m) \in Nat \ {0}
          BY <3>0, PowerSplits
        <4> QED
          BY <3>0, <4>1, Powers
      <3>3. h < 2 ^ (s + m)
        <4>1. 1 * 2 ^ s <= 2 ^ m * 2 ^ s
          BY <1>0, <3>2
        <4> QED
          BY <1>0, <3>2, <4>1
      <3>4. Bit(h, s + m) = 0
        <4>1. (0 * 2 ^ (s + m) + h) \div 2 ^ (s + m) = 0
          <5>1. h \in 0 .. 2 ^ (s + m) - 1
            BY <1>0, <3>2, <3>3
          <5> QED
            BY <3>2, <5>1, Divided
        <4>2. 0 * 2 ^ (s + m) + h = h
          BY <1>0, <3>2
        <4>3. h \div 2 ^ (s + m) = 0 /\ 0 % 2 = 0
          BY <4>1, <4>2
        <4> QED
          BY <4>3, Zenon DEF Bit
      <3>5. Reversed(h, s + m) = 2 ^ m * Reversed(h, s)
        BY <2>1
      <3>6. 2 ^ (m + 1) = 2 * 2 ^ m
        BY Powers
      <3>7. 2 * (2 ^ m * Reversed(h, s)) = (2 * 2 ^ m) * Reversed(h, s)
        BY <1>0, <3>2
      <3>8. 2 ^ m * Reversed(h, s) \in Nat
        BY <1>0, <3>2
      <3> QED
        BY <3>1, <3>4, <3>5, <3>6, <3>7, <3>8
    <2>2. \A m \in Nat : m + 1 \in Nat
      OBVIOUS
    <2> QED
      BY <2>1, <2>2
  <1> HIDE DEF S
  <1>3. n \in S
    BY <1>1, <1>2, Inductive
  <1> QED
    BY <1>3 DEF S

-----------------------------------------------------------------------------
(* Numbers *)

LEMMA Sizes ==
  /\ LOGN \in Nat /\ LOGN > 1 /\ HALF \in Nat /\ HALF > 1
  /\ N \in Nat \ {0} /\ N = 2 * HALF
  BY LognAssumption, HalfAssumption DEF N

LEMMA PowerType ==
  ASSUME NEW e \in Nat
  PROVE  Power(e) \in [0 .. HALF - 1 -> Int] /\ Zero \in [0 .. HALF - 1 -> Int]
  BY DEF Power, Zero

(* w^N = 1.                                                                *)
LEMMA Periodic ==
  ASSUME NEW d \in Nat, NEW q \in Nat
  PROVE  Power(d + N * q) = Power(d)
  <1>1. N \in Nat \ {0}
    BY Sizes
  <1> DEFINE a == d \div N
             r == d % N
  <1>2. a \in Nat /\ r \in 0 .. N - 1 /\ d = a * N + r
    BY <1>1, Divides
  <1> HIDE DEF a, r
  <1>3. d + N * q = (a + q) * N + r /\ a + q \in Nat
    BY <1>1, <1>2
  <1>4. (d + N * q) % N = r
    BY <1>1, <1>2, <1>3, Divided
  <1> QED
    BY <1>4 DEF Power, r

(* A sum of exponents below N is taken modulo N by one subtraction.        *)
LEMMA SumModN ==
  ASSUME NEW e \in Nat, NEW t \in 0 .. HALF
  PROVE  /\ e % N \in 0 .. N - 1
         /\ (e + t) % N = IF (e % N) + t < N THEN (e % N) + t ELSE (e % N) + t - N
  <1>1. N \in Nat \ {0} /\ N = 2 * HALF /\ HALF \in Nat
    BY Sizes
  <1> DEFINE a == e \div N
             r == e % N
  <1>2. a \in Nat /\ r \in 0 .. N - 1 /\ e = a * N + r
    BY <1>1, Divides
  <1> HIDE DEF a, r
  <1>3. CASE r + t < N
    <2>1. e + t = a * N + (r + t) /\ r + t \in 0 .. N - 1
      BY <1>1, <1>2, <1>3
    <2>2. (a * N + (r + t)) % N = r + t
      BY <1>1, <1>2, <2>1, Divided
    <2> QED
      BY <1>2, <1>3, <2>1, <2>2 DEF r
  <1>4. CASE ~(r + t < N)
    <2>1. e + t = (a + 1) * N + (r + t - N) /\ r + t - N \in 0 .. N - 1 /\ a + 1 \in Nat
      BY <1>1, <1>2, <1>4
    <2>2. ((a + 1) * N + (r + t - N)) % N = r + t - N
      BY <1>1, <2>1, Divided
    <2> QED
      BY <1>2, <1>4, <2>1, <2>2 DEF r
  <1> QED
    BY <1>3, <1>4

(* w^(N/2) = -1.                                                           *)
LEMMA Opposite ==
  ASSUME NEW e \in Nat
  PROVE  Zero (-) Power(e) = Power(e + HALF)
  <1> DEFINE f == e % N
             g == (e + HALF) % N
  <1>1. N = 2 * HALF /\ HALF \in Nat /\ HALF > 1
    BY Sizes
  <1>2. f \in 0 .. N - 1 /\ g = IF f + HALF < N THEN f + HALF ELSE f + HALF - N
    <2>1. HALF \in 0 .. HALF
      BY <1>1
    <2> QED
      BY <2>1, SumModN
  <1>3. /\ Power(e) = [j \in 0 .. HALF - 1 |-> IF j = f THEN 1 ELSE IF j + HALF = f THEN -1 ELSE 0]
        /\ Power(e + HALF)
             = [j \in 0 .. HALF - 1 |-> IF j = g THEN 1 ELSE IF j + HALF = g THEN -1 ELSE 0]
    BY DEF Power
  <1> HIDE DEF f, g
  <1>4. ASSUME NEW j \in 0 .. HALF - 1
        PROVE  0 - Power(e)[j] = Power(e + HALF)[j]
    BY <1>1, <1>2, <1>3
  <1>5. Zero (-) Power(e) = [j \in 0 .. HALF - 1 |-> 0 - Power(e)[j]]
    BY DEF (-), Zero
  <1> QED
    BY <1>3, <1>4, <1>5

(* Multiplication by a power adds exponents.                               *)
LEMMA Turned ==
  ASSUME NEW e \in Nat, NEW t \in 0 .. HALF - 1
  PROVE  Twiddled(Power(e), t) = Power(e + t)
  <1> DEFINE f == e % N
             g == (e + t) % N
             P(x, j) == IF j = x THEN 1 ELSE IF j + HALF = x THEN -1 ELSE 0
  <1>1. N = 2 * HALF /\ HALF \in Nat /\ HALF > 1 /\ t \in 0 .. HALF
    BY Sizes
  <1>2. f \in 0 .. N - 1 /\ g = IF f + t < N THEN f + t ELSE f + t - N
    BY <1>1, SumModN
  <1>3. Power(e) = [j \in 0 .. HALF - 1 |-> P(f, j)] /\ Power(e + t) = [j \in 0 .. HALF - 1 |-> P(g, j)]
    BY DEF Power
  <1> HIDE DEF f, g
  <1>4. ASSUME NEW j \in 0 .. HALF - 1
        PROVE  (IF j >= t THEN Power(e)[j - t] ELSE -Power(e)[j - t + HALF]) = Power(e + t)[j]
    <2>1. CASE j >= t
      <3>1. j - t \in 0 .. HALF - 1
        BY <1>1, <2>1
      <3>2. P(f, j - t) = P(g, j)
        BY <1>1, <1>2, <2>1
      <3> QED
        BY <1>3, <2>1, <3>1, <3>2
    <2>2. CASE ~(j >= t)
      <3>1. j - t + HALF \in 0 .. HALF - 1
        BY <1>1, <2>2
      <3>2. -P(f, j - t + HALF) = P(g, j)
        BY <1>1, <1>2, <2>2
      <3> QED
        BY <1>3, <2>2, <3>1, <3>2
    <2> QED
      BY <2>1, <2>2
  <1>5. Twiddled(Power(e), t)
          = [j \in 0 .. HALF - 1 |-> IF j >= t THEN Power(e)[j - t] ELSE -Power(e)[j - t + HALF]]
    BY DEF Twiddled
  <1> QED
    BY <1>3, <1>4, <1>5

LEMMA WithZero ==
  ASSUME NEW e \in Nat, NEW t \in 0 .. HALF - 1
  PROVE  /\ Power(e) (+) Zero = Power(e) /\ Power(e) (-) Zero = Power(e)
         /\ Zero (+) Power(e) = Power(e)
         /\ Zero (+) Zero = Zero /\ Zero (-) Zero = Zero
         /\ Twiddled(Zero, t) = Zero
  <1>1. Power(e) \in [0 .. HALF - 1 -> Int] /\ HALF \in Nat
    BY PowerType, Sizes
  <1>2. /\ Power(e) (+) Zero = Power(e) /\ Power(e) (-) Zero = Power(e)
        /\ Zero (+) Power(e) = Power(e)
    BY <1>1 DEF (+), (-), Zero
  <1>3. Zero (+) Zero = Zero /\ Zero (-) Zero = Zero
    BY DEF (+), (-), Zero
  <1>4. Twiddled(Zero, t) = Zero
    <2>1. \A j \in 0 .. HALF - 1 : j >= t => j - t \in 0 .. HALF - 1
      BY <1>1
    <2>2. \A j \in 0 .. HALF - 1 : ~(j >= t) => j - t + HALF \in 0 .. HALF - 1
      BY <1>1
    <2>3. \A j \in 0 .. HALF - 1 : (IF j >= t THEN Zero[j - t] ELSE -Zero[j - t + HALF]) = 0
      <3>1. \A j \in 0 .. HALF - 1 : Zero[j] = 0
        BY DEF Zero
      <3> QED
        BY <2>1, <2>2, <3>1
    <2> QED
      BY <2>3 DEF Twiddled, Zero
  <1> QED
    BY <1>2, <1>3, <1>4

-----------------------------------------------------------------------------
(* One butterfly *)

(* The three powers of two of stage s: the distance of a pair, the number  *)
(* of blocks, and the bound of a block's number.                           *)
LEMMA StagePowers ==
  ASSUME NEW s \in 0 .. LOGN - 1, NEW low, low = 2 ^ (LOGN - 1 - s)
  PROVE  /\ low \in Nat \ {0} /\ 2 ^ s \in Nat \ {0} /\ low * 2 ^ s = HALF
         /\ 2 ^ (LOGN - s) = 2 * low /\ 2 ^ (LOGN - (s + 1)) = low
         /\ 2 ^ LOGN = 2 ^ (s + 1) * low
  <1>1. LOGN - 1 \in Nat /\ LOGN - 1 - s \in Nat /\ s \in Nat
    BY Sizes
  <1>2. low \in Nat \ {0} /\ 2 ^ s \in Nat \ {0} /\ low * 2 ^ s = HALF
    BY <1>1, PowerSplits DEF HALF
  <1>3. 2 ^ (LOGN - s) = 2 * low
    <2>1. LOGN - s = (LOGN - 1 - s) + 1
      BY Sizes
    <2> QED
      BY <1>1, <2>1, Powers
  <1>4. LOGN - (s + 1) = LOGN - 1 - s
    BY Sizes
  <1>5. 2 ^ LOGN = 2 ^ (s + 1) * low
    <2>1. s + 1 \in 0 .. LOGN
      BY Sizes
    <2>2. 2 ^ (LOGN - (s + 1)) * 2 ^ (s + 1) = 2 ^ LOGN /\ 2 ^ (s + 1) \in Nat \ {0}
      BY <2>1, PowerSplits, Sizes
    <2>3. \A x, y \in Nat : x * y = y * x
      OBVIOUS
    <2> QED
      BY <1>2, <1>4, <2>2, <2>3
  <1> QED
    BY <1>2, <1>3, <1>4, <1>5

LEMMA Indices ==
  ASSUME NEW s \in 0 .. LOGN - 1, NEW c \in 0 .. HALF - 1,
         NEW low, low = 2 ^ (LOGN - 1 - s)
  PROVE  /\ IndexA(s, c) = (c \div low) * (2 * low) + (c % low)
         /\ IndexB(s, c) = (c \div low) * (2 * low) + (c % low) + low
         /\ IndexA(s, c) \in Slots /\ IndexB(s, c) \in Slots
  <1> DEFINE p == 2 ^ s
             first == (c \div low) * (2 * low) + (c % low)
  <1>1. low \in Nat \ {0} /\ p \in Nat \ {0} /\ low * p = HALF
    BY StagePowers
  <1>2. IndexA(s, c) = first
    <2>1. ~(s >= LOGN)
      BY Sizes
    <2> QED
      BY <2>1 DEF IndexA
  <1>3. HALF \div (2 ^ s) = low
    <2>1. 0 \in 0 .. p - 1 /\ low \in Nat
      BY <1>1
    <2>2. (low * p + 0) \div p = low
      BY <1>1, <2>1, Divided
    <2>3. low * p + 0 = HALF
      BY <1>1, Sizes
    <2> QED
      BY <2>2, <2>3
  <1>4. IndexB(s, c) = (first + low) % (2 * HALF)
    BY <1>2, <1>3 DEF IndexB
  <1> HIDE DEF p
  <1>5. first \in 0 .. 2 * HALF - 1 /\ first + low \in 0 .. 2 * HALF - 1
    BY <1>1, PairFits
  <1> HIDE DEF first
  <1>6. \A x \in 0 .. 2 * HALF - 1 : x % (2 * HALF) = x
    BY Sizes
  <1> QED
    BY <1>2, <1>4, <1>5, <1>6, Sizes DEF first, Slots

(* The twiddle of a block is the same for all its butterflies.             *)
LEMMA Twiddle ==
  ASSUME NEW s \in 0 .. LOGN - 1, NEW c \in 0 .. HALF - 1,
         NEW low, low = 2 ^ (LOGN - 1 - s)
  PROVE  /\ c \div low \in 0 .. 2 ^ s - 1
         /\ TwiddleIndex(s, c) = low * Reversed(c \div low, s)
         /\ TwiddleIndex(s, c) \in 0 .. HALF - 1
  <1> DEFINE p == 2 ^ s
             q == c \div low
             two == 2 ^ (s + 1)
  <1>1. low \in Nat \ {0} /\ p \in Nat \ {0} /\ low * p = HALF /\ 2 ^ LOGN = two * low
        /\ s \in Nat
    BY StagePowers
  <1>2. two \in Nat \ {0}
    BY <1>1, Powers
  <1>3. q \in 0 .. p - 1
    <2> HIDE DEF p
    <2> QED
      BY <1>1, PairFits
  <1> HIDE DEF p
  <1>4. (c * two) \div (2 ^ LOGN) = q
    <2> HIDE DEF two
    <2>1. c \in Nat /\ c * two \in Nat /\ 0 \in 0 .. two - 1
      BY <1>2
    <2>2. (c * two) \div (two * low) = ((c * two) \div two) \div low
      BY <1>1, <1>2, <2>1, Nested
    <2>3. (c * two + 0) \div two = c
      BY <1>2, <2>1, Divided
    <2>4. c * two + 0 = c * two
      BY <2>1
    <2> QED
      BY <1>1, <2>2, <2>3, <2>4
  <1> HIDE DEF q
  <1>5. q % HALF = q
    <2>1. 1 * p <= low * p
      BY <1>1
    <2> QED
      BY <1>1, <1>3, <2>1, Sizes
  <1>6. TwiddleIndex(s, c) = Reversed(q, LOGN - 1)
    BY <1>4, <1>5, BitReverseIs DEF TwiddleIndex
  <1>7. Reversed(q, LOGN - 1) = low * Reversed(q, s)
    <2>1. LOGN - 1 - s \in Nat /\ s + (LOGN - 1 - s) = LOGN - 1
      BY Sizes
    <2> QED
      BY <1>1, <1>3, <2>1, HighZeros DEF p
  <1>8. Reversed(q, s) \in 0 .. p - 1
    <2>1. q \in Nat
      BY <1>1, <1>3
    <2> QED
      BY <1>1, <2>1, ReversedBelow DEF p
  <1>9. low * Reversed(q, s) \in 0 .. HALF - 1
    <2>1. low * (Reversed(q, s) + 1) <= low * p
      BY <1>1, <1>8
    <2>2. low * Reversed(q, s) \in Nat
      BY <1>1, <1>8
    <2>3. low * (Reversed(q, s) + 1) = low * Reversed(q, s) + low
      BY <1>1, <1>8
    <2> QED
      BY <1>1, <2>1, <2>2, <2>3, Sizes
  <1> QED
    BY <1>3, <1>6, <1>7, <1>9 DEF p, q

(* Where a slot's block and its place in it are read off.                  *)
LEMMA SubTransformAt ==
  ASSUME NEW level \in 0 .. LOGN, NEW m \in Nat \ {0}, m = 2 ^ (LOGN - level),
         NEW h \in Nat, NEW r \in 0 .. m - 1
  PROVE  SubTransform(h * m + r, level) =
           IF impulse % m # r THEN Zero ELSE Power((m * (impulse \div m)) * Reversed(h, level))
  <1>1. (h * m + r) \div m = h /\ (h * m + r) % m = r
    BY Divided
  <1> QED
    BY <1>1 DEF SubTransform

(* A butterfly takes the partial transforms of a pair of slots one stage   *)
(* further.                                                                *)
LEMMA ButterflyTransforms ==
  ASSUME NEW s \in 0 .. LOGN - 1, NEW c \in 0 .. HALF - 1, impulse \in Slots
  PROVE  LET A == IndexA(s, c)
             B == IndexB(s, c)
             turned == Twiddled(SubTransform(B, s), TwiddleIndex(s, c))
         IN  /\ SubTransform(A, s) (+) turned = SubTransform(A, s + 1)
             /\ SubTransform(A, s) (-) turned = SubTransform(B, s + 1)
  <1> DEFINE low == 2 ^ (LOGN - 1 - s)
             m == 2 * low
             p == 2 ^ s
             q == c \div low
             r == c % low
             a == impulse \div m
             b == impulse % m
             R == Reversed(q, s)
             A == IndexA(s, c)
             B == IndexB(s, c)
             t == TwiddleIndex(s, c)
             e == (m * a) * R
             turned == Twiddled(SubTransform(B, s), t)
  <1>1. /\ low \in Nat \ {0} /\ p \in Nat \ {0} /\ low * p = HALF
        /\ 2 ^ (LOGN - s) = m /\ 2 ^ (LOGN - (s + 1)) = low
    BY StagePowers
  <1>9. r \in 0 .. low - 1
    <2>1. c \in Nat
      OBVIOUS
    <2> HIDE DEF low
    <2> QED
      BY <1>1, <2>1, Divides
  <1>2. A = q * m + r /\ B = q * m + r + low
    BY Indices
  <1>3. q \in 0 .. p - 1 /\ t = low * R /\ t \in 0 .. HALF - 1
    BY Twiddle
  <1>4. R \in Nat
    <2>1. s \in Nat /\ q \in Nat
      BY <1>1, <1>3
    <2>2. R \in 0 .. 2 ^ s - 1
      BY <2>1, ReversedBelow
    <2> QED
      BY <1>1, <2>2
  <1>5. Reversed(2 * q, s + 1) = R /\ Reversed(2 * q + 1, s + 1) = p + R
    <2>1. q \in Nat /\ s \in Nat /\ 0 \in 0 .. 1 /\ 1 \in 0 .. 1
      BY <1>1, <1>3
    <2>2. Reversed(2 * q + 0, s + 1) = 0 * p + R /\ Reversed(2 * q + 1, s + 1) = 1 * p + R
      BY <2>1, LowestBit
    <2>3. 2 * q + 0 = 2 * q /\ 0 * p + R = R /\ 1 * p + R = p + R
      BY <1>1, <1>4, <2>1
    <2> QED
      BY <2>2, <2>3
  <1>6. s \in 0 .. LOGN /\ s + 1 \in 0 .. LOGN
    BY Sizes
  <1>7. /\ SubTransform(q * m + r, s) = IF b # r THEN Zero ELSE Power(e)
        /\ SubTransform(q * m + (r + low), s) = IF b # r + low THEN Zero ELSE Power(e)
    <2>1. m \in Nat \ {0} /\ m = 2 ^ (LOGN - s) /\ q \in Nat
      BY <1>1, <1>3
    <2>2. r \in 0 .. low - 1
      BY <1>9
    <2>3. r \in 0 .. m - 1 /\ r + low \in 0 .. m - 1
      BY <1>1, <2>2
    <2> HIDE DEF m, q, r
    <2> QED
      BY <1>6, <2>1, <2>3, SubTransformAt
  <1> DEFINE a2 == impulse \div low
             b2 == impulse % low
  <1>8. /\ SubTransform((2 * q) * low + r, s + 1)
             = IF b2 # r THEN Zero ELSE Power((low * a2) * Reversed(2 * q, s + 1))
        /\ SubTransform((2 * q + 1) * low + r, s + 1)
             = IF b2 # r THEN Zero ELSE Power((low * a2) * Reversed(2 * q + 1, s + 1))
    <2>1. low = 2 ^ (LOGN - (s + 1)) /\ 2 * q \in Nat /\ 2 * q + 1 \in Nat
      BY <1>1, <1>3
    <2>2. r \in 0 .. low - 1
      BY <1>9
    <2> HIDE DEF low, q, r
    <2> QED
      BY <1>1, <1>6, <2>1, <2>2, SubTransformAt
  <1>10. a \in Nat /\ b \in 0 .. m - 1 /\ impulse = a * m + b
    <2>1. impulse \in Nat /\ m \in Nat \ {0}
      BY <1>1, Sizes DEF Slots
    <2> HIDE DEF m
    <2> QED
      BY <2>1, Divides
  <1> HIDE DEF low, p, q, r, R, A, B, t, a, b
  <1>11. /\ b < low => a2 = 2 * a /\ b2 = b
         /\ b >= low => a2 = 2 * a + 1 /\ b2 = b - low
    <2>1. CASE b < low
      <3>1. (2 * a) * low + b = impulse /\ b \in 0 .. low - 1 /\ 2 * a \in Nat
        BY <1>1, <1>10, <2>1
      <3> DEFINE d == 2 * a
      <3>2. (d * low + b) \div low = d /\ (d * low + b) % low = b
        <4>1. d \in Nat
          BY <3>1
        <4>2. low \in Nat \ {0} /\ b \in 0 .. low - 1
          BY <1>1, <3>1
        <4> HIDE DEF d
        <4> QED
          BY <4>1, <4>2, Divided
      <3> QED
        BY <1>1, <1>10, <2>1, <3>1, <3>2
    <2>2. CASE b >= low
      <3>1. (2 * a + 1) * low + (b - low) = impulse /\ b - low \in 0 .. low - 1 /\ 2 * a + 1 \in Nat
        BY <1>1, <1>10, <2>2
      <3> DEFINE d == 2 * a + 1
                 u == b - low
      <3>2. (d * low + u) \div low = d /\ (d * low + u) % low = u
        <4>1. d \in Nat /\ u \in 0 .. low - 1
          BY <3>1
        <4>2. low \in Nat \ {0}
          BY <1>1
        <4> HIDE DEF d, u
        <4> QED
          BY <4>1, <4>2, Divided
      <3> QED
        BY <1>1, <1>10, <2>2, <3>1, <3>2
    <2> QED
      BY <1>1, <1>10, <2>1, <2>2
  <1>12. /\ A = (2 * q) * low + r /\ B = (2 * q + 1) * low + r
         /\ B = q * m + (r + low)
    BY <1>1, <1>2, <1>3, <1>9
  <1>13. e \in Nat /\ e + t \in Nat
    BY <1>1, <1>3, <1>4, <1>10
  <1>14. /\ (low * (2 * a)) * R = e
         /\ (low * (2 * a)) * (p + R) = e + N * a
         /\ (low * (2 * a + 1)) * R = e + t
         /\ (low * (2 * a + 1)) * (p + R) = (e + t + HALF) + N * a
    <2>1. \A x, y, z \in Nat : (x * (2 * y)) * z = ((2 * x) * y) * z
      OBVIOUS
    <2>2. \A x, y, z, v \in Nat : (x * (2 * y)) * (v + z) = ((2 * x) * y) * z + (2 * (x * v)) * y
      OBVIOUS
    <2>3. \A x, y, z \in Nat : (x * (2 * y + 1)) * z = ((2 * x) * y) * z + x * z
      OBVIOUS
    <2>4. \A x, y, z, v \in Nat :
            (x * (2 * y + 1)) * (v + z) = ((2 * x) * y) * z + x * z + x * v + (2 * (x * v)) * y
      OBVIOUS
    <2>5. p \in Nat /\ low \in Nat /\ low * p = HALF /\ N = 2 * HALF
      BY <1>1, Sizes
    <2> QED
      BY <1>3, <1>4, <1>10, <2>1, <2>2, <2>3, <2>4, <2>5
  <1>15. /\ Power(e + N * a) = Power(e)
         /\ Power((e + t + HALF) + N * a) = Power(e + t + HALF)
    <2>1. e + t + HALF \in Nat
      BY <1>13, Sizes
    <2> HIDE DEF e
    <2> QED
      BY <1>10, <1>13, <2>1, Periodic
  <1>16. turned = IF b # r + low THEN Zero ELSE Power(e + t)
    <2> HIDE DEF e
    <2> QED
      BY <1>3, <1>7, <1>12, <1>13, Turned, WithZero
  <1>17. CASE b = r
    <2>1. a2 = 2 * a /\ b2 = r /\ b # r + low
      BY <1>1, <1>9, <1>11, <1>17
    <2>2. SubTransform(A, s + 1) = Power(e) /\ SubTransform(B, s + 1) = Power(e)
      BY <1>5, <1>8, <1>12, <1>14, <1>15, <2>1
    <2>3. SubTransform(A, s) = Power(e) /\ turned = Zero
      BY <1>2, <1>7, <1>16, <1>17, <2>1
    <2> HIDE DEF e, turned
    <2> QED
      BY <1>3, <1>13, <2>2, <2>3, WithZero DEF A, B, t, turned
  <1>18. CASE b = r + low
    <2>1. a2 = 2 * a + 1 /\ b2 = r /\ b # r
      BY <1>1, <1>9, <1>11, <1>18
    <2>2. SubTransform(A, s + 1) = Power(e + t) /\ SubTransform(B, s + 1) = Power(e + t + HALF)
      BY <1>5, <1>8, <1>12, <1>14, <1>15, <2>1
    <2>3. SubTransform(A, s) = Zero /\ turned = Power(e + t)
      BY <1>2, <1>7, <1>16, <1>18, <2>1
    <2> HIDE DEF e, turned
    <2>4. Zero (+) Power(e + t) = Power(e + t)
      BY <1>3, <1>13, WithZero
    <2>5. Zero (-) Power(e + t) = Power(e + t + HALF)
      BY <1>13, Opposite
    <2> QED
      BY <2>2, <2>3, <2>4, <2>5 DEF A, B, t, turned
  <1>19. CASE b # r /\ b # r + low
    <2>1. b2 # r
      BY <1>1, <1>9, <1>10, <1>11, <1>19
    <2>2. SubTransform(A, s + 1) = Zero /\ SubTransform(B, s + 1) = Zero
      BY <1>8, <1>12, <2>1
    <2>3. SubTransform(A, s) = Zero /\ turned = Zero
      BY <1>2, <1>7, <1>16, <1>19
    <2> HIDE DEF e, turned
    <2> QED
      BY <1>3, <1>13, <2>2, <2>3, WithZero DEF A, B, t, turned
  <1> QED
    BY <1>17, <1>18, <1>19

(* Every slot is worked on by exactly one butterfly of each stage.         *)
LEMMA OnePerStage ==
  ASSUME NEW s \in 0 .. LOGN - 1, NEW k \in Slots
  PROVE  \E d \in 0 .. HALF - 1 :
           \A c \in 0 .. HALF - 1 : k \in {IndexA(s, c), IndexB(s, c)} <=> c = d
  <1> DEFINE low == 2 ^ (LOGN - 1 - s)
             p == 2 ^ s
             d == (k \div (2 * low)) * low + (k % low)
  <1>1. low \in Nat \ {0} /\ p \in Nat \ {0} /\ low * p = HALF
    BY StagePowers
  <1>2. k \in 0 .. 2 * (low * p) - 1
    <2> HIDE DEF low, p
    <2> QED
      BY <1>1, Sizes DEF Slots
  <1>3. ASSUME NEW c \in 0 .. HALF - 1
        PROVE  d \in 0 .. HALF - 1 /\ (k \in {IndexA(s, c), IndexB(s, c)} <=> c = d)
    <2> DEFINE first == (c \div low) * (2 * low) + (c % low)
    <2>1. IndexA(s, c) = first /\ IndexB(s, c) = first + low
      BY Indices
    <2>2. d \in 0 .. low * p - 1 /\ (k \in {first, first + low} <=> c = d)
      <3>1. c \in 0 .. low * p - 1
        BY <1>1
      <3> HIDE DEF low, p
      <3> QED
        BY <1>1, <1>2, <3>1, OnePair
    <2> QED
      BY <1>1, <2>1, <2>2
  <1>4. 0 \in 0 .. HALF - 1
    BY Sizes
  <1> QED
    BY <1>3, <1>4

-----------------------------------------------------------------------------
(* The first transform *)

(* Before the first stage slot k holds input k.                            *)
LEMMA LevelZero ==
  ASSUME NEW i \in Slots, impulse' = i, NEW k \in Slots
  PROVE  SubTransform(k, 0)' = IF k = i THEN Power(0) ELSE Zero
  <1>1. 2 ^ (LOGN - 0) = N
    <2>1. 0 \in 0 .. LOGN - 1
      BY Sizes
    <2>2. 2 ^ (LOGN - 0) = 2 * 2 ^ (LOGN - 1 - 0) /\ LOGN - 1 - 0 = LOGN - 1
      BY <2>1, StagePowers, Sizes
    <2> QED
      BY <2>2 DEF N, HALF
  <1>2. \A x \in Slots : x % N = x /\ x \div N = 0
    <2>1. ASSUME NEW x \in Slots PROVE x % N = x /\ x \div N = 0
      <3>1. x \in 0 .. N - 1 /\ 0 * N + x = x
        BY Sizes DEF Slots
      <3>2. (0 * N + x) \div N = 0 /\ (0 * N + x) % N = x
        BY <3>1, Sizes, Divided
      <3> QED
        BY <3>1, <3>2
    <2> QED
      BY <2>1
  <1>3. (N * 0) * Reversed(0, 0) = 0
    BY Sizes, ReversedStep
  <1>4. SubTransform(k, 0)' = IF i % N # k % N THEN Zero
                              ELSE Power((N * (i \div N)) * Reversed(k \div N, 0))
    BY <1>1 DEF SubTransform
  <1>5. SubTransform(k, 0)' = IF i # k THEN Zero ELSE Power((N * 0) * Reversed(0, 0))
    BY <1>2, <1>4
  <1> QED
    BY <1>3, <1>5

(* After the last stage it holds coefficient k reversed.                   *)
LEMMA LevelLast ==
  ASSUME impulse \in Slots, NEW k \in Slots
  PROVE  SubTransform(k, LOGN) = Power(impulse * Reversed(k, LOGN))
  <1>1. impulse \in Nat /\ k \in Nat /\ LOGN \in Nat
    BY Sizes DEF Slots
  <1>2. \A x \in Nat : x % 1 = 0 /\ x \div 1 = x /\ 1 * x = x
    OBVIOUS
  <1>3. 2 ^ (LOGN - LOGN) = 1
    <2>1. LOGN - LOGN = 0 /\ 2 ^ 0 = 1
      BY <1>1
    <2> QED
      BY <2>1
  <1> QED
    BY <1>1, <1>2, <1>3 DEF SubTransform

(* One cycle of a stage: the pair it works on moves to the next level, all *)
(* other slots stay.                                                       *)
LEMMA ButterflyLevels ==
  ASSUME NetInv, FirstTransform, stageCount < LOGN, Butterfly, NEW k \in Slots
  PROVE  ram'[k] = SubTransform(k, IF \E c \in 0 .. cycleCount :
                                        k \in {IndexA(stageCount, c), IndexB(stageCount, c)}
                                   THEN stageCount + 1 ELSE stageCount)
  <1>1. stageCount \in 0 .. LOGN - 1 /\ cycleCount \in 0 .. HALF - 1 /\ impulse \in Slots
    BY Sizes DEF NetInv
  <1>2. indexA \in Slots /\ indexB \in Slots /\ indexA # indexB
    <2> DEFINE low == 2 ^ (LOGN - 1 - stageCount)
               first == (cycleCount \div low) * (2 * low) + (cycleCount % low)
    <2>1. /\ indexA = first /\ indexB = first + low
          /\ indexA \in Slots /\ indexB \in Slots
      BY <1>1, Indices DEF indexA, indexB
    <2>2. low \in Nat \ {0}
      BY <1>1, StagePowers
    <2>3. indexA \in Int
      BY <2>1, Sizes DEF Slots
    <2> HIDE DEF low, first
    <2> QED
      BY <2>1, <2>2, <2>3
  <1>3. PICK d \in 0 .. HALF - 1 :
          \A c \in 0 .. HALF - 1 :
            k \in {IndexA(stageCount, c), IndexB(stageCount, c)} <=> c = d
    BY <1>1, OnePerStage
  <1>4. ASSUME NEW e \in 0 .. HALF - 1
        PROVE  (\E c \in 0 .. e : k \in {IndexA(stageCount, c), IndexB(stageCount, c)}) <=> d <= e
    <2>1. \A c \in 0 .. e : c \in 0 .. HALF - 1
      BY Sizes
    <2>2. d <= e => d \in 0 .. e
      OBVIOUS
    <2> QED
      BY <1>3, <2>1, <2>2
  <1>5. InThisStage(k) <=> d < cycleCount
    <2>1. CASE cycleCount = 0
      BY <2>1 DEF InThisStage
    <2>2. CASE cycleCount # 0
      <3>1. cycleCount - 1 \in 0 .. HALF - 1
        BY <1>1, <2>2, Sizes
      <3> QED
        BY <1>1, <1>4, <3>1 DEF InThisStage
    <2> QED
      BY <2>1, <2>2
  <1>6. \A x \in Slots : ram[x] = SubTransform(x, IF InThisStage(x) THEN stageCount + 1 ELSE stageCount)
    BY DEF NetInv, PartialTransform
  <1>7. k \in {indexA, indexB} <=> cycleCount = d
    BY <1>1, <1>3 DEF indexA, indexB
  <1>8. CASE k \in {indexA, indexB}
    <2>1. cycleCount = d
      BY <1>7, <1>8
    <2>2. ASSUME NEW x \in {indexA, indexB} PROVE ram[x] = SubTransform(x, stageCount)
      <3>1. x \in Slots
        BY <1>2
      <3>2. PICK f \in 0 .. HALF - 1 :
              \A c \in 0 .. HALF - 1 :
                x \in {IndexA(stageCount, c), IndexB(stageCount, c)} <=> c = f
        BY <1>1, <3>1, OnePerStage
      <3>3. f = cycleCount
        BY <1>1, <2>2, <3>2 DEF indexA, indexB
      <3>4. ~InThisStage(x)
        <4>1. \A c \in 0 .. cycleCount - 1 : c \in 0 .. HALF - 1 /\ c # f
          BY <1>1, <3>3, Sizes
        <4> QED
          BY <3>2, <4>1 DEF InThisStage
      <3> QED
        BY <1>6, <3>1, <3>4
    <2>3. /\ ram[indexA] (+) multB = SubTransform(indexA, stageCount + 1)
          /\ ram[indexA] (-) multB = SubTransform(indexB, stageCount + 1)
      <3>1. /\ ram[indexA] = SubTransform(indexA, stageCount)
            /\ ram[indexB] = SubTransform(indexB, stageCount)
        BY <2>2
      <3> QED
        BY <1>1, <3>1, ButterflyTransforms DEF indexA, indexB, multB
    <2>4. ram'[k] = SubTransform(k, stageCount + 1)
      BY <1>2, <1>8, <2>3 DEF Butterfly
    <2>5. d <= cycleCount
      BY <1>1, <2>1
    <2> QED
      BY <1>1, <1>4, <2>4, <2>5
  <1>9. CASE k \notin {indexA, indexB}
    <2>1. ram'[k] = ram[k]
      BY <1>9 DEF Butterfly
    <2>2. d <= cycleCount <=> d < cycleCount
      BY <1>1, <1>7, <1>9
    <2> QED
      BY <1>1, <1>4, <1>5, <1>6, <2>1, <2>2
  <1> QED
    BY <1>8, <1>9

LEMMA NetInit == Init => NetInv
  <1> SUFFICES ASSUME Init PROVE NetInv
    OBVIOUS
  <1>1. 0 \in Slots /\ 0 \in 0 .. HALF - 1 /\ 0 \in 0 .. LOGN
    BY Sizes DEF Slots
  <1>2. ~FirstTransform
    BY DEF Init, FirstTransform
  <1>3. PartialTransform /\ SpectrumBitReversed
    BY <1>2 DEF PartialTransform, SpectrumBitReversed
  <1>4. doneCalculating \in BOOLEAN
    BY DEF Init
  <1>5. /\ cycleCount = 0 /\ stageCount = 0 /\ impulse = 0
        /\ transforms \in 0 .. 2
    BY DEF Init
  <1> QED
    BY <1>1, <1>3, <1>4, <1>5 DEF NetInv

LEMMA LoadStep ==
  ASSUME NetInv, NEW i \in Slots, Load(i)
  PROVE  NetInv'
  <1>0. doneCalculating' \in BOOLEAN
    BY DEF Load
  <1>1. /\ cycleCount' \in 0 .. HALF - 1 /\ stageCount' = stageCount /\ stageCount \in 0 .. LOGN
        /\ impulse' = i /\ transforms' \in 1 .. 2
    <2>1. /\ cycleCount \in 0 .. HALF - 1 /\ stageCount \in 0 .. LOGN /\ transforms \in 0 .. 2
      BY DEF NetInv
    <2>2. /\ cycleCount' = IF StageEnds THEN 0 ELSE cycleCount
          /\ transforms' = IF transforms < 2 THEN transforms + 1 ELSE transforms
          /\ stageCount' = stageCount /\ impulse' = i
      BY DEF Load
    <2> QED
      BY <2>1, <2>2, Sizes
  <1>2. FirstTransform' => /\ cycleCount' = 0 /\ stageCount' = 0
                           /\ ram' = [k \in Slots |-> IF k = i THEN Power(0) ELSE Zero]
    BY Sizes DEF NetInv, Load, FirstTransform, StageEnds
  <1>3. ASSUME FirstTransform' PROVE PartialTransform' /\ SpectrumBitReversed'
    <2>1. \A k \in Slots : ram'[k] = SubTransform(k, 0)'
      BY <1>1, <1>2, <1>3, LevelZero
    <2>2. \A k \in Slots : ~InThisStage(k)'
      BY <1>2, <1>3 DEF InThisStage
    <2> QED
      BY <1>2, <1>3, <2>1, <2>2, Sizes DEF PartialTransform, SpectrumBitReversed
  <1>4. PartialTransform' /\ SpectrumBitReversed'
    BY <1>3 DEF PartialTransform, SpectrumBitReversed
  <1> QED
    BY <1>0, <1>1, <1>4 DEF NetInv

LEMMA CalculateStep ==
  ASSUME NetInv, Calculate
  PROVE  NetInv'
  <1>1. /\ cycleCount' \in 0 .. HALF - 1 /\ stageCount' \in 0 .. LOGN
        /\ doneCalculating' \in BOOLEAN /\ impulse' = impulse /\ impulse \in Slots
        /\ transforms' = transforms /\ transforms \in 1 .. 2
        /\ stageCount \in 0 .. LOGN /\ cycleCount \in 0 .. HALF - 1
    BY Sizes DEF NetInv, Calculate, StageEnds
  <1>2. ASSUME FirstTransform' PROVE PartialTransform' /\ SpectrumBitReversed'
    <2>1. FirstTransform /\ stageCount < LOGN /\ Butterfly
      <3>1. FirstTransform /\ Butterfly
        BY <1>1, <1>2 DEF FirstTransform, Calculate
      <3>2. stageCount # LOGN
        BY <1>2, Zenon DEF FirstTransform, Calculate
      <3> QED
        BY <1>1, <3>1, <3>2, Sizes
    <2> DEFINE Done(k) == \E c \in 0 .. cycleCount : k \in {IndexA(stageCount, c), IndexB(stageCount, c)}
    <2>2. \A k \in Slots : ram'[k] = SubTransform(k, IF Done(k) THEN stageCount + 1 ELSE stageCount)
      BY <2>1, ButterflyLevels
    <2>3. \A k, level : SubTransform(k, level)' = SubTransform(k, level)
      BY <1>1 DEF SubTransform
    <2>4. CASE ~StageEnds
      <3>1. stageCount' = stageCount /\ cycleCount' = cycleCount + 1 /\ cycleCount' - 1 = cycleCount
        BY <1>1, <2>1, <2>4 DEF Calculate
      <3>2. \A k : InThisStage(k)' <=> Done(k)
        BY <3>1 DEF InThisStage
      <3> HIDE DEF Done
      <3>3. \A k \in Slots : ram'[k] = SubTransform(k, IF InThisStage(k) THEN stageCount + 1
                                                                        ELSE stageCount)'
        BY <1>1, <2>2, <3>1, <3>2 DEF SubTransform
      <3> QED
        BY <1>1, <2>1, <3>1, <3>3, Sizes DEF PartialTransform, SpectrumBitReversed
    <2>5. CASE StageEnds
      <3>1. stageCount' = stageCount + 1 /\ cycleCount' = 0 /\ cycleCount = HALF - 1
        BY <1>1, <2>1, <2>5 DEF Calculate, StageEnds
      <3>2. ASSUME NEW k \in Slots PROVE Done(k)
        <4>1. stageCount \in 0 .. LOGN - 1
          BY <1>1, <2>1, Sizes
        <4>2. PICK d \in 0 .. HALF - 1 :
                \A c \in 0 .. HALF - 1 : k \in {IndexA(stageCount, c), IndexB(stageCount, c)} <=> c = d
          BY <4>1, OnePerStage
        <4> QED
          BY <3>1, <4>2
      <3>3. \A k \in Slots : ram'[k] = SubTransform(k, stageCount)'
        <4> HIDE DEF Done
        <4> QED
          BY <2>2, <2>3, <3>1, <3>2
      <3>4. \A k \in Slots : ~InThisStage(k)'
        BY <3>1 DEF InThisStage
      <3>5. stageCount' = LOGN => \A k \in Slots : ram'[k] = Power(impulse' * Reversed(k, LOGN))
        BY <1>1, <2>3, <3>3, LevelLast
      <3> QED
        BY <3>3, <3>4, <3>5 DEF PartialTransform, SpectrumBitReversed
    <2> QED
      BY <2>4, <2>5
  <1>3. PartialTransform' /\ SpectrumBitReversed'
    BY <1>2 DEF PartialTransform, SpectrumBitReversed
  <1> QED
    BY <1>1, <1>3 DEF NetInv

LEMMA NetStutter == ASSUME NetInv, UNCHANGED vars PROVE NetInv'
  BY DEF NetInv, PartialTransform, SpectrumBitReversed, FirstTransform, InThisStage,
         SubTransform, vars

-----------------------------------------------------------------------------
(* The theorems *)

LEMMA NetAlways == Spec => []NetInv
  <1>1. ASSUME NetInv, [Next]_vars PROVE NetInv'
    BY <1>1, LoadStep, CalculateStep, NetStutter DEF Next
  <1> QED
    BY <1>1, NetInit, PTL DEF Spec

(* In every cycle of the first transform each slot has been through the    *)
(* butterflies it should have, in place and with the right twiddles: it    *)
(* holds one coefficient of a partial transform, for every number of       *)
(* stages.                                                                 *)
THEOREM StagesTransform == Spec => []PartialTransform
  <1>1. NetInv => PartialTransform
    BY DEF NetInv
  <1> QED
    BY <1>1, NetAlways, PTL

(* What the RAM holds after the last stage is the discrete Fourier         *)
(* transform in bit-reversed order, for every number of stages.            *)
THEOREM SpectrumComputed == Spec => []SpectrumBitReversed
  <1>1. NetInv => SpectrumBitReversed
    BY DEF NetInv
  <1> QED
    BY <1>1, NetAlways, PTL
=============================================================================
