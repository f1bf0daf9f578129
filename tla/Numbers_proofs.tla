--------------------------- MODULE Numbers_proofs ---------------------------
(***************************************************************************)
(* Facts about natural numbers that the other proofs need: least and       *)
(* greatest elements, induction, quotients and remainders, powers of two,  *)
(* and the pairs of numbers that differ in one bit.                        *)
(***************************************************************************)
EXTENDS Integers, FiniteSetTheorems, WellFoundedInduction, TLAPS

-----------------------------------------------------------------------------
(* Order *)

LEMMA Least ==
  ASSUME NEW T, T \subseteq Nat, T # {}
  PROVE  \E x \in T : \A y \in T : x <= y
  <1> DEFINE R == {ss \in Nat \X Nat : ss[1] < ss[2]}
  <1>1. IsWellFoundedOn(R, Nat)
    BY NatLessThanWellFounded DEF OpToRel
  <1>2. \A x, y \in Nat : x < y => <<x, y>> \in R
    OBVIOUS
  <1> HIDE DEF R
  <1>3. PICK x \in T : \A y \in T : ~(<<y, x>> \in R)
    BY <1>1, WFMin
  <1>4. \A y \in T : ~(y < x)
    BY <1>2, <1>3
  <1>5. \A y \in T : x <= y
    BY <1>4
  <1> QED
    BY <1>5

LEMMA Greatest ==
  ASSUME NEW n \in Nat, NEW T, T \subseteq 1 .. n, T # {}
  PROVE  \E x \in T : \A y \in T : y <= x
  <1> DEFINE U == {u \in 0 .. n : n - u \in T}
  <1>1. \A x \in T : x \in 1 .. n /\ n - x \in U
    OBVIOUS
  <1> PICK x \in T : TRUE
    OBVIOUS
  <1>2. n - x \in U /\ U \subseteq Nat
    BY <1>1
  <1>3. PICK u \in U : \A v \in U : u <= v
    BY <1>2, Least
  <1>4. n - u \in T /\ u \in 0 .. n
    BY <1>3
  <1>5. \A y \in T : u <= n - y /\ y \in 1 .. n
    BY <1>1, <1>3
  <1>6. \A y \in T : y <= n - u
    BY <1>4, <1>5
  <1> QED
    BY <1>4, <1>6

(* Induction over a set.                                                   *)
LEMMA Inductive ==
  ASSUME NEW S, 0 \in S, \A n \in Nat : n \in S => n + 1 \in S
  PROVE  Nat \subseteq S
  <1> DEFINE T == {n \in Nat : n \notin S}
  <1>1. ASSUME T # {} PROVE FALSE
    <2>1. PICK x \in T : \A y \in T : x <= y
      BY <1>1, Least
    <2>2. x \in Nat /\ x \notin S
      OBVIOUS
    <2>3. x # 0 /\ x - 1 \in Nat
      BY <2>2
    <2>4. x - 1 \notin S
      BY <2>2, <2>3
    <2> QED
      BY <2>1, <2>2, <2>3, <2>4
  <1> QED
    BY <1>1

(* What a recursive definition over the naturals defines.                  *)
Recurs(h, V, base, G) ==
  h \in [Nat -> V] /\ h[0] = base /\ \A i \in Nat : h[i + 1] = G[<<h[i], i + 1>>]

LEMMA Recursion ==
  ASSUME NEW V, NEW base \in V, NEW G \in [V \X Nat -> V]
  PROVE  \E h : Recurs(h, V, base, G)
  <1> DEFINE Part(n) == {p \in [0 .. n -> V] : p[0] = base /\ \A i \in 1 .. n : p[i] = G[<<p[i - 1], i>>]}
             T == {n \in Nat : Part(n) # {}}
  <1>1. Nat \subseteq T
    <2>1. 0 \in T
      <3> DEFINE p == [i \in 0 .. 0 |-> base]
      <3>1. p \in Part(0)
        OBVIOUS
      <3> QED
        BY <3>1
    <2>2. ASSUME NEW n \in Nat, n \in T PROVE n + 1 \in T
      <3>1. PICK p \in [0 .. n -> V] : p[0] = base /\ \A i \in 1 .. n : p[i] = G[<<p[i - 1], i>>]
        BY <2>2
      <3> DEFINE g == G[<<p[n], n + 1>>]
                 q == [i \in 0 .. n + 1 |-> IF i = n + 1 THEN g ELSE p[i]]
      <3>2. G[<<p[n], n + 1>>] \in V
        <4>1. p[n] \in V /\ n + 1 \in Nat
          OBVIOUS
        <4> QED
          BY <4>1
      <3>3. q \in [0 .. n + 1 -> V]
        BY <3>2
      <3>4. q[0] = base
        BY <3>1
      <3>5. ASSUME NEW i \in 1 .. n + 1 PROVE q[i] = G[<<q[i - 1], i>>]
        <4>1. CASE i = n + 1
          <5>1. q[i] = G[<<p[n], n + 1>>] /\ q[i - 1] = p[n]
            BY <4>1
          <5> QED
            BY <4>1, <5>1
        <4>2. CASE i # n + 1
          <5>1. i \in 1 .. n /\ q[i] = p[i] /\ q[i - 1] = p[i - 1]
            BY <4>2
          <5> QED
            BY <3>1, <5>1
        <4> QED
          BY <4>1, <4>2
      <3> HIDE DEF q
      <3>6. q \in Part(n + 1)
        BY <3>3, <3>4, <3>5
      <3> QED
        BY <3>6
    <2> HIDE DEF T
    <2> QED
      BY <2>1, <2>2, Inductive
  <1>2. ASSUME NEW n \in Nat, NEW m \in Nat, NEW p \in Part(n), NEW q \in Part(m),
               NEW i \in Nat, i <= n, i <= m
        PROVE  p[i] = q[i]
    <2> DEFINE S == {j \in Nat : j <= n /\ j <= m => p[j] = q[j]}
    <2>1. 0 \in S
      OBVIOUS
    <2>2. ASSUME NEW j \in Nat, j \in S PROVE j + 1 \in S
      <3>0. j + 1 \in Nat
        OBVIOUS
      <3>1. CASE j + 1 <= n /\ j + 1 <= m
        <4>1. j + 1 \in 1 .. n /\ j + 1 \in 1 .. m /\ p[j] = q[j] /\ (j + 1) - 1 = j
          BY <2>2, <3>1
        <4>2. p[j + 1] = G[<<p[j], j + 1>>] /\ q[j + 1] = G[<<q[j], j + 1>>]
          BY <4>1
        <4> QED
          BY <4>1, <4>2
      <3> QED
        BY <2>2, <3>0, <3>1
    <2> HIDE DEF S
    <2>3. i \in S
      BY <2>1, <2>2, Inductive
    <2> QED
      BY <1>2, <2>3 DEF S
  <1> DEFINE c(n) == CHOOSE p : p \in Part(n)
             h == [n \in Nat |-> c(n)[n]]
  <1>3. ASSUME NEW n \in Nat PROVE c(n) \in Part(n)
    BY <1>1
  <1>4. ASSUME NEW n \in Nat PROVE c(n) \in [0 .. n -> V] /\ c(n)[0] = base
                                   /\ \A i \in 1 .. n : c(n)[i] = G[<<c(n)[i - 1], i>>]
    BY <1>3
  <1>5. ASSUME NEW n \in Nat PROVE c(n + 1)[n] = c(n)[n]
    <2>1. n + 1 \in Nat /\ n <= n /\ n <= n + 1
      OBVIOUS
    <2> HIDE DEF Part, c
    <2> QED
      BY <1>2, <1>3, <2>1
  <1> HIDE DEF Part, c
  <1>6. h \in [Nat -> V]
    BY <1>4
  <1>7. h[0] = base
    BY <1>4
  <1>8. ASSUME NEW n \in Nat PROVE h[n + 1] = G[<<h[n], n + 1>>]
    <2>1. n + 1 \in Nat /\ n + 1 \in 1 .. n + 1 /\ (n + 1) - 1 = n
      OBVIOUS
    <2>2. c(n + 1)[n + 1] = G[<<c(n + 1)[n], n + 1>>]
      BY <1>4, <2>1
    <2> QED
      BY <1>5, <2>1, <2>2
  <1> HIDE DEF h
  <1> QED
    BY <1>6, <1>7, <1>8 DEF Recurs

-----------------------------------------------------------------------------
(* Quotients and remainders *)

(* The same for the numbers up to n.                                        *)
RecursTo(r, V, n, base, G) ==
  r \in [0 .. n -> V] /\ r[0] = base /\ \A i \in 1 .. n : r[i] = G[<<r[i - 1], i>>]

LEMMA RecursionTo ==
  ASSUME NEW V, NEW base \in V, NEW n \in Nat, NEW G \in [V \X Nat -> V]
  PROVE  \E r : RecursTo(r, V, n, base, G)
  <1>1. PICK h : Recurs(h, V, base, G)
    BY Recursion
  <1>2. h \in [Nat -> V] /\ h[0] = base /\ \A i \in Nat : h[i + 1] = G[<<h[i], i + 1>>]
    BY <1>1 DEF Recurs
  <1> DEFINE r == [i \in 0 .. n |-> h[i]]
  <1>3. ASSUME NEW i \in 1 .. n PROVE r[i] = G[<<r[i - 1], i>>]
    <2>1. i - 1 \in Nat /\ (i - 1) + 1 = i /\ i - 1 \in 0 .. n /\ i \in 0 .. n
      OBVIOUS
    <2>2. h[i] = G[<<h[i - 1], i>>]
      BY <1>2, <2>1
    <2> QED
      BY <2>1, <2>2
  <1>4. r \in [0 .. n -> V] /\ r[0] = base
    BY <1>2
  <1> HIDE DEF r
  <1> QED
    BY <1>3, <1>4 DEF RecursTo

LEMMA InductiveTo ==
  ASSUME NEW V, NEW n \in Nat, NEW f, f[0] \in V, \A i \in 1 .. n : f[i - 1] \in V => f[i] \in V
  PROVE  f[n] \in V
  <1> DEFINE S == {i \in Nat : i <= n => f[i] \in V}
  <1>1. 0 \in S
    OBVIOUS
  <1>2. ASSUME NEW i \in Nat, i \in S PROVE i + 1 \in S
    <2>1. i + 1 \in Nat
      OBVIOUS
    <2>2. CASE i + 1 <= n
      <3>1. i + 1 \in 1 .. n /\ (i + 1) - 1 = i /\ f[i] \in V
        BY <1>2, <2>2
      <3> QED
        BY <2>1, <3>1
    <2> QED
      BY <2>1, <2>2
  <1> HIDE DEF S
  <1>3. n \in S
    BY <1>1, <1>2, Inductive
  <1> QED
    BY <1>3 DEF S

(* Quotient and remainder of a number put together from both.              *)
LEMMA Quotient ==
  ASSUME NEW p \in Nat \ {0}, NEW q \in Int, NEW r \in 0 .. p - 1
  PROVE  (q * p + r) \div p = q /\ (q * p + r) % p = r
  <1> DEFINE x == q * p + r
             d == x \div p
  <1>1. x \in Int /\ d \in Int /\ x % p \in 0 .. p - 1 /\ x = p * d + (x % p)
    OBVIOUS
  <1>2. d < q => FALSE
    <2>1. d < q => p * d + p <= p * q
      <3>1. d + 1 <= q => p * (d + 1) <= p * q
        BY <1>1
      <3> QED
        BY <1>1, <3>1
    <2> QED
      BY <1>1, <2>1
  <1>3. d > q => FALSE
    <2>1. d > q => p * q + p <= p * d
      <3>1. q + 1 <= d => p * (q + 1) <= p * d
        BY <1>1
      <3> QED
        BY <1>1, <3>1
    <2> QED
      BY <1>1, <2>1
  <1>4. d = q
    BY <1>1, <1>2, <1>3
  <1> QED
    BY <1>1, <1>4

LEMMA Divided ==
  ASSUME NEW p \in Nat \ {0}, NEW q \in Nat, NEW r \in 0 .. p - 1
  PROVE  (q * p + r) \div p = q /\ (q * p + r) % p = r
  <1>1. q \in Int
    OBVIOUS
  <1> QED
    BY <1>1, Quotient

LEMMA Divides ==
  ASSUME NEW p \in Nat \ {0}, NEW x \in Nat
  PROVE  x \div p \in Nat /\ x % p \in 0 .. p - 1 /\ x = (x \div p) * p + (x % p)
  OBVIOUS

LEMMA Below ==
  ASSUME NEW a \in Nat, NEW b \in Nat, NEW p \in Nat \ {0}, a * p < b * p
  PROVE  a < b
  <1>1. b <= a => b * p <= a * p
    OBVIOUS
  <1> QED
    BY <1>1

(* A quotient of a quotient.                                               *)
LEMMA Nested ==
  ASSUME NEW x \in Nat, NEW m \in Nat \ {0}, NEW n \in Nat \ {0}
  PROVE  x \div (m * n) = (x \div m) \div n
  <1> DEFINE q == x \div m
             r == x % m
             t == q \div n
             u == q % n
             p == m * n
  <1>1. q \in Nat /\ r \in 0 .. m - 1 /\ x = q * m + r
    BY Divides
  <1> HIDE DEF q, r
  <1>2. t \in Nat /\ u \in 0 .. n - 1 /\ q = t * n + u
    BY <1>1, Divides
  <1> HIDE DEF t, u
  <1>3. p \in Nat \ {0}
    OBVIOUS
  <1>4. x = t * p + (u * m + r)
    BY <1>1, <1>2
  <1>5. u * m + r \in 0 .. p - 1
    <2>1. u * m + r \in Nat
      BY <1>1, <1>2
    <2>2. (u + 1) * m <= n * m
      BY <1>2
    <2> QED
      BY <1>1, <1>2, <2>1, <2>2
  <1> HIDE DEF p
  <1>6. (t * p + (u * m + r)) \div p = t
    BY <1>2, <1>3, <1>5, Divided
  <1> QED
    BY <1>4, <1>6 DEF p, t, q

-----------------------------------------------------------------------------
(* Powers of two *)

(* A power of two counts the subsets of an interval; adding an element     *)
(* doubles them.                                                           *)
LEMMA Subsets ==
  ASSUME NEW n \in Nat
  PROVE  /\ IsFiniteSet(SUBSET (1 .. n)) /\ Cardinality(SUBSET (1 .. n)) = 2 ^ n
         /\ 2 ^ n \in Nat
  <1>1. IsFiniteSet(1 .. n) /\ Cardinality(1 .. n) = n
    <2>1. IsFiniteSet(1 .. n) /\ Cardinality(1 .. n) = IF 1 > n THEN 0 ELSE n - 1 + 1
      BY FS_Interval
    <2> QED
      BY <2>1
  <1>2. IsFiniteSet(SUBSET (1 .. n)) /\ Cardinality(SUBSET (1 .. n)) = 2 ^ n
    BY <1>1, FS_SUBSET
  <1> QED
    BY <1>2, FS_CardinalityType

LEMMA OneMore ==
  ASSUME NEW U, NEW x, x \notin U
  PROVE  ExistsBijection(SUBSET U, (SUBSET (U \cup {x})) \ (SUBSET U))
  <1> DEFINE S == SUBSET U
             T == (SUBSET (U \cup {x})) \ S
             f == [s \in S |-> s \cup {x}]
  <1>1. ASSUME NEW s \in S PROVE f[s] = s \cup {x} /\ f[s] \in T
    <2>1. f[s] = s \cup {x}
      OBVIOUS
    <2>2. x \in s \cup {x} /\ s \subseteq U
      OBVIOUS
    <2>3. s \cup {x} \in SUBSET (U \cup {x})
      BY <2>2
    <2>4. s \cup {x} \notin SUBSET U
      BY <2>2
    <2>5. s \cup {x} \in T
      BY <2>3, <2>4, Zenon
    <2> QED
      BY <2>1, <2>5
  <1>2. f \in [S -> T]
    BY <1>1
  <1>3. \A s, t \in S : f[s] = f[t] => s = t
    <2>1. \A s \in S : s = f[s] \ {x}
      BY <1>1
    <2> QED
      BY <2>1
  <1>4. \A t \in T : \E s \in S : f[s] = t
    <2>1. ASSUME NEW t \in T PROVE t \ {x} \in S /\ f[t \ {x}] = t
      <3>1. t \subseteq U \cup {x} /\ ~(t \subseteq U)
        <4>1. t \in SUBSET (U \cup {x}) /\ ~(t \in SUBSET U)
          BY Zenon
        <4> QED
          BY <4>1, Zenon
      <3>2. x \in t /\ t \ {x} \subseteq U
        BY <3>1
      <3>3. (t \ {x}) \cup {x} = t
        BY <3>2
      <3>4. f[t \ {x}] = (t \ {x}) \cup {x}
        BY <3>2
      <3> QED
        BY <3>2, <3>3, <3>4
    <2> QED
      BY <2>1
  <1> HIDE DEF f, T
  <1>5. f \in Bijection(S, T)
    BY <1>2, <1>3, <1>4 DEF Bijection, Injection, Surjection, IsInjective
  <1> QED
    BY <1>5 DEF ExistsBijection, T

LEMMA Doubling ==
  ASSUME NEW n \in Nat
  PROVE  2 ^ (n + 1) = 2 * 2 ^ n
  <1> DEFINE U == 1 .. n
             S == SUBSET U
             T == (SUBSET (U \cup {n + 1})) \ S
  <1>1. U \cup {n + 1} = 1 .. n + 1 /\ n + 1 \notin U
    OBVIOUS
  <1>2. IsFiniteSet(S) /\ Cardinality(S) = 2 ^ n /\ 2 ^ n \in Nat
    BY Subsets
  <1>3. Cardinality(SUBSET (U \cup {n + 1})) = 2 ^ (n + 1) /\ 2 ^ (n + 1) \in Nat
    <2>1. n + 1 \in Nat
      OBVIOUS
    <2> QED
      BY <1>1, <2>1, Subsets
  <1>4. ExistsBijection(S, T)
    BY <1>1, OneMore
  <1> HIDE DEF U
  <1>5. S \cup T = SUBSET (U \cup {n + 1}) /\ S \cap T = {}
    <2>1. \A s \in S : s \in SUBSET (U \cup {n + 1})
      OBVIOUS
    <2>2. S \subseteq SUBSET (U \cup {n + 1})
      BY <2>1, Zenon
    <2> HIDE DEF S
    <2> QED
      BY <2>2, Zenon
  <1> HIDE DEF S, T
  <1>6. IsFiniteSet(T) /\ Cardinality(T) = 2 ^ n
    BY <1>2, <1>4, FS_Bijection
  <1>7. Cardinality(S \cup T) = Cardinality(S) + Cardinality(T) - Cardinality(S \cap T)
    BY <1>2, <1>6, FS_Union
  <1>8. Cardinality({}) = 0
    BY FS_EmptySet
  <1>9. 2 ^ (n + 1) = 2 ^ n + 2 ^ n - 0
    BY <1>2, <1>3, <1>5, <1>6, <1>7, <1>8
  <1> QED
    BY <1>2, <1>9

(* What the powers of the two parts of an exponent multiply to.            *)
LEMMA PowerSplits ==
  ASSUME NEW n \in Nat, NEW s \in 0 .. n
  PROVE  /\ 2 ^ s \in Nat \ {0} /\ 2 ^ (n - s) \in Nat \ {0} /\ 2 ^ n \in Nat \ {0}
         /\ 2 ^ (n - s) * 2 ^ s = 2 ^ n
  <1>0. 2 ^ 0 = 1 /\ \A x, y \in Nat : x * y # 0 => x # 0 /\ y # 0
    OBVIOUS
  <1>1. \A x \in Nat : 2 ^ x \in Nat /\ 2 ^ (x + 1) = 2 * 2 ^ x
    BY Doubling, Subsets
  <1>2. \A x \in Nat : 2 ^ x # 0
    <2> DEFINE S == {x \in Nat : 2 ^ x # 0}
    <2>1. 0 \in S
      BY <1>0
    <2>2. \A x \in Nat : x \in S => x + 1 \in S
      BY <1>1
    <2> HIDE DEF S
    <2>3. Nat \subseteq S
      BY <2>1, <2>2, Inductive
    <2> QED
      BY <2>3 DEF S
  <1> DEFINE T == {x \in Nat : x <= n => 2 ^ (n - x) * 2 ^ x = 2 ^ n}
  <1>3. 0 \in T
    <2>1. n - 0 = n
      OBVIOUS
    <2>2. 2 ^ (n - 0) * 2 ^ 0 = 2 ^ n
      BY <1>0, <1>1, <2>1
    <2> QED
      BY <2>2
  <1>4. \A x \in Nat : x \in T => x + 1 \in T
    <2>1. ASSUME NEW x \in Nat, x \in T, x + 1 <= n
          PROVE  2 ^ (n - (x + 1)) * 2 ^ (x + 1) = 2 ^ n
      <3>1. n - (x + 1) \in Nat /\ (n - (x + 1)) + 1 = n - x
        BY <2>1
      <3>2. 2 ^ (n - x) = 2 * 2 ^ (n - (x + 1)) /\ 2 ^ (n - (x + 1)) \in Nat
        BY <1>1, <3>1
      <3>3. 2 ^ (x + 1) = 2 * 2 ^ x /\ 2 ^ x \in Nat
        BY <1>1
      <3>4. 2 ^ (n - x) * 2 ^ x = 2 ^ n
        BY <2>1
      <3>5. \A a, b \in Nat : a * (2 * b) = (2 * a) * b
        OBVIOUS
      <3> QED
        BY <3>2, <3>3, <3>4, <3>5
    <2>2. \A x \in Nat : x + 1 \in Nat
      OBVIOUS
    <2> QED
      BY <2>1, <2>2
  <1> HIDE DEF T
  <1>5. s \in T
    BY <1>3, <1>4, Inductive
  <1>6. s \in Nat /\ n - s \in Nat
    OBVIOUS
  <1>7. 2 ^ s \in Nat \ {0} /\ 2 ^ (n - s) \in Nat \ {0} /\ 2 ^ n \in Nat \ {0}
    BY <1>1, <1>2, <1>6
  <1> QED
    BY <1>5, <1>7 DEF T

-----------------------------------------------------------------------------
(* The pairs of numbers below 2 * low * p that differ in the bit that low  *)
(* stands for.  There are low * p of them, and inserting a zero bit in a   *)
(* pair's number gives its smaller member.                                 *)

(* The bit between the two parts of a number.                              *)
LEMMA Parts ==
  ASSUME NEW low \in Nat \ {0}, NEW p \in Nat \ {0}, NEW k \in 0 .. 2 * (low * p) - 1
  PROVE  LET h == k \div (2 * low)
             t == k % (2 * low)
         IN  /\ h \in 0 .. p - 1 /\ t \in 0 .. 2 * low - 1
             /\ k = h * (2 * low) + t
             /\ k % low = IF t < low THEN t ELSE t - low
  <1> DEFINE h == k \div (2 * low)
             t == k % (2 * low)
  <1>0. low \in Nat \ {0} /\ low * p \in Nat
    OBVIOUS
  <1>1. 2 * low \in Nat \ {0} /\ k \in Nat
    BY <1>0
  <1>2. h \in Nat /\ t \in 0 .. 2 * low - 1 /\ k = h * (2 * low) + t
    BY <1>1, Divides
  <1> HIDE DEF h, t
  <1>3. h < p
    <2>1. k < p * (2 * low)
      <3>1. p * (2 * low) = 2 * (low * p)
        OBVIOUS
      <3> QED
        BY <1>0, <3>1
    <2>2. h * (2 * low) \in Nat /\ h * (2 * low) <= k
      BY <1>1, <1>2
    <2>3. h * (2 * low) < p * (2 * low)
      BY <1>1, <2>1, <2>2
    <2> QED
      BY <1>1, <1>2, <2>3, Below
  <1>4. k % low = IF t < low THEN t ELSE t - low
    <2>0. t \in Int /\ low \in Int
      BY <1>1, <1>2
    <2>1. CASE t < low
      <3>1. k = (2 * h) * low + t /\ t \in 0 .. low - 1 /\ 2 * h \in Nat
        BY <1>2, <2>1
      <3>2. ((2 * h) * low + t) % low = t
        BY <1>0, <3>1, Divided
      <3> QED
        BY <2>1, <3>1, <3>2
    <2>2. CASE t >= low
      <3>1. k = (2 * h + 1) * low + (t - low) /\ t - low \in 0 .. low - 1 /\ 2 * h + 1 \in Nat
        BY <1>2, <2>2
      <3>2. ((2 * h + 1) * low + (t - low)) % low = t - low
        BY <1>0, <3>1, Divided
      <3> QED
        BY <2>0, <2>2, <3>1, <3>2
    <2> QED
      BY <2>0, <2>1, <2>2
  <1> QED
    BY <1>2, <1>3, <1>4 DEF h, t

(* Both members of a pair are in range.                                    *)
LEMMA PairFits ==
  ASSUME NEW low \in Nat \ {0}, NEW p \in Nat \ {0}, NEW c \in 0 .. low * p - 1
  PROVE  LET q == c \div low
             r == c % low
         IN  /\ q \in 0 .. p - 1 /\ r \in 0 .. low - 1 /\ c = q * low + r
             /\ q * (2 * low) + r \in 0 .. 2 * (low * p) - 1
             /\ q * (2 * low) + r + low \in 0 .. 2 * (low * p) - 1
  <1> DEFINE q == c \div low
             r == c % low
  <1>0. low * p \in Nat /\ c \in Nat
    OBVIOUS
  <1>1. q \in Nat /\ r \in 0 .. low - 1 /\ c = q * low + r
    BY <1>0, Divides
  <1> HIDE DEF q, r
  <1>2. q < p
    <2>1. q * low < p * low
      <3>1. q * low \in Nat /\ q * low <= c /\ c < low * p
        BY <1>0, <1>1
      <3>2. p * low = low * p
        OBVIOUS
      <3> QED
        BY <1>0, <3>1, <3>2
    <2> QED
      BY <1>1, <2>1, Below
  <1>3. q * (2 * low) + (2 * low) <= 2 * (low * p)
    <2>1. (q + 1) * (2 * low) <= p * (2 * low)
      BY <1>1, <1>2
    <2>2. p * (2 * low) = 2 * (low * p)
      OBVIOUS
    <2> QED
      BY <1>1, <2>1, <2>2
  <1>4. q * (2 * low) \in Nat
    BY <1>1
  <1> QED
    BY <1>0, <1>1, <1>2, <1>3, <1>4 DEF q, r

(* Every number is in exactly one pair.                                    *)
LEMMA OnePair ==
  ASSUME NEW low \in Nat \ {0}, NEW p \in Nat \ {0},
         NEW c \in 0 .. low * p - 1, NEW k \in 0 .. 2 * (low * p) - 1
  PROVE  LET first == (c \div low) * (2 * low) + (c % low)
             pair == (k \div (2 * low)) * low + (k % low)
         IN  /\ pair \in 0 .. low * p - 1
             /\ k \in {first, first + low} <=> c = pair
  <1> DEFINE q == c \div low
             r == c % low
             h == k \div (2 * low)
             t == k % (2 * low)
             u == k % low
  <1>4. q \in 0 .. p - 1 /\ r \in 0 .. low - 1 /\ c = q * low + r
    BY PairFits
  <1>5. /\ h \in 0 .. p - 1 /\ t \in 0 .. 2 * low - 1 /\ k = h * (2 * low) + t
        /\ u = IF t < low THEN t ELSE t - low
    BY Parts
  <1> HIDE DEF q, r, h, t, u
  <1>6. u \in 0 .. low - 1
    BY <1>5
  <1>7. h * low + u \in 0 .. low * p - 1
    <2>1. h * low + low <= p * low
      <3>1. (h + 1) * low <= p * low
        BY <1>5
      <3> QED
        BY <1>5, <3>1
    <2>2. p * low = low * p /\ p * low \in Nat /\ h * low \in Nat
      BY <1>5
    <2> QED
      BY <1>6, <2>1, <2>2
  <1>8. c = h * low + u => q = h /\ r = u
    <2>1. (h * low + u) \div low = h /\ (h * low + u) % low = u
      <3>1. h \in Nat
        BY <1>5
      <3> QED
        BY <1>6, <3>1, Divided
    <2>2. (q * low + r) \div low = q /\ (q * low + r) % low = r
      <3>1. q \in Nat
        BY <1>4
      <3> QED
        BY <1>4, <3>1, Divided
    <2> QED
      BY <1>4, <2>1, <2>2
  <1>9. \A v \in 0 .. 2 * low - 1 : k = q * (2 * low) + v => q = h /\ v = t
    <2>1. ASSUME NEW v \in 0 .. 2 * low - 1, k = q * (2 * low) + v
          PROVE  q = h /\ v = t
      <3>0. 2 * low \in Nat \ {0} /\ h \in Nat /\ q \in Nat
        BY <1>4, <1>5
      <3>1. (q * (2 * low) + v) \div (2 * low) = q /\ (q * (2 * low) + v) % (2 * low) = v
        BY <3>0, Divided
      <3>2. (h * (2 * low) + t) \div (2 * low) = h /\ (h * (2 * low) + t) % (2 * low) = t
        BY <1>5, <3>0, Divided
      <3> QED
        BY <1>5, <2>1, <3>1, <3>2
    <2> QED
      BY <2>1
  <1>10. r \in 0 .. 2 * low - 1 /\ r + low \in 0 .. 2 * low - 1
    BY <1>4
  <1>11. k \in {q * (2 * low) + r, q * (2 * low) + (r + low)} <=> q = h /\ r = u
    <2>1. q = h /\ r = u => k \in {q * (2 * low) + r, q * (2 * low) + (r + low)}
      <3>1. t = u \/ t = u + low
        BY <1>5
      <3> QED
        BY <1>5, <3>1
    <2>2. k = q * (2 * low) + r => q = h /\ r = u
      <3>1. k = q * (2 * low) + r => q = h /\ r = t
        BY <1>9, <1>10
      <3>2. r < low
        BY <1>4
      <3> QED
        BY <1>5, <3>1, <3>2
    <2>3. k = q * (2 * low) + (r + low) => q = h /\ r = u
      <3>1. k = q * (2 * low) + (r + low) => q = h /\ r + low = t
        BY <1>9, <1>10
      <3> QED
        BY <1>4, <1>5, <3>1
    <2> QED
      BY <2>1, <2>2, <2>3
  <1>12. q * (2 * low) + r + low = q * (2 * low) + (r + low)
    BY <1>4
  <1>13. (h * low + u \in 0 .. low * p - 1)
         /\ (k \in {q * (2 * low) + r, q * (2 * low) + r + low} <=> c = h * low + u)
    BY <1>4, <1>7, <1>8, <1>11, <1>12
  <1> QED
    BY <1>13 DEF q, r, h, u
=============================================================================
